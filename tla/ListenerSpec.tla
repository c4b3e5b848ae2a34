----------------------------- MODULE ListenerSpec -----------------------------
(***************************************************************************)
(* What a listener promises its user (spec §4.2): accept requests are      *)
(* numbered in the order the loop takes them, and each gets exactly one    *)
(* answer, in that order.  The answer is a connection while the listener  *)
(* has no error, or else the listener's error; the first error is the     *)
(* only one, and it stays.                                                *)
(*                                                                         *)
(* One step may set the error and answer several requests (handleErrorImpl *)
(* answers every pending one), so answering is a single action over the   *)
(* set of answers it gives.                                               *)
(***************************************************************************)
EXTENDS Integers

CONSTANTS MaxAccepts

Seqs == 0..MaxAccepts - 1
NONE == "none"
Errors == {"ListenerClosed", "BackendError"}

VARIABLES
  requested,   \* accept requests numbered so far
  results,     \* [Seqs -> answer]: NONE, "connection" or an error
  err          \* the listener's error, or NONE

vars == << requested, results, err >>

Init ==
  /\ requested = 0
  /\ results = [s \in Seqs |-> NONE]
  /\ err = NONE

\* Request s may get answer results'[s] in this step.
MayAnswer(s) ==
  /\ results[s] = NONE
  /\ s < requested'
  /\ \A m \in 0..s - 1 : results'[m] # NONE
  /\ results'[s] = "connection" => err' = NONE
  /\ results'[s] # "connection" => results'[s] = err'

\* What any step may do: set the first error, and answer requests.
Answers ==
  /\ err' \in IF err = NONE THEN {NONE} \cup Errors ELSE {err}
  /\ results' \in [Seqs -> {NONE, "connection"} \cup Errors]
  /\ \A s \in Seqs : results'[s] # results[s] => MayAnswer(s)

\* The loop takes the next accept request; it may be answered at once.
Request ==
  /\ requested < MaxAccepts
  /\ requested' = requested + 1
  /\ Answers

Answer == UNCHANGED requested /\ Answers

Next == Request \/ Answer

Spec == Init /\ [][Next]_vars

=============================================================================
