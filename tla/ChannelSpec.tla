----------------------------- MODULE ChannelSpec -----------------------------
(***************************************************************************)
(* What a channel promises its two users, at the level of callbacks       *)
(* (spec §3, §6, §8).  Sends are posted in sequence order; recv n is      *)
(* posted with the descriptor of send n.  Each operation gets exactly one *)
(* result.  A receive succeeds only while its endpoint has no error, and  *)
(* only after every earlier receive completed; a send succeeds only after *)
(* its receive succeeded and every earlier send completed.  An ERROR is    *)
(* given only by an endpoint that has failed, and failure is final.       *)
(*                                                                         *)
(* A step of an endpoint may fail it and complete several operations at   *)
(* once (an error is handled by advancing every op), so Complete is one   *)
(* action over the whole set of completions it makes.                     *)
(***************************************************************************)
EXTENDS Integers

CONSTANTS NumOps

Ops == 1..NumOps
NONE == "NONE"
Outcomes == {NONE, "SUCCESS", "ERROR"}

VARIABLES
  sendPosted, recvPosted,   \* [Ops -> BOOLEAN]
  sendRes, recvRes,         \* [Ops -> Outcomes]: the callback's result
  sendErr, recvErr          \* the endpoint has failed

vars == << sendPosted, recvPosted, sendRes, recvRes, sendErr, recvErr >>

Init ==
  /\ sendPosted = [n \in Ops |-> FALSE]
  /\ recvPosted = [n \in Ops |-> FALSE]
  /\ sendRes = [n \in Ops |-> NONE]
  /\ recvRes = [n \in Ops |-> NONE]
  /\ sendErr = FALSE
  /\ recvErr = FALSE

\* The outcome op n may newly get in this step.
RecvMayComplete(n) ==
  /\ recvPosted'[n] /\ recvRes[n] = NONE
  /\ \A m \in 1..n - 1 : recvRes'[m] # NONE
  /\ recvRes'[n] = "SUCCESS" => ~recvErr'
  /\ recvRes'[n] = "ERROR" => recvErr'

SendMayComplete(n) ==
  /\ sendPosted'[n] /\ sendRes[n] = NONE
  /\ sendRes'[n] = "SUCCESS" =>
        /\ ~sendErr'
        /\ recvRes[n] = "SUCCESS"
        /\ \A m \in 1..n - 1 : sendRes'[m] # NONE
  /\ sendRes'[n] = "ERROR" => sendErr'

\* What any step may do to the results: an endpoint may fail, and the
\* operations may complete as the rules above allow.
Completions ==
  /\ sendErr' \in {sendErr, TRUE}
  /\ recvErr' \in {recvErr, TRUE}
  /\ sendRes' \in [Ops -> Outcomes]
  /\ recvRes' \in [Ops -> Outcomes]
  /\ \A n \in Ops :
       /\ sendRes'[n] # sendRes[n] => SendMayComplete(n)
       /\ recvRes'[n] # recvRes[n] => RecvMayComplete(n)

\* Posting the next operation of a queue; it may complete at once.
PostSend(n) ==
  /\ ~sendPosted[n]
  /\ \A m \in 1..n - 1 : sendPosted[m]
  /\ sendPosted' = [sendPosted EXCEPT ![n] = TRUE]
  /\ UNCHANGED recvPosted
  /\ Completions

PostRecv(n) ==
  /\ ~recvPosted[n] /\ sendPosted[n]
  /\ \A m \in 1..n - 1 : recvPosted[m]
  /\ recvPosted' = [recvPosted EXCEPT ![n] = TRUE]
  /\ UNCHANGED sendPosted
  /\ Completions

Complete == UNCHANGED << sendPosted, recvPosted >> /\ Completions

Next == (\E n \in Ops : PostSend(n) \/ PostRecv(n)) \/ Complete

Spec == Init /\ [][Next]_vars

=============================================================================
