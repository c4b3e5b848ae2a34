--------------------------- MODULE OpsStateMachine ---------------------------
(***************************************************************************)
(* The per-direction operation queue and its transition engine, the       *)
(* OpsStateMachine helper that ChannelImpl's sendOps_ and recvOps_ are.   *)
(* Its code is not among the sources; it is modelled from spec §4.1.       *)
(*                                                                         *)
(* A queue is a record S.  S.st[n] is the state of the operation with     *)
(* sequence number n (NOT_SUBMITTED before it is emplaced), S.head the    *)
(* sequence number at the front of the deque: operations below it were    *)
(* finished and removed, so their records (and the CUDA events they own)  *)
(* are destroyed.  The other fields belong to the channel and are only    *)
(* carried through.  The transitioner Transition(S, n, prevOpState) is   *)
(* the channel's advanceSendOperation or advanceRecvOperation.             *)
(***************************************************************************)
EXTENDS Integers

CONSTANTS
  NumOps,              \* sequence numbers 1..NumOps are used per direction
  NOT_SUBMITTED,       \* the state of a sequence number with no record yet
  FINISHED,            \* TOp::FINISHED
  Transition(_, _, _)  \* the channel's advance method for this direction

\* The state the transitioner is given for the previous operation: the head
\* (whose predecessor was removed) sees the sentinel FINISHED.
PrevOpState(S, n) == IF n - 1 < S.head THEN FINISHED ELSE S.st[n - 1]

\* findOperation(n) /= nullptr: n was emplaced and not yet removed.
InDeque(S, n) == n \in S.head..NumOps /\ S.st[n] # NOT_SUBMITTED

\* After an op finishes, pop every finished op from the front.
RECURSIVE PopFinished(_)
PopFinished(S) ==
  IF S.head <= NumOps /\ S.st[S.head] = FINISHED
    THEN PopFinished([S EXCEPT !.head = @ + 1])
    ELSE S

\* advanceOneOperation: run the transitioner once against the predecessor.
AdvanceOne(S, n) ==
  LET R == Transition(S, n, PrevOpState(S, n))
  IN  IF R.st[n] = FINISHED THEN PopFinished(R) ELSE R

\* advanceOperation: advance n; whenever an op moved, try its successor,
\* which may have been held back by the order constraint.
RECURSIVE AdvanceFrom(_, _)
AdvanceFrom(S, n) ==
  IF ~InDeque(S, n) \/ S.st[n] = FINISHED THEN S
  ELSE LET R == AdvanceOne(S, n)
       IN  IF R.st[n] = S.st[n] THEN R ELSE AdvanceFrom(R, n + 1)

AdvanceOperation(S, n) == AdvanceFrom(S, n)

\* advanceAllOperations: advance every op of the deque, front to back.
RECURSIVE AdvanceAllFrom(_, _)
AdvanceAllFrom(S, n) ==
  IF n > NumOps \/ S.st[n] = NOT_SUBMITTED THEN S
  ELSE AdvanceAllFrom(IF InDeque(S, n) THEN AdvanceOne(S, n) ELSE S,
                      n + 1)

AdvanceAllOperations(S) == AdvanceAllFrom(S, S.head)

=============================================================================
