------------------------------ MODULE Listener ------------------------------
(***************************************************************************)
(* ListenerImplBoilerplate (src/unnamed/part_000): the public methods     *)
(* defer a task to the context's event loop, which runs the tasks one at  *)
(* a time in the order they were deferred.  The backend behind            *)
(* acceptImplFromLoop and handleErrorImpl is not among the sources; it is *)
(* modelled from spec §4.2: it keeps the wrapped accept callbacks in      *)
(* order, answers the oldest with a connection when one comes in, and     *)
(* answers all of them with the error when the error is handled.          *)
(***************************************************************************)
EXTENDS Integers, Sequences

CONSTANTS
  MaxAccepts,   \* accept() calls the user makes
  Ids           \* identifiers setId() may give

ASSUME MaxAccepts \in Nat \ {0}

Seqs == 0..MaxAccepts - 1          \* sequence numbers of accept requests
Tasks == {"init", "accept", "setId", "close"}
\* Error kinds: none, ListenerClosedError, and an error of the backend.
Errors == {"none", "ListenerClosed", "BackendError"}

VARIABLES
  loopTasks,                     \* tasks deferred to the loop, in order
  active,                        \* closingReceiver_ was activated
  error,                         \* error_
  id,                            \* id_
  nextConnectionBeingAccepted,   \* nextConnectionBeingAccepted_
  nextAcceptCallbackToCall,      \* nextAcceptCallbackToCall_
  pendingAccepts,                \* wrapped callbacks held by the backend
  acceptResult,                  \* what each user callback received
  calls                          \* accept() calls made so far

vars == << loopTasks, active, error, id, nextConnectionBeingAccepted,
           nextAcceptCallbackToCall, pendingAccepts, acceptResult, calls >>

-----------------------------------------------------------------------------
(* The wrapper acceptFromLoop puts around a user callback: it bumps        *)
(* nextAcceptCallbackToCall_ (the TP_DCHECK_EQ compares before the bump)   *)
(* and calls the user callback with the result.                            *)
InvokeAccept(s, result) ==
  /\ nextAcceptCallbackToCall' = nextAcceptCallbackToCall + 1
  /\ acceptResult' = [acceptResult EXCEPT ![s] = result]

\* The user side: each method only defers a task.
Accept ==
  /\ calls < MaxAccepts
  /\ calls' = calls + 1
  /\ loopTasks' = Append(loopTasks, "accept")
  /\ UNCHANGED << active, error, id, nextConnectionBeingAccepted,
                  nextAcceptCallbackToCall, pendingAccepts, acceptResult >>

SetId ==
  /\ "setId" \notin {loopTasks[i] : i \in DOMAIN loopTasks}
  /\ loopTasks' = Append(loopTasks, "setId")
  /\ UNCHANGED << active, error, id, nextConnectionBeingAccepted,
                  nextAcceptCallbackToCall, pendingAccepts, acceptResult, calls >>

\* close(), or the context's closing emitter through the activated
\* closing receiver; a close queued behind another changes nothing, so at
\* most one is kept queued.
Close ==
  /\ "close" \notin {loopTasks[i] : i \in DOMAIN loopTasks}
  /\ loopTasks' = Append(loopTasks, "close")
  /\ UNCHANGED << active, error, id, nextConnectionBeingAccepted,
                  nextAcceptCallbackToCall, pendingAccepts, acceptResult, calls >>

-----------------------------------------------------------------------------
(* Tasks on the loop.                                                      *)

\* Mutant: handleError() is not called, the pending accepts are kept.
SetErrorNoHandle(e) ==
  IF error # "none" THEN UNCHANGED << error, pendingAccepts,
                                      nextAcceptCallbackToCall, acceptResult >>
  ELSE /\ error' = e
       /\ UNCHANGED << pendingAccepts, nextAcceptCallbackToCall, acceptResult >>

\* Mutant: the early return on an error already set is dropped.
SetErrorOverwrite(e) ==
  /\ error' = e
  /\ pendingAccepts' = <<>>
  /\ nextAcceptCallbackToCall' = nextAcceptCallbackToCall + Len(pendingAccepts)
  /\ acceptResult' = [s \in Seqs |->
                        IF \E i \in DOMAIN pendingAccepts : pendingAccepts[i] = s
                          THEN e ELSE acceptResult[s]]

\* setError: keep the first error; then handleError -> handleErrorImpl,
\* which answers every pending callback with the error, oldest first.
SetError(e) ==
  IF error # "none" THEN UNCHANGED << error, pendingAccepts,
                                      nextAcceptCallbackToCall, acceptResult >>
  ELSE /\ error' = e
       /\ pendingAccepts' = <<>>
       /\ nextAcceptCallbackToCall' = nextAcceptCallbackToCall + Len(pendingAccepts)
       /\ acceptResult' = [s \in Seqs |->
                             IF \E i \in DOMAIN pendingAccepts : pendingAccepts[i] = s
                               THEN e ELSE acceptResult[s]]

initFromLoop ==
  /\ loopTasks # <<>> /\ Head(loopTasks) = "init"
  /\ loopTasks' = Tail(loopTasks)
  /\ active' = TRUE
  /\ UNCHANGED << error, id, nextConnectionBeingAccepted,
                  nextAcceptCallbackToCall, pendingAccepts, acceptResult, calls >>

\* Mutant: ++nextConnectionBeingAccepted_ in place of the post-increment.
AcceptRequestPreIncrement(s) ==
  /\ nextConnectionBeingAccepted' = s + 2
  /\ IF error # "none"
       THEN InvokeAccept(s + 1, error) /\ UNCHANGED pendingAccepts
       ELSE /\ pendingAccepts' = Append(pendingAccepts, s + 1)
            /\ UNCHANGED << nextAcceptCallbackToCall, acceptResult >>

\* Mutant: with the error set, return without calling the callback.
AcceptRequestDropOnError(s) ==
  /\ nextConnectionBeingAccepted' = s + 1
  /\ IF error # "none"
       THEN UNCHANGED << pendingAccepts, nextAcceptCallbackToCall, acceptResult >>
       ELSE /\ pendingAccepts' = Append(pendingAccepts, s)
            /\ UNCHANGED << nextAcceptCallbackToCall, acceptResult >>

\* The body of acceptFromLoop for the request numbered s: take the number,
\* then answer at once with the error, or hand the wrapped callback to the
\* backend (acceptImplFromLoop).
AcceptRequest(s) ==
  /\ nextConnectionBeingAccepted' = s + 1
  /\ IF error # "none"
       THEN InvokeAccept(s, error) /\ UNCHANGED pendingAccepts
       ELSE /\ pendingAccepts' = Append(pendingAccepts, s)
            /\ UNCHANGED << nextAcceptCallbackToCall, acceptResult >>

acceptFromLoop ==
  /\ loopTasks # <<>> /\ Head(loopTasks) = "accept"
  /\ loopTasks' = Tail(loopTasks)
  /\ AcceptRequest(nextConnectionBeingAccepted)
  /\ UNCHANGED << active, error, id, calls >>

setIdFromLoop ==
  /\ loopTasks # <<>> /\ Head(loopTasks) = "setId"
  /\ loopTasks' = Tail(loopTasks)
  /\ \E newId \in Ids : id' = newId
  /\ UNCHANGED << active, error, nextConnectionBeingAccepted,
                  nextAcceptCallbackToCall, pendingAccepts, acceptResult, calls >>

closeFromLoop ==
  /\ loopTasks # <<>> /\ Head(loopTasks) = "close"
  /\ loopTasks' = Tail(loopTasks)
  /\ SetError("ListenerClosed")
  /\ UNCHANGED << active, id, nextConnectionBeingAccepted, calls >>

\* The backend: a connection comes in and answers the oldest accept.
ConnectionAccepted ==
  /\ error = "none"
  /\ pendingAccepts # <<>>
  /\ pendingAccepts' = Tail(pendingAccepts)
  /\ InvokeAccept(Head(pendingAccepts), "connection")
  /\ UNCHANGED << loopTasks, active, error, id, nextConnectionBeingAccepted,
                  calls >>

\* The backend fails (its socket errors) and calls setError.
BackendFails ==
  /\ active
  /\ SetError("BackendError")
  /\ error = "none"
  /\ UNCHANGED << loopTasks, active, id, nextConnectionBeingAccepted, calls >>

-----------------------------------------------------------------------------
\* context->listen() constructs the listener and calls init().
Init ==
  /\ loopTasks = <<"init">>
  /\ active = FALSE
  /\ error = "none"
  /\ id \in Ids
  /\ nextConnectionBeingAccepted = 0
  /\ nextAcceptCallbackToCall = 0
  /\ pendingAccepts = <<>>
  /\ acceptResult = [s \in Seqs |-> "none"]
  /\ calls = 0

RunTask == initFromLoop \/ acceptFromLoop \/ setIdFromLoop \/ closeFromLoop

Next ==
  \/ Accept \/ SetId \/ Close
  \/ RunTask
  \/ ConnectionAccepted \/ BackendFails

\* The loop runs every deferred task; the backend and users need not act.
Spec == Init /\ [][Next]_vars /\ WF_vars(RunTask)

-----------------------------------------------------------------------------
TypeOK ==
  /\ loopTasks \in Seq(Tasks)
  /\ active \in BOOLEAN
  /\ error \in Errors
  /\ id \in Ids
  /\ nextConnectionBeingAccepted \in 0..MaxAccepts
  /\ nextAcceptCallbackToCall \in 0..MaxAccepts
  /\ pendingAccepts \in Seq(Seqs)
  /\ acceptResult \in [Seqs -> Errors \cup {"connection"}]
  /\ calls \in 0..MaxAccepts

\* The wrapper's TP_DCHECK_EQ(sequenceNumber, nextAcceptCallbackToCall_++)
\* never fails: the callbacks that have run are exactly those of the
\* oldest nextAcceptCallbackToCall_ requests, whether they were answered by
\* the backend, by handleErrorImpl or inline after the error was set.
AcceptCallbacksInOrder ==
  \A s \in Seqs :
    acceptResult[s] # "none" <=> s < nextAcceptCallbackToCall

\* Once the listener has an error, every accept issued so far is answered
\* (with that error, or a connection that came in before it).
AcceptsAnsweredAfterError ==
  \A s \in Seqs :
    (s < calls /\ error # "none") ~> acceptResult[s] # "none"

-----------------------------------------------------------------------------
(* Refinement: what the user sees of the listener.                        *)

Abstract == INSTANCE ListenerSpec WITH
  requested <- nextConnectionBeingAccepted,
  results   <- acceptResult,
  err       <- error

\* The listener implements its contract (ListenerSpec): every accept the
\* loop numbers is answered once and in order, with a connection only
\* while there is no error and otherwise with the first error setError
\* kept, whether the answer comes from the backend, from handleErrorImpl
\* or inline in acceptFromLoop.
ImplementsListenerSpec == Abstract!Spec

=============================================================================
