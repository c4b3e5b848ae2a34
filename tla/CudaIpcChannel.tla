---------------------------- MODULE CudaIpcChannel ----------------------------
(***************************************************************************)
(* The CUDA-IPC channel, src/tensorpipe/channel/cuda_ipc/channel_impl.cc: *)
(* the send queue of the sending endpoint, the receive queue of the       *)
(* receiving endpoint, the two control connections between them (reply:  *)
(* receiver -> sender, ack: sender -> receiver), the copy the receiver    *)
(* enqueues on its GPU stream, and the sending user reusing its buffer.   *)
(*                                                                         *)
(* Every action is one task of an endpoint's event loop (or a step of a   *)
(* GPU stream, or of a user), so it is atomic.  Descriptors go            *)
(* out-of-band in order: recv n uses the descriptor of send n.            *)
(***************************************************************************)
EXTENDS Integers, Sequences

CONSTANTS
  NumOps,   \* sequence numbers 1..NumOps are used per direction
  Closers,  \* endpoints ("sender", "receiver") whose close() is called
  TransportFails  \* whether the control connections may break

ASSUME NumOps \in Nat \ {0}
ASSUME Closers \subseteq {"sender", "receiver"}
ASSUME TransportFails \in BOOLEAN

Ops == 1..NumOps

\* SendOperation::State and RecvOperation::State (values of the C++ enums);
\* NOT_SUBMITTED stands for a sequence number with no record yet.
NOT_SUBMITTED == -1
UNINITIALIZED == 0
READING_REPLY == 1
READING_ACK   == 1
FINISHED      == 2

\* OpsStateMachine::attemptTransition: if op n is in `from` and `cond`
\* holds, run the actions (applied to S in `acted`), then set it to `to`.
attemptTransition(S, n, from, to, cond, acted) ==
  IF S.st[n] = from /\ cond THEN [acted EXCEPT !.st[n] = to] ELSE S

Results == {"SUCCESS", "ERROR"}

\* The wire messages.  A Descriptor's fields (allocation id, memory handle,
\* offset, start-event handle) are all read from the send op's record, so
\* it is either VALID or DANGLING (read from a destroyed record).  A
\* Reply's one field, stopEvHandle, is named by the recv op that owns the
\* event.  An Ack has no field, so the ack connection is a count.
Descriptors == {"VALID", "DANGLING"}
Reply == Ops

VARIABLES
  \* sending endpoint
  sendState,        \* SendOperation::state per sequence number
  doneReadingReply, \* SendOperation::doneReadingReply
  stopEvHandle,     \* SendOperation::stopEvHandle: 0 (empty) or the recv op
                    \* whose stop event it names
  sendCallback,     \* the results the send callback was invoked with
  sendHead,         \* front of sendOps_
  senderError,      \* error_ of the sending ChannelImpl
  stopEvWaited,     \* waitOnStopEvent enqueued a wait on the op's stream
  bufferReused,     \* the sending user overwrote the source buffer
  descriptor,       \* the descriptor handed to the user: NONE, VALID, or
                    \* DANGLING (made from a removed op's record)
  \* receiving endpoint
  recvState, doneReadingAck, recvCallback, recvHead, receiverError,
  copy,             \* cudaMemcpyAsync of recv n: NONE, ENQUEUED or DONE
  \* control connections
  replyWire,        \* Reply messages in flight (their stopEvHandle)
  replyReads,       \* reads pending on the sender's replyConnection_
  acksInFlight,     \* Ack messages in flight (they carry no field)
  ackReads,         \* reads pending on the receiver's ackConnection_
  broken            \* the transport failed both control connections

senderVars   == << sendState, doneReadingReply, stopEvHandle, sendCallback,
                    sendHead, senderError, stopEvWaited, bufferReused,
                    descriptor >>
receiverVars == << recvState, doneReadingAck, recvCallback, recvHead,
                    receiverError, copy >>
wireVars     == << replyWire, replyReads, acksInFlight, ackReads, broken >>
vars == << senderVars, receiverVars, wireVars >>

-----------------------------------------------------------------------------
(* Sending endpoint.  SendQueue is sendOps_ with the channel fields its    *)
(* actions touch; err and done are error_ and doneReadingReply as the     *)
(* advance sees them.                                                      *)

SendQueue(err, done) ==
  [st |-> sendState, head |-> sendHead, cb |-> sendCallback,
   waited |-> stopEvWaited, reads |-> replyReads, acks |-> acksInFlight,
   err |-> err, done |-> done]

\* Mutant: doneReadingReply set when the read is issued, not completed.
readReplyEarlyDone(S, n) == [S EXCEPT !.reads = Append(@, n), !.done[n] = TRUE]
readReply(S, n)       == [S EXCEPT !.reads = Append(@, n)]
\* Mutant: no wait on the stop event is enqueued.
waitOnStopEventSkipped(S, n) == S
waitOnStopEvent(S, n) == [S EXCEPT !.waited[n] = TRUE]
callSendCallback(S, n) ==
  [S EXCEPT !.cb[n] = Append(@, IF S.err THEN "ERROR" ELSE "SUCCESS")]
writeAck(S, n)        == [S EXCEPT !.acks = @ + 1]

advanceSendOperation(S, n, prevOpState) ==
  LET S1 == attemptTransition(S, n, UNINITIALIZED, FINISHED, S.err,
                              callSendCallback(S, n))
      S2 == attemptTransition(S1, n, UNINITIALIZED, READING_REPLY,
                              ~S1.err /\ prevOpState >= READING_REPLY,
                              readReply(S1, n))
      S3 == attemptTransition(S2, n, READING_REPLY, FINISHED,
                              S2.err /\ S2.done[n], callSendCallback(S2, n))
  IN  attemptTransition(S3, n, READING_REPLY, FINISHED,
                        ~S3.err /\ S3.done[n] /\ prevOpState >= FINISHED,
                        writeAck(callSendCallback(waitOnStopEvent(S3, n), n), n))

SendOps == INSTANCE OpsStateMachine WITH Transition <- advanceSendOperation

\* (S is computed once, as the single element of {S}.)
SetSendQueue(S) ==
  \E T \in {S} :
    /\ sendState' = T.st
    /\ sendHead' = T.head
    /\ sendCallback' = T.cb
    /\ stopEvWaited' = T.waited
    /\ replyReads' = T.reads
    /\ acksInFlight' = T.acks

\* setError on the sender, then handleErrorImpl: advance all ops and close
\* both connections; acks written but not yet sent may be lost (k kept).
SenderSetError(S, k) ==
  IF S.err THEN S
  ELSE [SendOps!AdvanceAllOperations([S EXCEPT !.err = TRUE])
          EXCEPT !.acks = k]

\* makeDescriptor reads the op's pointer, device and start event through
\* opIter: valid only while the op is still in sendOps_.
makeDescriptor(S, n) == IF SendOps!InDeque(S, n) THEN "VALID" ELSE "DANGLING"

\* ChannelImpl::sendImplFromLoop: emplace op n, advance it, then make the
\* descriptor and hand it to the user.
Send(n) ==
  /\ sendState[n] = NOT_SUBMITTED
  /\ n > 1 => sendState[n - 1] # NOT_SUBMITTED
  /\ LET S == SendOps!AdvanceOperation(
                 [SendQueue(senderError, doneReadingReply)
                    EXCEPT !.st[n] = UNINITIALIZED], n)
     IN  /\ SetSendQueue(S)
         /\ descriptor' = [descriptor EXCEPT ![n] = makeDescriptor(S, n)]
  /\ UNCHANGED << broken, doneReadingReply, stopEvHandle, senderError, bufferReused,
                  receiverVars, replyWire, ackReads >>

\* The callback of readReply, for a read that returns the next Reply.
ReplyReadSucceeds ==
  /\ replyReads # <<>>
  /\ replyWire # <<>>
  /\ ~senderError
  /\ LET n == Head(replyReads)
         S == [SendQueue(FALSE, [doneReadingReply EXCEPT ![n] = TRUE])
                 EXCEPT !.reads = Tail(@)]
     IN  /\ doneReadingReply' = S.done
         /\ stopEvHandle' = [stopEvHandle EXCEPT ![n] = Head(replyWire)]
         /\ SetSendQueue(SendOps!AdvanceOperation(S, n))
  /\ replyWire' = Tail(replyWire)
  /\ UNCHANGED << broken, senderError, bufferReused, descriptor, receiverVars, ackReads >>

\* Mutant: callbackWrapper_ does not call setError before the body.
ReplyReadFailsNoSetError ==
  /\ replyReads # <<>>
  /\ senderError \/ ((receiverError \/ broken) /\ replyWire = <<>>)
  /\ LET n == Head(replyReads)
         S == [SendQueue(senderError, [doneReadingReply EXCEPT ![n] = TRUE])
                 EXCEPT !.reads = Tail(@)]
     IN  /\ doneReadingReply' = S.done
         /\ SetSendQueue(SendOps!AdvanceOperation(S, n))
  /\ UNCHANGED << broken, senderError, stopEvHandle, bufferReused, descriptor,
                  receiverVars, replyWire, ackReads >>

\* The callback of readReply for a read that fails: the sender closed its
\* connection, or the receiver closed and no Reply is left.  The callback
\* wrapper calls setError first; the handle is not stored.
ReplyReadFails ==
  /\ replyReads # <<>>
  /\ senderError \/ ((receiverError \/ broken) /\ replyWire = <<>>)
  /\ \E k \in 0..acksInFlight :
       LET n  == Head(replyReads)
           S0 == [SendQueue(senderError, doneReadingReply)
                    EXCEPT !.reads = Tail(@)]
           S1 == [SenderSetError(S0, k) EXCEPT !.done[n] = TRUE]
       IN  /\ doneReadingReply' = S1.done
           /\ SetSendQueue(SendOps!AdvanceOperation(S1, n))
  /\ senderError' = TRUE
  /\ UNCHANGED << broken, stopEvHandle, bufferReused, descriptor, receiverVars, replyWire,
                  ackReads >>

ReplyReadDone == ReplyReadSucceeds \/ ReplyReadFails

\* setError on the sending endpoint from outside its read callbacks, and
\* handleErrorImpl.
SenderHandlesError ==
  /\ ~senderError
  /\ \E k \in 0..acksInFlight :
       SetSendQueue(SenderSetError(SendQueue(FALSE, doneReadingReply), k))
  /\ senderError' = TRUE
  /\ UNCHANGED << broken, doneReadingReply, stopEvHandle, bufferReused,
                  descriptor, receiverVars, replyWire, ackReads >>

\* close() (or the context closing) on the sending endpoint.
SenderClose == "sender" \in Closers /\ SenderHandlesError

\* The write callback of writeAck for a write that fails: an Ack still in
\* flight when the receiver closed or the transport broke.  The wrapper
\* calls setError; the body only logs.
AckWriteFails ==
  /\ acksInFlight > 0
  /\ receiverError \/ broken
  /\ SenderHandlesError

-----------------------------------------------------------------------------
(* Receiving endpoint.                                                     *)

RecvQueue(err, done) ==
  [st |-> recvState, head |-> recvHead, cb |-> recvCallback, copy |-> copy,
   replies |-> replyWire, reads |-> ackReads, err |-> err, done |-> done]

\* Opens the start event and the sender's buffer through their IPC handles,
\* enqueues the copy and records the stop event, all on the op's stream.
waitOnStartEventAndCopyAndRecordStopEvent(S, n) ==
  [S EXCEPT !.copy[n] = "ENQUEUED"]
\* Mutant: the callback is not reset after the call and runs twice.
callRecvCallbackTwice(S, n) ==
  LET r == IF S.err THEN "ERROR" ELSE "SUCCESS" IN [S EXCEPT !.cb[n] = @ \o <<r, r>>]
callRecvCallback(S, n) ==
  [S EXCEPT !.cb[n] = Append(@, IF S.err THEN "ERROR" ELSE "SUCCESS")]
\* Mutant: doneReadingAck set when the Ack read is issued, not completed.
writeReplyAndReadAckEarlyDone(S, n) ==
  [S EXCEPT !.replies = Append(@, n), !.reads = Append(@, n), !.done[n] = TRUE]
writeReplyAndReadAck(S, n) ==
  [S EXCEPT !.replies = Append(@, n), !.reads = Append(@, n)]

\* Mutant: the callback is invoked when the Ack is read, not after the copy.
advanceRecvOperationCallbackOnAck(S, n, prevOpState) ==
  LET S1 == attemptTransition(S, n, UNINITIALIZED, FINISHED, S.err,
                              callRecvCallback(S, n))
      S2 == attemptTransition(S1, n, UNINITIALIZED, READING_ACK,
              ~S1.err /\ prevOpState >= READING_ACK,
              writeReplyAndReadAck(
                waitOnStartEventAndCopyAndRecordStopEvent(S1, n), n))
  IN  attemptTransition(S2, n, READING_ACK, FINISHED, S2.done[n],
                        callRecvCallback(S2, n))

advanceRecvOperation(S, n, prevOpState) ==
  LET S1 == attemptTransition(S, n, UNINITIALIZED, FINISHED, S.err,
                              callRecvCallback(S, n))
      S2 == attemptTransition(S1, n, UNINITIALIZED, READING_ACK,
              ~S1.err /\ prevOpState >= READING_ACK,
              writeReplyAndReadAck(callRecvCallback(
                waitOnStartEventAndCopyAndRecordStopEvent(S1, n), n), n))
  IN  attemptTransition(S2, n, READING_ACK, FINISHED, S2.done[n], S2)

RecvOps == INSTANCE OpsStateMachine WITH Transition <- advanceRecvOperation

SetRecvQueue(S) ==
  \E T \in {S} :
    /\ recvState' = T.st
    /\ recvHead' = T.head
    /\ recvCallback' = T.cb
    /\ copy' = T.copy
    /\ replyWire' = T.replies
    /\ ackReads' = T.reads

\* setError on the receiver, then handleErrorImpl; the first k Replies
\* already written survive the close of the reply connection.
ReceiverSetError(S, k) ==
  IF S.err THEN S
  ELSE [RecvOps!AdvanceAllOperations([S EXCEPT !.err = TRUE])
          EXCEPT !.replies = SubSeq(@, 1, k)]

\* ChannelImpl::recvImplFromLoop with the descriptor of send n.
Recv(n) ==
  /\ recvState[n] = NOT_SUBMITTED
  /\ n > 1 => recvState[n - 1] # NOT_SUBMITTED
  /\ descriptor[n] # "NONE"
  /\ SetRecvQueue(RecvOps!AdvanceOperation(
       [RecvQueue(receiverError, doneReadingAck) EXCEPT !.st[n] = UNINITIALIZED],
       n))
  /\ UNCHANGED << broken, doneReadingAck, receiverError, senderVars, replyReads,
                  acksInFlight >>

\* Mutant: the callback sets doneReadingAck but does not advance the op.
AckReadSucceedsNoAdvance ==
  /\ ackReads # <<>>
  /\ acksInFlight > 0
  /\ ~receiverError
  /\ LET n == Head(ackReads)
         S == [RecvQueue(FALSE, [doneReadingAck EXCEPT ![n] = TRUE])
                 EXCEPT !.reads = Tail(@)]
     IN  /\ doneReadingAck' = S.done
         /\ SetRecvQueue(S)
  /\ acksInFlight' = acksInFlight - 1
  /\ UNCHANGED << broken, receiverError, senderVars, replyReads >>

\* The ack-read callback of writeReplyAndReadAck, for a read that gets an Ack.
AckReadSucceeds ==
  /\ ackReads # <<>>
  /\ acksInFlight > 0
  /\ ~receiverError
  /\ LET n == Head(ackReads)
         S == [RecvQueue(FALSE, [doneReadingAck EXCEPT ![n] = TRUE])
                 EXCEPT !.reads = Tail(@)]
     IN  /\ doneReadingAck' = S.done
         /\ SetRecvQueue(RecvOps!AdvanceOperation(S, n))
  /\ acksInFlight' = acksInFlight - 1
  /\ UNCHANGED << broken, receiverError, senderVars, replyReads >>

\* The same callback for a read that fails (own close, or sender closed).
AckReadFails ==
  /\ ackReads # <<>>
  /\ receiverError \/ ((senderError \/ broken) /\ acksInFlight = 0)
  /\ \E k \in 0..Len(replyWire) :
       LET n  == Head(ackReads)
           S0 == [RecvQueue(receiverError, doneReadingAck)
                    EXCEPT !.reads = Tail(@)]
           S1 == [ReceiverSetError(S0, k) EXCEPT !.done[n] = TRUE]
       IN  /\ doneReadingAck' = S1.done
           /\ SetRecvQueue(RecvOps!AdvanceOperation(S1, n))
  /\ receiverError' = TRUE
  /\ UNCHANGED << broken, senderVars, replyReads, acksInFlight >>

AckReadDone == AckReadSucceeds \/ AckReadFails

\* setError on the receiving endpoint from outside its read callbacks,
\* and handleErrorImpl.
ReceiverHandlesError ==
  /\ ~receiverError
  /\ \E k \in 0..Len(replyWire) :
       SetRecvQueue(ReceiverSetError(RecvQueue(FALSE, doneReadingAck), k))
  /\ receiverError' = TRUE
  /\ UNCHANGED << broken, doneReadingAck, senderVars, replyReads, acksInFlight >>

\* close() (or the context closing) on the receiving endpoint.
ReceiverClose == "receiver" \in Closers /\ ReceiverHandlesError

\* The Reply write callback of writeReplyAndReadAck for a write that
\* fails: a Reply still in flight when the sender closed or the transport
\* broke.
ReplyWriteFails ==
  /\ replyWire # <<>>
  /\ senderError \/ broken
  /\ ReceiverHandlesError

-----------------------------------------------------------------------------
(* The transport.                                                          *)

\* Both control connections fail (a reset, the peer process dying without
\* closing): what was in flight is lost but for a prefix, and every read
\* fails once nothing is left.  Neither endpoint is told at once.
ConnectionsBreak ==
  /\ TransportFails
  /\ ~broken
  /\ broken' = TRUE
  /\ \E k \in 0..Len(replyWire) : replyWire' = SubSeq(replyWire, 1, k)
  /\ acksInFlight' \in 0..acksInFlight
  /\ UNCHANGED << senderVars, receiverVars, replyReads, ackReads >>

-----------------------------------------------------------------------------
(* GPU and users.                                                          *)

\* The receiver's stream runs the copy of recv n out of send n's buffer;
\* the stop event recorded after it fires with it.
CopyExecutes(n) ==
  /\ copy[n] = "ENQUEUED"
  /\ copy' = [copy EXCEPT ![n] = "DONE"]
  /\ UNCHANGED << senderVars, recvState, doneReadingAck, recvCallback,
                  recvHead, receiverError, wireVars >>

\* After its callback the sending user enqueues a write to the buffer on the
\* same stream: it runs after the wait on the stop event, if one was enqueued.
ReuseSendBuffer(n) ==
  /\ sendCallback[n] # <<>>
  /\ ~bufferReused[n]
  /\ stopEvWaited[n] => stopEvHandle[n] \in Ops /\ copy[stopEvHandle[n]] = "DONE"
  /\ bufferReused' = [bufferReused EXCEPT ![n] = TRUE]
  /\ UNCHANGED << sendState, doneReadingReply, stopEvHandle, sendCallback,
                  sendHead, senderError, stopEvWaited, descriptor,
                  receiverVars, wireVars >>

-----------------------------------------------------------------------------
Init ==
  /\ sendState = [n \in Ops |-> NOT_SUBMITTED]
  /\ doneReadingReply = [n \in Ops |-> FALSE]
  /\ stopEvHandle = [n \in Ops |-> 0]
  /\ sendCallback = [n \in Ops |-> <<>>]
  /\ sendHead = 1
  /\ senderError = FALSE
  /\ stopEvWaited = [n \in Ops |-> FALSE]
  /\ bufferReused = [n \in Ops |-> FALSE]
  /\ descriptor = [n \in Ops |-> "NONE"]
  /\ recvState = [n \in Ops |-> NOT_SUBMITTED]
  /\ doneReadingAck = [n \in Ops |-> FALSE]
  /\ recvCallback = [n \in Ops |-> <<>>]
  /\ recvHead = 1
  /\ receiverError = FALSE
  /\ copy = [n \in Ops |-> "NONE"]
  /\ replyWire = <<>>
  /\ replyReads = <<>>
  /\ acksInFlight = 0
  /\ ackReads = <<>>
  /\ broken = FALSE

Next ==
  \/ \E n \in Ops : Send(n) \/ Recv(n) \/ CopyExecutes(n) \/ ReuseSendBuffer(n)
  \/ ReplyReadDone
  \/ AckReadDone
  \/ SenderClose \/ AckWriteFails
  \/ ReceiverClose \/ ReplyWriteFails
  \/ ConnectionsBreak

\* A pending read is completed by the transport once its outcome is fixed
\* (a message is there, or a connection end is closed), and the loop then
\* runs its callback: a step that consumes the read.  Only ReplyReadDone
\* (AckReadDone) consumes a pending read, and it is enabled exactly when
\* ReplyReadCompletes (AckReadCompletes) is, so fairness on these is
\* fairness on the read callbacks, stated in a form TLC evaluates quickly.
ReplyReadCompletes ==
  /\ replyReads # <<>>
  /\ \/ ~senderError /\ replyWire # <<>>
     \/ senderError \/ ((receiverError \/ broken) /\ replyWire = <<>>)
  /\ replyReads' = Tail(replyReads)

AckReadCompletes ==
  /\ ackReads # <<>>
  /\ \/ ~receiverError /\ acksInFlight > 0
     \/ receiverError \/ ((senderError \/ broken) /\ acksInFlight = 0)
  /\ ackReads' = Tail(ackReads)

\* The event loops run every read completion the transport delivers, and a
\* GPU stream runs what is enqueued on it; users are never obliged to act.
Fairness ==
  /\ WF_replyReads(ReplyReadCompletes)
  /\ WF_ackReads(AckReadCompletes)
  /\ \A n \in Ops : WF_vars(CopyExecutes(n))

Spec == Init /\ [][Next]_vars /\ Fairness

-----------------------------------------------------------------------------
(* Properties.                                                             *)

States == {NOT_SUBMITTED, UNINITIALIZED, 1, FINISHED}
\* A callback's record: the results it was invoked with, which callSend-
\* and callRecvCallback keep to one by nulling the callback.
Invocations == {<<>>} \cup {<<r>> : r \in Results}

TypeOK ==
  /\ sendState \in [Ops -> States]
  /\ recvState \in [Ops -> States]
  /\ doneReadingReply \in [Ops -> BOOLEAN]
  /\ doneReadingAck \in [Ops -> BOOLEAN]
  /\ stopEvHandle \in [Ops -> 0..NumOps]
  /\ sendCallback \in [Ops -> Invocations]
  /\ recvCallback \in [Ops -> Invocations]
  /\ sendHead \in 1..NumOps + 1
  /\ recvHead \in 1..NumOps + 1
  /\ senderError \in BOOLEAN
  /\ receiverError \in BOOLEAN
  /\ stopEvWaited \in [Ops -> BOOLEAN]
  /\ bufferReused \in [Ops -> BOOLEAN]
  /\ descriptor \in [Ops -> {"NONE"} \cup Descriptors]
  /\ copy \in [Ops -> {"NONE", "ENQUEUED", "DONE"}]
  /\ replyWire \in Seq(Reply)
  /\ replyReads \in Seq(Ops)
  /\ acksInFlight \in 0..NumOps
  /\ ackReads \in Seq(Ops)
  /\ broken \in BOOLEAN

\* Receive callbacks fire in sequence-number order, errors included
\* (spec §3, §7): callRecvCallback of op n never runs before op n-1's.
RecvCallbacksInOrder ==
  \A n \in Ops : recvCallback[n] # <<>> =>
    \A m \in 1..n - 1 : recvCallback[m] # <<>>

\* The same for send callbacks (callSendCallback).
SendCallbacksInOrder ==
  \A n \in Ops : sendCallback[n] # <<>> =>
    \A m \in 1..n - 1 : sendCallback[m] # <<>>

\* A CUDA event is opened through its IPC handle only while the operation
\* that owns it is alive: waitOnStopEvent of send n opens the stop event of
\* recv n (the Reply it read is n's) before recv n is removed, and the copy
\* of recv n opens the start event of send n before send n is removed.
IpcEventsOpenedWhileAlive ==
  [][\A n \in Ops :
       /\ (~stopEvWaited[n] /\ stopEvWaited'[n]) =>
             stopEvHandle'[n] = n /\ RecvOps!InDeque(RecvQueue(FALSE, doneReadingAck), n)
       /\ (copy[n] = "NONE" /\ copy'[n] = "ENQUEUED") =>
             SendOps!InDeque(SendQueue(FALSE, doneReadingReply), n)]_vars

\* The receiver's copy reads the sender's buffer before the sending user,
\* told by the send callback that it may, overwrites it.
CopyReadsLiveBuffer ==
  [][\A n \in Ops :
       (copy[n] = "ENQUEUED" /\ copy'[n] = "DONE") => ~bufferReused[n]]_vars

\* sendImplFromLoop hands the descriptor to the user after advancing the
\* new op (makeDescriptor reads *opIter); spec §4.3 makes the descriptor
\* first.  The op must still be in sendOps_ when makeDescriptor reads it,
\* and its send callback must not have run before the descriptor callback.
DescriptorMadeFromLiveOp ==
  [][\A n \in Ops :
       (descriptor[n] = "NONE" /\ descriptor'[n] # "NONE") =>
          /\ descriptor'[n] = "VALID"
          /\ sendCallback'[n] = <<>>]_vars

\* Every operation whose completion is not waiting on the peer's user is
\* eventually finished and removed: a send once its recv is posted or
\* either side has failed, a recv once it is posted.
OpsComplete ==
  \A n \in Ops :
    /\ (sendState[n] # NOT_SUBMITTED /\
          (recvState[n] # NOT_SUBMITTED \/ senderError \/ receiverError))
         ~> sendHead > n
    /\ recvState[n] # NOT_SUBMITTED ~> recvHead > n

-----------------------------------------------------------------------------
(* Refinement: what the users see of the two endpoints.                   *)

Outcome(cb) == IF cb = <<>> THEN "NONE" ELSE cb[1]

Abstract == INSTANCE ChannelSpec WITH
  sendPosted <- [n \in Ops |-> sendState[n] # NOT_SUBMITTED],
  recvPosted <- [n \in Ops |-> recvState[n] # NOT_SUBMITTED],
  sendRes    <- [n \in Ops |-> Outcome(sendCallback[n])],
  recvRes    <- [n \in Ops |-> Outcome(recvCallback[n])],
  sendErr    <- senderError,
  recvErr    <- receiverError

\* The channel implements its callback-level contract: one result per op,
\* receives succeed in order and only without an error, a send succeeds
\* only after its receive succeeded and every earlier send completed, and
\* ERROR only from a failed endpoint (ChannelSpec).
ImplementsChannelSpec == Abstract!Spec

=============================================================================
