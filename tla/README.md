# TLA+ models of tensorpipe's CUDA-IPC channel and listener boilerplate

These modules model the code under `src/` with TLC:
- the CUDA-IPC channel: `src/tensorpipe/channel/cuda_ipc/channel_impl.cc`;
- the generic listener: `ListenerImplBoilerplate` in `src/unnamed/part_000`.

They also model the operation-queue engine the channel is built on. That engine is not under `src/`, so it is modelled from `spec.md` §4.1.

## 1. The system and its parts

| Part | Source | Role | Module | Status |
|---|---|---|---|---|
| Event loop | external | Serialises every task of a context: `deferToLoop` queues tasks in FIFO order, `runInLoop` runs one synchronously. | `Listener` (task queue); in `CudaIpcChannel` every action is one loop task | partly |
| Closing emitter/receiver, Context | external | A context close becomes `close()` on each listener and channel. | the `Close`, `SenderClose` and `ReceiverClose` actions | not modelled (only its effect) |
| OpsStateMachine | not in `src/` (spec §4.1) | The per-direction deque of operations. `advanceOperation` cascades to the successor; `advanceAllOperations` advances every op; finished ops are removed from the front, which destroys their CUDA events. | `OpsStateMachine` | modelled (from the spec) |
| Send/Recv operation records | `channel_impl.cc` 83–105 | Per-op state, the `doneReadingReply` and `doneReadingAck` flags, the stop-event handle and the callback. | `CudaIpcChannel` | modelled |
| CUDA-IPC channel | `channel_impl.cc` 107–382 | Implements send and recv (see below). | `CudaIpcChannel` (one direction; see section 5 for the opposite direction) | modelled (the enrolment with the context touches only the context registry, which is not under `src/`) |
| Descriptor / Reply / Ack | `channel_impl.cc` 34–79 | Wire messages and `makeDescriptor`. | `CudaIpcChannel` (`Descriptors` and `Reply` as the message types; `makeDescriptor` as its read of the op) | partly (the byte layout and NOP serialization are data, not control, and are not modelled) |
| Listener boilerplate | `part_000` 95–213 | Sequences accepts through the loop, checks FIFO callback order, turns close into a terminal error. | `Listener`, checked against `ListenerSpec` | modelled |
| Transport connections | external | The byte streams that carry Reply and Ack. | FIFO streams inside `CudaIpcChannel`; `ConnectionsBreak` fails both at once | partly (only delivery, loss of a suffix and failure; no bytes) |
| Channel test harness | `channel_test.h` | gtest helpers. | — | not modelled (test code) |
| proto/CMakeLists.txt | build | Build configuration. | — | not modelled |

### How the channel works

**Send.**
- `send` emplaces a `SendOperation` and advances it. It also builds a descriptor holding the buffer's IPC handle and a *start event*.
- Once the previous op has issued its read (`prevOpState >= READING_REPLY`), the op reads its **Reply** from the reply connection. The Reply carries the receiver's *stop event*.
- When the Reply has been read and the previous op is `FINISHED`, the sender:
  1. waits on the stop event on its stream;
  2. calls the send callback;
  3. writes an **Ack**.

**Recv.**
- `recv` emplaces a `RecvOperation`.
- Once the previous op has moved past UNINITIALIZED (`prevOpState >= READING_ACK`), the receiver:
  1. waits on the start event, enqueues the copy and records the stop event;
  2. calls the recv callback;
  3. writes the Reply and reads the Ack.
- The op stays in `READING_ACK`, which keeps its stop event alive, until the ack read completes.

**Errors.**
- Every I/O callback goes through `callbackWrapper_`, which calls `setError` before the body runs.
- `handleErrorImpl` advances every op of both queues, closes both connections and unenrolls the channel.
- Under an error, the transitions finish ops without the I/O steps.

## 2. Modules

| Module | What it is |
|---|---|
| `OpsStateMachine.tla` | The engine. It is parameterised by `CONSTANT Transition(_,_,_)`, the channel's advance method. A queue is a record `S` with fields `st` (state per sequence number) and `head` (first op not removed), plus channel fields the engine carries through. The engine defines `PrevOpState` (the head sees the sentinel `FINISHED`), `InDeque`, `PopFinished`, `AdvanceOne`, `AdvanceOperation` (the cascade to successors) and `AdvanceAllOperations`. |
| `CudaIpcChannel.tla` | One direction of a channel pair: the sender endpoint's `sendOps_` and the receiver endpoint's `recvOps_`. It instantiates the engine twice (`SendOps`, `RecvOps`). |
| `ChannelSpec.tla` | The abstract channel: what the two users see. It has per-op posted flags and callback results, plus one failure flag per endpoint. `CudaIpcChannel` instantiates it as `Abstract` with a refinement mapping, and the `refinement` run checks `Abstract!Spec` as a property. |
| `MCCudaIpcChannel.tla` | The channel instance whose constants the channel cfgs set, and the action constraint `SendsBeforeError` that the `copy_after_release` run uses. |
| `Listener.tla` | The listener boilerplate, with the event-loop queue and the backend. |
| `MCListener.tla` | The listener instance whose constants the listener cfgs set. |
| `ListenerSpec.tla` | The abstract listener: accepts numbered in order, one answer each, in order. A connection is given only while there is no error, and otherwise the first error, which stays. `Listener` instantiates it as `Abstract`. |

### Channel state and actions

In `CudaIpcChannel.tla`:
- `advanceSendOperation` and `advanceRecvOperation` are the code's chains of `attemptTransition` calls, in the code's order.
- Each transition's action list is a composition of record updates:
  - `readReply` issues a pending read;
  - `waitOnStopEvent` marks the stream wait;
  - `callSendCallback` and `callRecvCallback` append `SUCCESS` or `ERROR` to the op's invocation sequence;
  - `writeAck` puts an Ack on the wire;
  - `waitOnStartEventAndCopyAndRecordStopEvent` enqueues the copy;
  - `writeReplyAndReadAck` writes the Reply and issues the ack read.

| Action | Code |
|---|---|
| `Send(n)` | `sendImplFromLoop`: emplace the op, `advanceOperation`, then `makeDescriptor` and the descriptor callback. `makeDescriptor` reads the op through `opIter`, so the descriptor is `VALID` if the op is still in the deque and `DANGLING` if it is not. |
| `Recv(n)` | `recvImplFromLoop`: consume the descriptor of send n, emplace the op, `advanceOperation`. |
| `ReplyReadSucceeds`, `ReplyReadFails` | The readReply callback. On failure, `setError` runs first (`SenderSetError` is `handleErrorImpl` on the send queue), then `doneReadingReply`, then the advance. The stop-event handle is stored only if there is no error. |
| `AckReadSucceeds`, `AckReadFails` | The ack-read callback of `writeReplyAndReadAck`. |
| `SenderHandlesError`, `ReceiverHandlesError` | `setError` on a channel without an error, then `handleErrorImpl`: advance every op of the queue and close the connections. |
| `SenderClose`, `ReceiverClose` | `close()`, or the context closing: the above with `ChannelClosedError`. |
| `AckWriteFails`, `ReplyWriteFails` | The write callback of the Ack (lines 234–241) or the Reply (lines 350–356) gets an error: `callbackWrapper_` calls `setError`. A write fails only while there is something to write and the peer's error or a broken transport has closed the connection. |
| `ConnectionsBreak` | The transport fails both connections (not code of this repository): a prefix of the Replies and some of the Acks on the wire survive. |
| `CopyExecutes(n)` | The GPU runs the enqueued copy; the stop event recorded after it fires. |
| `ReuseSendBuffer(n)` | After its callback the user writes to the send buffer on the same stream. That write is ordered after the stop-event wait, if the code enqueued one. |

**Connection model.**
- A read on a connection its own endpoint closed fails.
- A read on a connection the peer closed fails once no data is left (EOF).
- On close, data the closing endpoint wrote but the transport has not yet delivered may be lost. The model keeps a nondeterministic prefix of it (`k`).
- When `TransportFails`, the connections may break (`broken`) at any step. What was delivered before the break is still read; a read after it fails like a read after the peer closed, and a write fails like a write to a closed peer.

### Listener state and actions

In `Listener.tla`:
- `loopTasks` is the FIFO of deferred tasks.
- The user actions `Accept`, `SetId` and `Close` only append a task.
- `initFromLoop`, `acceptFromLoop`, `setIdFromLoop` and `closeFromLoop` run the head task.
- `InvokeAccept` is the wrapper lambda with its sequence-number DCHECK.
- `SetError` is `setError`, `handleError` and `handleErrorImpl`. It keeps the first error and answers every pending accept with it.
- The backend is modelled from spec §4.2:
  - `ConnectionAccepted` answers the oldest accept with a connection;
  - `BackendFails` is a socket error reported through `setError`.

## 3. Runs

| Run | cfg | Expect | Checks | Bounds |
|---|---|---|---|---|
| happy | `happy.cfg` | pass | IpcEventsOpenedWhileAlive, CopyReadsLiveBuffer | 3 ops, no closes |
| close | `close.cfg` | pass | TypeOK, RecvCallbacksInOrder, OpsComplete | 3 ops, both endpoints may close, the transport may break |
| refinement | `refinement.cfg` | pass | ImplementsChannelSpec | 3 ops, both endpoints may close, the transport may break |
| descriptor_after_advance | `descriptor_after_advance.cfg` | violation | DescriptorMadeFromLiveOp | 2 ops, sender may close |
| send_callback_order | `send_callback_order.cfg` | violation | SendCallbacksInOrder | 2 ops, sender may close |
| stop_event_lifetime | `stop_event_lifetime.cfg` | violation | IpcEventsOpenedWhileAlive | 2 ops, receiver may close |
| start_event_lifetime | `start_event_lifetime.cfg` | violation | IpcEventsOpenedWhileAlive | 2 ops, sender may close |
| copy_after_release | `copy_after_release.cfg` | violation | CopyReadsLiveBuffer | 2 ops, sender may close, sends only before the error |
| listener_order | `Listener_order.cfg` | pass | AcceptCallbacksInOrder | 3 accepts, 2 ids |
| listener_drain | `Listener_drain.cfg` | pass | TypeOK, AcceptsAnsweredAfterError | 3 accepts, 2 ids |
| listener_refinement | `Listener_refinement.cfg` | pass | ImplementsListenerSpec | 3 accepts, 2 ids |

### The properties

- **TypeOK.** In the channel (checked in the close run, whose behaviours include every behaviour of the happy run), each callback sequence has length at most one. So this is also "every callback is invoked at most once".
- **RecvCallbacksInOrder / SendCallbacksInOrder.** A callback fires only after every earlier op of the same queue has had its own callback (spec §3, §8).
- **IpcEventsOpenedWhileAlive** (an action property). When the sender opens a stop event (`waitOnStopEvent`), the recv op that owns it is still in the receiver's deque. When the receiver opens a start event (the copy), the send op is still in the sender's deque.
- **CopyReadsLiveBuffer** (an action property). A copy never runs after the sending user has been allowed to overwrite the buffer.
- **OpsComplete** (liveness).
  - A submitted recv is eventually removed from the queue.
  - A send whose recv was submitted, or whose channel errored, is eventually removed.
- **ImplementsChannelSpec** (refinement). The channel's callbacks implement `ChannelSpec`:
  - each op gets one result;
  - receives succeed in sequence order, and only while the receiver has no error;
  - a send succeeds only after its receive succeeded and every earlier send completed;
  - an ERROR comes only from a failed endpoint.

  The mapping reads each callback's first result and the two error slots. ChannelSpec leaves the order of ERROR results of sends free, because finding 1 shows that the code does not keep it.
- **DescriptorMadeFromLiveOp** (an action property). The descriptor is made from an op still in `sendOps_`, and before that op's send callback.
- **AcceptCallbacksInOrder.** The accept callbacks that have run are exactly those of the oldest `nextAcceptCallbackToCall_` requests, so the DCHECK at `part_000:136` holds.
- **AcceptsAnsweredAfterError** (liveness). After close or a backend failure, every accept already requested is eventually answered.
- **ImplementsListenerSpec** (refinement). The listener's answers implement `ListenerSpec`:
  - one answer per accept, in order;
  - a connection only while there is no error;
  - otherwise the first error.

  Only this property catches `setError` losing its early return, which would let a later close or backend failure replace the error that accepts see.

### Why these bounds are enough

**Channel.**
- Three operations are enough to exercise a held-back op:
  - op 2 waits on op 1, and op 3 on op 2;
  - the cascade therefore goes two deep;
  - an error can arrive with ops in every state.
- The violation runs need only two ops, and their traces are 6–9 steps long.
- Close points are fully nondeterministic: an endpoint may close at any step. Lost data is any prefix of what is on the wire.

**Listener.**
- Three accepts reach the three ways a callback can run: by the backend, by `handleErrorImpl`, and inline after the error.
- The run covers every order of those three against close, backend failure and `setId`.

**State counts** (all channel and listener runs finish in under 30 s):

| Run | Distinct states |
|---|---|
| happy | 308 |
| close, refinement | 106,870 |
| listener runs (each) | 1,340 |

### Fairness and why the code justifies it

**Channel:**
- `WF` on completing a pending Reply or Ack read, when it can complete: either data is there, or the connection's error makes it fail. A transport delivers or fails every issued read.
  - Fairness is stated on the predicates `ReplyReadCompletes` and `AckReadCompletes`, with subscripts `replyReads` and `ackReads`.
  - `ReplyReadDone` and `AckReadDone` are the only actions that consume a read, and each is enabled exactly when its predicate is.
  - Stating it this way gives the same behaviours as WF on the actions, and is much cheaper for TLC.
- `WF` on `CopyExecutes`: the GPU runs enqueued stream work.

No fairness is assumed for users (send, recv, close, buffer reuse), nor for `ConnectionsBreak` and the write failures: a transport need never fail, and a write need never fail.

**Listener:** `WF` on running the head task, because the loop drains deferred tasks. Connections and backend failures may never happen.

All cfgs use `CHECK_DEADLOCK FALSE`: an endpoint is idle once its users stop submitting, and that is a legitimate final state.

## 4. Findings

These are the violation runs. The details are in `PROJECT.json`.

1. **send_callback_order.** `advanceSendOperation`'s UNINITIALIZED→FINISHED transition on error (line 153) ignores `prevOpState`. A send submitted after the error therefore gets its callback before an earlier send still in READING_REPLY. This contradicts spec §3 and §8.
2. **stop_event_lifetime.** Lines 293–294 say the READING_ACK state keeps the stop event alive until the remote has acknowledged it. But a *failed* ack read also sets `doneReadingAck` (line 369). So after the receiver closes, the op and its stop event are destroyed while a Reply naming that event still reaches the sender, which opens it in `waitOnStopEvent`.
3. **start_event_lifetime.** A closing sender finishes and destroys its ops, and their start events, immediately. A receiver that has no pending read yet has not seen the error, and opens the start event (line 314).
4. **copy_after_release.** Under error, a READING_REPLY send finishes with only `callSendCallback` (line 169), skipping `waitOnStopEvent`. The run posts sends only before the error (action constraint `SendsBeforeError`), so its trace is Send(1), Recv(1), the sender closes, the failed Reply read finishes send 1 at line 169, the user reuses the buffer, and the copy runs; without the constraint TLC's shortest trace goes through finding 5 instead. The user may then overwrite the buffer while the receiver's copy still reads it. The receiver has already reported success.

5. **descriptor_after_advance.** `sendImplFromLoop` advances the new op (line 138) before `makeDescriptor` reads it (lines 140–143). Spec §4.3 returns the descriptor first. On a channel whose error is set, a send finishes at once and its callback fires. If the op is at the head it is also removed, so `makeDescriptor` reads a destroyed record. The trace: the sender closes, then send 1 is submitted.

   This assumes the channel boilerplate (not under `src/`) passes a send to `sendImplFromLoop` even when the error is set. Spec §4.3 routes errors through the transition table, which is what that assumption means.

## 5. Abstractions and deliberate differences

- **Directions.** `CudaIpcChannel` models one direction. A real endpoint also holds the opposite direction's queue under the same `error_`, and `handleErrorImpl` advances both queues and closes both connections. A composition of two instances sharing the two errors was built and checked, and then removed, because it adds nothing a check can see:
  - every step of the composition is, in each direction, a step (or a stutter) of one `CudaIpcChannel` whose two endpoints may both fail and whose transport may break, under the same fairness, so every per-direction property follows from the close and refinement runs;
  - the part it would add, `advanceAllOperations` of the second queue in `handleErrorImpl` (line 379), never changes a queue: an op is never held back in UNINITIALIZED (the head's predecessor counts as FINISHED, and a successor is advanced with it), and an op waiting for a Reply or an Ack finishes under error only once that read completes. Closing the connections fails those reads, and their callbacks finish the ops. Dropping that advance broke no property.
- **Cascade direction.** The engine cascades from an advanced op to its *successor*, which is what the transition guards need (they read the predecessor's state). Spec §4.1 says "predecessor". For this backend the difference does not matter. Reply reads and ack reads complete in sequence order, because each connection is FIFO and the reads are issued in order. So every op's own completion arrives after its predecessor has moved, and a run of the literal wording would show nothing.
- **Start event.** The start event is assumed to have fired by the time the copy runs. Only whether the event is still alive is tracked.
- **Write completions.** A successful write completion only logs, so it is not an action. A failed one is (`AckWriteFails`, `ReplyWriteFails`). When both endpoints may close, a write failure reaches no state a close does not (the state counts do not change with them); the actions are kept because they are what the write callbacks do, and they matter in a configuration where only one endpoint may close.
- **Transport.** Bytes are not modelled: a connection is a FIFO of messages, and a break keeps a prefix of it.
- **Data.** Buffers, devices, streams, handles and ids are abstracted to sequence numbers and flags. The Descriptor is only VALID or DANGLING.
- **Spec-only behaviours.** The `advanceAllOperations` behaviour and the listener backend follow the spec, because their code is not under `src/`.

## 6. Plan for later work

Done:
- The descriptor step of `sendImplFromLoop` (run `descriptor_after_advance`).
- The abstract channel and its refinement (run `refinement`).
- The abstract listener and its refinement (run `listener_refinement`).
- Write-completion errors and a transport that breaks (`AckWriteFails`, `ReplyWriteFails`, `ConnectionsBreak`), checked in the close and refinement runs.

Dropped:
- A run of the literal predecessor cascade. Section 5 explains why it cannot differ here.

- The full-duplex composition (see section 5): it checked nothing the single-direction runs do not.
- The closing-receiver activation at `part_000:111`: the context and its closing emitter are not in `src/`, and nothing in the listener code shows a close that could reach it before `initFromLoop` runs.

Not modelled:
- **Enrolment.** `ChannelImpl`'s enrolment with the context changes only the context's registry, which is not under `src/`.
- **Byte layout.** The NOP serialization of Descriptor, Reply and Ack is data; no property here depends on it.
