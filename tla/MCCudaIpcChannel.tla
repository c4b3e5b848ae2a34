--------------------------- MODULE MCCudaIpcChannel ---------------------------
(* Model-checking instance of CudaIpcChannel; the cfg files give NumOps,   *)
(* Closers and TransportFails.                                             *)
EXTENDS CudaIpcChannel

\* An action constraint for runs about an op that was already under way
\* when the error came: sendImplFromLoop is not reached for a new send once
\* the sender's error_ is set, so the op finishing at once at line 153 (and
\* makeDescriptor reading it, finding 5) is kept out of the trace.
SendsBeforeError ==
  \A n \in Ops : sendState[n] = NOT_SUBMITTED /\ sendState'[n] # NOT_SUBMITTED
                   => ~senderError
=============================================================================
