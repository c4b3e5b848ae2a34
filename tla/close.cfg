\* Either endpoint may close at any point (user close() or context close),
\* and the transport may break both connections.
CONSTANTS
  NumOps = 3
  Closers = {"sender", "receiver"}
  TransportFails = TRUE
SPECIFICATION Spec
INVARIANT TypeOK
INVARIANT RecvCallbacksInOrder
PROPERTY OpsComplete
\* The endpoints idle once the users stop submitting; OpsComplete checks
\* that no operation is left stuck.
CHECK_DEADLOCK FALSE
