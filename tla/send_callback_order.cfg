\* A sender close with a send still reading its Reply.
CONSTANTS
  NumOps = 2
  Closers = {"sender"}
  TransportFails = FALSE
SPECIFICATION Spec
INVARIANT SendCallbacksInOrder
CHECK_DEADLOCK FALSE
