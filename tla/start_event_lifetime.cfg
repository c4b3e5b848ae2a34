\* The sender closes before the receiver posts the matching recv.
CONSTANTS
  NumOps = 2
  Closers = {"sender"}
  TransportFails = FALSE
SPECIFICATION Spec
PROPERTY IpcEventsOpenedWhileAlive
CHECK_DEADLOCK FALSE
