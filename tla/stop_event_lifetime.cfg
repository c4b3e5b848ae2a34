\* The receiver closes after writing a Reply.
CONSTANTS
  NumOps = 2
  Closers = {"receiver"}
  TransportFails = FALSE
SPECIFICATION Spec
PROPERTY IpcEventsOpenedWhileAlive
CHECK_DEADLOCK FALSE
