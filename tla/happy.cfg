\* No endpoint closes: the protocol's own ordering and lifetimes.
CONSTANTS
  NumOps = 3
  Closers = {}
  TransportFails = FALSE
SPECIFICATION Spec
PROPERTY IpcEventsOpenedWhileAlive
PROPERTY CopyReadsLiveBuffer
\* The endpoints idle once the users stop submitting.
CHECK_DEADLOCK FALSE
