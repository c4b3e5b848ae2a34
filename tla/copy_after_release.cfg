\* The sender closes while the receiver copies out of its buffer.  Sends
\* are posted only before the error, so the violation goes through the
\* READING_REPLY -> FINISHED transition under error (line 169).
CONSTANTS
  NumOps = 2
  Closers = {"sender"}
  TransportFails = FALSE
SPECIFICATION Spec
ACTION_CONSTRAINT SendsBeforeError
PROPERTY CopyReadsLiveBuffer
CHECK_DEADLOCK FALSE
