\* A send submitted on a sender that has already closed.
CONSTANTS
  NumOps = 2
  Closers = {"sender"}
  TransportFails = FALSE
SPECIFICATION Spec
PROPERTY DescriptorMadeFromLiveOp
\* Endpoints idle once the users stop submitting.
CHECK_DEADLOCK FALSE
