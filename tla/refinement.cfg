\* Three operations; either endpoint may close and the transport may break
\* at any step.
CONSTANTS
  NumOps = 3
  Closers = {"sender", "receiver"}
  TransportFails = TRUE
SPECIFICATION Spec
PROPERTY ImplementsChannelSpec
\* Endpoints idle once the users stop submitting.
CHECK_DEADLOCK FALSE
