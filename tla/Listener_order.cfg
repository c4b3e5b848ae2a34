\* Three accepts racing a close, a backend failure and a rename: the
\* accept callbacks run in the order the requests reached the loop.
CONSTANTS
  MaxAccepts = 3
  Ids = {"l0", "l1"}
SPECIFICATION Spec
INVARIANT AcceptCallbacksInOrder
\* The listener idles once the user stops calling accept().
CHECK_DEADLOCK FALSE
