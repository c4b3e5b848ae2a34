\* Three accepts racing a close, a backend failure and a rename: once the
\* listener has an error every accept is answered.
CONSTANTS
  MaxAccepts = 3
  Ids = {"l0", "l1"}
SPECIFICATION Spec
INVARIANT TypeOK
PROPERTY AcceptsAnsweredAfterError
\* The listener idles once the user stops calling accept().
CHECK_DEADLOCK FALSE
