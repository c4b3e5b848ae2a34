\* Three accepts racing a close, a backend failure and a rename.
CONSTANTS
  MaxAccepts = 3
  Ids = {"l0", "l1"}
SPECIFICATION Spec
PROPERTY ImplementsListenerSpec
\* The loop idles once every task has run.
CHECK_DEADLOCK FALSE
