SPECIFICATION Spec
CONSTANTS
  MaxLog = 6
  MaxSequence = 1
  MaxLeaders = 3
CHECK_DEADLOCK FALSE
INVARIANTS LinearizableReads
