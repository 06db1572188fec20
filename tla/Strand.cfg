SPECIFICATION Spec
CONSTANTS
  Producer = {p1, p2}
  MaxCallbacks = 4
CHECK_DEADLOCK FALSE
INVARIANTS InOrder
PROPERTIES CallbacksRun ShutdownReturns
