SPECIFICATION Spec
CONSTANTS
  Timer = {election, lease}
  Caller = {c1, c2}
  Delay = {1, 2}
  MaxTime = 3
  MaxCalls = 3
  DistinctDeadlines = TRUE
CHECK_DEADLOCK FALSE
INVARIANTS TimersHaveWorker AtMostOneStale
PROPERTIES ArmedTimerFires ShutdownReturns
