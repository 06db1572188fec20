SPECIFICATION Spec
CONSTANTS
  MaxLog = 6
  MaxSequence = 1
  MaxLeaders = 4
CHECK_DEADLOCK FALSE
INVARIANTS AppliedCommitted OkMeansApplied FollowersNeverThrow
PROPERTIES CommittedReturns
