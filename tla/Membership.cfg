SPECIFICATION Spec
CONSTANTS
  Server = {s1, s2, s3, s4}
  Self = s1
  Initial = {s1, s2, s3}
  Live = {s2, s3}
  Requests = {{s1, s2, s4}, {s2, s3, s4}, {s1}}
  MaxChanges = 2
  MaxLeaders = 2
CHECK_DEADLOCK FALSE
INVARIANTS OneStepAtATime JointOnBothMajorities OkMeansCommitted ConfigurationOfLog
PROPERTIES RequestReturns
