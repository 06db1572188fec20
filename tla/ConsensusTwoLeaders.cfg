CONSTANTS
  Server = {n1, n2, n3}
  Bootstrap = n1
  Nil = Nil
  NoTimer = NoTimer
  MaxElections = 2
  MaxHeartbeats = 1
  MaxOutstanding = 1
  MaxCrashes = 0
SPECIFICATION Spec
SYMMETRY Followers
INVARIANT OneLeaderPerTerm
CHECK_DEADLOCK FALSE
