CONSTANTS
  Server = {n1, n2, n3}
  Bootstrap = n1
  Nil = Nil
  NoTimer = NoTimer
  MaxElections = 1
  MaxHeartbeats = 2
  MaxOutstanding = 2
  MaxCrashes = 0
SPECIFICATION PromptSpec
SYMMETRY Followers
INVARIANT MatchIndexReplicated
CHECK_DEADLOCK FALSE
