CONSTANTS
  Server = {n1, n2, n3}
  Bootstrap = n1
  Nil = Nil
  NoTimer = NoTimer
  MaxElections = 2
  MaxHeartbeats = 2
  MaxOutstanding = 1
  MaxCrashes = 0
SPECIFICATION PromptSpec
SYMMETRY Followers
INVARIANTS TypeOK ElectionInv OneLeaderPerTerm LogMatching CommittedLogsAgree LeaderCompleteness NoHandlerThrows DurableVote
PROPERTIES TermMonotonic CommittedKept
CHECK_DEADLOCK FALSE
