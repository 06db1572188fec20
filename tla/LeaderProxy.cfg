SPECIFICATION Spec
CONSTANTS
  Server = {a1, a2, a3, a4, a5}
  Peer = {a1, a2, a3, a4}
  NoHint = NoHint
  MaxElections = 2
CHECK_DEADLOCK FALSE
INVARIANTS CalledOnce StableLeaderExecutes
