SPECIFICATION StorageSpec
CONSTANTS
  Thread = {t1, t2}
  State = {fresh, s1}
  Fresh = fresh
  Missing = Missing
  Empty = Empty
  MaxVersion = 4
  Size <- MCSize
  Blank = blank
  Unreadable = unreadable
  MaxFileSize = 4
  MaxBatch = 3
  MaxLogSize = 6
  MaxCuts = 2
  MaxRestarts = 2
SYMMETRY Threads
INVARIANTS SerialInv StoredSurvives RestoredLatest PagesTile SlicesAgree
 
CHECK_DEADLOCK FALSE
