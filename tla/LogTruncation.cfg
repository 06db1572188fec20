SPECIFICATION LogSpec
CONSTANTS
  Size <- MCSize
  Blank = blank
  Unreadable = unreadable
  MaxFileSize = 4
  MaxBatch = 3
  MaxLogSize = 6
  MaxCuts = 2
  MaxRestarts = 2
CHECK_DEADLOCK FALSE
PROPERTY ImplementsLog
