SPECIFICATION FairSpec
CONSTANTS
  Chunk = 2
  Window = 2
  WindowMax = 3
  CmdDepth = 2
  AirDepth = 3
  MaxRetry = 4
  MaxFile = 5
  MaxLost = 2
  MaxEarly = 1
  MaxBreaks = 1
INVARIANTS TypeOK
PROPERTIES PullIsTransfer PullCompletes
CHECK_DEADLOCK FALSE
