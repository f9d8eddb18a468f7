SPECIFICATION FairSpec
CONSTANTS
  RingSize = 8
  Cell <- Cells
  FrameCells = 2
  ProcessMax = 2
  Period = 1
  OfflineTimeout = 1
  MaxArrived = 5
  MaxStarts = 2
INVARIANTS TypeOK GapIsFlagged
PROPERTIES RingIsFifo SilenceShown
