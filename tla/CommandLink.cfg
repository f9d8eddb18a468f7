SPECIFICATION FairSpec
CONSTANTS
  Byte <- MCByte
  SOF = 165
  NoCrcCmd = {224, 227}
  SilentCmd = {224}
  HostFrames <- MCFrames
  NoFrame = NoFrame
  CmdDepth = 1
  MaxTrouble = 2
INVARIANTS TypeOK NoPhantom AckedRan
PROPERTIES GetsThrough
CHECK_DEADLOCK FALSE
