SPECIFICATION Spec
CONSTANTS
  Task = {t1, t2}
  Slots = 2
  PreSectors = 1
  DataSectors = 2
  SectorWords = 3
  BlockSectors = 3
  Calls = {"BeginTask", "AppendData", "DeleteTask"}
  MaxSeq = 3
  MaxRecords = 4
  MaxErases = 1
  MaxResets = 0
  MaxFaults = 0
PROPERTY DeleteIsExact
