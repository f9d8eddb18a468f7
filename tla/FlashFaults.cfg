SPECIFICATION Spec
CONSTANTS
  Task = {t1, t2, t3}
  Slots = 2
  PreSectors = 1
  DataSectors = 2
  SectorWords = 3
  BlockSectors = 3
  Calls = {"BeginTask", "RewriteHeader", "AppendData", "ReadData", "DeleteTask", "EraseAll"}
  MaxSeq = 3
  MaxRecords = 3
  MaxErases = 1
  MaxResets = 1
  MaxFaults = 1
SYMMETRY Symmetry
INVARIANTS AckedInPlace SlotsConsistent
