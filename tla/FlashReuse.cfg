SPECIFICATION Spec
CONSTANTS
  Task = {t1, t2, t3}
  Slots = 2
  PreSectors = 1
  DataSectors = 2
  SectorWords = 3
  BlockSectors = 3
  Calls = {"BeginTask", "RewriteHeader", "AppendData", "AppendPreData", "ReadData", "DeleteTask", "EraseAll"}
  MaxSeq = 3
  MaxRecords = 4
  MaxErases = 1
  MaxResets = 1
  MaxFaults = 0
SYMMETRY Symmetry
INVARIANTS TypeOK FreshWords
