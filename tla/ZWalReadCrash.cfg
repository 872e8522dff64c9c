CONSTANTS
  BlockSz = 6
  SPARSE_HEADER_SIZE = 2
  SPARSE_WAL_HEADER_SIZE = 1
  BufferBlocks = 1
  BarrierBlocks = 3
  ZoneCap = 4
  GroupZones = 3
  WalZones = 3
  Depth = 3
  AppendSizes = {4, 6}
  MaxUnits = 22
  SyncKinds = {"close"}
  MaxErrors = 1
  MaxNoSpace = 0
  MaxUnlogged = 0
  ReadSize = 3
SPECIFICATION ReadSpec
INVARIANTS ReadBack CrashPrefix
PROPERTY ReaderTerminates
CHECK_DEADLOCK FALSE
