CONSTANTS
  BlockSz = 4
  SPARSE_HEADER_SIZE = 1
  SPARSE_WAL_HEADER_SIZE = 1
  BufferBlocks = 1
  BarrierBlocks = 3
  ZoneCap = 4
  GroupZones = 3
  WalZones = 3
  Depth = 3
  AppendSizes = {3, 4}
  MaxUnits = 15
  SyncKinds = {"sync", "close"}
  MaxErrors = 0
  MaxNoSpace = 0
  MaxUnlogged = 0
  ReadSize = 3
SPECIFICATION ReadSpec
INVARIANTS ReadBack
CHECK_DEADLOCK FALSE
