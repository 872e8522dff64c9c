CONSTANTS
  BlockSz = 4
  SPARSE_HEADER_SIZE = 1
  SPARSE_WAL_HEADER_SIZE = 1
  BufferBlocks = 1
  BarrierBlocks = 3
  ZoneCap = 4
  GroupZones = 2
  WalZones = 2
  Depth = 3
  AppendSizes = {1, 3}
  MaxUnits = 11
  SyncKinds = {"sync", "close"}
  MaxErrors = 0
  MaxNoSpace = 0
  MaxUnlogged = 0
SPECIFICATION Spec
PROPERTY SyncCoversBuffer
CHECK_DEADLOCK FALSE
