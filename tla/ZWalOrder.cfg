CONSTANTS
  BlockSz = 4
  SPARSE_HEADER_SIZE = 1
  SPARSE_WAL_HEADER_SIZE = 1
  BufferBlocks = 2
  BarrierBlocks = 4
  ZoneCap = 3
  GroupZones = 2
  WalZones = 4
  Depth = 3
  AppendSizes = {1, 5}
  MaxUnits = 9
  SyncKinds = {"sync", "fsync"}
  MaxErrors = 0
  MaxNoSpace = 1
  MaxUnlogged = 1
SPECIFICATION Spec
INVARIANTS TypeOK BarrierOrder ChunkAligned SyncDurable
PROPERTY ImplementsChunkLog
CHECK_DEADLOCK FALSE
