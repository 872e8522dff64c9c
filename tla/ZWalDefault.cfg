CONSTANTS
  BlockSz = 4
  SPARSE_HEADER_SIZE = 1
  SPARSE_WAL_HEADER_SIZE = 1
  BufferBlocks = 1
  BarrierBlocks = 3
  ZoneCap = 4
  GroupZones = 2
  WalZones = 2
  Depth = 3
  AppendSizes = {1, 3}
  MaxUnits = 7
  SyncKinds = {"sync", "close"}
  MaxErrors = 1
  MaxNoSpace = 0
  MaxUnlogged = 1
SPECIFICATION Spec
INVARIANTS FaithfulEntries ExtentsFollowSeq CloseDurable ActiveExtentOnDevice
PROPERTIES SyncReturns AppendReturns
CHECK_DEADLOCK FALSE
