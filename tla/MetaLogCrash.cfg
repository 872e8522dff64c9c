CONSTANTS
  path1 = path1
  path2 = path2
  Names = {path1, path2}
  MaxId = 2
  MetaZones = 3
  ZoneBlocks = 4
  FilesPerBlock = 2
  MaxExtents = 1
  MaxSeq = 4
  MaxCrashes = 2
  MaxErrors = 1
SPECIFICATION Spec
INVARIANTS TypeOK NamespaceSurvives SyncedExtentsLogged
PROPERTY ImplementsDurableNames
SYMMETRY NameSymmetry
CHECK_DEADLOCK FALSE
