CONSTANTS
  path1 = path1
  path2 = path2
  Names = {path1, path2}
  MaxId = 3
  MetaZones = 3
  ZoneBlocks = 4
  FilesPerBlock = 4
  MaxExtents = 0
  MaxSeq = 4
  MaxCrashes = 0
  MaxErrors = 0
SPECIFICATION Spec
INVARIANTS NamespaceLogged
SYMMETRY NameSymmetry
CHECK_DEADLOCK FALSE
