CONSTANTS
  sst1 = sst1
  sst2 = sst2
  Names = {sst1, sst2}
  TempNames = {}
  Readers = {}
  IOZones = 2
  ZoneCap = 2
  Lengths = {1}
  MaxExtents = 2
  MaxId = 3
  GC_START_LEVEL = 99
  GC_SLOPE = 1
  MaxFaults = 0
SPECIFICATION Spec
INVARIANT MigrationKeepsFiles
CHECK_DEADLOCK FALSE
