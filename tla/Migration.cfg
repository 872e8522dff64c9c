CONSTANTS
  sst1 = sst1
  sst2 = sst2
  Names = {sst1, sst2}
  TempNames = {sst1}
  Readers = {}
  IOZones = 2
  ZoneCap = 2
  Lengths = {1}
  MaxExtents = 2
  MaxId = 2
  GC_START_LEVEL = 99
  GC_SLOPE = 1
  MaxFaults = 1
SPECIFICATION Spec
INVARIANTS TypeOK ContentSurvives UsedCapacityExact
CHECK_DEADLOCK FALSE
