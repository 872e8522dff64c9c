CONSTANTS
  a = a
  b = b
  x = x
  y = y
  IOThreads = {}
  WALThreads = {x, y}
  IOZones = 0
  WALZones = 4
  GroupZones = 2
  Cap = 1
  MaxOpen = 1
  MaxActive = 2
  FinishBelow = 0
  WriteSizes = {1, 2}
  Lifetimes = {3}
  MaxDrift = 1
SPECIFICATION Spec
INVARIANTS ZonesExclusive DataKept OpenTokensReturned GroupsExclusive
SYMMETRY ThreadSymmetry
CHECK_DEADLOCK FALSE
