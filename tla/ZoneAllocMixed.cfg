CONSTANTS
  a = a
  b = b
  x = x
  y = y
  IOThreads = {a, b}
  WALThreads = {x}
  IOZones = 2
  WALZones = 1
  GroupZones = 1
  Cap = 3
  MaxOpen = 3
  MaxActive = 2
  FinishBelow = 2
  WriteSizes = {2}
  Lifetimes = {3}
  MaxDrift = 0
SPECIFICATION Spec
INVARIANTS TypeOK ZonesExclusive DataKept OpenTokensReturned
SYMMETRY ThreadSymmetry
