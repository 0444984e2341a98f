CONSTANTS
  NULL = NULL
  Pools = {p, q}
  Var = {x, y}
  InitSizes = {0, 1, 2, 4}
  SizeMax = 9
  EntrySize = 3
  MaxOrphans = 1
SPECIFICATION PoolSpec
SYMMETRY Symmetry
INVARIANTS FreeListIsStack FreeOrInUse
PROPERTIES UsedUntilPut
