CONSTANTS
  pool = pool
  NULL = NULL
  Thread = {t1, t2}
  Var = {x, y}
  InitSizes = {0, 1}
  SizeMax = 6
  EntrySize = 3
  MaxOrphans = 1
SPECIFICATION FairSpec
PROPERTIES ImplementsPool CallsReturn
