CONSTANTS
  NULL = NULL
  DELETED = DELETED
  MinCapacity = 8
  Keys <- MCKeys
  Values = {1, 2, 3, 4, 5}
  Puts <- MCPuts
  Combine <- MCCombine
  Change <- MCChange
  HashFuncs <- MCHashFuncs
  DefaultHash = NULL
  DefaultComp = FALSE
  ExpectedSizes <- MCSizes
  MaxCapacity = 16
SPECIFICATION Spec
CONSTRAINT Bound
VIEW View
INVARIANTS ProbesEnd LoadBounded
PROPERTIES ImplementsMap
