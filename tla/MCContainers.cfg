CONSTANTS
  NULL = NULL
  ListNodes <- MCNodes
  ListValues <- MCTwoKeys
  ListOrder = 1
  JUNK = JUNK
  ArrayValues <- MCTwoKeys
  ArrayOrder = 1
  ArrayNull = NULL
  MinCapacity = 2
  MaxSlots = 6
  InsertionMax = 2
  Convert <- MCConvert
  Join <- MCJoin
  QueueEntries <- MCThreeKeys
  QueueOrder = 1
  QueueMinCapacity = 3
  QueueMaxSlots = 10
  NaN = NaN
  Inf <- MCInf
  One = 8
  Finite <- MCFinite
  Points <- MCPoints
  Ints <- MCInts
  Exponents <- MCExponents
  Some <- MCSome
  Terms <- MCTerms
  FineFinite <- MCFineFinite
  FineInf <- MCFineInf
  FineOne = 16
  Pi2n = 176
  Pi2d = 7
  Pi2 = 24
  Turns <- MCTurns
  GroupBits = 2
  RvBits = 5
  SizeBits = 4
  MaxLen = 4
  Strings <- MCStrings
  Found <- MCFound
  Data <- MCData
SPECIFICATION MCSpec
VIEW MCView
CONSTRAINT MCBound
INVARIANTS ListLinked EntriesInBlock Encloses Tight ExtremaSeen FilesReadBack DamageSeen
PROPERTIES ImplementsValueList ImplementsSequence ImplementsBag
