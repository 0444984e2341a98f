CONSTANTS
  NULL = NULL
  Keys <- MCKeys
  Values <- MCKeys
  Inserts <- MCInserts
  Combine <- MCCombine
  DefaultOrder = 1
  Histories <- MCHistories
SPECIFICATION Spec
CONSTRAINT Bound
VIEW View
INVARIANTS Linked Balanced ChildrenFirst
PROPERTIES ImplementsOrderedMap
