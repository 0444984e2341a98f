CONSTANTS
  NULL = NULL
  DELETED = DELETED
  MinCapacity = 8
  Threads = {t1, t2}
  Keys <- MCKeys
  Values = {1, 2, 3, 4, 5, 6, 7, 8, 9}
  Calls <- MCCalls
  Combine <- MCCombine
  FirstHash <- MCFirstHash
  SecondHash <- MCSecondHash
  DefaultComp = FALSE
  Histories <- MCHistories
  MaxCapacity = 16
  MaxCalls = 3
SPECIFICATION Spec
CHECK_DEADLOCK FALSE
VIEW View
INVARIANTS HeldInside SlotKept
PROPERTIES ImplementsMap
