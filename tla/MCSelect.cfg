SPECIFICATION Spec
CONSTANTS
  p = p
  q = q
  r = r
  c1 = c1
  c2 = c2
  NULL = NULL
  Thread <- MCThread
  Channel <- MCChannel
  Capacity <- MCCapacity
  Cases <- MCCases
  MaxSends = 1
INVARIANTS OneCaseDone NothingLost FinishedIsOver AloneFindsReady
PROPERTIES LoopsEnd
CHECK_DEADLOCK FALSE
