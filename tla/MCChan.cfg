CONSTANTS
  a = a
  b = b
  c = c
  Thread = {a, b, c}
  Ops <- MCOps
  Capacities = {1, 2}
  MaxSends = 3
SPECIFICATION Spec
INVARIANTS TypeOK CounterOrder AssertsHold NoSlotClash ReadsWhatWasSent
PROPERTIES ClosedMeansDrained ImplementsFIFO
