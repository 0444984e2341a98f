CONSTANTS
  a = a
  b = b
  c = c
  Thread = {a, b, c}
  Ops <- MCBlockingOps
  Capacities = {1, 2}
  MaxSends = 2
SPECIFICATION FairSpec
PROPERTIES ClaimsComplete CloseReleasesAll NobodyStarves
