CONSTANTS
  a = a
  b = b
  c = c
  Thread = {a, b, c}
  Ops <- MCOps
  Capacities = {1}
  MaxSends = 2
SPECIFICATION FullSpec
PROPERTIES NotFullAfterEmpty
