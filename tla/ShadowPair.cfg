SPECIFICATION Safety
CONSTANTS
  x = x
  y = y
  z = z
  Ids <- MCIds
  Sizes <- MCSizes
  InitCap = 2
  Capacities = {1, 3}
  Extras = {1}
  MaxReqs = 1
SYMMETRY Symmetry
INVARIANTS TypeOK SizeIsSum Inclusion
