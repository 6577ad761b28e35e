SPECIFICATION Spec
CONSTANTS
  Sessions = {s1, s2}
  Stops = {c1, c2}
  None = None
  Casts <- MCCasts
  MaxServed = 1
  MaxDays = 1
  MaxFaults = 1
SYMMETRY MCSymmetry
INVARIANTS
  MarkedWhileItMatters
  StopsHandOver
CHECK_DEADLOCK FALSE
