CONSTANTS
  Client = {c1, c2}
  Key = {k1}
  Hours = {1}
  MaxTime = 1
  MaxBans = 2
  MaxLifts = 0
  MaxLogins = 3
SPECIFICATION Spec
SYMMETRY Symmetry
INVARIANT BansLast
CHECK_DEADLOCK FALSE
