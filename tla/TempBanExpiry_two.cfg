CONSTANTS
  Client = {c1, c2}
  Key = {k1, k2}
  Hours = {1}
  MaxTime = 1
  MaxBans = 1
  MaxLifts = 0
  MaxLogins = 2
SPECIFICATION Spec
SYMMETRY Symmetry
INVARIANTS TypeOK MapMatchesVector
PROPERTY RunningBansStay
CHECK_DEADLOCK FALSE
