CONSTANTS
  Client = {c1}
  Key = {k1, k2, k3}
  Hours = {1, 2}
  MaxTime = 2
  MaxBans = 0
  MaxLifts = 1
  MaxLogins = 1
SPECIFICATION FairSpec
PROPERTIES PassSound ExpiredLeave
CHECK_DEADLOCK FALSE
