CONSTANTS
  Client = {c1, c2}
  Sharing = {c1, c2}
  MaxQueue = 2
  MaxLogins = 2
  MaxPublic = 1
  MaxLosses = 1
  MaxRestarts = 1
SPECIFICATION FairSpec
INVARIANT TypeOK
PROPERTIES QuitNoticed RunningSeen
CHECK_DEADLOCK FALSE
