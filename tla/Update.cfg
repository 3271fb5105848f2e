CONSTANTS
  Process = {p1, p2, p3, p4}
  MaxVersion = 2
  MaxStarts = 2
  MaxFailures = 1
  MaxPending = 2
SPECIFICATION FairSpec
INVARIANTS TypeOK NeverOlder ProgramLeft
PROPERTY UpdateSettles
CHECK_DEADLOCK FALSE
