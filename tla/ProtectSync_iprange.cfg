CONSTANTS
  Client = {c1, c2}
  Key = {k1, k2}
  Kind = "iprange"
  MaxCommands = 2
  MaxFaults = 0
  MaxLogins = 3
SPECIFICATION Spec
SYMMETRY Symmetry
INVARIANT ListenersMatch
CHECK_DEADLOCK FALSE
