CONSTANTS
  Client = {c1, c2}
  Key = {k1, k2}
  Kind = "city"
  MaxCommands = 2
  MaxFaults = 1
  MaxLogins = 3
SPECIFICATION Spec
SYMMETRY Symmetry
INVARIANTS TypeOK ListenersMatch CommandsStand
CHECK_DEADLOCK FALSE
