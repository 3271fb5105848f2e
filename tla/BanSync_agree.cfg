CONSTANTS
  Client = {c1, c2}
  Key = {k1}
  MaxCommands = 0
  MaxFaults = 0
  MaxLogins = 2
SPECIFICATION Spec
SYMMETRY Symmetry
INVARIANT AllClientsAgree
CHECK_DEADLOCK FALSE
