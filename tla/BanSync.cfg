CONSTANTS
  Client = {c1, c2}
  Key = {k1}
  MaxCommands = 2
  MaxFaults = 1
  MaxLogins = 2
SPECIFICATION Spec
SYMMETRY Symmetry
INVARIANTS TypeOK ListenersFollow OwnedKeysAgree
CHECK_DEADLOCK FALSE
