SPECIFICATION Spec
CONSTANTS
  Chans = {a, b}
  Mods = {x}
  Workers = {w}
  Faults = TRUE
  MaxRestarts = 0
  None = None
SYMMETRY Symmetry
INVARIANTS
  TypeOK
  ArmedIsInactive
PROPERTIES
  ReplyDisarms
