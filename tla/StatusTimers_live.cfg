SPECIFICATION FairSpec
CONSTANTS
  Chans = {a}
  Mods = {x, y}
  Workers = {v, w}
  Faults = TRUE
  MaxRestarts = 1
  None = None
PROPERTIES
  PromiseKept
