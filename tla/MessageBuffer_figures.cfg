SPECIFICATION Spec
CONSTANTS
  Free = Free
  Msgs = {m1, m2}
  Legacy = {m1}
  Closes = {c1}
  Reports = {s1}
  Exports = {}
  Owners = {}
  Limit = 2
  Faults = FALSE
  MaxRestarts = 0
INVARIANTS
  FiguresComplete
