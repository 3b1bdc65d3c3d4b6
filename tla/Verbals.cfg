SPECIFICATION Spec
CONSTANTS
  Warnings = {w}
  Notes = {n}
  Edits = {e, f}
  Deletes = {d}
  Mods = {m, u}
  User = u
  Failing = {"mysql", "dm", "lookup"}
  MaxGiven = 4
  MaxRestarts = 1
  None = None
SYMMETRY Symmetry
INVARIANTS TypeOK RowDelivered RowAgrees NoteSaved
CHECK_DEADLOCK FALSE
