SPECIFICATION FairSpec
CONSTANTS
  Replies = {r}
  Texts = {}
  Comments = {}
  Edits = {e, f}
  Deletes = {d}
  Changes = {}
  Removals = {}
  Plus = {}
  Refusing = {"ticket", "dm", "log", "lookup"}
  MaxRestarts = 1
  None = None
CHECK_DEADLOCK FALSE
INVARIANTS
  TypeOK
  LogComplete
  LinkedIsWhole
  AgreeWhenQuiet
PROPERTIES
  Delivered
