SPECIFICATION Spec
CONSTANTS
  Replies = {r}
  Texts = {}
  Comments = {}
  Edits = {}
  Deletes = {}
  Changes = {}
  Removals = {}
  Plus = {}
  Refusing = {"dm"}
  MaxRestarts = 0
  None = None
CHECK_DEADLOCK FALSE
INVARIANTS
  UndeliveredIsTold
