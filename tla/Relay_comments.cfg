SPECIFICATION FairSpec
CONSTANTS
  Replies = {}
  Texts = {t}
  Comments = {c}
  Edits = {}
  Deletes = {}
  Changes = {a, b}
  Removals = {z}
  Plus = {b}
  Refusing = {"ticket", "dm", "log", "lookup"}
  MaxRestarts = 1
  None = None
CHECK_DEADLOCK FALSE

  
PROPERTIES
  Delivered
