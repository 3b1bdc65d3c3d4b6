SPECIFICATION Spec
CONSTANTS
  main = main
  sub = sub
  Channels = {a, b}
  Messages = {p}
  Mods = {m}
  Timer = Timer
  Servers = {one, two}
  Types = {main, sub}
  Parent <- MCParent
  Day = 2
  Week = 2
  Spans = {1}
  MaxTime = 2
  MaxRemovals = 1
  None = None
INVARIANTS TypeOK CommandsAgree PartsAddUp WeeksAddUp TypesAddUp
SYMMETRY Symmetry
CHECK_DEADLOCK FALSE
