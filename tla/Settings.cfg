SPECIFICATION FairSpec
CONSTANTS
  Tasks = {x, y}
  Names = {n, m}
  Used = {"read", "refresh", "setup", "write", "toggle", "ping", "clear", "remove", "add", "drop", "grant", "regrant", "ban", "unban"}
  Failing = {"mysql", "redis", "send"}
  MaxRestarts = 1
  None = None
INVARIANTS TypeOK EntryFollows RolesKnown BlacklistAgrees
PROPERTIES StaleEnds
CHECK_DEADLOCK FALSE
