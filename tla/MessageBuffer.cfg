SPECIFICATION FairSpec
CONSTANTS
  Free = Free
  Msgs = {m1, m2, m3}
  Legacy = {m1}
  Closes = {c1}
  Reports = {}
  Exports = {}
  Owners = {o1}
  Limit = 2
  Faults = TRUE
  MaxRestarts = 1
INVARIANTS
  TypeOK
  NothingLost
  StatisticsComplete
PROPERTIES
  ArchiveSpec
  FlushReturns
