SPECIFICATION FairSpec
CONSTANTS
  Guilds = {g, h}
  Forms = {f1, f2}
  DMs = {}
  Closes = {k1}
  Faults = TRUE
  MaxRestarts = 1
  None = None
INVARIANTS
  TypeOK
  CachedIsRecorded
PROPERTIES
  TicketSpec
  ClosedChannelGoes
  StaleEntryGoes
