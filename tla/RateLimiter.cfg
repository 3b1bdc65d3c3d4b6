SPECIFICATION Spec
CONSTANTS
  send = send
  edit = edit
  Calls = {a, b, c}
  Routes = {send, edit}
  Places <- MCPlaces
  Delay <- MCDelay
  Max = 1
  Window = 1
  RetryAfter = {0}
  None = None
INVARIANTS TypeOK WindowHolds
PROPERTIES RouteRests GateRespected CallReturns
CHECK_DEADLOCK FALSE
