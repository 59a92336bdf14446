SPECIFICATION Spec
CONSTANTS
  Ids = {}
  Incidents = {n1, n2}
  Capacity = 10
  Batch = 2
  MaxAttempts = 2
  PowWidth = 4
  Retry = Retry
  Other = Other
  Nothing = Nothing
  OutboxCapacity = 2
  Watchdog = TRUE
  MaxStops = 1
  MaxFaults = 1
  MaxPanics = 1
INVARIANTS
  TypeOK
  UnsentExact
PROPERTIES
  KeptUntilReceived
  NothingDropped
