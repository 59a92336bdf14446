SPECIFICATION FairSpec
CONSTANTS
  Ids = {}
  Incidents = {n1}
  Capacity = 10
  Batch = 1
  MaxAttempts = 2
  PowWidth = 4
  Retry = Retry
  Other = Other
  Nothing = Nothing
  OutboxCapacity = 1
  Watchdog = FALSE
  MaxStops = 0
  MaxFaults = 0
  MaxPanics = 1
PROPERTIES
  SenderComesBack
CHECK_DEADLOCK FALSE
