SPECIFICATION FairSpec
CONSTANTS
  Ids = {}
  Incidents = {n1}
  Capacity = 10
  Batch = 1
  MaxAttempts = 2
  PowWidth = 4
  Retry = Retry
  Other = Other
  Nothing = Nothing
  OutboxCapacity = 1
  Watchdog = TRUE
  MaxStops = 1
  MaxFaults = 1
  MaxPanics = 2
PROPERTIES
  SenderComesBack
  KeptSettles
