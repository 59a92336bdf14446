SPECIFICATION FairSpec
CONSTANTS
  Ids = {r1, r2}
  Incidents = {n1}
  Capacity = 2
  Batch = 1
  MaxAttempts = 1
  PowWidth = 3
  Deletable = TRUE
  Requeued = FALSE
  Restorable = FALSE
  Central = FALSE
  CompleteFlags = {TRUE}
  Overlap = FALSE
  Crashes = FALSE
  Refusing = {}
  OnPlatform = {r1, r2}
  MaxVersion = 3
  MaxRow = 3
  MaxFaults = 0
  MaxRemote = 0
PROPERTIES
  SyncedMeansReceived
  DeletionsDelivered
