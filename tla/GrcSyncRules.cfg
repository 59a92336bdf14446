SPECIFICATION Spec
CONSTANTS
  Ids = {r1}
  Incidents = {n1}
  Capacity = 2
  Batch = 2
  MaxAttempts = 2
  PowWidth = 4
  Deletable = TRUE
  Requeued = TRUE
  Restorable = TRUE
  Central = TRUE
  CompleteFlags = {TRUE}
  Overlap = FALSE
  Crashes = TRUE
  Refusing = {}
  OnPlatform = {r1}
  MaxVersion = 2
  MaxRow = 3
  MaxFaults = 1
  MaxRemote = 0
INVARIANTS
  DeletionNotUndone
PROPERTIES
  TombstoneKept
  IncidentsEvictedLast
