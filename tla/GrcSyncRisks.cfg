SPECIFICATION Spec
CONSTANTS
  Ids = {r1}
  Incidents = {}
  Capacity = 10
  Batch = 2
  MaxAttempts = 2
  PowWidth = 4
  Deletable = TRUE
  Requeued = FALSE
  Restorable = FALSE
  Central = FALSE
  CompleteFlags = {TRUE, FALSE}
  Overlap = FALSE
  Crashes = TRUE
  Refusing = {}
  OnPlatform = {}
  MaxVersion = 4
  MaxRow = 4
  MaxFaults = 1
  MaxRemote = 1
INVARIANTS
  TypeOK
  DeletedStaysDeleted
PROPERTIES
  NothingVanishes
  InOrderUnlessDelayed
