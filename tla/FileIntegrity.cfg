SPECIFICATION Spec
CONSTANTS
  f1 = f1
  f2 = f2
  Files <- MCFiles
  Present <- MCPresent
  Policies <- MCPolicies
  LocalPolicy <- OnlyOne
  AlertCapacity = 1
  MaxEvents = 3
  MaxStarts = 2
  MaxRescans = 1
  MaxWork = 4
INVARIANTS
  TypeOK
  NothingUnsaid
  SavedUnlessDirty
PROPERTIES
  NeverBackwards
  ScanFindsAll
CHECK_DEADLOCK FALSE
