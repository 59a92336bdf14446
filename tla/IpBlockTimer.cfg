CONSTANTS
  Addresses = {a1}
  Spellings = {"plain"}
  Systems = {"linux", "macos"}
  Slots = {t1}
  Durations = {0, 1}
  Failing = {}
  MaxClock = 2
  MaxFaults = 0
  MaxCrashes = 0
  MaxRequests = 2
  MaxEvents = 2
  FirstRequests = {a1}
SPECIFICATION Spec
PROPERTY LiftedNotBeforeItsEnd
CHECK_DEADLOCK FALSE
