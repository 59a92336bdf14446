CONSTANTS
  Space <- MCSpace
  Slots = {t1}
  Networks <- MCNetworks
  Durations = {0, 1}
  Failing = {"clear", "build", "hook", "store", "drop"}
  MaxClock = 2
  MaxFaults = 2
  MaxCrashes = 1
  MaxRequests = 3
SPECIFICATION FairSpec
INVARIANTS TypeOK InAgreement FilteringIsRecorded SameHoles
PROPERTIES NotLiftedEarly TimedIsolationEnds
CHECK_DEADLOCK FALSE
