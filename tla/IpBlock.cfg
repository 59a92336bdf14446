CONSTANTS
  Addresses = {a1, a2}
  Spellings = {"plain"}
  Systems = {"linux", "macos"}
  Slots = {t1, t2}
  Durations = {0, 1}
  Failing = {"add", "lift", "enable", "token", "anchor", "save", "release", "ledger", "read"}
  MaxClock = 1
  MaxFaults = 1
  MaxCrashes = 1
  MaxRequests = 2
  MaxEvents = 3
  FirstRequests = {a1}
SPECIFICATION FairSpec
INVARIANTS  BlockedAsAsked NoHalfBlock PfMatchesRecord
PROPERTIES TimedBlockEnds OneAddressAtATime
CHECK_DEADLOCK FALSE
