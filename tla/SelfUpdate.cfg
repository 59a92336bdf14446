CONSTANTS
  RetryDelay = 2
  MaxVersion = 3
  MaxClock = 2
  MaxAttempts = 2
  MaxFaults = 1
SPECIFICATION FairSpec
INVARIANTS TypeOK RealOutcomeOnce
PROPERTIES ScheduledRetriesSpaced OutcomeReported RequestServed
CHECK_DEADLOCK FALSE
