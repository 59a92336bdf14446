SPECIFICATION FairSpec
CONSTANTS
  Commands = {c1, c2, c3}
  Refused = {c1, c2}
  FlushBatch = 2
  MaxExecutions = 3
  MaxFaults = 1
  MaxCrashes = 1
INVARIANTS
  TypeOK
PROPERTIES
  FirstOutcomeDelivered
  ResultsDelivered
