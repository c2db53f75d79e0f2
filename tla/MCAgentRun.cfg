SPECIFICATION Spec
CONSTANTS
  Steps = 2
  Recoveries = 2
  MaxCheckpoints = 1
  Returned <- MCReturned
  MaxSteps = 3
  MaxRetries = 1
  MaxRuns = 3
  MaxFaults = 1
INVARIANTS
  TypeOK
  ClosedMeansDone
  OrderKept
  HandoffBehindMemory
CHECK_DEADLOCK FALSE
