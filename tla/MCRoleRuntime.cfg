SPECIFICATION Spec
CONSTANTS
  Layout <- MCLayout
  Configured = {"manager"}
  Pressed <- MCPressed
  WaitFor <- MCWaitFor
  Ids <- MCIds
  Limits = {1, 4}
  MaxMessages = 2
  MaxChanges = 2
  MaxFaults = 1
INVARIANTS
  TypeOK
  QueueIsHistory
PROPERTIES
  NoWorkBeyondTolerance
CHECK_DEADLOCK FALSE
