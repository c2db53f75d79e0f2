SPECIFICATION FairSpec
CONSTANTS
  o1 = o1
  o2 = o2
  Executors = {x1, x2}
  Ops <- MCOps
  NoOp = NoOp
  Absent = Absent
  MaxFaults = 3
INVARIANTS
  TypeOK
  CommandsAccounted
PROPERTIES
  ActionsEnd
CHECK_DEADLOCK FALSE
