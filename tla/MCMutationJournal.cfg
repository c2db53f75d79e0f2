SPECIFICATION Spec
CONSTANTS
  w1 = w1
  w2 = w2
  e1 = e1
  x1 = x1
  x2 = x2
  Executors <- MCExecutors
  Keys <- MCKeys
  Overwrites <- MCOverwrites
  NoKey = NoKey
  MaxCalls = 4
  MaxFaults = 1
SYMMETRY MCSymmetry
INVARIANTS
  TypeOK
  JournalIsTrue
  RepeatsAreBounded
CHECK_DEADLOCK FALSE
