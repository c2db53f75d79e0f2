SPECIFICATION Spec
CONSTANTS
  t1 = t1
  t2 = t2
  t3 = t3
  p1 = p1
  p2 = p2
  a = a
  b = b
  Threads <- MCThreads
  Processes <- MCProcesses
  ProcessOf <- MCProcessOf
  Readers = {r1}
  Events <- MCEvents
  NoEvent = NoEvent
  NoThread = NoThread
  Backend = "advisory"
  MaxCalls = 3
  MaxFaults = 2
SYMMETRY MCSymmetry
INVARIANT TypeOK
INVARIANT WritersApart
INVARIANT ViewIsHistory
PROPERTY ImplementsLog
CHECK_DEADLOCK FALSE
