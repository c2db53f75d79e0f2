SPECIFICATION FairSpec
CONSTANTS
  t1 = t1
  t2 = t2
  t3 = t3
  p1 = p1
  p2 = p2
  a = a
  b = b
  Threads <- MCThreads
  Processes <- MCProcesses
  ProcessOf <- MCProcessOf
  Readers = {}
  Events <- MCEvents
  NoEvent = NoEvent
  NoThread = NoThread
  Backend = "excl"
  MaxCalls = 3
  MaxFaults = 1
CHECK_DEADLOCK FALSE
PROPERTY CallsReturn
