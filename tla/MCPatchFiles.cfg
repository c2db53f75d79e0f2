SPECIFICATION Spec
CONSTANTS
  f = f
  g = g
  a = a
  b = b
  u = u
  Missing = Missing
  Files <- MCFiles
  Lines <- MCLines
  Contents <- MCContents
  Diffs <- MCDiffs
  Sensitive <- MCSensitive
  Ascii <- MCAscii
  MaxCalls = 2
  MaxFaults = 1
  MaxEdits = 1
INVARIANTS
  TypeOK
  WholeOrNothing
  CompletedIsPatched
CHECK_DEADLOCK FALSE
