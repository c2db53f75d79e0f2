SPECIFICATION Spec
CONSTANTS
  c1 = c1
  c2 = c2
  n1 = n1
  n2 = n2
  Callers <- MCCallers
  Notes <- MCNotes
  Execution = Execution
  Cap = 2
  MaxRevision = 4
  MaxRuns = 3
  MaxFaults = 2
CONSTRAINT NoGap
SYMMETRY MCSymmetry
INVARIANTS
  TypeOK
  AckedNotesKept
  RevisionNamesContext
CHECK_DEADLOCK FALSE
