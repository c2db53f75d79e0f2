SPECIFICATION FairSpec
CONSTANTS
  r1 = r1
  r2 = r2
  v1 = v1
  v2 = v2
  Missing = Missing
  Readers <- MCReaders
  Versions <- MCVersions
  Length <- MCLength
  Sizes <- MCSizes
INVARIANTS
  TypeOK
  WholeFile
PROPERTY
  ReadsReturn
