CONSTANTS
  root = root
  graph = graph
  bridge = bridge
  NoNode = NoNode
  Nodes <- MCNodes
  Parent <- MCParent
  Deps <- MCDeps
  Rank <- MCRank
  Strict <- MCStrict
  MaxRetries = 1
  MaxCycles = 3
  MaxIterations = 4
  MaxRuns = 3
  MaxFaults = 2
SPECIFICATION FairSpec
INVARIANTS
  TypeOK
  CompletedIsBacked
  BudgetHolds
  StallNeedsRestart
  RegisterTracksNodes
PROPERTIES
  CompletedIsFinal
  RunEnds
CHECK_DEADLOCK FALSE
