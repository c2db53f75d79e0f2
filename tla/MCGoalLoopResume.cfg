CONSTANTS
  root = root
  graph = graph
  bridge = bridge
  NoNode = NoNode
  Nodes <- MCNodes
  Parent <- MCParent
  Deps <- MCDeps
  Rank <- MCRank
  Strict <- MCStrict
  MaxRetries = 0
  MaxCycles = 3
  MaxIterations = 4
  MaxRuns = 2
  MaxFaults = 0
SPECIFICATION Spec
INVARIANTS
  ResumedRunFinishes
CHECK_DEADLOCK FALSE
