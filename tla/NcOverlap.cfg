CONSTANTS
  K = 1
  N = 1
  L = 1
  LearnRule = "hebbian"
  NoKey = NoKey
  NULL = NULL
  RoundThreshold = 2
  Overlap = TRUE
  MaxLoad = 2
  Lossy = TRUE
SPECIFICATION Spec
INVARIANTS
  NoNullDereference
PROPERTIES
  OnlyRefreshAddsPackets
CHECK_DEADLOCK FALSE
