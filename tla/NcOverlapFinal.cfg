CONSTANTS
  K = 1
  N = 1
  L = 1
  LearnRule = "hebbian"
  NoKey = NoKey
  NULL = NULL
  RoundThreshold = 2
  Overlap = TRUE
  MaxLoad = 2
  Lossy = FALSE
SPECIFICATION Spec
INVARIANTS
  NoFinalAfterFinal
CHECK_DEADLOCK FALSE
