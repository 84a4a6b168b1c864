CONSTANTS
  K = 1
  N = 1
  L = 1
  LearnRule = "hebbian"
  NoKey = NoKey
  NULL = NULL
  NoRow = NoRow
  Plenty = Plenty
  RoundThreshold = 2
  Overlap = FALSE
  MaxLoad = 0
  Lossy = TRUE
  PortCounts = {1, 2, 3, 4, 5, 6}
SPECIFICATION FairPortsSpec
INVARIANTS
  MsgMeetsKey
  KeyRowsArePairs
PROPERTIES
  ConfirmedOrExhausted
