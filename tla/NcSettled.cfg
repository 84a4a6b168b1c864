CONSTANTS
  K = 2
  N = 1
  L = 1
  LearnRule = "hebbian"
  NoKey = NoKey
  NULL = NULL
  RoundThreshold = 2
  Overlap = FALSE
  MaxLoad = 0
  Lossy = TRUE
SPECIFICATION Spec
INVARIANTS
  TypeOK
  RoundsInLockstep
  KeyAtThreshold
  FinalOnce
  MsgUnderCurrentKey
  NeverStalls
  KeyTooShortMeansLoss
  KeysAgreeIffInSync
PROPERTIES
  SyncIsKept
  ImplementsMutualLearning
