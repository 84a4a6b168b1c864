CONSTANTS
  K = 2
  N = 2
  L = 1
  LearnRule = "hebbian"
  NoKey = NoKey
  None = None
  RoundThreshold = 2
SPECIFICATION Spec
INVARIANTS
  TypeOK
  AttractiveSteps
  KeysAgreeIffSynchronised
