CONSTANTS
  KeyPairs = {p1, p2, p3, p4, p5, p6, p7, p8}
  NoKey = NoKey
  NULL = NULL
  Delays = {1, 2, 3}
  RefreshTimes = {3, 4, 5, 6, 7, 9, 11, 15}
  MsgDelay = 2
  Losses = {FALSE}
  NoRow = NoRow
  MaxUpdates = 0
SPECIFICATION Spec
INVARIANTS
  KeyTooShortMeansLoss
CHECK_DEADLOCK FALSE
