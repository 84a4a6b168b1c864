CONSTANTS
  KeyPairs = {p1, p2, p3, p4, p5, p6, p7, p8}
  NoKey = NoKey
  NULL = NULL
  Delays = {3}
  RefreshTimes = {2, 20}
  MsgDelay = 2
  Losses = {FALSE}
  NoRow = NoRow
  MaxUpdates = 1
SPECIFICATION Spec
INVARIANTS
  MaxRoundsRespected
CHECK_DEADLOCK FALSE
