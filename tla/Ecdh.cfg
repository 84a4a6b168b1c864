CONSTANTS
  KeyPairs = {p1, p2, p3, p4, p5, p6, p7, p8}
  NoKey = NoKey
  NULL = NULL
  Delays = {1, 2, 4}
  RefreshTimes = {3, 5, 6, 7, 9, 11}
  MsgDelay = 2
  Losses = {FALSE, TRUE}
  NoRow = NoRow
  MaxUpdates = 0
SPECIFICATION FairSpec
INVARIANTS
  TypeOK
  SecretsAgree
  SecretsNeverAgree
  MsgUnderCurrentKey
  ReplyIsReadable
  NoNullDereference
  ScriptCountsExchanges
  NoFalseSuccess
  SuccessIsOfTwoNodes
  PlotTimesNegotiations
  PlotCountsTwoPackets
  FilesEndInPairs
PROPERTIES
  AgreeAgainAndAgain
CHECK_DEADLOCK FALSE
