SPECIFICATION RunnerSpec
CONSTANTS
  Tests = 3
  Workers = {w1, w2}
INVARIANTS
  EachTestInOnePlace
  SummaryIsTrue
PROPERTY
  ReturnsUnlessWorkerDies
CHECK_DEADLOCK FALSE
