CONSTANTS
  Instruments <- MCInstruments
  Priorities = {1, 2}
  MinDists = {2}
  OneMinDist = TRUE
  EvalDate = 2
  FrontFuturesRollingDays = 1
  MaxInstruments = 4
  MaxFutures = 2
CHECK_DEADLOCK FALSE
SPECIFICATION Spec
INVARIANTS
  IteratorInRange
  Spaced
  DominantSurvives
  FrontFuturesFill
  DeposMakeWay
