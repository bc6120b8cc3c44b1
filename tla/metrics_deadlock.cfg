CONSTANTS
  w1 = w1
  w2 = w2
  Workers <- TwoWorkers
  Kinds <- FreshOnly
  MaxCalls = 2
  MaxDay = 0
SPECIFICATION FairSpec
CHECK_DEADLOCK FALSE
PROPERTY EveryCallReturns
