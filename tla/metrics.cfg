CONSTANTS
  w1 = w1
  w2 = w2
  Workers <- TwoWorkers
  Kinds <- Typical
  MaxCalls = 3
  MaxDay = 1
SPECIFICATION FairSpec
CHECK_DEADLOCK FALSE
INVARIANTS TypeOK PairInv FilePairsDayWithTotals HostsInv
PROPERTIES LedgerSpec EveryCallReturns
