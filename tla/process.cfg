CONSTANTS
  d1 = d1
  d2 = d2
  c1 = c1
  c2 = c2
  Nobody = Nobody
  Daemons <- TwoDaemons
  Clis <- OneCli
  ConcurrentStarts = FALSE
SPECIFICATION FairSpec
INVARIANTS TypeOK OneInstance ProcessInv
PROPERTIES ToldServerStops ServerSpec
