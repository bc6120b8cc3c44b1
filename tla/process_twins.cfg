CONSTANTS
  d1 = d1
  d2 = d2
  c1 = c1
  c2 = c2
  Nobody = Nobody
  Daemons <- TwoDaemons
  Clis <- TwoClis
  ConcurrentStarts = TRUE
SPECIFICATION Spec
INVARIANT OneInstance
