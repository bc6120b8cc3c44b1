CONSTANTS
  k1 = k1
  k2 = k2
  k3 = k3
  c1 = c1
  c2 = c2
  NoKey = NoKey
  Keys <- ThreeKeys
  Clients <- TwoClients
  Ensures <- OneOpener
  Closes <- AnyKey
  MaxConnections = 2
  HealthCheck = TRUE
  Reconnect = FALSE
  Faults <- AllFaults
  MaxNow = 1
SPECIFICATION Spec
SYMMETRY KeySymmetry
INVARIANTS TypeOK WithinCapacity SerialInv NeverEvictsOwnTarget
PROPERTIES EvictsLeastRecentlyUsed PoolSpec OrphansExplained DriftExplained
