CONSTANTS
  k1 = k1
  k2 = k2
  k3 = k3
  c1 = c1
  c2 = c2
  NoKey = NoKey
  Keys <- ThreeKeys
  Clients <- TwoClients
  Ensures <- OwnKeys
  Closes <- OwnKeys
  MaxConnections = 1
  HealthCheck = FALSE
  Reconnect = FALSE
  Faults <- MastersDie
  MaxNow = 1
SPECIFICATION Spec
INVARIANTS NoOrphan EveryEntryAnnounced ExclusiveInv
