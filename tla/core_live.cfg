CONSTANTS
  k1 = k1
  k2 = k2
  k3 = k3
  c1 = c1
  c2 = c2
  NoKey = NoKey
  Keys <- TwoKeys
  Clients <- TwoClients
  Ensures <- AnyKey
  Closes <- AnyKey
  MaxConnections = 1
  HealthCheck = TRUE
  Reconnect = TRUE
  Faults <- MastersDie
  MaxNow = 0
SPECIFICATION FairSpec
PROPERTY DeadEntryHandled
