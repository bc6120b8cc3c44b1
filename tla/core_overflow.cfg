CONSTANTS
  k1 = k1
  k2 = k2
  k3 = k3
  c1 = c1
  c2 = c2
  NoKey = NoKey
  Keys <- TwoKeys
  Clients <- TwoClients
  Ensures <- AnyKey
  Closes <- NoneOf
  MaxConnections = 1
  HealthCheck = FALSE
  Reconnect = FALSE
  Faults <- NoFaults
  MaxNow = 0
SPECIFICATION Spec
INVARIANT SettlesWithinCapacity
