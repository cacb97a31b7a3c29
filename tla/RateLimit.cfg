SPECIFICATION Spec
CONSTANTS
  a = a
  b = b
  k1 = k1
  k2 = k2
  Clients <- TwoClients
  Conns <- TwoConns
  Cost = 3
  Burst = 2
  PerClient = TRUE
  MaxRequests = 2
  Drift = 1
  MaxTime = 6
  MaxReloads = 1
SYMMETRY Symmetry
INVARIANTS
  TypeOK
  RateBound
  ClientKeepsUp
  LoadBound
CHECK_DEADLOCK FALSE
