SPECIFICATION Spec
CONSTANTS
  k1 = k1
  k2 = k2
  k3 = k3
  r1 = r1
  r2 = r2
  Conns <- ThreeConns
  Reloads <- TwoReloads
  Limits = {1, 2}
  StartLimit = 2
  MaxRequests = 2
SYMMETRY Symmetry
INVARIANTS
  TypeOK
  SlotsAccounted
  QuietStop
  ReloadInstalls
CHECK_DEADLOCK FALSE
