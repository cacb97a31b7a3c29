SPECIFICATION FairSpec
CONSTANTS
  k1 = k1
  k2 = k2
  k3 = k3
  r1 = r1
  r2 = r2
  Conns <- TwoConns
  Reloads <- TwoReloads
  Limits = {1}
  StartLimit = 1
  MaxRequests = 2
PROPERTIES
  QueueMoves
  StopEnds
CHECK_DEADLOCK FALSE
