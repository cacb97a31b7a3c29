SPECIFICATION Spec
CONSTANTS
  t1 = t1
  t2 = t2
  t3 = t3
  t4 = t4
  c1 = c1
  c2 = c2
  c3 = c3
  NoConn = NoConn
  Tasks <- ThreeTasks
  Conns <- ThreeConns
  MaxConns = 2
  MaxIdle = 1
  MaxRequests = 3
SYMMETRY Symmetry
INVARIANT
  IdleConnectionsAreClean
