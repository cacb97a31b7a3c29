SPECIFICATION Spec
CONSTANTS
  t1 = t1
  t2 = t2
  t3 = t3
  t4 = t4
  c1 = c1
  c2 = c2
  c3 = c3
  NoConn = NoConn
  Tasks <- FourTasks
  Conns <- ThreeConns
  MaxConns = 3
  MaxIdle = 2
  MaxRequests = 4
SYMMETRY Symmetry
INVARIANTS
  TypeOK
  PermitAccounting
  OpenBound
  Exclusive
  NoStray
PROPERTY
  ImplementsLeases
