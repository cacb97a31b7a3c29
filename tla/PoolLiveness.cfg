SPECIFICATION FairSpec
CONSTANTS
  t1 = t1
  t2 = t2
  t3 = t3
  t4 = t4
  c1 = c1
  c2 = c2
  c3 = c3
  NoConn = NoConn
  Tasks <- TwoTasks
  Conns <- TwoConns
  MaxConns = 2
  MaxIdle = 2
  MaxRequests = 4
PROPERTIES
  WaitersServed
  ReleaseEnds
  ShutdownQuiesces
