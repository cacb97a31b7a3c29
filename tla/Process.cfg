SPECIFICATION FairSpec
CONSTANTS
  u1 = u1
  u2 = u2
  Upstreams <- TwoUpstreams
  Probes = 1
  MaxReloads = 1
INVARIANT
  TypeOK
PROPERTIES
  StatusFollows
  ExitFollowsStop
CHECK_DEADLOCK FALSE
