SPECIFICATION FairSpec
CONSTANTS
  ChunkSize = 5
  Messages <- AllMessages
INVARIANTS
  TypeOK
  Conserved
  VerdictIsRight
  NoNeedlessWait
PROPERTY
  StreamEnds
CHECK_DEADLOCK FALSE
