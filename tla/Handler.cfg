SPECIFICATION Spec
CONSTANTS
  MaxRetries = 2
  MaxRequests = 3
INVARIANTS
  TypeOK
  ReadyForNext
  HandlerAnswersOnce
  CommittedIsSeen
PROPERTIES
  ResendsJustified
  ImplementsLife
CHECK_DEADLOCK FALSE
