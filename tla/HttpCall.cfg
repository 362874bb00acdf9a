SPECIFICATION FairSpec

CONSTANTS
  MaxRetries = 3
  None = None

CHECK_DEADLOCK FALSE

INVARIANTS
  TypeOK
  ActsOnce

PROPERTIES
  GivesUpLast
  AnswersTruly
  EveryCallEnds
