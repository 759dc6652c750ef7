SPECIFICATION FairSpec
CONSTANTS
  MaxSockets = 3
  MaxAttempts = 3
  Backoffs = 2
  CallIds = {1, 2}
INVARIANTS
  TypeOK
  LiveIsCurrent
  AnsweredOnce
  OneDialUnderWay
PROPERTIES
  SuspendedNeverDials
  CallsAreAnswered
CHECK_DEADLOCK FALSE
