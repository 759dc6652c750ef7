SPECIFICATION FairSpec
CONSTANTS
  MaxConns = 2
  MaxAttempts = 3
  Backoffs = 2
PROPERTY
  StopClosesAll
CHECK_DEADLOCK FALSE
