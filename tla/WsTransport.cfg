SPECIFICATION FairSpec
CONSTANTS
  MaxConns = 3
  MaxAttempts = 3
  Backoffs = 2
INVARIANTS
  TypeOK
  OneServed
  OneDialUnderWay
PROPERTY
  NoZombie
CHECK_DEADLOCK FALSE
