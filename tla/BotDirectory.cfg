SPECIFICATION FairSpec
CONSTANTS
  Bots = {b1, b2}
  Callers = {r1, r2}
  MaxChanges = 2
  MaxConnections = 2
INVARIANTS
  TypeOK
  ExactUnlessOvertaken
PROPERTY
  Heals
CHECK_DEADLOCK FALSE
