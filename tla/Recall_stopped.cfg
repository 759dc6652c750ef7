SPECIFICATION RecallSpec
CONSTANTS
  Parts = {p1}
  MaxTries = 1
  MaxConnections = 1
INVARIANT
  RecalledIsGone
