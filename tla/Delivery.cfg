SPECIFICATION FairRecallSpec
CONSTANTS
  Parts = {p1, p2}
  MaxTries = 3
  MaxConnections = 3
INVARIANTS
  RecallTypeOK
  NeverTwice
PROPERTIES
  EndToEnd
  RecalledTruly
  RecallEnds
