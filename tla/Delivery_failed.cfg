SPECIFICATION Spec
CONSTANTS
  Parts = {p1}
  MaxTries = 1
  MaxConnections = 1
INVARIANT
  FailedIsCertain
