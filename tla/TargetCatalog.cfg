SPECIFICATION ResolveSpec
CONSTANTS
  Accounts <- Twins
  Targets = {t1}
  MaxChanges = 2
INVARIANTS
  ResolveTypeOK
  OfOneId
  NothingOfQq
  ListedKindStays
CHECK_DEADLOCK FALSE
