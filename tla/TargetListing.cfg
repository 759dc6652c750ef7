SPECIFICATION FairSpec
CONSTANTS
  Adapters <- MCAdapters
  Filters <- MCFilters
  MaxBots = 2
  PageSize = 2
  MaxPages = 3
  MaxItems = 4
INVARIANTS
  TypeOK
  CutsAreSaid
  ListedIsDeclared
PROPERTY
  AlwaysResponds
CHECK_DEADLOCK FALSE
