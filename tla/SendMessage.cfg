SPECIFICATION FairSpec
CONSTANTS
  MaxJobs = 4
  MaxBatches = 2
  Requests <- MCRequests
INVARIANTS
  TypeOK
  QuotedOnce
PROPERTIES
  KeepsSendContract
  NothingBeginsAfterTimeout
  AlwaysAResult
