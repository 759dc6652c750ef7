SPECIFICATION Spec
CONSTANTS
  MaxJobs = 4
  MaxBatches = 2
  Requests <- MCRequests
INVARIANT
  RetryIsSafe
