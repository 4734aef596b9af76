SPECIFICATION FairSpec
CONSTANTS
  MaxJobs = 3
  a = a
  b = b
  Ids = {a, b}
  Generated <- OneCounted
  Attempts = 2
  Concurrency = 2
  Discarding = {{"failed"}}
  NoJob = NoJob
INVARIANTS
  StoreAgrees
  AttemptsAreRationed
PROPERTIES
  JobsComeToAnEnd
CHECK_DEADLOCK FALSE
