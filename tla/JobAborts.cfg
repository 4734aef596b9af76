SPECIFICATION Spec
CONSTANTS
  MaxJobs = 2
  a = a
  b = b
  Ids = {a}
  Generated <- NoneCounted
  Attempts = 1
  Concurrency = 2
  Discarding = {{}, {"completed", "failed"}}
  NoJob = NoJob
INVARIANTS
  AbortFindsTheAttempt
CHECK_DEADLOCK FALSE
