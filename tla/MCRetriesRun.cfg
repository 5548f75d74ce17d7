SPECIFICATION FairSpec
CONSTANTS
  Jobs = {j1}
  Windows = {w1}
  RqIds = {r1, r2, r3}
  NoJob = NoJob
  Retries <- OneRetry
  MaxClips = 1
  MaxFaults = 1
  EagerCallback = TRUE
  Scheduler = FALSE
  HearsInPlace = {FALSE}
PROPERTY RetriesRun
CHECK_DEADLOCK FALSE
