SPECIFICATION FairSpec
CONSTANTS
  Jobs = {j1}
  Windows = {w1}
  RqIds = {r1, r2, r3}
  NoJob = NoJob
  Retries <- OneRetry
  MaxClips = 1
  MaxFaults = 0
  EagerCallback = TRUE
  Scheduler = FALSE
  HearsInPlace = {FALSE}
PROPERTY CancelStopsThePipeline
CHECK_DEADLOCK FALSE
