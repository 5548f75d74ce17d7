SPECIFICATION FairSpec
CONSTANTS
  Jobs = {j1}
  Windows = {w1}
  RqIds = {r1, r2, r3}
  NoJob = NoJob
  Retries <- OneRetry
  MaxClips = 1
  MaxFaults = 1
  EagerCallback = FALSE
  Scheduler = TRUE
  HearsInPlace = {TRUE, FALSE}
INVARIANT
  InputsFirst
PROPERTIES
  Settles
  Drains
CHECK_DEADLOCK FALSE
