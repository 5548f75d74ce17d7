SPECIFICATION Spec
CONSTANTS
  Jobs = {j1}
  Windows = {w1, w2}
  RqIds = {r1, r2, r3}
  NoJob = NoJob
  Retries <- OneRetry
  MaxClips = 1
  MaxFaults = 2
  EagerCallback = FALSE
  Scheduler = TRUE
  HearsInPlace = {FALSE}
SYMMETRY RqSymmetry
INVARIANTS
  TypeOK
  NotStuckInStage
  OneSegmentationJob
  WorksOnce
PROPERTIES
  CancelStops
  ProducesClips
CHECK_DEADLOCK FALSE
