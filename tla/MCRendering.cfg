SPECIFICATION Spec
CONSTANTS
  MaxClips = 2
  Runs = {r1, r2}
  Retries = 1
  MaxFaults = 2
  EagerCallback = FALSE
  Scheduler = TRUE
SYMMETRY RunSymmetry
INVARIANTS
  TypeOK
  RenderedHasItsVideo
  NothingOrphaned
  ApprovedFootageStays
  NotStuckRendering
PROPERTIES
  CancelStopsRendering
  EditsStay
CHECK_DEADLOCK FALSE
