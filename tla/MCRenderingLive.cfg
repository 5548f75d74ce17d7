SPECIFICATION FairSpec
CONSTANTS
  MaxClips = 1
  Runs = {r1}
  Retries = 1
  MaxFaults = 3
  EagerCallback = TRUE
  Scheduler = TRUE
PROPERTIES
  RenderingEnds
  RunsEnd
CHECK_DEADLOCK FALSE
