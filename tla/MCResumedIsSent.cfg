SPECIFICATION Spec
CONSTANTS
  Clips = {c1}
  Tasks = {t1}
  NoClip = NoClip
  Cap = 1
  Retries = 1
  Workers = 1
  MaxFaults = 0
  EagerCallback = FALSE
  Scheduler = TRUE
INVARIANT ResumedIsSent
CHECK_DEADLOCK FALSE
