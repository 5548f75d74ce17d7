SPECIFICATION FairSpec
CONSTANTS
  Clips = {c1}
  Tasks = {t1, t2}
  NoClip = NoClip
  Cap = 1
  Retries = 1
  Workers = 1
  MaxFaults = 1
  EagerCallback = FALSE
  Scheduler = TRUE
INVARIANT WithinDailyCap
PROPERTY AttemptsEnd
CHECK_DEADLOCK FALSE
