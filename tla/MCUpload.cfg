SPECIFICATION Spec
CONSTANTS
  Clips = {c1, c2}
  Tasks = {t1, t2}
  NoClip = NoClip
  Cap = 1
  Retries = 1
  Workers = 2
  MaxFaults = 1
  EagerCallback = FALSE
  Scheduler = TRUE
SYMMETRY Interchangeable
INVARIANTS
  TypeOK
  ReviewedFirst
  UploadedIsDelivered
  EveryAttemptIsLogged
  NotStuckUploading
PROPERTY DeliversDrafts
CHECK_DEADLOCK FALSE
