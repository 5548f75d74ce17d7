SPECIFICATION FairSpec
CONSTANTS
  Requests = {q1, q2, q3}
  Limit = 2
  MaxCount = 4
  MaxFaults = 2
INVARIANTS
  TypeOK
  Throttled
PROPERTY LockoutEnds
CHECK_DEADLOCK FALSE
