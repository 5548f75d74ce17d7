SPECIFICATION Spec
CONSTANTS
  Rows = {a1, a2}
  Callbacks = {c1, c2}
  Workers = {w1}
  NoRow = NoRow
  MaxTokens = 4
  MaxFaults = 1
INVARIANTS TypeOK OneAccount StaysConnected
CHECK_DEADLOCK FALSE
