SPECIFICATION Spec
CONSTANTS
  Requests = {r1, r2, r3, r4}
  r1 = r1
  r2 = r2
  r3 = r3
  r4 = r4
  NoRecord = NoRecord
  Body <- MCBody
CHECK_DEADLOCK FALSE
INVARIANTS
  RetriesApplyOnce
