SPECIFICATION FairSpec
CONSTANTS
  Requests = {r1, r2, r3, r4, r5, r6}
  MaxThreads = 3
  Rows = {a, b, h, k}
  Program <- MCProgram
  Effect <- MCEffect
  Start <- MCStart
  Nobody = Nobody
  r1 = r1
  r2 = r2
  r3 = r3
  r4 = r4
  r5 = r5
  r6 = r6
  a = a
  b = b
  h = h
  k = k
CHECK_DEADLOCK FALSE
INVARIANTS
  BuysKeepBalance
PROPERTIES
  LoneCommitsSound
  RequestsEnd
