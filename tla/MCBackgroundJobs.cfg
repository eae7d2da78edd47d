SPECIFICATION FairSpec
CONSTANTS
  Users = {u1}
  Tasks = {t1}
  u1 = u1
  t1 = t1
  Owner <- MCOwner
  Slots = {a, b}
  a = a
  b = b
  Worker = w
  w = w
  MaxVersion = 2
  MaxJobs = 3
  MaxFaults = 1
INVARIANTS
  StrandedByFaults
  GapsAreClaimed
  EffectsOnlyRepeatAfterFaults
PROPERTIES
  ServesQueue
  JobsEnd
