SPECIFICATION Spec
CONSTANTS
  Users = {"admin", "u"}
  Admin = "admin"
  Requests = {r1, r2}
  EventKinds = {"HEARTBEAT"}
  Targets = {"KEEP", "OPEN", "SILENCED", "RESOLVED"}
  Desk = {1}
  MaxDaily = 1
  MaxItems = 3
SYMMETRY MCSymmetry
INVARIANTS
  BadgeMatchesLists
  DailyLimitOvershoot
PROPERTIES
  ResolvedUntilReopened
