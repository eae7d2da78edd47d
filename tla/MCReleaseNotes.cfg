SPECIFICATION FairSpec
CONSTANTS
  Users = {"admin"}
  Admin = "admin"
  Requests = {"r1", "r2"}
  Versions = {1, 2}
  MaxNotes = 2
  MaxSends = 1
INVARIANTS
  DeliveredIsPublished
PROPERTIES
  StreamSettles
