SPECIFICATION Spec
CONSTANTS
  Reads = {"read", "refresh"}
  Forced = {"refresh"}
  Bare = {0}
  SecondsPerHour = 2
  MaxSeconds = 2
  MaxWrites = 2
  Nobody = Nobody
  Nothing = Nothing
CHECK_DEADLOCK FALSE

  
PROPERTIES
  ReadsAreFresh
