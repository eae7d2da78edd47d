SPECIFICATION FairSpec
CONSTANTS
  Keys = {"AAPL"}
  Loops = {"w1", "w2"}
  Api = "api"
  Callers = {"w1", "w2", "api"}
  MaxMoves = 2
  MaxTroubles = 1
INVARIANTS
  
  KnownQuotesSampled
PROPERTIES
  DashboardsConverge
