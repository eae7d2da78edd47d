SPECIFICATION Spec
CONSTANTS
  Names = {A, B}
  Agents = {"bot"}
  Requests = {r1, r2}
  MaxActive = 1
  MaxDaily = 2
  MaxServed = 2
  MaxLapses = 1
SYMMETRY MCSymmetry
INVARIANTS
  KeysLimited
  RequestsCounted
  
