CONSTANTS
  RingSize = 2
  MaxReqs = 4
  GuestDepth = 2
  GuestHonest = TRUE
  Faults <- AllFaults
  IdxMod <- MCIdxMod
  StartIdx <- MCStartIdx
SPECIFICATION Spec
INVARIANTS
  UniqueResponses
