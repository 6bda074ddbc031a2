CONSTANTS
  RingSize = 3
  MaxReqs = 4
  GuestDepth = 3
  GuestHonest = TRUE
  Faults <- NoFaults
  IdxMod <- MCIdxMod
  StartIdx <- MCStartIdx
SPECIFICATION Spec
INVARIANTS
  TypeOK
  SlotsExclusive
  NoOverrun
PROPERTIES
  Refinement
