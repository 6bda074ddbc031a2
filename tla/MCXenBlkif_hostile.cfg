CONSTANTS
  RingSize = 2
  MaxReqs = 4
  GuestDepth = 2
  GuestHonest = FALSE
  Faults <- NoFaults
  IdxMod <- MCIdxMod
  StartIdx <- MCStartIdx
SPECIFICATION Spec
INVARIANTS
  SlotCountInRange
