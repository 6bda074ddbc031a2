CONSTANTS
  k1 = k1
  k2 = k2
  k3 = k3
  gold = gold
  Keys <- MCKeys
  NamedPools <- NoNamedPools
  DefaultPool = DefaultPool
  NullPool = NullPool
  EmptyPool = EmptyPool
  MaxHandles = 2
  RingOrders <- MCRingOrders
  Faults <- AllCtxFaults
SYMMETRY KeySymmetry
SPECIFICATION Spec
\* A tapdisk that died in xenio_blkif_connect's cleanup takes no step.
CHECK_DEADLOCK FALSE
INVARIANTS
  TypeOK
  Deliverable
  
  HeldByListed
PROPERTIES
  Registry
