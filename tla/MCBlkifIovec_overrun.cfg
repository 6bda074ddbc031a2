CONSTANTS
  MaxSegments = 2
  SectorsPerPage = 2
  MaxRequests = 1
  MapFaults <- MCMapFaults
SPECIFICATION Spec
INVARIANTS
  IovecsWithinMapping
CHECK_DEADLOCK FALSE
