CONSTANTS
  MaxSegments = 2
  SectorsPerPage = 2
  MaxRequests = 2
  MapFaults <- MCMapFaults
SPECIFICATION Spec
INVARIANTS
  TypeOK
  IovecMatchesSegments
CHECK_DEADLOCK FALSE
