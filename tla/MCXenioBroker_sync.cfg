CONSTANTS
  d1 = d1
  Devs <- MCDevs1
  MaxEnv = 8
  MaxAgain = 1
  MaxRestarts = 1
  ForcedRemoval = TRUE
  BrokerFaults <- AllBrokerFaults
  SysMinors <- MCSysMinors
  TapPids <- MCTapPids
  TapFrames <- MCTapFrames
  ServingPid <- MCServingPid
  DevMinor <- MCDevMinor
  FrontProtos <- MCFrontProtos
SPECIFICATION Spec
INVARIANTS
  TypeOK
  DeviceListSynced
  ListIsOuterJoin
PROPERTIES
  ConnectedOnlyToReadyFrontend
CHECK_DEADLOCK FALSE
