CONSTANTS
  d1 = d1
  Devs <- MCDevs1
  MaxEnv = 8
  MaxAgain = 0
  MaxRestarts = 0
  ForcedRemoval = FALSE
  BrokerFaults <- NoBrokerFaults
  SysMinors <- MCSysMinors
  TapPids <- MCTapPids
  TapFrames <- MCTapFrames
  ServingPid <- MCServingPid
  DevMinor <- MCDevMinor
  FrontProtos <- NativeOnly
SPECIFICATION Spec
INVARIANTS
  BackendConnectedServed
CHECK_DEADLOCK FALSE
