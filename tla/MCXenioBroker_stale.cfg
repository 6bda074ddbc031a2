CONSTANTS
  d1 = d1
  Devs <- MCDevs1
  MaxEnv = 8
  MaxAgain = 0
  MaxRestarts = 0
  ForcedRemoval = TRUE
  BrokerFaults <- NoBrokerFaults
  SysMinors <- MCSysMinors
  TapPids <- MCTapPids
  TapFrames <- MCTapFrames
  ServingPid <- MCServingPid
  DevMinor <- MCDevMinor
  FrontProtos <- NativeOnly
SPECIFICATION Spec
INVARIANTS
  NoBug
CHECK_DEADLOCK FALSE
