SPECIFICATION BridgeSpec
CONSTANTS
  Builds = {"plain"}
  MailboxSize = 1
  BridgeRuns = 4
  TokenRate = 3
  TokenStep = 1
  PacketLen = 2
  NoOne = NoOne
CHECK_DEADLOCK FALSE
INVARIANT LocksAvoidDeadlock
