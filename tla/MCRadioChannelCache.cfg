SPECIFICATION Spec
CONSTANTS
  Capacity = 1
  Channel = {11, 12, 13}
  Ops = {"Enable", "Receive", "RxOnWhenIdle", "Transmit", "EnergyScan"}
  CallbackOps = {"Receive"}
  FramePending = {FALSE}
  UseNbu = FALSE
  RxAborts = FALSE
  MaxDrift = 1
  PromptPhy = FALSE
INVARIANTS ChannelTracked
CHECK_DEADLOCK FALSE
