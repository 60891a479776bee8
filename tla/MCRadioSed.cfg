SPECIFICATION Spec
CONSTANTS
  Capacity = 1
  Channel = {11}
  Ops = {"Enable", "Sleep", "Receive", "Transmit", "ReceiveAt", "EnableCsl"}
  CallbackOps = {"Sleep", "Receive"}
  FramePending = {TRUE, FALSE}
  UseNbu = TRUE
  RxAborts = TRUE
  MaxDrift = 1
  PromptPhy = FALSE
CHECK_DEADLOCK FALSE
INVARIANTS SleepLockBalanced
