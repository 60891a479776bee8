SPECIFICATION Spec
CONSTANTS
  Capacity = 1
  Channel = {11}
  Ops = {"Enable", "Sleep", "Receive", "Transmit"}
  CallbackOps = {"Receive"}
  FramePending = {TRUE, FALSE}
  UseNbu = TRUE
  RxAborts = FALSE
  MaxDrift = 1
  PromptPhy = FALSE
INVARIANT TxDoneIsFinal
CHECK_DEADLOCK FALSE
