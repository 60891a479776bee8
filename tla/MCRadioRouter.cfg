SPECIFICATION Spec
CONSTANTS
  Capacity = 2
  Channel = {11, 12}
  Ops = {"Enable", "Disable", "Sleep", "Receive", "RxOnWhenIdle", "Transmit", "EnergyScan"}
  CallbackOps = {"Sleep", "Receive", "RxOnWhenIdle"}
  FramePending = {FALSE}
  UseNbu = FALSE
  RxAborts = FALSE
  MaxDrift = 1
  PromptPhy = FALSE
CHECK_DEADLOCK FALSE
INVARIANTS NoWorkForgotten NeverDeaf TxDoneIsFinal
PROPERTIES RequestsReported
