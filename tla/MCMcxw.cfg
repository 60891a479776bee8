SPECIFICATION McxwSpec
CONSTANTS
  N = 4
  Buf = {b1, b2, b3, b4}
  NULL = NULL
  Alarm = {"milli", "micro"}
  PerMilli = 2
  Wrap = 6
  Word = 3
  Cycle = 12
  MaxGap = 4
  MaxDt = 2
  MaxLag = 1
  MaxLate = 1
  Off = Off
  MuWrites = 3
  MuTyped = 2
  Key = {k1, k2}
  Value = {1}
  Header = 1
  BufSize = 4
  ReqLen = 2
  MaxText = 2
  NoData = NoData
  MaxTyped = 3
CHECK_DEADLOCK FALSE
INVARIANTS NoSlotShared BufferOwned AlarmsExact MuSound WipedForGood NbuSound
PROPERTIES ImplementsFifo Served NbuProgress
