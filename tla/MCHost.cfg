SPECIFICATION HostSpec
CONSTANTS
  Kinds <- MixedKinds
  FrameLen = 2
  MaxChunk = 3
  RxSize = 5
  OtSize = 3
  Task = {ot, hci}
  MaxFrame = 3
  Flag = 1
  Fcs = 2
  NoTask = NoTask
  SpiSmall = 1
  SpiLarge = 2
  SpiRxSlots = 1
  SpiIn = 2
  SpiOut = 1
  SpiFaults = 2
  Key = {k1, k2}
  Value = {1}
  Header = 1
  BufSize = 4
  NvsKey = {k1, k2}
  NvsValue = {1, 2}
  NvsIndices = {0, 1}
  MaxOut = 3
  MaxIn = 2
  InRing = 2
  FaTime = 8
  FaDt = 3
  FaQueue = 2
  OtAbove = FALSE
  FaNone = FaNone
  LimitMax = 44
  HalfDbm = TRUE
  Numbers = {1, 236, 276}
  EuiLen = 3
  EuiBytes = {1, 2}
  Args <- SomeArgs
  KeyLen = 2
  NonceLens = {1, 2}
  TagLen = 1
  TextMax = 2
  RadioCmds = 2
CHECK_DEADLOCK FALSE
INVARIANTS SpinelWhole LfsUpToDate AlarmKept
PROPERTIES SpinelProgress AddKeepsValues SendIsReported
