SPECIFICATION K32wSpec
CONSTANTS
  RingLen = 3
  Channels = {11, 12}
  MaxRx = 3
  MaxTx = 2
  MaxCalls = 4
  Child = {c1, c2}
  TableLen = 2
  NoChild = NoChild
  MaxCounter = 6
  NoKey = NoKey
  Key = {k1, k2}
  Length = {1, 2}
  Byte = {x}
  InitSize = 2
  ReallocSize = 3
  Region = 5
  MaxIndex = 1
  TaskId = {ot, matter}
  IsrId = {ot}
  QueueSize = 3
  MayRefuse = TRUE
  NoId = NoId
  PageSize = 4
  Pages = 2
  ReadUnit = 2
  FlashByte = {a}
  Blank = Blank
  KuSize = 3
  KuIn = 5
  KuOut = 2
  KuLen = 2
  KaAlarm = {milli}
  KaWord = 12
  KaTick = 2
  KaMax = 2
  KaDt = 5
  KaLag = 2
  KaLate = 2
  FroLoops <- TwoOscillators
  KaOff = KaOff
  SlRing = 5
  SlInput = 3
  SlData = 2
  SlPackets = 2
  SlPad = 1
  HookRoom = 3
  HookFrames = 6
CHECK_DEADLOCK FALSE
INVARIANTS HandedOver HearsOrWillHear TablesExact StoresExact KaNeverLate SerialsSound
PROPERTIES MainLoopServes Saved
