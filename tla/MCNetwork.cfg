SPECIFICATION NetworkSpec
CONSTANTS
  HostCtx = {h1, h2}
  DeviceCtx = {1, 2, 3}
  Msg = {m1}
  MapLen = 3
  StateHandlers = 1
  MaxAsked = 2
  MaxKept = 2
  MaxInstances = 2
  Sock = Sock
  NoHost = NoHost
  Entry = {e1, e2, e3}
  MaxCmds = 2
  MaxChunks = 2
  CmdQueueLen = 2
  MatterQueueLen = 1
  MaxFails = 1
  ChkRspCnt = 3
  MaxEvents = 4
  MaxAllocFails = 1
  MaxStrays = 2
  MaxCliCmds = 2
  Builds = {"br", "plain", "nat64"}
  MailboxSize = 1
  BridgeRuns = 4
  TokenRate = 3
  TokenStep = 1
  PacketLen = 2
  NoOne = NoOne
  LinkLocal = {l1}
  MeshLocal = {m1, m2, m3}
  Prefixed = {p1, p2}
  Slots = 3
  NoAddr = NoAddr
  Query = {q1, q2}
  Txns = 2
  Pool = 3
  DnsMax = 2
  UdpRuns = 2
  NoQuery = NoQuery
  Listener = {"mdns", "dhcp6", "nd"}
  MsgIds = {m1, m2}
  PktIds = {p1, p2}
  Calls = 3
  Group = {g1, g2}
  FilterSlots = 2
  Changes = 4
  AnyGroup = AnyGroup
  IperfCmds = 3
CHECK_DEADLOCK FALSE
INVARIANTS NcpSound BrNeverStuck NoStaleAddress SocketsSound RouterSound
PROPERTIES EveryCommandAnswered HandshakeEnds
