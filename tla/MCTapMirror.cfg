SPECIFICATION Spec
CONSTANTS
  ip = ip
  ip4 = ip4
  ip4nc = ip4nc
  arp = arp
  tap1 = tap1
  tap10 = tap10
  tap2 = tap2
  NULL = NULL
  Mirror = Mirror
  Free = Free
  Stdin = Stdin
  Node <- Names
  KnownNode <- Nodes
  NodePrefix <- NamesPrefix
  Tap <- Taps
  TapPrefix <- TapsPrefix
  NSlots = 2
  MaxFd = 2
  NBuffers = 1
  MaxFrame = 1
  MaxTaps = 2
INVARIANTS ContextsSound EventsKeepTheirNode TapFdsOpen
CHECK_DEADLOCK FALSE
