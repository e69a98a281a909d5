SPECIFICATION Spec
CONSTANTS
  ip = ip
  ip4 = ip4
  ip4nc = ip4nc
  arp = arp
  tap1 = tap1
  tap10 = tap10
  tap2 = tap2
  NULL = NULL
  Mirror = Mirror
  Free = Free
  Stdin = Stdin
  Node <- PlainNodes
  KnownNode <- PlainNodes
  NodePrefix <- PlainPrefix
  Tap <- PlainTaps
  TapPrefix <- PlainTapsPrefix
  NSlots = 2
  MaxFd = 2
  NBuffers = 4
  MaxFrame = 2
  MaxTaps = 2
INVARIANT CloneAssertion
CHECK_DEADLOCK FALSE
