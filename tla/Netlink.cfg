SPECIFICATION FairSpec
CONSTANTS
  a1 = a1
  g1 = g1
  g2 = g2
  d1 = d1
  s1 = s1
  NoGw = NoGw
  None = None
  Flag = {"UP", "PROMISC"}
  Kif = {1}
  Vif = {1}
  BootPairs <- OnePair
  Addr = {a1}
  Dst = {d1}
  Gw = {g1, g2}
  Sid = {s1}
  QueueLen = 2
  MaxPairs = 1
  MaxChanges = 2
  MaxRestarts = 1
INVARIANT ForwardingAgrees
PROPERTY Converges
CHECK_DEADLOCK FALSE
