SPECIFICATION Spec
CONSTANTS
  a1 = a1
  g1 = g1
  g2 = g2
  d1 = d1
  s1 = s1
  NoGw = NoGw
  None = None
  Flag = {}
  Kif = {1}
  Vif = {1}
  BootPairs <- OnePair
  Addr = {}
  Dst = {}
  Gw = {}
  Sid = {s1}
  QueueLen = 2
  MaxPairs = 1
  MaxChanges = 2
  MaxRestarts = 0
INVARIANT SidsAgree
CHECK_DEADLOCK FALSE
