SPECIFICATION Spec
CONSTANTS
  a1 = a1
  g1 = g1
  g2 = g2
  d1 = d1
  s1 = s1
  NoGw = NoGw
  None = None
  Flag = {"UP"}
  Kif = {1, 2}
  Vif = {1}
  BootPairs <- OnePair
  Addr = {a1}
  Dst = {}
  Gw = {}
  Sid = {}
  QueueLen = 2
  MaxPairs = 2
  MaxChanges = 2
  MaxRestarts = 1
INVARIANT InterfacesAgree
CHECK_DEADLOCK FALSE
