SPECIFICATION Spec
CONSTANTS
  Thread <- BothThreads
  Command <- ShowAndUpdate
  if0 = if0
  if1 = if1
  Ifaces <- TwoIfaces
  HasAddr <- Addresses
  MaxCommands = 2
INVARIANT AddressesShown
CHECK_DEADLOCK FALSE
