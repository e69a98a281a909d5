SPECIFICATION FairSpec
CONSTANTS
  Thread <- BothThreads
  Command <- CommandsAndUpdates
  if0 = if0
  if1 = if1
  Ifaces <- TwoIfaces
  HasAddr <- Addresses
  MaxCommands = 4
INVARIANTS SuccessIsReal SessionsSound ShowIsRight
PROPERTY CommandsEnd
CHECK_DEADLOCK FALSE
