SPECIFICATION Spec
CONSTANTS
  Thread <- BothThreads
  Command <- ShowAndUpdate
  if0 = if0
  if1 = if1
  Ifaces <- TwoIfaces
  HasAddr <- Addresses
  MaxCommands = 3
INVARIANT UpdatesNotRefused
CHECK_DEADLOCK FALSE
