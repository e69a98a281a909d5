SPECIFICATION FairSpec
CONSTANTS
  Polls = 10
  TryCount = 5
  Interval = 0
  ConnectTime = 0
  MonitorLine = TRUE
INVARIANTS QuitsOnlyWhenLate StartOrdered
PROPERTY StartsUp
