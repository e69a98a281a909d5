SPECIFICATION Spec
CONSTANTS
  BufSize = 4
  MaxHist = 3
  NawsLen = 2
  Runs <- MCRuns
  MaxLines = 4
  NULL = NULL
INVARIANTS LineShown HistoryKept SplitReads
