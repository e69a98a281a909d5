SPECIFICATION Spec
CONSTANTS
  ChunkSize = 2
  MaxChunks = 2
  Cap = 3
  Height = 3
  MaxQueue = 5
  StdoutReadable = TRUE
  NULL = NULL
INVARIANTS OutputKept Attentive
PROPERTIES PageFits OutputEnds
