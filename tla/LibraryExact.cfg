INIT MCInit
NEXT MCNext
CONSTANTS
  NULL = NULL
  Nil = Nil
  Commands = {"c1", "c2", "c3", "c4", "c5", "c6"}
  Definition <- MCDefinition
  Lines <- MCLines
  MaxTokens = 5
  CMD_ARGC_MAX = 8
  MaxInstalls = 4
  Seeds <- MCSeeds
  Typed <- MCTyped
  MaxTyped = 7
  Chars = {"a", "b", " ", "!"}
  MaxText = 6
  N = 2
  Class <- MCClass
  Takers = {t1, t2}
  Uids = {0, 1, 2}
  Uses = {u1, u2, u3}
  Timers = {1, 2, 3, 4, 5, 6}
  Due <- MCDue
  MaxBytes = 4
  Data = {1, 2, 3, 4}
  HashKey <- MCHashKey
  MaxSize = 4
  MaxSlot = 3
  Nodes = {1, 2, 3, 4}
  Items = {1, 2, 3, 4, 5}
  Weight <- MCWeight
  HashValue <- MCHashValue
  HashBits = 3
  Levels = 3
  HeapNary = 2
  PNBBY = 2
  Blen <- MCBlen
  Pairs <- MCPairs
  Sockets <- MCSockets
  Numbers = {0, 1, 9, 10, 24, 32, 33, 48, 49, 99, 100, 109, 110, 128, 129, 255, 256, 280, 305}
INVARIANTS CountIsNodes LengthsRefused CommonBitsInRange FlowspecSame
CHECK_DEADLOCK FALSE
