SPECIFICATION Spec
CONSTANTS
  o1 = o1
  o2 = o2
  h1 = h1
  Obj <- MCObj
  Uses <- MCUses
  Async <- MCAsync
  Closable <- MCClosable
  Helper <- MCHelper
  HelperKinds <- MCHelperKinds
  NTasks = 2
  UnuseDepth = 1
  MaxDelay = 1
  MaxLate = 0
  NULL = NULL
INVARIANTS TasksAccounted NotDeaf
PROPERTIES EndsOnlyIdle TasksRun
CHECK_DEADLOCK FALSE
