SYMMETRY Symmetry
SPECIFICATION Spec
CONSTANTS
  Sessions = {s1}
  Words = {w1, w2}
  AppNodes = {"tap"}
  Chunks = 2
  MaxLines = 2
  NULL = NULL
INVARIANTS NoOldPassword ModesRight CommandsFound ConfWhole
