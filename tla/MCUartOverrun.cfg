SPECIFICATION Spec
CONSTANTS
  size = 4
  Bytes = {a, b}
  HALF = 2
  SEM_MAX = 2
  BURST = 2
INVARIANTS
  OneFreeChar
