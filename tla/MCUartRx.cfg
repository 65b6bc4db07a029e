SPECIFICATION FairSpec
CONSTANTS
  size = 4
  Bytes = {a, b}
  HALF = 2
  SEM_MAX = 2
  BURST = 5
INVARIANTS
  TypeOK
  CopySafe
PROPERTIES
  BytesGetRead
  ImplementsFifo
