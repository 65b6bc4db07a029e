SPECIFICATION Spec
CONSTANTS
  PER = 2
  BLOCKS = 3
  Data = {a, b}
  Erased = Erased
  MAX_FAULTS = 1
SYMMETRY Symmetry
INVARIANTS
  TypeOK
  WriteReadsBack
  OneBlockAtRisk
