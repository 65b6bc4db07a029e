SPECIFICATION FairSpec
CONSTANTS
  Nets = {n1, n2}
  NoNet = NoNet
  None = None
  TRIES = 3
  MAX_FAULTS = 1
INVARIANTS
  TypeOK
  ResetHolds
  RestPreserved
PROPERTIES
  ImplementsStore
  SaveStores
  SaveEnds
