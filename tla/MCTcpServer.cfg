SPECIFICATION FairSpec
CONSTANTS
  SLOTS = 2
  NUM_SOCKETS = 5
  ALIAS = 4
  MAX_DOWN = 2
INVARIANTS
  TypeOK
  LiveKept
PROPERTIES
  Served
