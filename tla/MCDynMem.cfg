SPECIFICATION FairSpec
CONSTANTS
  POOL_SIZE = 162
  MIN_ALLOCATION = 14
  UNSIGNED_MAX = 1023
  Requests = {1, 17, 36}
INVARIANTS
  TypeOK
  WellLinked
  Coalesced
  GrantCoversRequest
  AvailableExact
PROPERTIES
  FullMeansFull
  SearchEnds
  ImplementsHeap
