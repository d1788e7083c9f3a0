\* A pool of up to six blocks besides the last header.
SPECIFICATION FairSpec
CONSTANTS
  Pool = 14
  Requests = {0, 1, 3}
INVARIANTS
  HeapTypeOK
  Chained
PROPERTIES
  RefusesOnlyWhenFull
  MallocReturns
  ImplementsAllocator
