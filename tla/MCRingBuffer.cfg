SPECIFICATION Spec
CONSTANTS
  t1 = t1
  t2 = t2
  t3 = t3
  b1 = b1
  b2 = b2
  Zero = Zero
  Nobody = Nobody
  MaxCnt = 2
  Threads <- MCThreads
  Offsets <- MCOffsets
INVARIANTS TypeOK IndexInBounds SemaphoreCountsItems EachOffsetInOnePlace
PROPERTY ImplementsFreeList
