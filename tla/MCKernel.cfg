\* Boot ends, or panics.
CHECK_DEADLOCK FALSE
CONSTANTS
  t1 = t1
  t2 = t2
  Threads = {t1, t2}
  Boot = Boot
  Size = 6
  Frame = 2
  Places <- MCPlaces
  Zero = Zero
  Junk = Junk
  Vals = {v}
  HeapSize = 40
  Layouts <- MCLayouts
  ListHeapSize = 96
  ListLayouts <- MCListLayouts
  BlockHeapSize = 40
  BlockSizes <- MCBlockSizes
  BlockLayouts <- MCBlockLayouts
SPECIFICATION MCSpec
INVARIANTS
  NoMemoryLost
  
  RowShowsLine
PROPERTIES
  ResumesWhereItStopped
  ImplementsHeap
  AllocatorsImplementHeap
  
