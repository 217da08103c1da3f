\* A panic stops the kernel, and a call to a C function is made once.
CHECK_DEADLOCK FALSE
CONSTANTS
  Chunk = 2
  MaxSectors = 4
  MaxSize = 5
  Names = {name1, name2}
  FileSizes = {0, 50, 100}
  MaxFiles = 2
  Sector = 64
  Word = 16
  Lengths = {0, 3, 7}
  Sizes = {1, 2, 3, 5}
  Offsets <- MCOffsets
  RingSize = 3
  Phys <- MCPhys
  ArenaSize = 16
  Hdr = 2
  Requests = {0, 1, 3}
  Stored = {1}
  Junk = Junk
  Null = Null
SPECIFICATION MCSpec
INVARIANTS
  FaithfulToDrive
  KeysReachDoom
  DataKept
  
  ReadsBack
PROPERTIES
  OpenFindsFile
  ReadExact
  SeekExact
  ImplementsQueue
