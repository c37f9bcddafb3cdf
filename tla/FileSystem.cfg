SPECIFICATION Spec
CONSTANTS
  Handles = {"a", "b"}
  Folders = {"b"}
  Threads = {"t1", "t2"}
  Workers = {"w1", "w2"}
  MaxCalls = 2
  Disks <- SmallDisks
  MinFat = 2
  WordBits = 4
  LongBits = 8
  Word = 16
  Long = 256
  SectorShift = 1
  BadCluster = 12
  Entries = 3
  Contents <- SmallFolders
  PerSec = 4
  Sizes = {1}
  Units = 2
  PerPage = 2
  PerCluster = 3
  First = 1
  MaxSize = 6
  MaxLen = 7
INVARIANTS RequestsConserved FilesStayFound TransferIsExact 
PROPERTIES RequestEnds PoolStops
CHECK_DEADLOCK FALSE
