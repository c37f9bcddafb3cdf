SPECIFICATION StorageSpec
CONSTANTS
  f1 = f1
  f2 = f2
  f3 = f3
  r = r
  d = d
  x = x
  Clients = {c1, c2}
  Slots = 2
  DiskPages = {p1, p2}
  Sectors = 2
  Values = {1}
  MaxFaults = 1
  MaxCalls = 4
  NULL = NULL
  Files = {f1, f2, f3}
  Layout <- SmallFiles
  Linear = {f3}
  Clusters = 5
  PerSector = 3
  Lines = 2
  MaxIndex <- AskedFor
  MaxFailures = 1
  Node = {r, d, x}
  Parent <- SmallTree
  Folder = {r, d}
  Root = r
  Nil = Nil
  Dot = Dot
  Up = Up
  Openers = {t1, t2}
  Paths <- WalkedPaths
  MaxOpen = 2
SYMMETRY Symmetry
INVARIANTS Transparent ChainsSound TreeSound KnownDeadlocks
CHECK_DEADLOCK FALSE
