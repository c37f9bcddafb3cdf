SPECIFICATION SyncSpec
CONSTANTS
  Writer = {w1, w2}
  Reader = {r1, r2}
  NULL = NULL
  Byte = {0, 1}
  Limit = 4
  MaxLength = 4
  Total = 3
  MaxLost = 2
  Semaphores = {s1}
  Events = {e1}
  MaxObjects = 1
INVARIANTS WakeupsArrive Exclusion AnswerIsTrue CallsAreSafe
PROPERTIES ImplementsChannel WaitsEnd
CHECK_DEADLOCK FALSE
