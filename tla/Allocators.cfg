SPECIFICATION AllocSpec
CONSTANTS
  NB = 3
  B = 4
  Hard = 2
  Usable <- UsablePages
  limit = 11
  avl_base = 2
  handle_of_page = 4
  N = 8
  K = 3
  Step = 1
  TabPages = 2
  TabK = 2
  ND = 2
  NP = 2
  Wrap = 1
  Phys = 9
  Spare = 1
  Boot = 1
  Stk = 0
  Views = {v1, v2, v3}
  Slots = 3
  Frames = {1, 2}
  Callers = {c1, c2}
  Top = 3
  PageUnits = 4
  HeapPages = 2
  MinGrow = 2
INVARIANTS CountersExact Integrity ReservationBacked NoEarlyExhaustion OwnedOnce ListIntegrity
PROPERTIES ImplementsRegion ReserveIsExact
CHECK_DEADLOCK FALSE
