SPECIFICATION Spec
CONSTANTS
  t1 = t1
  t2 = t2
  t3 = t3
  User = {t1, t2}
  Born = {t1, t2}
  GC = GC
  Idle = Idle
  Event = {e1}
  e1 = e1
  GcEv = GcEv
  NULL = NULL
  Ops = {"wait_event", "signal"}
INVARIANT SignaledHasNoWaiters
CHECK_DEADLOCK FALSE
