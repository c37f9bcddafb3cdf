SPECIFICATION FairSpec
CONSTANTS
  t1 = t1
  t2 = t2
  t3 = t3
  User = {t1, t2}
  Born = {t1}
  GC = GC
  Idle = Idle
  Event = {e1}
  e1 = e1
  GcEv = GcEv
  NULL = NULL
  Ops = {"signal", "reset", "wait_event", "wait_thread", "sleep", "yield", "kill", "exit", "spawn", "priority"}
INVARIANTS
  OneRunning
  LinksSound
  StopIsOrderly
PROPERTIES
  StoppedIsFinal
  WakeIsComplete
  KillTakesEffect
  ReadyGetsCore
  TimedWaitEnds
CHECK_DEADLOCK FALSE
