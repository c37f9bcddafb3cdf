SPECIFICATION FairSpec
CONSTANTS
  t1 = t1
  t2 = t2
  t3 = t3
  Thread = {t1}
  Main = t1
  Initial = {t1}
  PS = PS
  NULL = NULL
  Calls = {"get_thread", "get_process", "kill_self"}
  Limit = 2
  MaxOthers = 1
PROPERTY ResourcesReleased
CHECK_DEADLOCK FALSE
