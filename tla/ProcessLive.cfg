SPECIFICATION FairSpec
CONSTANTS
  t1 = t1
  t2 = t2
  t3 = t3
  Thread = {t1, t2}
  Main = t1
  Initial = {t1, t2}
  PS = PS
  NULL = NULL
  Calls = {"get_thread", "get_process", "close_handle", "kill_thread", "exit_thread", "exit_process"}
  Limit = 2
  MaxOthers = 1
PROPERTIES KilledProcessEnds ResourcesReleased EndedIsDeleted
CHECK_DEADLOCK FALSE
