SPECIFICATION Spec
CONSTANTS
  t1 = t1
  t2 = t2
  t3 = t3
  Thread = {t1, t2, t3}
  Main = t1
  Initial = {t1}
  PS = PS
  NULL = NULL
  Calls = {"create_thread", "get_process", "close_handle", "kill_thread", "kill_self", "exit_process"}
  Limit = 2
  MaxOthers = 2
INVARIANT TeardownSound
SYMMETRY Symmetry
CHECK_DEADLOCK FALSE
