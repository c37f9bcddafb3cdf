SPECIFICATION Spec
CONSTANTS
  Us = {1, 5, 6}
  heartbeat_us = 2
  heartbeat_hz = 3
  MaxTicket = 3
  MaxBeats = 7
  Years = {2024}
  Mode24 = TRUE
  HourSeconds = 4
  MaxLost = 2
  MaxAge = 104
  QUEUE_SIZE = 4
  MaxFails = 2
  Typing = {"up", "F7", "fake shift"}
  MaxKeys = 2
  MaxTrouble = 1
INVARIANT InSync
CHECK_DEADLOCK FALSE
