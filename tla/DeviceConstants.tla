--------------------------- MODULE DeviceConstants --------------------------
(***************************************************************************)
(* The parameters of the drivers of kernel/dev (Timer, RTC, PS2) and what  *)
(* is assumed of them.                                                     *)
(***************************************************************************)
EXTENDS Integers

\* the timer and the real time clock
CONSTANTS
  Us,              \* the arguments of basic_timer::wait, in microseconds
  heartbeat_us,    \* length of a beat
  heartbeat_hz,    \* beats in a second
  MaxTicket,       \* bound on the tickets handed out
  MaxBeats,        \* bound on the running time
  Years,           \* the years in which the clock starts
  Mode24,          \* the clock counts 24 hours a day (bit 1 of status B)
  HourSeconds,     \* 3600
  MaxLost,         \* bound on the interrupts lost between two reloads
  MaxAge           \* bound on the seconds of a run of the clock

\* the PS/2 driver
CONSTANTS
  QUEUE_SIZE,      \* bytes of the ring of a channel, one of which stays free
  MaxFails,        \* failures after which a device is given up: 5
  Typing,          \* the keys that are pressed and released
  MaxKeys,         \* bound on the presses and releases
  MaxTrouble       \* bound on answers lost, late or refused, and on replugs

ASSUME TimerAssumption ==
  /\ Us \subseteq Nat /\ heartbeat_us \in Nat \ {0}
  /\ heartbeat_hz \in Nat \ {0}

ASSUME RTCAssumption ==
  /\ Years \subseteq 2000..9999 /\ Mode24 \in BOOLEAN
  /\ HourSeconds \in {4 * n : n \in 1..900}
  /\ MaxLost \in 0..3    \* more would not show in two bits

ASSUME DeviceAssumption ==
  /\ QUEUE_SIZE \in Nat \ {0, 1} /\ MaxFails \in Nat \ {0}
  /\ Typing \subseteq {"a", "keypad 8", "up", "F7", "fake shift"}
  /\ MaxKeys \in Nat /\ MaxTrouble \in Nat
=============================================================================
