------------------------------- MODULE Devices -------------------------------
(***************************************************************************)
(* The timer, the real time clock and the PS/2 driver of kernel/dev side   *)
(* by side.  The only call between them is timer.on_second() at the end of *)
(* RTC::update, and Timer lets on_second come at any moment; so a          *)
(* behaviour exercises one of them, which is chosen initially.             *)
(***************************************************************************)
EXTENDS DeviceConstants

VARIABLES
  part,
  delta_queue, record, conductor, running, beat_counter, fired, seconds, \* Timer
  clock, actual, time, reload, good, lost, age,                          \* RTC
  at, todo, outgoing, timedout, queue, fails, probe, state, it, mode, lock,
  th, aimed, line, setup, typed, reported, trouble, keys, dropped, mixed,
  astray, halted                                                         \* PS2

timer == <<delta_queue, record, conductor, running, beat_counter, fired, seconds>>
rtc == <<clock, actual, time, reload, good, lost, age>>
ps2 == <<at, todo, outgoing, timedout, queue, fails, probe, state, it, mode, lock,
         th, aimed, line, setup, typed, reported, trouble, keys, dropped, mixed,
         astray, halted>>
vars == <<part, timer, rtc, ps2>>

T == INSTANCE Timer
C == INSTANCE RTC
P == INSTANCE PS2

\* for the others, one of the clocks is enough
Init ==
  /\ part \in {"timer", "rtc", "ps2"}
  /\ C!Init
  /\ part # "rtc" => clock.month = 1 /\ \A y \in Years : clock.year <= y
  /\ T!Init /\ P!Init
  /\ part # "ps2" => th = P!Channel

Next ==
  /\ \/ part = "timer" /\ T!Next /\ UNCHANGED <<rtc, ps2>>
     \/ part = "rtc" /\ C!Next /\ UNCHANGED <<timer, ps2>>
     \/ part = "ps2" /\ P!Next /\ UNCHANGED <<timer, rtc>>
  /\ UNCHANGED part

Spec == Init /\ [][Next]_vars

(***************************************************************************)
(* Properties of the components                                            *)
(***************************************************************************)
(* Lost interrupts do not make the clocks drift: the running time of the   *)
(* timer keeps up with the seconds of the RTC, and after every update the  *)
(* time of RTC is the POSIX time that the CMOS clock shows.                *)
ClocksAgree == T!KeepsTime /\ C!InSync

\* The delta queue calls back at the deadlines that Deadlines prescribes.
ImplementsDeadlines == T!ImplementsDeadlines

(* The keys that a program sees are the keys that were typed, and no byte  *)
(* reaches the wrong device, except by the reset that takes no lock.       *)
InputIsTrue == part = "ps2" => P!KeysAreDecoded /\ P!OnlyResetsStray

(* A device is taken as ready only when it has accepted every command of   *)
(* its set-up since it was reset last.                                     *)
ReadyIsSetUp == P!ReadyIsSetUp
=============================================================================
