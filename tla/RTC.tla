-------------------------------- MODULE RTC --------------------------------
(***************************************************************************)
(* RTC::update of kernel/dev/rtc.cpp, the handler of the update interrupt  *)
(* of the CMOS clock.  The handler counts seconds in "time" and compares   *)
(* the last two bits with those of the clock; when they differ, or when a  *)
(* reload is asked for, it reads date and time and converts them to POSIX  *)
(* time.  The clock itself is external; it runs through a few days around  *)
(* the end of a month, with an hour of HourSeconds seconds, a multiple of  *)
(* four as in the code.                                                    *)
(***************************************************************************)
EXTENDS DeviceConstants, Sequences, FiniteSets

VARIABLES
  clock,     \* the CMOS clock: date, hour and second of the hour
  actual,    \* the POSIX time that it shows
  time, reload,
  good,      \* the last update was not refused
  lost, age

vars == <<clock, actual, time, reload, good, lost, age>>

DaySeconds == 24 * HourSeconds

(***************************************************************************)
(* The clock.                                                              *)
(***************************************************************************)
IsLeap(y) == y % 4 = 0 /\ (y % 100 # 0 \/ y % 400 = 0)

MonthLength(y, m) ==
  IF m = 2 /\ IsLeap(y) THEN 29
  ELSE <<31, 28, 31, 30, 31, 30, 31, 31, 30, 31, 30, 31>>[m]

\* POSIX day of a date, by counting days
DayNumber(y, m, d) ==
  Cardinality({x \in 1970..y - 1 : IsLeap(x)}) + 365 * (y - 1970)
  + Cardinality({p \in (1..m - 1) \X (1..31) : p[2] <= MonthLength(y, p[1])})
  + d - 1

Tick(c) ==
  IF c.second + 1 < HourSeconds THEN [c EXCEPT !.second = @ + 1]
  ELSE IF c.hour < 23 THEN [c EXCEPT !.second = 0, !.hour = @ + 1]
  ELSE LET n == [c EXCEPT !.second = 0, !.hour = 0]
       IN IF c.date < MonthLength(c.year, c.month) THEN [n EXCEPT !.date = @ + 1]
          ELSE IF c.month < 12 THEN [n EXCEPT !.date = 1, !.month = @ + 1]
          ELSE [n EXCEPT !.date = 1, !.month = 1, !.year = @ + 1]

\* the clock n seconds later
Later[c \in {clock}, n \in 0..MaxLost + 1] ==
  IF n = 0 THEN c ELSE Tick(Later[c, n - 1])

\* what the hour register holds: <<hour, pm>>
HourRegister(h) ==
  IF Mode24 THEN <<h, FALSE>>
  ELSE <<IF h % 12 = 0 THEN 12 ELSE h % 12, h >= 12>>

(***************************************************************************)
(* The handler.                                                            *)
(***************************************************************************)
\* hour from the hour register
Hour(reg) ==
  IF Mode24 THEN reg[1]
  ELSE LET h == IF reg[2] THEN reg[1] + 12 ELSE reg[1]
       IN IF h = 24 THEN 0 ELSE h

month_table == <<0, 31, 59, 90, 120, 151, 181, 212, 243, 273, 304, 334>>

is_leap(cur_year) ==
  IF cur_year % 100 # 0 THEN cur_year % 400 = 0 ELSE cur_year % 4 = 0

\* Faulty: centuries divisible by 400 are not leap years.
LeapCountCenturies(cur_year, month) ==
  (cur_year - 1969) \div 4
  - (IF cur_year > 2100 THEN (cur_year - 1) \div 100 - 20 ELSE 0)
  + (IF month > 2 /\ is_leap(cur_year) THEN 1 ELSE 0)

\* leap days before the given month
leap_count(cur_year, month) ==
  LET century_count == (cur_year - 1) \div 100 - 20
  IN (cur_year - 1969) \div 4
     - (IF cur_year > 2100 THEN century_count - century_count \div 4 ELSE 0)
     + (IF month > 2 /\ is_leap(cur_year) THEN 1 ELSE 0)

PosixTime(c) ==
  LET total_days == (c.year - 1970) * 365 + leap_count(c.year, c.month)
                    + month_table[c.month] + c.date - 1
  IN total_days * DaySeconds + Hour(HourRegister(c.hour)) * HourSeconds + c.second

Init ==
  \E y \in Years, m \in 1..12 :
    LET d == MonthLength(y, m)
    IN /\ clock = [year |-> y, month |-> m, date |-> d, hour |-> 0, second |-> 0]
       /\ actual = DayNumber(y, m, d) * DaySeconds
       /\ time = 0 /\ reload = TRUE /\ good = FALSE /\ lost = 0 /\ age = 0

(* An update interrupt, n seconds after the one before it; the date and    *)
(* time that are read may turn out to be invalid.                          *)
Update(n, valid) ==
  LET c == Later[clock, n]
      counted == IF reload THEN time ELSE time + 1
      differs == reload \/ counted % 4 # c.second % 4
  IN /\ lost + n - 1 <= MaxLost /\ age + n <= MaxAge
     /\ clock' = c /\ actual' = actual + n
     /\ time' = IF differs /\ valid THEN PosixTime(c) ELSE counted
     /\ reload' = (reload /\ ~valid)
     /\ good' = (valid \/ ~differs)
     /\ lost' = IF differs /\ valid THEN 0 ELSE lost + n - 1
     /\ age' = age + n

SetReload ==
  /\ ~reload
  /\ reload' = TRUE
  /\ UNCHANGED <<clock, actual, time, good, lost, age>>

Next ==
  \/ \E n \in 1..MaxLost + 1, valid \in BOOLEAN : Update(n, valid)
  \/ SetReload

Spec == Init /\ [][Next]_vars

(***************************************************************************)
(* Property                                                                *)
(***************************************************************************)
(* After every update that is not refused, time is the POSIX time that the *)
(* clock shows, also when interrupts were lost and when earlier readings   *)
(* were refused.                                                           *)
InSync == good => time = actual
=============================================================================
