------------------------------- MODULE Timer -------------------------------
(***************************************************************************)
(* basic_timer of kernel/dev/timer.cpp: one delta queue for the timeouts   *)
(* of all waits, the time slice and the periodic flush of the disk cache.  *)
(* An entry holds its distance in beats from the entry before it; a ticket *)
(* is waiting as long as it is in "record", and cancel() takes it out of   *)
(* the record only, its entry is dropped when it expires.  The RTC tells   *)
(* the timer when a second is over, and beats that were lost since the     *)
(* last second are made up in one step.  Every operation runs with IF off  *)
(* under the lock of the timer.                                            *)
(***************************************************************************)
EXTENDS DeviceConstants, Sequences, SequencesExt, FiniteSets

VARIABLES
  delta_queue, record, conductor,
  running,         \* running_us, in beats
  beat_counter,    \* beats since the last second
  fired,           \* the tickets whose callbacks the last step has run
  seconds          \* how often on_second has run

vars == <<delta_queue, record, conductor, running, beat_counter, fired, seconds>>

Init ==
  /\ delta_queue = << >> /\ record = {} /\ conductor = 0
  /\ running = 0 /\ beat_counter = 0 /\ fired = << >> /\ seconds = 0

Larger(a, b) == IF a >= b THEN a ELSE b

\* distance of the i-th entry of q from now
Ahead(q, i) == FoldLeft(LAMBDA sum, e : sum + e.diff_tick, 0, SubSeq(q, 1, i))

\* Faulty: the entry behind the new one keeps its distance.
InsertKeepsNext(q, e) ==
  LET i == CHOOSE i \in 1..Len(q) + 1 :
             /\ i <= Len(q) => e.diff_tick <= Ahead(q, i)
             /\ \A j \in 1..i - 1 : e.diff_tick > Ahead(q, j)
  IN InsertAt(q, i, [e EXCEPT !.diff_tick = @ - Ahead(q, i - 1)])

(* The insertion loops of wait() and step(): e, with its distance from     *)
(* now, goes before the first entry that is not due earlier, and that      *)
(* entry is moved by the distance that e takes over.                       *)
Insert(q, e) ==
  LET i == CHOOSE i \in 1..Len(q) + 1 :
             /\ i <= Len(q) => e.diff_tick <= Ahead(q, i)
             /\ \A j \in 1..i - 1 : e.diff_tick > Ahead(q, j)
      d == e.diff_tick - Ahead(q, i - 1)
      moved == IF i > Len(q) THEN q ELSE [q EXCEPT ![i].diff_tick = @ - d]
  IN InsertAt(moved, i, [e EXCEPT !.diff_tick = d])

\* wait(): us in beats, at least one
TotalTick(us) == Larger(us \div heartbeat_us, 1)

Wait(us, repeat) ==
  /\ conductor < MaxTicket
  /\ LET total == TotalTick(us)
     IN delta_queue' = Insert(delta_queue,
          [ticket |-> conductor + 1, diff_tick |-> total,
           interval |-> IF repeat THEN total ELSE 0])
  /\ conductor' = conductor + 1
  /\ record' = record \cup {conductor + 1}
  /\ fired' = << >>
  /\ UNCHANGED <<running, beat_counter, seconds>>

Cancel(ticket) ==
  /\ ticket \in record
  /\ record' = record \ {ticket}
  /\ fired' = << >>
  /\ UNCHANGED <<delta_queue, conductor, running, beat_counter, seconds>>

\* Faulty: qword subtraction without the test, modelled as a negative number.
PeriodicWraps(interval, left) == interval - left

\* the distance of a periodic entry, fired with "left" beats of the step to go
Periodic(interval, left) == IF interval > left THEN interval - left ELSE 0

(* step(): the entries that expire within count beats leave the queue, the *)
(* callbacks of those still on record run in that order, and the periodic  *)
(* ones, the last one first, are inserted again.                           *)
Step(count) ==
  LET q == delta_queue
      n == CHOOSE n \in 0..Len(q) :
             /\ \A i \in 1..n : Ahead(q, i) <= count
             /\ n < Len(q) => Ahead(q, n + 1) > count
      rest == SubSeq(q, n + 1, Len(q))
      left == IF rest = << >> THEN rest
              ELSE [rest EXCEPT ![1].diff_tick = @ - (count - Ahead(q, n))]
      expired == [i \in 1..n |->
                    [q[i] EXCEPT !.diff_tick =
                       Periodic(q[i].interval, count - Ahead(q, i))]]
      called == SelectSeq(expired, LAMBDA e : e.ticket \in record)
      periodic_list == SelectSeq(called, LAMBDA e : e.interval # 0)
  IN /\ delta_queue' = FoldRight(LAMBDA e, acc : Insert(acc, e), periodic_list, left)
     /\ fired' = [i \in 1..Len(called) |-> called[i].ticket]
     /\ record' = record \ {called[i].ticket :
                              i \in {j \in DOMAIN called : called[j].interval = 0}}

OnTimer ==
  /\ running < MaxBeats
  /\ beat_counter' = beat_counter + 1
  /\ running' = running + 1
  /\ Step(1)
  /\ UNCHANGED <<conductor, seconds>>

\* Faulty: the beats of the last second are counted in the next one too.
OnSecondKeepsBeats ==
  LET adjust_tick == Larger(heartbeat_hz - beat_counter, 0)
  IN /\ running + adjust_tick <= MaxBeats
     /\ seconds' = seconds + 1
     /\ running' = running + adjust_tick
     /\ IF adjust_tick # 0 THEN Step(adjust_tick)
        ELSE UNCHANGED <<delta_queue, record, fired>>
     /\ UNCHANGED <<conductor, beat_counter>>

\* The loss of every beat of a second is possible: interrupts may be off.
OnSecond ==
  LET adjust_tick == Larger(heartbeat_hz - beat_counter, 0)
  IN /\ running + adjust_tick <= MaxBeats
     /\ seconds' = seconds + 1
     /\ beat_counter' = 0
     /\ running' = running + adjust_tick
     /\ IF adjust_tick # 0 THEN Step(adjust_tick)
        ELSE UNCHANGED <<delta_queue, record, fired>>
     /\ UNCHANGED conductor

Next ==
  \/ \E us \in Us, repeat \in BOOLEAN : Wait(us, repeat)
  \/ \E ticket \in record : Cancel(ticket)
  \/ OnTimer
  \/ OnSecond

Spec == Init /\ [][Next]_vars

(***************************************************************************)
(* Properties                                                              *)
(***************************************************************************)
\* The distances in the queue are unsigned and never wrap.
TypeOK ==
  /\ delta_queue \in Seq([ticket : 1..conductor, diff_tick : Nat, interval : Nat])
  /\ record \subseteq 1..conductor
  /\ running \in Nat /\ beat_counter \in Nat /\ seconds \in Nat

(* A ticket that waits has exactly one entry, so that it will expire, and  *)
(* no entry is in the queue twice: step() and wait() move nodes between    *)
(* lists and lose none.                                                    *)
EveryTicketQueued ==
  /\ record \subseteq {delta_queue[i].ticket : i \in DOMAIN delta_queue}
  /\ \A i, j \in DOMAIN delta_queue :
       delta_queue[i].ticket = delta_queue[j].ticket => i = j

(* Lost beats are made up: running_time() is never behind the RTC by a     *)
(* second that the RTC has reported.                                       *)
KeepsTime == running >= heartbeat_hz * seconds

\* The deadlines that the delta queue stands for.
Due == [t \in record |->
          LET i == CHOOSE i \in DOMAIN delta_queue : delta_queue[i].ticket = t
          IN [at |-> running + Ahead(delta_queue, i),
              interval |-> delta_queue[i].interval]]

Abstract == INSTANCE Deadlines
  WITH Beats <- {TotalTick(us) : us \in Us}, now <- running, due <- Due

(* The delta queue, with its cancelled entries, keeps the promise of       *)
(* Deadlines: each callback runs in the step that reaches its deadline, in *)
(* order and once, also when lost beats are made up in a single step.      *)
ImplementsDeadlines == Abstract!Spec
=============================================================================
