------------------------------- MODULE Pipe -------------------------------
(***************************************************************************)
(* kernel/sync/pipe.cpp: a ring buffer between the writing and the reading *)
(* side of a pipe, with the threads that wait for it.  Every operation     *)
(* runs under interrupt_guard(objlock), so it is one action.               *)
(*                                                                         *)
(* notify() wakes the whole wait queue, so the queue is a set here; the    *)
(* threads of both sides share it.                                         *)
(***************************************************************************)
EXTENDS SyncConstants, Sequences

CONSTANT Atomic    \* mode & atomic_write

Message == UNION {[1..n -> Byte] : n \in 0..MaxLength}

VARIABLES
  head, tail,  \* positions of the next byte to read and to write
  buffer,
  iostate,     \* the state of the last operation
  waiting,     \* wait_queue
  out          \* what the last read has stored in its destination

vars == <<head, tail, buffer, iostate, waiting, out>>

is_full == (tail + 1) % Limit = head
is_empty == head = tail

\* the bytes in the buffer, and the room that is left for a write
Used == (tail + Limit - head) % Limit
Available == (head + Limit - tail - 1) % Limit

check(t) == IF t \in Writer THEN ~is_full ELSE ~is_empty

Least(a, b) == IF a <= b THEN a ELSE b

Init ==
  /\ head = 0 /\ tail = 0
  /\ buffer \in [0..Limit - 1 -> Byte]
  /\ iostate = "ok"
  /\ waiting = {}
  /\ out = <<>>

\* pipe::wait: a thread sleeps unless its side is ready
Wait(t) ==
  /\ t \notin waiting
  /\ ~check(t)
  /\ waiting' = waiting \cup {t}
  /\ UNCHANGED <<head, tail, buffer, iostate, out>>

\* Faulty: a reader that took bytes from a full buffer wakes nobody unless
\* the buffer is empty now.
ReadNotifiesEmpty(t, length) ==
  LET count == Least(length, Used) IN
  /\ t \notin waiting
  /\ t \in Reader
  /\ iostate' = "ok"
  /\ out' = [i \in 1..count |-> buffer[(head + i - 1) % Limit]]
  /\ head' = (head + count) % Limit
  /\ waiting' = IF count # 0 /\ count = Used THEN {} ELSE waiting
  /\ UNCHANGED <<tail, buffer>>

\* Faulty: head is advanced before the byte is taken.
ReadSkips(t, length) ==
  LET count == Least(length, Used) IN
  /\ t \notin waiting
  /\ t \in Reader
  /\ iostate' = "ok"
  /\ out' = [i \in 1..count |-> buffer[(head + i) % Limit]]
  /\ head' = (head + count) % Limit
  /\ waiting' = IF count # 0 /\ is_full THEN {} ELSE waiting
  /\ UNCHANGED <<tail, buffer>>

\* pipe::read by a thread of the reading side
Read(t, length) ==
  LET count == Least(length, Used) IN
  /\ t \notin waiting
  /\ t \in Reader
  /\ iostate' = "ok"
  /\ out' = [i \in 1..count |-> buffer[(head + i - 1) % Limit]]
  /\ head' = (head + count) % Limit
  /\ waiting' = IF count # 0 /\ is_full THEN {} ELSE waiting
  /\ UNCHANGED <<tail, buffer>>

\* the bytes at the front of msg that go into the buffer at tail
Stored(msg, count) ==
  [p \in 0..Limit - 1 |->
     LET i == 1 + ((p + Limit - tail) % Limit) IN
     IF i <= count THEN msg[i] ELSE buffer[p]]

\* Faulty: an atomic write stores what there is room for.
WriteTruncates(t, msg) ==
  LET count == Least(Len(msg), Available) IN
  /\ t \notin waiting
  /\ t \in Writer
  /\ iostate' = "ok"
  /\ buffer' = Stored(msg, count)
  /\ tail' = (tail + count) % Limit
  /\ waiting' = IF count # 0 /\ is_empty THEN {} ELSE waiting
  /\ UNCHANGED <<head, out>>

\* pipe::write by a thread of the writing side
Write(t, msg) ==
  LET length == Len(msg)
      count == Least(length, Available) IN
  /\ t \notin waiting
  /\ t \in Writer
  /\ iostate' = "ok"
  /\ IF Atomic /\ Available < length
     THEN UNCHANGED <<tail, buffer, waiting>>
     ELSE /\ buffer' = Stored(msg, count)
          /\ tail' = (tail + count) % Limit
          /\ waiting' = IF count # 0 /\ is_empty THEN {} ELSE waiting
  /\ UNCHANGED <<head, out>>

\* read or write from the wrong side fails
WrongSide(t) ==
  /\ t \notin waiting
  /\ iostate' = "OP_FAILURE"
  /\ UNCHANGED <<head, tail, buffer, waiting, out>>

\* a timeout or a kill takes the thread out of the queue (waitable::cancel)
Cancel(t) ==
  /\ t \in waiting
  /\ waiting' = waiting \ {t}
  /\ UNCHANGED <<head, tail, buffer, iostate, out>>

Next ==
  \E t \in Thread :
    \/ Wait(t) \/ WrongSide(t) \/ Cancel(t)
    \/ \E n \in 0..MaxLength : Read(t, n)
    \/ \E msg \in Message : Write(t, msg)

Spec == Init /\ [][Next]_vars

(***************************************************************************)
(* Properties                                                              *)
(***************************************************************************)
\* The positions stay inside the buffer.
TypeOK ==
  /\ head \in 0..Limit - 1
  /\ tail \in 0..Limit - 1
  /\ buffer \in [0..Limit - 1 -> Byte]
  /\ iostate \in {"ok", "OP_FAILURE"}
  /\ waiting \subseteq Thread

(* No lost wakeup: read notifies only when the buffer was full and write   *)
(* only when it was empty, yet no reader sleeps while there is a byte to   *)
(* read and no writer while there is room.                                 *)
NoLostWakeup ==
  /\ waiting \cap Reader # {} => is_empty
  /\ waiting \cap Writer # {} => is_full

(* Readers and writers are never asleep at the same time, so the two sides *)
(* cannot wait for each other.                                             *)
NotBothAsleep == waiting \cap Reader = {} \/ waiting \cap Writer = {}

(* An atomic write is all or nothing: the bytes in the buffer grow by the  *)
(* whole message or not at all.                                            *)
AtomicStep ==
  \A t \in Writer : \A msg \in Message :
    Write(t, msg) => Used' \in {Used, Used + Len(msg)}

\* The ring buffer implements a FIFO channel of Limit - 1 bytes.
Content == [i \in 1..Used |-> buffer[(head + i - 1) % Limit]]
Channel == INSTANCE ByteChannel WITH
             Capacity <- Limit - 1, chan <- Content
ImplementsChannel == Channel!Spec
=============================================================================
