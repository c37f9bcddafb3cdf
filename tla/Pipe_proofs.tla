---------------------------- MODULE Pipe_proofs ----------------------------
(***************************************************************************)
(* Proofs about Pipe for every buffer size, every set of threads and every *)
(* length of a request.                                                    *)
(***************************************************************************)
EXTENDS Pipe, TLAPS

\* The remainder stays below the divisor.
LEMMA ModRange ==
  ASSUME NEW L \in Nat, L > 0, NEW x \in Int
  PROVE  x % L \in 0..L - 1
  OBVIOUS

\* A position that has not reached the end of the buffer is not wrapped.
LEMMA ModSmall ==
  ASSUME NEW L \in Nat, L > 0, NEW x \in Nat, x < L
  PROVE  x % L = x
  OBVIOUS

\* A position that has passed the end of the buffer once is wrapped once.
LEMMA ModWrap ==
  ASSUME NEW L \in Nat, L > 0, NEW x \in Nat, x >= L, x < L + L
  PROVE  x % L = x - L
  <1> DEFINE q == x \div L
  <1>1. q \in Int /\ x = L * q + (x % L)
    OBVIOUS
  <1>2. x % L \in 0..L - 1
    OBVIOUS
  <1>3. q = 1
    BY <1>1, <1>2
  <1> QED
    BY <1>1, <1>3

(* The ring in plain arithmetic: Used and Available are the distances      *)
(* between head and tail, and add up to the Limit - 1 usable bytes.        *)
LEMMA Ring ==
  ASSUME TypeOK
  PROVE  /\ Used = IF tail >= head THEN tail - head ELSE tail + Limit - head
         /\ Available = IF head > tail THEN head - tail - 1
                        ELSE head + Limit - tail - 1
         /\ Used \in 0..Limit - 1
         /\ Available = Limit - 1 - Used
         /\ is_empty <=> Used = 0
         /\ is_full <=> Available = 0
  <1>0. /\ Limit \in Nat /\ Limit >= 2
        /\ head \in 0..Limit - 1 /\ tail \in 0..Limit - 1
    BY PipeAssumption DEF TypeOK
  <1>1. Used = IF tail >= head THEN tail - head ELSE tail + Limit - head
    <2>1. CASE tail >= head
      <3>1. tail + Limit - head >= Limit /\ tail + Limit - head < Limit + Limit
        BY <1>0, <2>1
      <3>2. tail + Limit - head \in Nat
        BY <1>0, <2>1
      <3> QED
        BY <1>0, <2>1, <3>1, <3>2, ModWrap DEF Used
    <2>2. CASE tail < head
      <3>1. tail + Limit - head \in Nat /\ tail + Limit - head < Limit
        BY <1>0, <2>2
      <3> QED
        BY <1>0, <2>2, <3>1, ModSmall DEF Used
    <2> QED
      BY <1>0, <2>1, <2>2
  <1>2. Available = IF head > tail THEN head - tail - 1
                    ELSE head + Limit - tail - 1
    <2>1. CASE head > tail
      <3>1. /\ head + Limit - tail - 1 >= Limit
            /\ head + Limit - tail - 1 < Limit + Limit
            /\ head + Limit - tail - 1 \in Nat
        BY <1>0, <2>1
      <3> QED
        BY <1>0, <2>1, <3>1, ModWrap DEF Available
    <2>2. CASE head <= tail
      <3>1. /\ head + Limit - tail - 1 < Limit
            /\ head + Limit - tail - 1 \in Nat
        BY <1>0, <2>2
      <3> QED
        BY <1>0, <2>2, <3>1, ModSmall DEF Available
    <2> QED
      BY <1>0, <2>1, <2>2
  <1>3. Used \in 0..Limit - 1 /\ Available = Limit - 1 - Used
    BY <1>0, <1>1, <1>2
  <1>4. is_empty <=> Used = 0
    BY <1>0, <1>1 DEF is_empty
  <1>5. is_full <=> Available = 0
    <2>1. CASE tail = Limit - 1
      <3>1. (tail + 1) % Limit = 0
        BY <1>0, <2>1, ModWrap
      <3> QED
        BY <1>0, <1>2, <2>1, <3>1 DEF is_full
    <2>2. CASE tail < Limit - 1
      <3>1. (tail + 1) % Limit = tail + 1
        BY <1>0, <2>2, ModSmall
      <3> QED
        BY <1>0, <1>2, <2>2, <3>1 DEF is_full
    <2> QED
      BY <1>0, <2>1, <2>2
  <1> QED
    BY <1>1, <1>2, <1>3, <1>4, <1>5

\* The inductive invariant: NoLostWakeup is inductive together with the types.
IInv == TypeOK /\ NoLostWakeup

\* The empty pipe of the constructor satisfies the invariant.
LEMMA InitIInv == Init => IInv
  <1> SUFFICES ASSUME Init PROVE IInv
    OBVIOUS
  <1>1. Limit \in Nat /\ Limit >= 2
    BY PipeAssumption
  <1> QED
    BY <1>1 DEF Init, IInv, TypeOK, NoLostWakeup

\* One step: every operation preserves the invariant.
LEMMA NextIInv == IInv /\ [Next]_vars => IInv'
  <1> SUFFICES ASSUME IInv, [Next]_vars PROVE IInv'
    OBVIOUS
  <1>0. TypeOK /\ NoLostWakeup /\ Limit \in Nat /\ Limit >= 2
    BY PipeAssumption DEF IInv
  <1>1. CASE UNCHANGED vars
    BY <1>0, <1>1
       DEF vars, IInv, TypeOK, NoLostWakeup, is_empty, is_full
  <1>2. ASSUME NEW t \in Thread, Wait(t) PROVE IInv'
    <2>1. TypeOK'
      BY <1>0, <1>2 DEF Wait, TypeOK, Thread
    <2>2. is_empty' = is_empty /\ is_full' = is_full
      BY <1>2 DEF Wait, is_empty, is_full
    <2>3. NoLostWakeup'
      BY <1>0, <1>2, <2>2, PipeAssumption
         DEF Wait, check, NoLostWakeup, Thread
    <2> QED
      BY <2>1, <2>3 DEF IInv
  <1>3. ASSUME NEW t \in Thread, WrongSide(t) PROVE IInv'
    BY <1>0, <1>3
       DEF WrongSide, IInv, TypeOK, NoLostWakeup, is_empty, is_full
  <1>4. ASSUME NEW t \in Thread, Cancel(t) PROVE IInv'
    BY <1>0, <1>4
       DEF Cancel, IInv, TypeOK, NoLostWakeup, is_empty, is_full
  <1>5. ASSUME NEW t \in Thread, NEW n \in 0..MaxLength, Read(t, n)
        PROVE IInv'
    <2> DEFINE count == Least(n, Used)
    <2>1. /\ Used \in 0..Limit - 1
          /\ is_empty <=> Used = 0
      BY <1>0, Ring
    <2>2. n \in Nat
      BY PipeAssumption
    <2>3. count \in Nat /\ count <= Used
      BY <2>1, <2>2 DEF Least
    <2>4. TypeOK'
      <3>1. head' \in 0..Limit - 1
        BY <1>0, <1>5, <2>3, ModRange DEF Read, TypeOK
      <3> QED
        BY <1>0, <1>5, <3>1 DEF Read, TypeOK
    <2>5. CASE count # 0 /\ is_full
      BY <1>5, <2>4, <2>5 DEF Read, IInv, NoLostWakeup
    <2>6. CASE count # 0 /\ ~is_full
      <3>1. waiting' = waiting
        BY <1>5, <2>6 DEF Read
      <3>2. ~is_empty
        BY <2>1, <2>3, <2>6
      <3>3. waiting = {}
        BY <1>0, <2>6, <3>2 DEF NoLostWakeup, TypeOK, Thread
      <3> QED
        BY <2>4, <3>1, <3>3 DEF IInv, NoLostWakeup
    <2>7. CASE count = 0
      <3>1. head' = head
        BY <1>0, <1>5, <2>7, ModSmall DEF Read, TypeOK
      <3>2. waiting' = waiting /\ tail' = tail
        BY <1>5, <2>7 DEF Read
      <3> QED
        BY <1>0, <2>4, <3>1, <3>2 DEF IInv, NoLostWakeup, is_empty, is_full
    <2> QED
      BY <2>5, <2>6, <2>7
  <1>6. ASSUME NEW t \in Thread, NEW msg \in Message, Write(t, msg)
        PROVE IInv'
    <2> DEFINE count == Least(Len(msg), Available)
    <2>1. /\ Available \in 0..Limit - 1
          /\ is_full <=> Available = 0
      BY <1>0, Ring
    <2>2. PICK m \in 0..MaxLength : msg \in [1..m -> Byte]
      BY DEF Message
    <2>3. msg \in Seq(Byte) /\ Len(msg) \in Nat /\ Len(msg) = m
      <3>1. m \in Nat
        BY PipeAssumption
      <3> QED
        BY <2>2, <3>1
    <2>4. count \in Nat /\ count <= Available /\ count <= Len(msg)
      BY <2>1, <2>3 DEF Least
    <2>5. CASE Atomic /\ Available < Len(msg)
      BY <1>0, <1>6, <2>5
         DEF Write, IInv, TypeOK, NoLostWakeup, is_empty, is_full
    <2>6. CASE ~(Atomic /\ Available < Len(msg))
      <3>1. /\ buffer' = Stored(msg, count)
            /\ tail' = (tail + count) % Limit
            /\ waiting' = IF count # 0 /\ is_empty THEN {} ELSE waiting
            /\ head' = head /\ iostate' = "ok"
        BY <1>6, <2>6 DEF Write
      <3>2. buffer' \in [0..Limit - 1 -> Byte]
        <4>1. ASSUME NEW p \in 0..Limit - 1,
                     1 + ((p + Limit - tail) % Limit) <= count
              PROVE  msg[1 + ((p + Limit - tail) % Limit)] \in Byte
          <5>1. (p + Limit - tail) % Limit \in Nat
            BY <1>0, ModRange DEF TypeOK
          <5>2. 1 + ((p + Limit - tail) % Limit) \in 1..m
            BY <2>3, <2>4, <4>1, <5>1
          <5> QED
            BY <2>2, <5>2
        <4> QED
          BY <1>0, <3>1, <4>1 DEF Stored, TypeOK
      <3>3. TypeOK'
        <4>1. tail' \in 0..Limit - 1
          BY <1>0, <2>4, <3>1, ModRange DEF TypeOK
        <4> QED
          BY <1>0, <3>1, <3>2, <4>1 DEF TypeOK
      <3>4. CASE count # 0 /\ is_empty
        BY <3>1, <3>3, <3>4 DEF IInv, NoLostWakeup
      <3>5. CASE count # 0 /\ ~is_empty
        <4>1. ~is_full
          BY <2>1, <2>4, <3>5
        <4>2. waiting = {}
          BY <1>0, <3>5, <4>1 DEF NoLostWakeup, TypeOK, Thread
        <4> QED
          BY <3>1, <3>3, <3>5, <4>2 DEF IInv, NoLostWakeup
      <3>6. CASE count = 0
        <4>1. tail' = tail
          BY <1>0, <3>1, <3>6, ModSmall DEF TypeOK
        <4> QED
          BY <1>0, <3>1, <3>3, <3>6, <4>1
             DEF IInv, NoLostWakeup, is_empty, is_full
      <3> QED
        BY <3>4, <3>5, <3>6
    <2> QED
      BY <2>5, <2>6
  <1> QED
    BY <1>1, <1>2, <1>3, <1>4, <1>5, <1>6 DEF Next

(* pipe.cpp keeps head and tail inside the buffer, for every size of it    *)
(* and every sequence of reads, writes, waits, timeouts and kills.         *)
THEOREM TypeCorrect == Spec => []TypeOK
  <1>1. IInv => TypeOK
    BY DEF IInv
  <1> QED
    BY InitIInv, NextIInv, <1>1, PTL DEF Spec

(* pipe.cpp loses no wakeup although read and write notify only on the     *)
(* edge (full to not full, empty to not empty): whenever a reader sleeps   *)
(* the buffer is empty, whenever a writer sleeps it is full.               *)
THEOREM NoWakeupIsLost == Spec => []NoLostWakeup
  <1>1. IInv => NoLostWakeup
    BY DEF IInv
  <1> QED
    BY InitIInv, NextIInv, <1>1, PTL DEF Spec

(* The two sides of a pipe never sleep at the same time: the ring has at   *)
(* least one usable byte, so it is not full and empty at once.             *)
THEOREM SidesNeverDeadlock == Spec => []NotBothAsleep
  <1>1. IInv => NotBothAsleep
    <2> SUFFICES ASSUME IInv PROVE NotBothAsleep
      OBVIOUS
    <2>1. /\ Used \in 0..Limit - 1
          /\ Available = Limit - 1 - Used
          /\ is_empty <=> Used = 0
          /\ is_full <=> Available = 0
      BY Ring DEF IInv
    <2>2. ~(is_empty /\ is_full)
      BY <2>1, PipeAssumption
    <2> QED
      BY <2>2 DEF IInv, NoLostWakeup, NotBothAsleep
  <1> QED
    BY InitIInv, NextIInv, <1>1, PTL DEF Spec

(***************************************************************************)
(* The ring buffer implements the byte channel.                            *)
(***************************************************************************)
\* Going round once more changes no position.
LEMMA ModAgain ==
  ASSUME NEW L \in Nat, L > 0, NEW x \in Nat
  PROVE  (x + L) % L = x % L
  <1> DEFINE q == x \div L
             p == (x + L) \div L
  <1>1. /\ q \in Int /\ x = L * q + (x % L) /\ x % L \in 0..L - 1
        /\ p \in Int /\ x + L = L * p + ((x + L) % L)
        /\ (x + L) % L \in 0..L - 1
    OBVIOUS
  <1>2. L * (p - q - 1) = (x % L) - ((x + L) % L)
    BY <1>1
  <1>3. p - q - 1 = 0
    BY <1>1, <1>2
  <1> QED
    BY <1>1, <1>2, <1>3

\* A position is the same wherever on the way to it the wrapping is done.
LEMMA ModShift ==
  ASSUME NEW L \in Nat, L > 0, NEW x \in Nat, x < L + L, NEW y \in Nat
  PROVE  ((x % L) + y) % L = (x + y) % L
  <1>1. CASE x < L
    BY <1>1, ModSmall
  <1>2. CASE x >= L
    <2>1. x % L = x - L
      BY <1>2, ModWrap
    <2>2. x - L + y \in Nat /\ (x - L + y) + L = x + y
      BY <1>2
    <2>3. (x - L + y) % L = (x + y) % L
      BY <2>2, ModAgain
    <2> QED
      BY <2>1, <2>3
  <1> QED
    BY <1>1, <1>2

\* The distance from one position to another.
LEMMA Distance ==
  ASSUME NEW L \in Nat, L > 0, NEW a \in 0..L - 1, NEW b \in 0..L - 1
  PROVE  (b + L - a) % L = IF b >= a THEN b - a ELSE b + L - a
  <1>1. CASE b >= a
    <2>1. b + L - a \in Nat /\ b + L - a >= L /\ b + L - a < L + L
      BY <1>1
    <2> QED
      BY <1>1, <2>1, ModWrap
  <1>2. CASE b < a
    <2>1. b + L - a \in Nat /\ b + L - a < L
      BY <1>2
    <2> QED
      BY <1>2, <2>1, ModSmall
  <1> QED
    BY <1>1, <1>2

\* A sequence cut in two, and two put together, as functions.
LEMMA Cut ==
  ASSUME NEW B, NEW u \in Nat, NEW f \in [1..u -> B], NEW c \in 0..u
  PROVE  /\ Len(f) = u
         /\ SubSeq(f, 1, c) = [i \in 1..c |-> f[i]]
         /\ SubSeq(f, c + 1, Len(f)) = [i \in 1..u - c |-> f[c + i]]
  <1>1. f \in Seq(B) /\ Len(f) = u
    OBVIOUS
  <1>2. SubSeq(f, 1, c) = [i \in 1..c |-> f[i]]
    BY <1>1
  <1>3. SubSeq(f, c + 1, u) = [i \in 1..u - c |-> f[c + i]]
    BY <1>1
  <1> QED
    BY <1>1, <1>2, <1>3, Zenon

\* A sequence is a function on 1..n.
LEMMA SeqIsFunction ==
  ASSUME NEW B, NEW q \in Seq(B)
  PROVE  q \in [1..Len(q) -> B]
  OBVIOUS

\* What a concatenation is, index by index.
LEMMA Concat ==
  ASSUME NEW B, NEW u \in Nat, NEW f \in [1..u -> B],
         NEW c \in Nat, NEW g \in [1..c -> B]
  PROVE  /\ f \o g \in Seq(B) /\ Len(f \o g) = u + c
         /\ \A i \in 1..u + c :
              (f \o g)[i] = IF i <= u THEN f[i] ELSE g[i - u]
  <1>1. f \in Seq(B) /\ Len(f) = u /\ g \in Seq(B) /\ Len(g) = c
    OBVIOUS
  <1>2. f \o g \in Seq(B) /\ Len(f \o g) = u + c
    BY <1>1
  <1>3. \A i \in 1..u + c : (f \o g)[i] = IF i <= u THEN f[i] ELSE g[i - u]
    BY <1>1
  <1> QED
    BY <1>2, <1>3, Zenon

Joined(h, f, u, g, c) ==
  \A i \in 1..u + c : h[i] = IF i <= u THEN f[i] ELSE g[i - u]

\* And what is that, index by index, is the concatenation.
LEMMA Join ==
  ASSUME NEW B, NEW u \in Nat, NEW f \in [1..u -> B],
         NEW c \in Nat, NEW g \in [1..c -> B],
         NEW h \in [1..u + c -> B], Joined(h, f, u, g, c)
  PROVE  h = f \o g
  <1> DEFINE P(q) == /\ q \in Seq(B) /\ Len(q) = u + c
                     /\ \A i \in 1..u + c :
                          q[i] = IF i <= u THEN f[i] ELSE g[i - u]
  <1>0. P(f \o g)
    BY Concat
  <1> HIDE DEF P
  <1>1. PICK q : q = f \o g /\ P(q)
    BY <1>0, Zenon
  <1> USE DEF P
  <1>2. q \in [1..u + c -> B]
    <2>1. q \in [1..Len(q) -> B]
      BY <1>1, SeqIsFunction, Zenon
    <2> QED
      BY <1>1, <2>1, Zenon
  <1>3. \A i \in 1..u + c : q[i] = h[i]
    BY <1>1, Zenon DEF Joined
  <1>4. q = h
    BY <1>2, <1>3
  <1> QED
    BY <1>1, <1>4, Zenon

\* The bytes in the buffer are a sequence of Used bytes.
LEMMA ContentIsSeq ==
  ASSUME TypeOK
  PROVE  /\ Used \in 0..Limit - 1 /\ Content \in [1..Used -> Byte]
         /\ \A i \in 1..Used : Content[i] = buffer[(head + i - 1) % Limit]
  <1>1. Used \in 0..Limit - 1 /\ Limit \in Nat /\ Limit >= 2
    BY Ring, PipeAssumption
  <1>2. \A i \in 1..Used : (head + i - 1) % Limit \in 0..Limit - 1
    BY <1>1, ModRange DEF TypeOK
  <1> QED
    BY <1>1, <1>2 DEF Content, TypeOK

\* pipe::read takes a prefix of the channel.
LEMMA ReadGets ==
  ASSUME TypeOK, NEW t \in Thread, NEW n \in 0..MaxLength, Read(t, n)
  PROVE  Channel!Get
  <1> DEFINE count == Least(n, Used)
             u == Used
  <1>0. /\ Limit \in Nat /\ Limit >= 2 /\ n \in Nat
        /\ head \in 0..Limit - 1 /\ tail \in 0..Limit - 1
        /\ u \in 0..Limit - 1
        /\ u = IF tail >= head THEN tail - head ELSE tail + Limit - head
    BY PipeAssumption, Ring DEF TypeOK
  <1>1. count \in 0..u
    BY <1>0 DEF Least
  <1>2. /\ out' = [i \in 1..count |-> buffer[(head + i - 1) % Limit]]
        /\ head' = (head + count) % Limit
        /\ tail' = tail /\ buffer' = buffer
    BY DEF Read
  <1> HIDE DEF count, u
  <1>3. head' = IF head + count < Limit THEN head + count
                ELSE head + count - Limit
    <2>1. PICK x \in Nat : x = head + count /\ x < Limit + Limit
      BY <1>0, <1>1
    <2>2. head' = x % Limit
      BY <1>2, <2>1, Zenon
    <2>3. Limit \in Nat /\ Limit > 0
      BY <1>0
    <2>4. CASE x < Limit
      <3>1. x % Limit = x
        BY <2>1, <2>3, <2>4, ModSmall, Zenon
      <3> QED
        BY <1>0, <1>1, <2>1, <2>2, <2>4, <3>1
    <2>5. CASE x >= Limit
      <3>1. x % Limit = x - Limit
        BY <2>1, <2>3, <2>5, ModWrap, Zenon
      <3> QED
        BY <1>0, <1>1, <2>1, <2>2, <2>5, <3>1
    <2> QED
      BY <2>1, <2>3, <2>4, <2>5
  <1>4. Used' = u - count
    <2>1. head' \in 0..Limit - 1
      BY <1>0, <1>1, <1>3
    <2>2. (tail + Limit - head') % Limit =
            IF tail >= head' THEN tail - head' ELSE tail + Limit - head'
      BY <1>0, <2>1, Distance
    <2> QED
      BY <1>0, <1>1, <1>2, <1>3, <2>2 DEF Used
  <1>5. Content \in [1..u -> Byte]
        /\ \A i \in 1..u : Content[i] = buffer[(head + i - 1) % Limit]
    BY ContentIsSeq DEF u
  <1>6. out' = [i \in 1..count |-> Content[i]]
    BY <1>0, <1>1, <1>2, <1>5
  <1>7. ASSUME NEW i \in 1..u - count
        PROVE  buffer[(head' + i - 1) % Limit] = Content[count + i]
    <2>1. PICK x \in Nat : x = head + count /\ x < Limit + Limit
      BY <1>0, <1>1
    <2>2. PICK y \in Nat : y = i - 1
      BY <1>0, <1>1
    <2>3. ((x % Limit) + y) % Limit = (x + y) % Limit
      <3>1. Limit \in Nat /\ Limit > 0
        BY <1>0
      <3> QED
        BY <2>1, <3>1, ModShift, Zenon
    <2>4. x % Limit = head' /\ head' \in Int
      BY <1>0, <1>1, <1>2, <1>3, <2>1
    <2>5. head' + i - 1 = (x % Limit) + y /\ head + (count + i) - 1 = x + y
      BY <1>0, <1>1, <2>1, <2>2, <2>4
    <2>6. count + i \in 1..u
      BY <1>0, <1>1
    <2> QED
      BY <1>5, <2>3, <2>5, <2>6
  <1>8. Content' = [i \in 1..u - count |-> Content[count + i]]
    <2>1. Content' = [i \in 1..Used' |-> buffer'[(head' + i - 1) % Limit]]
      BY DEF Content
    <2> QED
      BY <1>2, <1>4, <1>7, <2>1
  <1>9. PICK c : c = Content
    OBVIOUS
  <1>10. /\ Len(c) = u
         /\ SubSeq(c, 1, count) = [i \in 1..count |-> c[i]]
         /\ SubSeq(c, count + 1, Len(c))
              = [i \in 1..u - count |-> c[count + i]]
    <2>1. u \in Nat
      BY <1>0
    <2>2. c \in [1..u -> Byte]
      BY <1>5, <1>9
    <2> QED
      BY <1>1, <2>1, <2>2, Cut
  <1>11. count \in 0..Len(Content)
    BY <1>1, <1>9, <1>10, Zenon
  <1> QED
    BY <1>6, <1>8, <1>9, <1>10, <1>11, Zenon DEF Channel!Get

\* The distance to a position that was reached from here.
LEMMA Around ==
  ASSUME NEW L \in Nat, L > 0, NEW a \in 0..L - 1, NEW d \in 0..L - 1
  PROVE  (((a + d) % L) + L - a) % L = d
  <1>1. PICK x \in Nat : x = a + d /\ x < L + L
    OBVIOUS
  <1>2. CASE x < L
    <2>1. x % L = x
      BY <1>2, ModSmall, Zenon
    <2>2. x \in 0..L - 1 /\ x >= a /\ x - a = d
      BY <1>1, <1>2
    <2>3. (x + L - a) % L = x - a
      BY <2>2, Distance
    <2> QED
      BY <1>1, <2>1, <2>2, <2>3
  <1>3. CASE x >= L
    <2>1. x % L = x - L
      BY <1>1, <1>3, ModWrap, Zenon
    <2>2. PICK y \in 0..L - 1 : y = x - L /\ y < a /\ y + L - a = d
      BY <1>1, <1>3
    <2>3. (y + L - a) % L = y + L - a
      BY <2>2, Distance
    <2> QED
      BY <1>1, <2>1, <2>2, <2>3
  <1> QED
    BY <1>1, <1>2, <1>3

(* Where Stored finds, for the i-th byte of the buffer, the byte of the    *)
(* message: behind its end for the bytes that were there before.           *)
LEMMA StoredAt ==
  ASSUME NEW L \in Nat, L > 0, NEW h \in 0..L - 1, NEW e \in 0..L - 1,
         NEW u \in 0..L - 1, u = IF e >= h THEN e - h ELSE e + L - h,
         NEW c \in 0..L - 1 - u, NEW i \in 1..u + c
  PROVE  1 + ((((h + i - 1) % L) + L - e) % L)
           = IF i <= u THEN L - u + i ELSE i - u
  <1>0. h + i - 1 \in Nat /\ (u = e - h \/ u = e + L - h)
    OBVIOUS
  <1>1. ASSUME NEW d \in 0..L - 1,
               \/ e + d = h + i - 1
               \/ e + d = (h + i - 1) + L
               \/ (e + d) + L = h + i - 1
        PROVE  (((h + i - 1) % L) + L - e) % L = d
    <2>1. /\ ((h + i - 1) + L) % L = (h + i - 1) % L
          /\ ((e + d) + L) % L = (e + d) % L
      BY <1>0, ModAgain
    <2>2. (e + d) % L = (h + i - 1) % L
      BY <1>1, <2>1
    <2>3. (((e + d) % L) + L - e) % L = d
      BY Around
    <2> QED
      BY <2>2, <2>3
  <1>2. CASE i <= u
    <2>1. L - u + i - 1 \in 0..L - 1
      BY <1>2
    <2>2. \/ e + (L - u + i - 1) = h + i - 1
          \/ e + (L - u + i - 1) = (h + i - 1) + L
      BY <1>0
    <2>3. (((h + i - 1) % L) + L - e) % L = L - u + i - 1
      BY <1>1, <2>1, <2>2
    <2> QED
      BY <1>2, <2>3
  <1>3. CASE i > u
    <2>1. i - u - 1 \in 0..L - 1
      BY <1>3
    <2>2. \/ e + (i - u - 1) = h + i - 1
          \/ (e + (i - u - 1)) + L = h + i - 1
      BY <1>0
    <2>3. (((h + i - 1) % L) + L - e) % L = i - u - 1
      BY <1>1, <2>1, <2>2
    <2> QED
      BY <1>3, <2>3
  <1> QED
    BY <1>2, <1>3

\* A write that moves tail on by count makes the buffer fuller by count.
LEMMA Grown ==
  ASSUME TypeOK, NEW count \in 0..Limit - 1 - Used,
         tail' = (tail + count) % Limit, head' = head
  PROVE  Used' = Used + count
  <1> DEFINE u == Used
  <1>1. /\ Limit \in Nat /\ Limit >= 2
        /\ head \in 0..Limit - 1 /\ tail \in 0..Limit - 1
        /\ u \in 0..Limit - 1 /\ count \in 0..Limit - 1 - u
        /\ u = IF tail >= head THEN tail - head ELSE tail + Limit - head
    BY PipeAssumption, Ring DEF TypeOK
  <1> HIDE DEF u
  <1>2. PICK x \in Nat : x = tail + count /\ x < Limit + Limit
    BY <1>1
  <1>3. tail' = x % Limit /\ Limit > 0
    BY <1>1, <1>2
  <1>4. tail' = IF x < Limit THEN x ELSE x - Limit
    <2>1. CASE x < Limit
      BY <1>1, <1>2, <1>3, <2>1, ModSmall
    <2>2. CASE x >= Limit
      <3>1. x % Limit = x - Limit
        BY <1>1, <1>2, <1>3, <2>2, ModWrap, Zenon
      <3> QED
        BY <1>1, <1>2, <1>3, <2>2, <3>1
    <2> QED
      BY <1>1, <1>2, <2>1, <2>2
  <1>5. tail' \in 0..Limit - 1
    BY <1>1, <1>2, <1>4
  <1>6. (tail' + Limit - head) % Limit =
          IF tail' >= head THEN tail' - head ELSE tail' + Limit - head
    BY <1>1, <1>3, <1>5, Distance
  <1>7. Used' = u + count
    BY <1>1, <1>2, <1>4, <1>6 DEF Used
  <1> QED
    BY <1>7 DEF u

\* pipe::write appends a prefix of the message, or leaves the channel alone.
LEMMA WritePuts ==
  ASSUME TypeOK, NEW t \in Thread, NEW msg \in Message, Write(t, msg)
  PROVE  Channel!Put \/ UNCHANGED <<Content, out>>
  <1> DEFINE u == Used
  <1>0. /\ Limit \in Nat /\ Limit >= 2
        /\ head \in 0..Limit - 1 /\ tail \in 0..Limit - 1
        /\ u \in 0..Limit - 1 /\ Available = Limit - 1 - u
        /\ u = IF tail >= head THEN tail - head ELSE tail + Limit - head
    BY PipeAssumption, Ring DEF TypeOK
  <1>1. PICK m \in 0..MaxLength : msg \in [1..m -> Byte]
    BY DEF Message
  <1>2. m \in Nat
    BY PipeAssumption
  <1>3. Len(msg) = m
    BY <1>1, <1>2
  <1>4. PICK count : count = Least(m, Available)
    OBVIOUS
  <1>5. count \in 0..Limit - 1 - u /\ count <= m
    BY <1>0, <1>2, <1>4 DEF Least
  <1>6. out' = out /\ head' = head
    BY DEF Write
  <1>7. CASE Atomic /\ Available < m
    <2>1. tail' = tail /\ buffer' = buffer
      BY <1>3, <1>7, Zenon DEF Write
    <2> QED
      BY <1>6, <2>1 DEF Content, Used
  <1>8. CASE ~(Atomic /\ Available < m)
    <2>1. buffer' = Stored(msg, count) /\ tail' = (tail + count) % Limit
      BY <1>3, <1>4, <1>8, Zenon DEF Write
    <2> HIDE DEF u
    <2>3. Used' = u + count
      BY <1>5, <1>6, <2>1, Grown, Zenon DEF u
    <2>4. /\ Content \in [1..u -> Byte]
          /\ \A i \in 1..u : Content[i] = buffer[(head + i - 1) % Limit]
      BY ContentIsSeq DEF u
    <2>5. ASSUME NEW i \in 1..u + count
          PROVE  buffer'[(head + i - 1) % Limit]
                   = IF i <= u THEN Content[i] ELSE msg[i - u]
      <3>1. PICK p \in 0..Limit - 1 : p = (head + i - 1) % Limit
        BY <1>0, <1>5, ModRange
      <3>2. PICK j : j = 1 + ((p + Limit - tail) % Limit)
        OBVIOUS
      <3>3. j = IF i <= u THEN Limit - u + i ELSE i - u
        BY <1>0, <1>5, <3>1, <3>2, StoredAt
      <3>4. buffer'[p] = IF j <= count THEN msg[j] ELSE buffer[p]
        BY <2>1, <3>2 DEF Stored
      <3>5. CASE i <= u
        <4>1. ~(j <= count) /\ i \in 1..u
          BY <1>0, <1>5, <3>3, <3>5
        <4> QED
          BY <2>4, <3>1, <3>4, <3>5, <4>1
      <3>6. CASE ~(i <= u)
        <4>1. j = i - u /\ j <= count
          BY <1>0, <1>5, <3>3, <3>6
        <4> QED
          BY <3>1, <3>4, <3>6, <4>1
      <3> QED
        BY <3>5, <3>6
    <2>6. Content' = [i \in 1..u + count |-> IF i <= u THEN Content[i]
                                             ELSE msg[i - u]]
      <3>1. Content' = [i \in 1..Used' |-> buffer'[(head' + i - 1) % Limit]]
        BY DEF Content
      <3> QED
        BY <1>6, <2>3, <2>5, <3>1
    <2>7. CASE count = 0
      <3>1. Content' = Content
        BY <1>0, <2>4, <2>6, <2>7
      <3> QED
        BY <1>6, <3>1
    <2>8. CASE count # 0
      <3> DEFINE s == [i \in 1..count |-> msg[i]]
      <3>1. s \in [1..count -> Byte]
        BY <1>0, <1>1, <1>2, <1>5
      <3>2. Content' = [i \in 1..u + count |-> IF i <= u THEN Content[i]
                                               ELSE s[i - u]]
        BY <1>0, <1>5, <2>6
      <3> HIDE DEF s
      <3>3. PICK c : c = Content
        OBVIOUS
      <3>4. c \in [1..u -> Byte] /\ u \in Nat /\ count \in Nat
        BY <1>0, <1>5, <2>4, <3>3
      <3>5. /\ Content' \in [1..u + count -> Byte]
            /\ \A i \in 1..u + count :
                 Content'[i] = IF i <= u THEN c[i] ELSE s[i - u]
        <4>1. ASSUME NEW i \in 1..u + count
              PROVE  (IF i <= u THEN c[i] ELSE s[i - u]) \in Byte
          <5>1. CASE i <= u
            BY <3>4, <5>1
          <5>2. CASE ~(i <= u)
            <6>1. i - u \in 1..count
              BY <3>4, <5>2
            <6> QED
              BY <3>1, <5>2, <6>1
          <5> QED
            BY <5>1, <5>2
        <4> QED
          BY <3>2, <3>3, <4>1
      <3>6. Len(c) = u
        BY <3>4
      <3>7. count \in 1..(Limit - 1) - Len(c)
        BY <1>0, <1>5, <2>8, <3>6
      <3>8. Content' = Content \o s
        <4>1. PICK d : d = Content'
          OBVIOUS
        <4>2. PICK b : b = s
          OBVIOUS
        <4>3. /\ d \in [1..u + count -> Byte] /\ b \in [1..count -> Byte]
              /\ Joined(d, c, u, b, count)
          BY <3>1, <3>5, <4>1, <4>2 DEF Joined
        <4>4. d = c \o b
          BY <3>4, <4>3, Join, Zenon
        <4> QED
          BY <3>3, <4>1, <4>2, <4>4, Zenon
      <3> QED
        BY <1>6, <3>1, <3>3, <3>7, <3>8, Zenon DEF Channel!Put
    <2> QED
      BY <2>7, <2>8
  <1> QED
    BY <1>7, <1>8

\* There is one sequence of no bytes.
LEMMA NoBytes ==
  ASSUME NEW B, NEW f \in [1..0 -> B]
  PROVE  f = <<>>
  OBVIOUS

\* An empty buffer is an empty channel.
LEMMA RingStart == Init => Channel!Init
  <1> SUFFICES ASSUME Init PROVE Channel!Init
    OBVIOUS
  <1>1. TypeOK
    BY InitIInv DEF IInv
  <1>2. Used = 0
    <2>1. Limit \in Nat /\ Limit >= 2
      BY PipeAssumption
    <2>2. (tail + Limit - head) % Limit = 0
      BY <2>1, ModWrap DEF Init
    <2> QED
      BY <2>2 DEF Used
  <1>3. Content \in [1..0 -> Byte]
    BY <1>1, <1>2, ContentIsSeq
  <1>4. Content = <<>>
    BY <1>3, NoBytes, Zenon
  <1> QED
    BY <1>4, Zenon DEF Channel!Init, Init

\* Every step of the pipe is a step of the channel or leaves it alone.
LEMMA RingStep ==
  IInv /\ [Next]_vars => [Channel!Next]_<<Content, out>>
  <1> SUFFICES ASSUME IInv, [Next]_vars
               PROVE  Channel!Next \/ UNCHANGED <<Content, out>>
    OBVIOUS
  <1>1. TypeOK
    BY DEF IInv
  <1>2. CASE UNCHANGED vars
    BY <1>2 DEF vars, Content, Used
  <1>3. CASE Next
    <2>1. PICK t \in Thread :
            \/ Wait(t) \/ WrongSide(t) \/ Cancel(t)
            \/ \E n \in 0..MaxLength : Read(t, n)
            \/ \E msg \in Message : Write(t, msg)
      BY <1>3, Zenon DEF Next
    <2>2. CASE Wait(t) \/ WrongSide(t) \/ Cancel(t)
      BY <2>2 DEF Wait, WrongSide, Cancel, Content, Used
    <2>3. CASE \E n \in 0..MaxLength : Read(t, n)
      BY <1>1, <2>3, ReadGets, Zenon DEF Channel!Next
    <2>4. CASE \E msg \in Message : Write(t, msg)
      BY <1>1, <2>4, WritePuts, Zenon DEF Channel!Next
    <2> QED
      BY <2>1, <2>2, <2>3, <2>4
  <1> QED
    BY <1>2, <1>3

(* The ring buffer of pipe.cpp is a bounded first-in first-out channel of  *)
(* Limit - 1 bytes: whatever the two sides do, pipe::read hands out the    *)
(* oldest bytes in their order and pipe::write appends, however often the  *)
(* positions have gone round the buffer.                                   *)
THEOREM RingIsChannel == Spec => ImplementsChannel
  BY RingStart, RingStep, InitIInv, NextIInv, PTL
     DEF Spec, ImplementsChannel, Channel!Spec

\* An atomic write stores the whole message or nothing.
LEMMA AllOrNothing == ASSUME IInv, Atomic PROVE AtomicStep
  <1> SUFFICES ASSUME NEW t \in Writer, NEW msg \in Message,
                      Write(t, msg)
               PROVE  Used' \in {Used, Used + Len(msg)}
    BY DEF AtomicStep
  <1>0. TypeOK
    BY DEF IInv
  <1>1. /\ Limit \in Nat /\ Used \in 0..Limit - 1
        /\ Available = Limit - 1 - Used
    BY <1>0, PipeAssumption, Ring
  <1>2. PICK m : m = Len(msg)
    OBVIOUS
  <1>3. m \in Nat
    <2>1. PICK k \in 0..MaxLength : msg \in [1..k -> Byte]
      BY DEF Message
    <2>2. k \in Nat
      BY PipeAssumption
    <2> QED
      BY <1>2, <2>1, <2>2, Cut
  <1>4. head' = head
    BY DEF Write
  <1>5. CASE Available < m
    <2>1. tail' = tail
      BY <1>2, <1>5, Zenon DEF Write
    <2>2. Used' = Used
      BY <1>4, <2>1 DEF Used
    <2> QED
      BY <2>2, Zenon
  <1>6. CASE ~(Available < m)
    <2>1. tail' = (tail + Least(m, Available)) % Limit
      BY <1>2, <1>6, Zenon DEF Write
    <2>2. Least(m, Available) = m
      BY <1>1, <1>3, <1>6 DEF Least
    <2>3. m \in 0..Limit - 1 - Used
      BY <1>1, <1>3, <1>6
    <2>4. Used' = Used + m
      BY <1>0, <1>4, <2>1, <2>2, <2>3, Grown, Zenon
    <2> QED
      BY <1>2, <2>4, Zenon
  <1> QED
    BY <1>5, <1>6

(* With atomic_write pipe::write stores the whole message or no byte of    *)
(* it.                                                                     *)
THEOREM AtomicWrites ==
  ASSUME Atomic
  PROVE  Spec => [][AtomicStep]_vars
  <1>1. IInv => AtomicStep
    BY AllOrNothing
  <1> QED
    BY <1>1, InitIInv, NextIInv, PTL DEF Spec
====
