------------------------- MODULE ThreadCore_proofs -------------------------
(***************************************************************************)
(* The thread core for any set of threads and events: the links of the     *)
(* intrusive queues, the timers and the way of a stopped thread to         *)
(* gc_service.                                                             *)
(*                                                                         *)
(* A handler of ThreadCore is a composition of operators from a state r of *)
(* the kernel's data to the one it leaves, and inside a handler a thread   *)
(* may be in transit: taken out of one queue and not yet in the other.     *)
(* Sound(r, h, x, c) is the invariant of such a state: h is the thread in  *)
(* the hands of the collector, x the thread in transit (or NULL) and c the *)
(* one on the core. Each operator has a lemma that says what it does to    *)
(* Sound, each handler's lemma puts them together, and NextIInv needs the  *)
(* handlers only.                                                          *)
(***************************************************************************)
EXTENDS ThreadCore, SequenceTheorems, FiniteSetTheorems,
        WellFoundedInduction, TLAPS

(***************************************************************************)
(* Queues                                                                  *)
(***************************************************************************)
\* a thread is in a queue once
Queues == {q \in Seq(Thread) : \A i, j \in DOMAIN q : q[i] = q[j] => i = j}

\* A queue links threads only.
LEMMA QueueElems == \A q \in Queues : Elems(q) \subseteq Thread
  BY DEF Queues, Elems

\* A queue that was just constructed links no thread.
LEMMA EmptyQueue == Empty \in Queues /\ Elems(Empty) = {}
  BY DEF Queues, Empty, Elems

\* thread_queue::put of a thread that is not linked adds it, once.
LEMMA PutQueue ==
  ASSUME NEW q \in Queues, NEW t \in Thread, t \notin Elems(q)
  PROVE  Put(q, t) \in Queues /\ Elems(Put(q, t)) = Elems(q) \cup {t}
  <1>1. q \in Seq(Thread) /\ \A i, j \in DOMAIN q : q[i] = q[j] => i = j
    BY DEF Queues
  <1>2. PICK n \in Nat : Len(q) = n /\ DOMAIN q = 1..n
    BY <1>1
  <1>3. PICK s : s = Append(q, t)
    OBVIOUS
  <1>4. /\ s \in Seq(Thread) /\ DOMAIN s = 1..n + 1 /\ s[n + 1] = t
        /\ \A i \in 1..n : s[i] = q[i]
    BY <1>1, <1>2, <1>3, AppendProperties
  <1>5. \A i \in 1..n : q[i] # t
    BY <1>2 DEF Elems
  <1>6. s \in Queues
    BY <1>1, <1>2, <1>4, <1>5 DEF Queues
  <1>7. Elems(s) = Elems(q) \cup {t}
    BY <1>2, <1>4 DEF Elems
  <1> QED
    BY <1>3, <1>6, <1>7, Zenon DEF Put

\* thread_queue::get takes one thread of a queue that is not empty and
\* leaves the others.
LEMMA SplitQueue ==
  ASSUME NEW q \in Queues, q # Empty
  PROVE  \E t \in Elems(q) : /\ Taken(q) \in Queues /\ Elems(Taken(q)) = {t}
                             /\ Left(q) \in Queues
                             /\ Elems(Left(q)) = Elems(q) \ {t}
  <1>1. q \in Seq(Thread) /\ \A i, j \in DOMAIN q : q[i] = q[j] => i = j
    BY DEF Queues
  <1>2. PICK n \in Nat : Len(q) = n + 1 /\ DOMAIN q = 1..n + 1
    BY <1>1 DEF Empty
  <1>3. PICK t : t = q[1]
    OBVIOUS
  <1>4. PICK s : s = Tail(q)
    OBVIOUS
  <1>5. /\ s \in Seq(Thread) /\ DOMAIN s = 1..n
        /\ \A i \in 1..n : s[i] = q[i + 1]
    BY <1>1, <1>2, <1>4
  <1>6. s \in Queues
    <2> SUFFICES ASSUME NEW i \in 1..n, NEW j \in 1..n, s[i] = s[j]
                 PROVE  i = j
      BY <1>5 DEF Queues
    <2>1. /\ i + 1 \in 1..n + 1 /\ j + 1 \in 1..n + 1
          /\ q[i + 1] = q[j + 1]
      BY <1>5
    <2>2. i + 1 = j + 1
      BY <1>1, <1>2, <2>1
    <2> QED
      BY <2>2
  <1>7. ASSUME NEW u PROVE u \in Elems(s) <=> u \in Elems(q) /\ u # t
    <2>1. u \in Elems(s) <=> \E i \in 1..n : q[i + 1] = u
      BY <1>5 DEF Elems
    <2>2. u \in Elems(q) <=> \E i \in 1..n + 1 : q[i] = u
      BY <1>2 DEF Elems
    <2>3. ASSUME NEW i \in 1..n PROVE q[i + 1] # t /\ i + 1 \in 1..n + 1
      BY <1>1, <1>2, <1>3
    <2>4. ASSUME NEW i \in 1..n + 1, q[i] # t PROVE i - 1 \in 1..n
      BY <1>3, <2>4
    <2>5. u \in Elems(s) => u \in Elems(q) /\ u # t
      BY <2>1, <2>2, <2>3
    <2>6. ASSUME u \in Elems(q), u # t PROVE u \in Elems(s)
      <3>1. PICK i \in 1..n + 1 : q[i] = u
        BY <2>2, <2>6
      <3>2. i - 1 \in 1..n /\ q[(i - 1) + 1] = u
        BY <2>4, <2>6, <3>1
      <3> QED
        BY <2>1, <3>2
    <2> QED
      BY <2>5, <2>6
  <1>8. Elems(s) = Elems(q) \ {t}
    BY <1>7
  <1>9. t \in Thread /\ t \in Elems(q) /\ Head(q) = t
    BY <1>1, <1>2, <1>3 DEF Elems
  <1>10. <<t>> \in Queues /\ Elems(<<t>>) = {t}
    BY <1>9 DEF Queues, Elems
  <1>11. Taken(q) = <<t>> /\ Left(q) = s
    BY <1>4, <1>9, Zenon DEF Taken, Left
  <1> QED
    BY <1>6, <1>8, <1>9, <1>10, <1>11, Zenon

\* Appending a detached list to a queue links the threads of both, each
\* once.
LEMMA JoinedQueue ==
  ASSUME NEW q \in Queues, NEW l \in Queues, Elems(q) \cap Elems(l) = {}
  PROVE  /\ Joined(q, l) \in Queues
         /\ Elems(Joined(q, l)) = Elems(q) \cup Elems(l)
  <1>1. /\ q \in Seq(Thread) /\ \A i, j \in DOMAIN q : q[i] = q[j] => i = j
        /\ l \in Seq(Thread) /\ \A i, j \in DOMAIN l : l[i] = l[j] => i = j
    BY DEF Queues
  <1>2. PICK m \in Nat, n \in Nat : /\ Len(q) = m /\ DOMAIN q = 1..m
                                    /\ Len(l) = n /\ DOMAIN l = 1..n
    BY <1>1
  <1>3. PICK s : s = q \o l
    OBVIOUS
  <1>4. /\ s \in Seq(Thread) /\ DOMAIN s = 1..m + n
        /\ \A i \in 1..m : s[i] = q[i]
        /\ \A i \in 1..n : s[m + i] = l[i]
    <2>0. q \in Seq(Thread) /\ l \in Seq(Thread)
      BY <1>1
    <2>1. /\ q \o l \in Seq(Thread) /\ Len(q \o l) = Len(q) + Len(l)
          /\ \A i \in 1..Len(q) + Len(l) :
               (q \o l)[i] = IF i <= Len(q) THEN q[i] ELSE l[i - Len(q)]
      BY <2>0, ConcatProperties, Zenon
    <2>2. /\ s \in Seq(Thread) /\ Len(s) = m + n
          /\ \A i \in 1..m + n : s[i] = IF i <= m THEN q[i] ELSE l[i - m]
      BY <1>2, <1>3, <2>1, Zenon
    <2>3. DOMAIN s = 1..m + n
      BY <2>2
    <2>4. ASSUME NEW i \in 1..n PROVE s[m + i] = l[i]
      <3>1. m + i \in 1..m + n /\ ~(m + i <= m) /\ m + i - m = i
        OBVIOUS
      <3> QED
        BY <2>2, <3>1
    <2>5. \A i \in 1..m : s[i] = q[i]
      BY <2>2
    <2> QED
      BY <2>2, <2>3, <2>4, <2>5
  <1>5. \A i \in 1..m + n : i \in 1..m \/ \E j \in 1..n : i = m + j
    <2> SUFFICES ASSUME NEW i \in 1..m + n, i \notin 1..m
                 PROVE  \E j \in 1..n : i = m + j
      OBVIOUS
    <2>1. i - m \in 1..n /\ i = m + (i - m)
      OBVIOUS
    <2> QED
      BY <2>1
  <1>6. \A i \in 1..m, j \in 1..n : q[i] # l[j]
    BY <1>2 DEF Elems
  <1>7. s \in Queues
    <2> SUFFICES ASSUME NEW i \in 1..m + n, NEW j \in 1..m + n, s[i] = s[j]
                 PROVE  i = j
      BY <1>4 DEF Queues
    <2>1. CASE i \in 1..m /\ j \in 1..m
      BY <1>1, <1>2, <1>4, <2>1
    <2>2. ASSUME NEW a \in 1..n, NEW b \in 1..n, i = m + a, j = m + b
          PROVE  i = j
      <3>1. l[a] = l[b]
        BY <1>4, <2>2
      <3> QED
        BY <1>1, <1>2, <2>2, <3>1
    <2>3. ASSUME NEW a \in 1..m, NEW b \in 1..n PROVE s[a] # s[m + b]
      BY <1>4, <1>6
    <2> QED
      BY <1>5, <2>1, <2>2, <2>3
  <1>8. Elems(s) = Elems(q) \cup Elems(l)
    <2> SUFFICES ASSUME NEW u
                 PROVE  u \in Elems(s) <=> u \in Elems(q) \cup Elems(l)
      OBVIOUS
    <2>1. /\ u \in Elems(s) <=> \E i \in 1..m + n : s[i] = u
          /\ u \in Elems(q) <=> \E i \in 1..m : q[i] = u
          /\ u \in Elems(l) <=> \E i \in 1..n : l[i] = u
      BY <1>2, <1>4 DEF Elems
    <2>2. \A i \in 1..m : i \in 1..m + n
      OBVIOUS
    <2>3. \A i \in 1..n : m + i \in 1..m + n
      OBVIOUS
    <2> QED
      BY <1>4, <1>5, <2>1, <2>2, <2>3
  <1> QED
    BY <1>3, <1>7, <1>8, Zenon DEF Joined

\* Counting the elements of a finite set of numbers up to each of them
\* enumerates it.
LEMMA Ranks ==
  ASSUME NEW n \in Nat, NEW I, I \subseteq 1..n
  PROVE  /\ Cardinality(I) \in Nat
         /\ \A i \in I : Cardinality({j \in I : j <= i}) \in 1..Cardinality(I)
         /\ \A i, a \in I : Cardinality({j \in I : j <= i})
                              = Cardinality({j \in I : j <= a}) => i = a
         /\ \A c \in 1..Cardinality(I) :
              \E i \in I : Cardinality({j \in I : j <= i}) = c
  <1> DEFINE upto(i) == {j \in I : j <= i}
             rank == [i \in I |-> Cardinality(upto(i))]
  <1>1. IsFiniteSet(I) /\ Cardinality(I) \in Nat
    <2>1. IsFiniteSet(1..n)
      BY FS_Interval
    <2>2. IsFiniteSet(I)
      BY <2>1, FS_Subset
    <2> QED
      BY <2>2, FS_CardinalityType
  <1>2. PICK c \in Nat : c = Cardinality(I)
    BY <1>1
  <1>3. ASSUME NEW i \in I
        PROVE  /\ IsFiniteSet(upto(i)) /\ Cardinality(upto(i)) \in 1..c
    <2>1. upto(i) \in SUBSET I /\ i \in upto(i)
      OBVIOUS
    <2>2. IsFiniteSet(upto(i)) /\ Cardinality(upto(i)) <= c
      BY <1>1, <1>2, <2>1, FS_Subset
    <2>3. Cardinality(upto(i)) \in Nat /\ Cardinality(upto(i)) # 0
      BY <2>1, <2>2, FS_CardinalityType, FS_EmptySet
    <2> QED
      BY <2>2, <2>3
  <1>4. ASSUME NEW i \in I, NEW a \in I, i < a
        PROVE  Cardinality(upto(i)) # Cardinality(upto(a))
    <2>1. a \in upto(a) /\ a \notin upto(i)
      BY <1>4
    <2>2. ASSUME NEW j \in upto(i) PROVE j \in upto(a)
      <3>1. j \in I /\ j <= i /\ j \in Int /\ i \in Int /\ a \in Int
        OBVIOUS
      <3> QED
        BY <1>4, <3>1
    <2>3. upto(i) \in SUBSET upto(a) /\ upto(i) # upto(a)
      BY <2>1, <2>2
    <2> HIDE DEF upto
    <2> QED
      BY <1>3, <2>3, FS_Subset
  <1>5. ASSUME NEW i \in I, NEW a \in I, i # a
        PROVE  Cardinality(upto(i)) # Cardinality(upto(a))
    <2>1. i < a \/ a < i
      BY <1>5
    <2> QED
      BY <1>4, <2>1
  <1>6. ASSUME NEW b \in 1..c, \A i \in I : Cardinality(upto(i)) # b
        PROVE  FALSE
    <2> DEFINE T == (1..c) \ {b}
    <2>1. IsFiniteSet(T) /\ Cardinality(T) = c - 1
      <3>1. IsFiniteSet(1..c) /\ Cardinality(1..c) = c
        BY FS_Interval
      <3> QED
        BY <3>1, FS_RemoveElement
    <2>2. rank \in [I -> T]
      BY <1>3, <1>6
    <2>3. \E i, a \in I : i # a /\ rank[i] = rank[a]
      <3>1. Cardinality(T) < Cardinality(I)
        BY <1>2, <2>1
      <3> HIDE DEF rank, T
      <3> QED
        BY <1>1, <2>1, <2>2, <3>1, FS_PigeonHole, Zenon
    <2> QED
      BY <1>5, <2>3
  <1> QED
    BY <1>1, <1>2, <1>3, <1>5, <1>6

\* Unlinking threads from a queue leaves the others, each once: Only is the
\* set of the links intersected with S.
LEMMA OnlyQueue ==
  ASSUME NEW q \in Queues, NEW S
  PROVE  Only(q, S) \in Queues /\ Elems(Only(q, S)) = Elems(q) \cap S
  <1>1. q \in Seq(Thread) /\ \A i, j \in DOMAIN q : q[i] = q[j] => i = j
    BY DEF Queues
  <1>2. PICK n \in Nat : DOMAIN q = 1..n
    BY <1>1
  <1>3. \A i \in 1..n : q[i] \in Thread
    BY <1>1, <1>2
  <1> DEFINE I == {i \in DOMAIN q : q[i] \in S}
             c == Cardinality(I)
             rank(i) == Cardinality({j \in I : j <= i})
             nth(b) == CHOOSE i \in I : rank(i) = b
  <1>4. Only(q, S) = [b \in 1..c |-> q[nth(b)]]
    BY Zenon DEF Only
  <1>5. I = {i \in DOMAIN q : q[i] \in S} /\ c = Cardinality(I)
    OBVIOUS
  <1> HIDE DEF I, c
  <1>6. /\ c \in Nat /\ \A i \in I : rank(i) \in 1..c
        /\ \A i, a \in I : rank(i) = rank(a) => i = a
        /\ \A b \in 1..c : \E i \in I : rank(i) = b
    <2>1. I \subseteq 1..n
      BY <1>2, <1>5
    <2>2. c = Cardinality(I)
      BY <1>5
    <2> QED
      BY <2>1, <2>2, Ranks, Zenon
  <1>7. \A b \in 1..c : nth(b) \in I /\ rank(nth(b)) = b
    BY <1>6, Zenon
  <1>8. \A i \in I : nth(rank(i)) = i
    BY <1>6, <1>7, Zenon
  <1> HIDE DEF nth, rank
  <1>9. PICK s : s = [b \in 1..c |-> q[nth(b)]]
    OBVIOUS
  <1>10. s \in Seq(Thread) /\ DOMAIN s = 1..c
    BY <1>2, <1>3, <1>5, <1>6, <1>7, <1>9
  <1>11. \A a, b \in 1..c : s[a] = s[b] => a = b
    BY <1>1, <1>2, <1>5, <1>7, <1>9
  <1>12. s \in Queues
    BY <1>10, <1>11 DEF Queues
  <1>13. ASSUME NEW u PROVE u \in Elems(s) <=> u \in Elems(q) /\ u \in S
    <2>1. u \in Elems(s) <=> \E b \in 1..c : u = q[nth(b)]
      BY <1>9 DEF Elems
    <2>2. u \in Elems(q) /\ u \in S <=> \E i \in I : u = q[i]
      BY <1>2, <1>5 DEF Elems
    <2> QED
      BY <1>6, <1>7, <1>8, <2>1, <2>2
  <1> QED
    BY <1>4, <1>9, <1>12, <1>13
(***************************************************************************)
(* The invariant                                                           *)
(***************************************************************************)
Kernel ==
  [state : [Thread -> States], priority : [Thread -> Level],
   critical : [Thread -> SUBSET {"CRITICAL", "KILL"}],
   wait_for : [Thread -> Waitable \cup {NULL}],
   ticket : [Thread -> BOOLEAN], armed : SUBSET Thread,
   ready : [Level -> Queues], wq : [Waitable -> Queues],
   signaled : SUBSET Event, gcq : SUBSET Thread,
   gc_ptr : Thread \cup {NULL}, dead : SUBSET Thread, cur : Thread,
   locked : SUBSET Waitable, halt : Halts]

\* A record whose changed fields are well typed is a state of the kernel.
LEMMA Renewed ==
  ASSUME NEW r \in Kernel, NEW a \in [Thread -> States],
         NEW b \in [Thread -> Waitable \cup {NULL}],
         NEW c \in [Thread -> BOOLEAN], NEW d \in SUBSET Thread,
         NEW e \in [Level -> Queues]
  PROVE  [r EXCEPT !.state = a, !.wait_for = b, !.ticket = c, !.armed = d,
                   !.ready = e] \in Kernel
  BY DEF Kernel

InR(r, t) == \E p \in Level : t \in Elems(r.ready[p])

\* The links of t.  The thread x that imp_wait sets aside is READY but in no
\* queue.
Linked(r, x, t) ==
  /\ \A p, q \in Level :
       t \in Elems(r.ready[p]) /\ t \in Elems(r.ready[q]) => p = q
  /\ InR(r, t) => r.state[t] \in {"READY", "STOPPED"}
  /\ r.state[t] = "READY" /\ t # x => InR(r, t)
  /\ \A o \in Waitable : t \in Elems(r.wq[o]) <=> r.wait_for[t] = o
  /\ r.wait_for[t] # NULL => r.state[t] = "WAITING"
  /\ t \in r.armed <=> r.ticket[t]
  /\ r.ticket[t] => r.state[t] = "WAITING"
  /\ r.state[t] = "WAITING" => r.ticket[t] \/ r.wait_for[t] # NULL

\* t is on one of the ways to gc_service; h is in the hands of its thread
Going(r, h, t) == t \in r.gcq \/ t \in r.dead \/ t = r.gc_ptr \/ t = h

Ended(r, h, x, c, t) ==
  /\ Going(r, h, t) => r.state[t] = "STOPPED" /\ ~InR(r, t) /\ t # c
  /\ t \in r.gcq => t \notin r.dead /\ t # r.gc_ptr /\ t # h
  /\ t \in r.dead => t # r.gc_ptr /\ t # h
  /\ t = r.gc_ptr => t # h
  /\ r.state[t] = "STOPPED" /\ t # x =>
       InR(r, t) \/ t = c \/ Going(r, h, t)
  /\ r.state[t] = "STOPPED" /\ t = c => ~InR(r, t)

Sound(r, h, x, c) ==
  /\ r \in Kernel
  /\ \A t \in Thread : Linked(r, x, t) /\ Ended(r, h, x, c, t)

\* the thread that the collector has taken out of its queue
Hand == IF pc[GC] = "collect" THEN obj[GC] ELSE NULL

\* one thread runs, and idle is ready whenever it does not
RunsOne(r) ==
  /\ \A t \in Thread : r.state[t] = "RUNNING" => t = r.cur
  /\ r.state[r.cur] \in {"RUNNING", "STOPPED"}
  /\ r.state[Idle] \in {"READY", "RUNNING"}

\* where the threads are
PlacesFine ==
  /\ pc \in [Thread -> Places] /\ obj \in [Thread -> Waitable \cup {NULL}]
  /\ pc[GC] \in {"wait", "get", "collect"}
  /\ pc[GC] = "collect" => obj[GC] \in Thread
  /\ \A t \in User : pc[t] = "wait" => obj[t] \in (Event \cup User) \ {t}
  /\ \A t \in Thread : "CRITICAL" \in k.critical[t] =>
       /\ t # GC /\ pc[t] \in {"service", "leave", "wait"}
       /\ k.state[t] # "STOPPED"
  /\ k.state[k.cur] = "STOPPED" => pc[k.cur] = "escape"

IInv ==
  /\ Sound(k, Hand, NULL, k.cur) /\ RunsOne(k) /\ PlacesFine
  /\ k.halt # "no ready thread"

(***************************************************************************)
(* Waking threads                                                          *)
(***************************************************************************)
\* What waking leaves alone.
Same(r, s) ==
  /\ s.priority = r.priority /\ s.critical = r.critical /\ s.gcq = r.gcq
  /\ s.gc_ptr = r.gc_ptr /\ s.dead = r.dead /\ s.cur = r.cur
  /\ s.locked = r.locked /\ s.halt = r.halt /\ s.signaled = r.signaled

Woke(r, s) ==
  /\ Same(r, s)
  /\ \A t \in Thread :
       /\ s.state[t] = r.state[t]
            \/ (r.state[t] = "WAITING" /\ s.state[t] = "READY")
       /\ InR(r, t) => InR(s, t)
       /\ InR(s, t) => InR(r, t) \/ r.state[t] = "WAITING"

\* imp_notify on the threads of a list that was part of a wait queue: they
\* are READY and in the queue of their priority, and their timer is cancelled.
LEMMA NotifySound ==
  ASSUME NEW r, NEW h, NEW x, NEW c, Sound(r, h, x, c), NEW o \in Waitable,
         NEW list \in Queues, NEW rest \in Queues,
         Elems(list) \subseteq Elems(r.wq[o]),
         Elems(rest) = Elems(r.wq[o]) \ Elems(list),
         NEW s, s = ImpNotify([r EXCEPT !.wq[o] = rest], list)
  PROVE  Sound(s, h, x, c) /\ Woke(r, s)
  <1> DEFINE woken == Elems(list)
             at(p) == Only(list, {t \in woken : r.priority[t] = p})
  <1>1. /\ r \in Kernel
        /\ \A t \in Thread : Linked(r, x, t) /\ Ended(r, h, x, c, t)
    BY DEF Sound
  <1>2. woken \subseteq Thread
    BY QueueElems
  <1>3. /\ \A t \in Thread : s.state[t] = IF t \in woken THEN "READY"
                                          ELSE r.state[t]
        /\ \A t \in Thread : s.wait_for[t] = IF t \in woken THEN NULL
                                             ELSE r.wait_for[t]
        /\ \A t \in Thread : s.ticket[t] = IF t \in woken THEN FALSE
                                           ELSE r.ticket[t]
        /\ s.armed = r.armed \ woken
        /\ \A p \in Level : s.ready[p] = Joined(r.ready[p], at(p))
        /\ \A w \in Waitable : s.wq[w] = IF w = o THEN rest ELSE r.wq[w]
        /\ Same(r, s)
    BY <1>1 DEF ImpNotify, Kernel, Same
  <1>4. \A t \in woken : /\ r.state[t] = "WAITING" /\ r.wait_for[t] = o
                         /\ ~InR(r, t)
    <2> SUFFICES ASSUME NEW t \in woken
                 PROVE  /\ r.state[t] = "WAITING" /\ r.wait_for[t] = o
                        /\ ~InR(r, t)
      OBVIOUS
    <2>1. r.wait_for[t] = o /\ o # NULL
      BY <1>1, <1>2, ThreadAssumption DEF Linked
    <2> QED
      BY <1>1, <1>2, <2>1 DEF Linked
  <1>5. ASSUME NEW p \in Level
        PROVE  /\ Joined(r.ready[p], at(p)) \in Queues
               /\ Elems(Joined(r.ready[p], at(p))) =
                    Elems(r.ready[p]) \cup {t \in woken : r.priority[t] = p}
    <2>1. at(p) \in Queues /\ Elems(at(p)) = {t \in woken : r.priority[t] = p}
      BY OnlyQueue
    <2>2. r.ready[p] \in Queues
      BY <1>1 DEF Kernel
    <2>3. Elems(r.ready[p]) \cap Elems(at(p)) = {}
      BY <1>4, <2>1 DEF InR
    <2> HIDE DEF at
    <2> QED
      BY <2>1, <2>2, <2>3, JoinedQueue
  <1>6. s \in Kernel
    <2>1. PICK r0 : r0 = [r EXCEPT !.wq[o] = rest]
      OBVIOUS
    <2>2. /\ r0 \in Kernel /\ r0.state = r.state /\ r0.wait_for = r.wait_for
          /\ r0.ticket = r.ticket /\ r0.armed = r.armed
          /\ r0.ready = r.ready /\ r0.priority = r.priority
      BY <1>1, <2>1 DEF Kernel
    <2>3. PICK sf, wf, tf, ar, rf :
            /\ sf = [t \in Thread |-> IF t \in woken THEN "READY"
                                   ELSE r0.state[t]]
            /\ wf = [t \in Thread |-> IF t \in woken THEN NULL
                                   ELSE r0.wait_for[t]]
            /\ tf = [t \in Thread |-> IF t \in woken THEN FALSE
                                   ELSE r0.ticket[t]]
            /\ ar = r0.armed \ woken
            /\ rf = [p \in Level |-> Joined(r0.ready[p],
                          Only(list, {t \in woken : r0.priority[t] = p}))]
      OBVIOUS
    <2>4. s = [r0 EXCEPT !.state = sf, !.wait_for = wf, !.ticket = tf,
                         !.armed = ar, !.ready = rf]
      BY <2>1, <2>2, <2>3 DEF ImpNotify, Kernel
    <2>5. /\ sf \in [Thread -> States] /\ tf \in [Thread -> BOOLEAN]
          /\ wf \in [Thread -> Waitable \cup {NULL}] /\ ar \in SUBSET Thread
      BY <2>2, <2>3 DEF Kernel, States
    <2>6. rf \in [Level -> Queues]
      BY <1>5, <2>2, <2>3
    <2> HIDE DEF woken
    <2>7. [r0 EXCEPT !.state = sf, !.wait_for = wf, !.ticket = tf,
                     !.armed = ar, !.ready = rf] \in Kernel
      BY <2>2, <2>5, <2>6, Renewed, Zenon
    <2> QED
      BY <2>4, <2>7, Zenon
  <1>7. \A t \in Thread : InR(s, t) <=> InR(r, t) \/ t \in woken
    <2>1. \A t \in woken : r.priority[t] \in Level
      BY <1>1, <1>2 DEF Kernel
    <2> HIDE DEF at
    <2> QED
      BY <1>3, <1>5, <2>1 DEF InR
  <1>8. Woke(r, s)
    BY <1>3, <1>4, <1>7 DEF Woke
  <1>9. ASSUME NEW t \in Thread PROVE Linked(s, x, t)
    <2>0. Linked(r, x, t)
      BY <1>1
    <2>1. ASSUME NEW p \in Level, NEW q \in Level, t \in Elems(s.ready[p]),
                 t \in Elems(s.ready[q])
          PROVE  p = q
      <3>1. \/ t \in woken /\ r.priority[t] = p /\ r.priority[t] = q
            \/ t \in Elems(r.ready[p]) /\ t \in Elems(r.ready[q])
        <4>1. /\ t \in Elems(r.ready[p]) \cup {u \in woken : r.priority[u] = p}
              /\ t \in Elems(r.ready[q]) \cup {u \in woken : r.priority[u] = q}
          BY <1>3, <1>5, <2>1
        <4> QED
          BY <1>4, <4>1 DEF InR
      <3> QED
        BY <2>0, <3>1 DEF Linked
    <2>2. \A w \in Waitable : t \in Elems(s.wq[w]) <=> s.wait_for[t] = w
      BY <1>3, <1>4, <2>0, ThreadAssumption DEF Linked
    <2>3. t \in s.armed <=> s.ticket[t]
      BY <1>3, <2>0 DEF Linked
    <2>4. CASE t \in woken
      BY <1>3, <1>7, <2>1, <2>2, <2>3, <2>4 DEF Linked
    <2>5. CASE t \notin woken
      BY <1>3, <1>7, <2>0, <2>1, <2>2, <2>3, <2>5 DEF Linked
    <2> QED
      BY <2>4, <2>5
  <1>10. ASSUME NEW t \in Thread PROVE Ended(s, h, x, c, t)
    <2>0. Ended(r, h, x, c, t)
      BY <1>1
    <2>1. Going(s, h, t) <=> Going(r, h, t)
      BY <1>3 DEF Going, Same
    <2> QED
      BY <1>3, <1>4, <1>7, <2>0, <2>1 DEF Ended, Same
  <1> QED
    BY <1>6, <1>8, <1>9, <1>10 DEF Sound

\* waitable::notify wakes the whole wait queue.
LEMMA NotifyAllSound ==
  ASSUME NEW r, NEW h, NEW x, NEW c, Sound(r, h, x, c), NEW o \in Waitable
  PROVE  Sound(Notify(r, o), h, x, c) /\ Woke(r, Notify(r, o))
  <1>1. r.wq[o] \in Queues
    BY DEF Sound, Kernel
  <1>2. PICK list : list = r.wq[o]
    OBVIOUS
  <1>3. PICK s : s = ImpNotify([r EXCEPT !.wq[o] = Empty], list)
    OBVIOUS
  <1>4. Notify(r, o) = s
    BY <1>2, <1>3, Zenon DEF Notify
  <1>5. /\ list \in Queues /\ Elems(list) \subseteq Elems(r.wq[o])
        /\ Empty \in Queues /\ Elems(Empty) = Elems(r.wq[o]) \ Elems(list)
    BY <1>1, <1>2, EmptyQueue
  <1>6. Sound(s, h, x, c) /\ Woke(r, s)
    BY <1>3, <1>5, NotifySound, Zenon
  <1> QED
    BY <1>4, <1>6, Zenon

\* Waking nobody is waking.
LEMMA WokeNone == \A r : Woke(r, r)
  BY DEF Woke, Same

\* event::signal_one wakes the head of the wait queue or nobody.
LEMMA SignalOneSound ==
  ASSUME NEW r, NEW h, NEW x, NEW c, Sound(r, h, x, c), NEW o \in Waitable
  PROVE  Sound(SignalOne(r, o), h, x, c) /\ Woke(r, SignalOne(r, o))
  <1>1. CASE r.wq[o] = Empty
    BY <1>1, WokeNone, Zenon DEF SignalOne
  <1>2. CASE r.wq[o] # Empty
    <2>1. r.wq[o] \in Queues
      BY DEF Sound, Kernel
    <2>2. PICK list, rest : list = Taken(r.wq[o]) /\ rest = Left(r.wq[o])
      OBVIOUS
    <2>3. PICK t \in Elems(r.wq[o]) :
            /\ list \in Queues /\ Elems(list) = {t}
            /\ rest \in Queues /\ Elems(rest) = Elems(r.wq[o]) \ {t}
      BY <1>2, <2>1, <2>2, SplitQueue, Zenon
    <2>4. PICK s : s = ImpNotify([r EXCEPT !.wq[o] = rest], list)
      OBVIOUS
    <2>5. [r EXCEPT !.wq[o] = Left(@)] = [r EXCEPT !.wq[o] = rest]
      BY <2>2 DEF Sound, Kernel
    <2>6. SignalOne(r, o) = s
      BY <1>2, <2>2, <2>4, <2>5, Zenon DEF SignalOne
    <2>7. /\ Elems(list) \subseteq Elems(r.wq[o])
          /\ Elems(rest) = Elems(r.wq[o]) \ Elems(list)
      BY <2>3
    <2>8. Sound(s, h, x, c) /\ Woke(r, s)
      BY <2>3, <2>4, <2>7, NotifySound, Zenon
    <2> QED
      BY <2>6, <2>8, Zenon
  <1> QED
    BY <1>1, <1>2

\* gc.signal halts only if the caller holds the objlock of gc_service::ev.
LEMMA GcSignalSound ==
  ASSUME NEW r, NEW h, NEW x, NEW c, Sound(r, h, x, c), NEW cond, NEW target,
         NEW held, NEW s, s = GcSignalIf(r, cond, target, held)
  PROVE  \/ Sound(s, h, x, c) /\ Woke(r, s)
         \/ GcEv \in held /\ s = Bugcheck(r, "spinlock timeout")
  <1>1. GcEv \in Waitable
    BY DEF Waitable
  <1>2. Sound(r, h, x, c) /\ Woke(r, r)
    BY WokeNone
  <1>3. Sound(SignalOne(r, GcEv), h, x, c) /\ Woke(r, SignalOne(r, GcEv))
    BY <1>1, SignalOneSound, Zenon
  <1> QED
    BY <1>2, <1>3, Zenon DEF GcSignalIf, GcSignal

(***************************************************************************)
(* One thread in transit: it is x while it is in no queue                  *)
(***************************************************************************)
\* scheduler::put on the thread in transit
LEMMA PutSound ==
  ASSUME NEW r, NEW h, NEW t \in Thread, NEW c, Sound(r, h, t, c),
         r.state[t] = "READY", ~InR(r, t), NEW s, s = ReadyPut(r, t)
  PROVE  /\ Sound(s, h, NULL, c) /\ Same(r, s) /\ s.state = r.state
         /\ \A u \in Thread : InR(s, u) <=> InR(r, u) \/ u = t
  <1>1. /\ r \in Kernel
        /\ \A u \in Thread : Linked(r, t, u) /\ Ended(r, h, t, c, u)
    BY DEF Sound
  <1>2. PICK p : p = r.priority[t]
    OBVIOUS
  <1>3. p \in Level /\ r.ready[p] \in Queues /\ t \notin Elems(r.ready[p])
    BY <1>1, <1>2 DEF Kernel, InR
  <1>4. PICK q : q = Put(r.ready[p], t)
    OBVIOUS
  <1>5. q \in Queues /\ Elems(q) = Elems(r.ready[p]) \cup {t}
    BY <1>3, <1>4, PutQueue, Zenon
  <1>6. s = [r EXCEPT !.ready[p] = q]
    BY <1>1, <1>2, <1>3, <1>4 DEF ReadyPut, Kernel
  <1>7. s \in Kernel
    <2>1. PICK rf : rf = [r.ready EXCEPT ![p] = q]
      OBVIOUS
    <2>2. rf \in [Level -> Queues]
      BY <1>1, <1>3, <1>5, <2>1 DEF Kernel
    <2>3. s = [r EXCEPT !.ready = rf]
      BY <1>6, <2>1
    <2> QED
      BY <1>1, <2>2, <2>3 DEF Kernel
  <1>8. /\ \A i \in Level : s.ready[i] = IF i = p THEN q ELSE r.ready[i]
        /\ s.state = r.state /\ s.wait_for = r.wait_for
        /\ s.ticket = r.ticket /\ s.armed = r.armed /\ s.wq = r.wq
        /\ Same(r, s)
    BY <1>1, <1>3, <1>6 DEF Kernel, Same
  <1>9. \A u \in Thread : InR(s, u) <=> InR(r, u) \/ u = t
    BY <1>3, <1>5, <1>8 DEF InR
  <1>10. ASSUME NEW u \in Thread PROVE Linked(s, NULL, u)
    <2>1. ASSUME NEW i \in Level, NEW j \in Level, u \in Elems(s.ready[i]),
                 u \in Elems(s.ready[j])
          PROVE  i = j
      <3>1. CASE u = t
        BY <1>3, <1>5, <1>8, <2>1, <3>1 DEF InR
      <3>2. CASE u # t
        BY <1>1, <1>5, <1>8, <2>1, <3>2 DEF Linked
      <3> QED
        BY <3>1, <3>2
    <2> QED
      BY <1>1, <1>8, <1>9, <2>1 DEF Linked
  <1>11. ASSUME NEW u \in Thread PROVE Ended(s, h, NULL, c, u)
    <2>1. Going(s, h, u) <=> Going(r, h, u)
      BY <1>8 DEF Going, Same
    <2> QED
      BY <1>1, <1>8, <1>9, <2>1 DEF Ended, Same
  <1> QED
    BY <1>7, <1>8, <1>9, <1>10, <1>11 DEF Sound

Turned(r, t, v) == [r EXCEPT !.state[t] = v]

\* A thread that is RUNNING or not yet alive becomes READY, in transit.
LEMMA ReadySound ==
  ASSUME NEW r, NEW h, NEW t \in Thread, NEW c, Sound(r, h, NULL, c),
         r.state[t] \in {"RUNNING", "FREE"},
         NEW s, s = Turned(r, t, "READY")
  PROVE  /\ Sound(s, h, t, c) /\ Same(r, s) /\ ~InR(s, t)
         /\ \A u \in Thread : s.state[u] = IF u = t THEN "READY"
                                           ELSE r.state[u]
  <1>1. r \in Kernel
        /\ \A u \in Thread : Linked(r, NULL, u) /\ Ended(r, h, NULL, c, u)
    BY DEF Sound
  <1>2. /\ s \in Kernel /\ Same(r, s)
        /\ s.wait_for = r.wait_for /\ s.ticket = r.ticket
        /\ s.armed = r.armed /\ s.wq = r.wq /\ s.ready = r.ready
        /\ \A u \in Thread : s.state[u] = IF u = t THEN "READY"
                                          ELSE r.state[u]
    BY <1>1 DEF Kernel, Same, States, Turned
  <1>3. \A u \in Thread : InR(s, u) <=> InR(r, u)
    BY <1>2 DEF InR
  <1>4. NULL \notin Thread
    BY ThreadAssumption DEF Waitable
  <1>5. ASSUME NEW u \in Thread PROVE Linked(s, t, u) /\ Ended(s, h, t, c, u)
    <2>1. Linked(s, t, u)
      BY <1>1, <1>2, <1>3, <1>4 DEF Linked
    <2>2. Going(s, h, u) <=> Going(r, h, u)
      BY <1>2 DEF Going, Same
    <2>3. Ended(s, h, t, c, u)
      BY <1>1, <1>2, <1>3, <1>4, <2>2 DEF Ended, Same
    <2> QED
      BY <2>1, <2>3
  <1>6. ~InR(s, t)
    BY <1>1, <1>3 DEF Linked
  <1> QED
    BY <1>2, <1>5, <1>6 DEF Sound

(***************************************************************************)
(* Giving the core away                                                    *)
(***************************************************************************)
\* what a switch leaves alone
Kept(r, s) ==
  /\ s.priority = r.priority /\ s.critical = r.critical /\ s.dead = r.dead
  /\ s.locked = r.locked /\ s.halt = r.halt /\ s.signaled = r.signaled

\* the states a call leaves, but for threads it wakes
StatesWoke(r, s) ==
  \A t \in Thread : \/ s.state[t] = r.state[t]
                    \/ r.state[t] = "WAITING" /\ s.state[t] = "READY"

\* switch_to: the thread in gc_ptr goes to the gc queue, the one that leaves
\* the core STOPPED takes its place, and gc is woken.
LEMMA SwitchSound ==
  ASSUME NEW r, NEW h, Sound(r, h, NULL, r.cur), NEW target \in Thread,
         r.state[target] = "RUNNING", target # r.cur,
         NEW s, s = SwitchTo(r, target)
  PROVE  /\ Sound(s, h, NULL, s.cur) /\ s.cur = target
         /\ Kept(r, s) /\ StatesWoke(r, s)
  <1>1. r \in Kernel
        /\ \A t \in Thread : Linked(r, NULL, t) /\ Ended(r, h, NULL, r.cur, t)
    BY DEF Sound
  <1>2. NULL \notin Thread
    BY ThreadAssumption DEF Waitable
  <1> DEFINE old == r.gc_ptr
  <1>3. PICK r1 : r1 = [r EXCEPT
                 !.gcq = IF old # NULL THEN @ \cup {old} ELSE @,
                 !.gc_ptr = IF r.state[r.cur] = "STOPPED" THEN r.cur ELSE NULL]
    OBVIOUS
  <1>4. /\ r1.state = r.state /\ r1.wait_for = r.wait_for
        /\ r1.ticket = r.ticket /\ r1.armed = r.armed /\ r1.wq = r.wq
        /\ r1.ready = r.ready /\ Kept(r, r1)
        /\ r1.gcq = r.gcq \cup ({old} \ {NULL})
        /\ r1.gc_ptr = IF r.state[r.cur] = "STOPPED" THEN r.cur ELSE NULL
    BY <1>1, <1>3 DEF Kernel, Kept
  <1>5. r1 \in Kernel
    <2>1. PICK g, q : /\ g = (IF old # NULL THEN r.gcq \cup {old} ELSE r.gcq)
                      /\ q = (IF r.state[r.cur] = "STOPPED" THEN r.cur
                              ELSE NULL)
      OBVIOUS
    <2>2. g \in SUBSET Thread /\ q \in Thread \cup {NULL}
      BY <1>1, <2>1 DEF Kernel
    <2>3. r1 = [r EXCEPT !.gcq = g, !.gc_ptr = q]
      BY <1>1, <1>3, <2>1 DEF Kernel
    <2> QED
      BY <1>1, <2>2, <2>3 DEF Kernel
  <1>6. \A t \in Thread : InR(r1, t) <=> InR(r, t)
    BY <1>4 DEF InR
  <1>7. ASSUME NEW t \in Thread
        PROVE  Linked(r1, NULL, t) /\ Ended(r1, h, NULL, target, t)
    <2>1. Linked(r1, NULL, t)
      BY <1>1, <1>4, <1>6 DEF Linked
    <2>2. Going(r1, h, t) <=> \/ Going(r, h, t)
                              \/ t = r.cur /\ r.state[t] = "STOPPED"
      BY <1>2, <1>4 DEF Going, Kept
    <2>3. Ended(r1, h, NULL, target, t)
      BY <1>1, <1>2, <1>4, <1>6, <2>2 DEF Ended, Going, Kept
    <2> QED
      BY <2>1, <2>3
  <1>8. Sound(r1, h, NULL, target)
    BY <1>5, <1>7 DEF Sound
  <1>9. PICK r2 : r2 = GcSignalIf(r1, old # NULL, target, {})
    OBVIOUS
  <1>10. Sound(r2, h, NULL, target) /\ Woke(r1, r2)
    <2>1. GcEv \notin {}
      OBVIOUS
    <2> QED
      BY <1>8, <1>9, <2>1, GcSignalSound, Zenon
  <1>11. s = [r2 EXCEPT !.cur = target]
    BY <1>3, <1>9, Zenon DEF SwitchTo
  <1>12. r2 \in Kernel
         /\ \A t \in Thread :
              Linked(r2, NULL, t) /\ Ended(r2, h, NULL, target, t)
    BY <1>10 DEF Sound
  <1>13. /\ s \in Kernel /\ s.cur = target /\ s.state = r2.state
         /\ s.wait_for = r2.wait_for /\ s.ticket = r2.ticket
         /\ s.armed = r2.armed /\ s.wq = r2.wq /\ s.ready = r2.ready
         /\ Kept(r2, s) /\ s.gcq = r2.gcq /\ s.gc_ptr = r2.gc_ptr
    BY <1>11, <1>12 DEF Kernel, Kept
  <1>14. ASSUME NEW t \in Thread
         PROVE  Linked(s, NULL, t) /\ Ended(s, h, NULL, target, t)
    <2>1. InR(s, t) <=> InR(r2, t)
      BY <1>13 DEF InR
    <2>2. Linked(s, NULL, t)
      BY <1>12, <1>13, <2>1 DEF Linked
    <2>3. Ended(s, h, NULL, target, t)
      BY <1>12, <1>13, <2>1 DEF Ended, Going, Kept
    <2> QED
      BY <2>2, <2>3
  <1>15. Sound(s, h, NULL, s.cur)
    BY <1>13, <1>14 DEF Sound
  <1>16. Kept(r, s) /\ StatesWoke(r, s)
    BY <1>4, <1>10, <1>13 DEF Kept, StatesWoke, Woke, Same
  <1> QED
    BY <1>13, <1>15, <1>16

(***************************************************************************)
(* The loop over the ready queues                                          *)
(***************************************************************************)
\* A set of numbers that is not empty has a least one.
LEMMA Least ==
  ASSUME NEW T, T \subseteq Nat, T # {}
  PROVE  \E n \in T : \A m \in T : n <= m
  <1>1. PICK n \in T : \A m \in T : ~ (<<m, n>> \in OpToRel(<, Nat))
    BY NatLessThanWellFounded, WFMin, Zenon
  <1>2. \A m \in T : ~ (m < n)
    BY <1>1 DEF OpToRel
  <1> QED
    BY <1>2

\* Slots are in the order of their level and, in a level, of their place.
LEMMA Earliest ==
  ASSUME NEW S, S \subseteq Nat \X Nat, S # {}
  PROVE  \E s \in S : \A u \in S : u = s \/ Earlier(s, u)
  <1>1. PICK p \in {s[1] : s \in S} : \A q \in {s[1] : s \in S} : p <= q
    <2>1. {s[1] : s \in S} \subseteq Nat /\ {s[1] : s \in S} # {}
      OBVIOUS
    <2> QED
      BY <2>1, Least
  <1> DEFINE I == {i \in Nat : <<p, i>> \in S}
  <1>2. p \in Nat /\ I # {}
    <2>1. PICK s \in S : s[1] = p
      OBVIOUS
    <2>2. s = <<p, s[2]>> /\ s[2] \in Nat /\ p \in Nat
      BY <2>1
    <2> QED
      BY <2>2
  <1>3. PICK i \in I : \A j \in I : i <= j
    <2>1. I \subseteq Nat
      OBVIOUS
    <2> QED
      BY <1>2, <2>1, Least
  <1>4. ASSUME NEW u \in S PROVE u = <<p, i>> \/ Earlier(<<p, i>>, u)
    <2>1. u = <<u[1], u[2]>> /\ u[1] \in Nat /\ u[2] \in Nat /\ p <= u[1]
      BY <1>1
    <2>2. u[1] = p => u[2] \in I
      BY <2>1
    <2>3. u[1] = p => i <= u[2]
      BY <1>3, <2>2
    <2>4. i \in Nat
      OBVIOUS
    <2> QED
      BY <1>2, <2>1, <2>3, <2>4 DEF Earlier
  <1> QED
    BY <1>3, <1>4

\* No two slots are earlier than one another.
LEMMA EarlierOnce ==
  ASSUME NEW s \in Nat \X Nat, NEW u \in Nat \X Nat,
         s = u \/ Earlier(s, u), u = s \/ Earlier(u, s)
  PROVE  s = u
  BY DEF Earlier

Gone(r, lim, aside) == {At(r, s) : s \in Popped(r, lim, aside)}

\* What the loop pops: threads of the ready queues, of which all but the next
\* thread and the one set aside are STOPPED.
LEMMA LoopTakes ==
  ASSUME NEW r \in Kernel, NEW lim \in 0..4, NEW aside,
         NEW next, next = NextThread(r, lim, aside),
         NEW gone, gone = Gone(r, lim, aside)
  PROVE  /\ \A t \in gone : t \in Thread /\ InR(r, t)
         /\ \A t \in gone : t # next /\ t # aside => r.state[t] = "STOPPED"
         /\ next # NULL => /\ next \in gone /\ next # aside
                           /\ r.state[next] # "STOPPED"
         /\ \A t \in Thread : /\ lim = 4 /\ InR(r, t) /\ t # aside
                              /\ r.state[t] # "STOPPED"
                              => next # NULL
  <1> DEFINE run == Runnable(r, lim, aside)
             all == Slots(r, lim)
             first(s) == \A u \in run : u = s \/ Earlier(s, u)
  <1>1. ASSUME NEW s
        PROVE  s \in all <=> \E p \in 0..lim - 1 :
                               \E i \in DOMAIN r.ready[p] : s = <<p, i>>
    BY DEF Slots
  <1>2. ASSUME NEW p \in 0..lim - 1
        PROVE  /\ p \in Level /\ p \in Nat /\ DOMAIN r.ready[p] \subseteq Nat
               /\ \A i \in DOMAIN r.ready[p] : r.ready[p][i] \in Thread
    <2>1. p \in Level /\ p \in Nat
      BY DEF Level
    <2>2. r.ready[p] \in Seq(Thread)
      BY <2>1 DEF Kernel, Queues
    <2>3. PICK n \in Nat : DOMAIN r.ready[p] = 1..n
      BY <2>2
    <2> QED
      BY <2>1, <2>2, <2>3
  <1>3. ASSUME NEW s \in all
        PROVE  s \in Nat \X Nat /\ At(r, s) \in Thread /\ InR(r, At(r, s))
    <2>0. PICK p \in 0..lim - 1 : \E i \in DOMAIN r.ready[p] : s = <<p, i>>
      BY <1>1
    <2>1. PICK i \in DOMAIN r.ready[p] : s = <<p, i>>
      BY <2>0
    <2>2. At(r, s) = r.ready[p][i]
      BY <2>1 DEF At
    <2>3. At(r, s) \in Elems(r.ready[p])
      BY <2>2 DEF Elems
    <2> QED
      BY <1>2, <2>1, <2>2, <2>3 DEF InR
  <1>4. \A s \in run : s \in all
    BY DEF Runnable
  <1>5. \A t \in gone : \E s \in all : t = At(r, s) /\ first(s)
    BY Zenon DEF Gone, Popped
  <1>6. \A t \in gone : t \in Thread /\ InR(r, t)
    BY <1>3, <1>5, Zenon
  <1>7. CASE run = {}
    <2>1. next = NULL
      BY <1>7, Zenon DEF NextThread
    <2>2. \A s \in all : At(r, s) = aside \/ r.state[At(r, s)] = "STOPPED"
      BY <1>7 DEF Runnable
    <2>3. \A t \in gone : t # aside => r.state[t] = "STOPPED"
      BY <1>5, <2>2, Zenon
    <2>4. ASSUME NEW t \in Thread, lim = 4, InR(r, t), t # aside,
                 r.state[t] # "STOPPED"
          PROVE  FALSE
      <3>1. PICK p \in Level : t \in Elems(r.ready[p])
        BY <2>4 DEF InR
      <3>2. PICK i \in DOMAIN r.ready[p] : t = r.ready[p][i]
        BY <3>1 DEF Elems
      <3>3. p \in 0..lim - 1
        BY <2>4 DEF Level
      <3>4. <<p, i>> \in all /\ At(r, <<p, i>>) = t
        BY <1>1, <3>2, <3>3 DEF At
      <3> QED
        BY <2>2, <2>4, <3>4
    <2> QED
      BY <1>6, <2>1, <2>3, <2>4
  <1>8. CASE run # {}
    <2>1. PICK m : m = CHOOSE s \in run : first(s)
      OBVIOUS
    <2>2. next = At(r, m)
      BY <1>8, <2>1, Zenon DEF NextThread
    <2>3. run \subseteq Nat \X Nat
      BY <1>3, <1>4
    <2>4. \E s \in run : first(s)
      <3> HIDE DEF run
      <3> QED
        BY <1>8, <2>3, Earliest, Zenon
    <2>5. m \in run /\ first(m)
      BY <2>1, <2>4, Zenon
    <2>6. next \in gone
      BY <1>4, <2>2, <2>5, Zenon DEF Gone, Popped
    <2>7. At(r, m) # aside /\ r.state[At(r, m)] # "STOPPED"
      BY <2>5 DEF Runnable
    <2>8. ASSUME NEW t \in gone, t # next, t # aside
          PROVE  r.state[t] = "STOPPED"
      <3>1. PICK s \in all : t = At(r, s) /\ first(s)
        BY <1>5, Zenon
      <3>2. SUFFICES ASSUME r.state[t] # "STOPPED" PROVE FALSE
        OBVIOUS
      <3>3. s \in run
        BY <2>8, <3>1, <3>2 DEF Runnable
      <3>4. /\ s \in Nat \X Nat /\ m \in Nat \X Nat
            /\ s = m \/ Earlier(s, m)
            /\ m = s \/ Earlier(m, s)
        BY <2>3, <2>5, <3>1, <3>3, Zenon
      <3>5. s = m
        BY <3>4, EarlierOnce
      <3> QED
        BY <2>2, <2>8, <3>1, <3>5
    <2>9. next \in Thread /\ NULL \notin Thread
      BY <1>6, <2>6, ThreadAssumption DEF Waitable
    <2> QED
      BY <1>6, <2>2, <2>6, <2>7, <2>8, <2>9
  <1> QED
    BY <1>7, <1>8

\* the thread the loop has set aside, if any
Aside(r, lim, aside) == IF PutBack(r, lim, aside) THEN aside ELSE NULL

\* What the loop of preempt, sleep and imp_wait leaves: the next thread is
\* RUNNING, the STOPPED threads it met are in the gc queue, and the one set
\* aside is in transit. If a READY thread is left for it to find, it finds
\* one.
LEMMA TakeSound ==
  ASSUME NEW r, NEW h, NEW c, Sound(r, h, NULL, c), NEW lim \in 0..4,
         NEW aside, NEW next, next = NextThread(r, lim, aside),
         NEW s, s = Take(r, lim, aside),
         NEW x, x = Aside(r, lim, aside)
  PROVE  /\ Sound(s, h, x, c)
         /\ Kept(r, s) /\ s.cur = r.cur
         /\ x # NULL => /\ x = aside /\ x \in Thread /\ ~InR(s, x)
                        /\ r.state[x] \in {"READY", "STOPPED"}
         /\ next # NULL => /\ next \in Thread /\ next # x
                           /\ r.state[next] = "READY"
         /\ \A t \in Thread : s.state[t] = IF t = next THEN "RUNNING"
                                           ELSE r.state[t]
         /\ \A t \in Thread : /\ lim = 4 /\ t # aside /\ r.state[t] = "READY"
                              => next # NULL
  <1>1. r \in Kernel
        /\ \A t \in Thread : Linked(r, NULL, t) /\ Ended(r, h, NULL, c, t)
    BY DEF Sound
  <1>2. NULL \notin Thread
    BY ThreadAssumption DEF Waitable
  <1>3. PICK gone : gone = Gone(r, lim, aside)
    OBVIOUS
  <1>4. /\ \A t \in gone : t \in Thread /\ InR(r, t)
        /\ \A t \in gone : t # next /\ t # aside => r.state[t] = "STOPPED"
        /\ next # NULL => /\ next \in gone /\ next # aside
                          /\ r.state[next] # "STOPPED"
        /\ \A t \in Thread : /\ lim = 4 /\ InR(r, t) /\ t # aside
                             /\ r.state[t] # "STOPPED"
                             => next # NULL
    <2>1. r \in Kernel
      BY <1>1
    <2> QED
      BY <1>3, <2>1, LoopTakes
  <1>5. x = IF aside \in gone THEN aside ELSE NULL
    <2>1. aside \in gone <=> \E u \in Popped(r, lim, aside) : At(r, u) = aside
      BY <1>3 DEF Gone
    <2> QED
      BY <1>2, <1>4, <2>1 DEF Aside, PutBack
  <1>6. x # NULL => /\ x = aside /\ x \in Thread /\ x \in gone
                    /\ r.state[x] \in {"READY", "STOPPED"}
    BY <1>1, <1>4, <1>5 DEF Linked
  <1>7. next # NULL => next \in Thread /\ r.state[next] = "READY"
    BY <1>1, <1>4 DEF Linked
  <1>8. PICK rf, sf, g :
          /\ rf = [p \in Level |-> Only(r.ready[p], Thread \ gone)]
          /\ sf = (IF next = NULL THEN r.state
                   ELSE [r.state EXCEPT ![next] = "RUNNING"])
          /\ g = r.gcq \cup (gone \ {next, aside})
    OBVIOUS
  <1>9. s = [r EXCEPT !.ready = rf, !.state = sf, !.gcq = g]
    <2>1. Reaped(r, lim, aside) = gone \ {next, aside}
      BY <1>3, Zenon DEF Reaped, Gone
    <2>2. Take(r, lim, aside) =
            OnStop([r EXCEPT
                      !.ready = [p \in Level |-> Only(@[p], Thread \ gone)],
                      !.state = IF next = NULL THEN @
                                ELSE [@ EXCEPT ![next] = "RUNNING"]],
                   gone \ {next, aside})
      BY <1>3, <2>1, Zenon DEF Take, Gone
    <2> QED
      BY <1>1, <1>8, <2>2 DEF OnStop, Kernel
  <1>10. ASSUME NEW p \in Level
         PROVE  rf[p] \in Queues /\ Elems(rf[p]) = Elems(r.ready[p]) \ gone
    <2>1. r.ready[p] \in Queues
      BY <1>1 DEF Kernel
    <2>2. Elems(r.ready[p]) \subseteq Thread
      BY <2>1, QueueElems
    <2>3. rf[p] = Only(r.ready[p], Thread \ gone)
      BY <1>8
    <2>4. /\ rf[p] \in Queues
          /\ Elems(rf[p]) = Elems(r.ready[p]) \cap (Thread \ gone)
      BY <2>1, <2>3, OnlyQueue, Zenon
    <2> QED
      BY <2>2, <2>4
  <1>11. s \in Kernel
    <2>1. rf \in [Level -> Queues]
      <3>1. rf = [p \in Level |-> rf[p]]
        BY <1>8
      <3> QED
        BY <1>10, <3>1
    <2>2. sf \in [Thread -> States] /\ g \in SUBSET Thread
      BY <1>1, <1>4, <1>7, <1>8 DEF Kernel, States
    <2> QED
      BY <1>1, <1>9, <2>1, <2>2 DEF Kernel
  <1>12. /\ s.ready = rf /\ s.gcq = g /\ s.wait_for = r.wait_for
         /\ s.ticket = r.ticket /\ s.armed = r.armed /\ s.wq = r.wq
         /\ s.gc_ptr = r.gc_ptr /\ s.cur = r.cur /\ Kept(r, s)
         /\ s.state = sf
    BY <1>1, <1>9 DEF Kernel, Kept
  <1>13. \A t \in Thread : s.state[t] = IF t = next THEN "RUNNING"
                                        ELSE r.state[t]
    BY <1>1, <1>2, <1>7, <1>8, <1>12 DEF Kernel
  <1>14. \A t \in Thread : InR(s, t) <=> InR(r, t) /\ t \notin gone
    BY <1>10, <1>12 DEF InR
  <1>15. ASSUME NEW t \in Thread PROVE Linked(s, x, t)
    <2>1. ASSUME NEW p \in Level, NEW q \in Level, t \in Elems(s.ready[p]),
                 t \in Elems(s.ready[q])
          PROVE  p = q
      BY <1>1, <1>10, <1>12, <2>1 DEF Linked
    <2>2. s.state[t] = "READY" /\ t # x => InR(s, t)
      BY <1>1, <1>2, <1>4, <1>5, <1>13, <1>14 DEF Linked
    <2>3. Linked(r, NULL, t)
      BY <1>1
    <2>4. CASE t = next
      <3>1. r.state[t] = "READY" /\ ~InR(s, t) /\ s.state[t] = "RUNNING"
        BY <1>2, <1>4, <1>7, <1>13, <1>14, <2>4
      <3> QED
        BY <1>12, <2>1, <2>3, <3>1 DEF Linked
    <2>5. CASE t # next
      BY <1>12, <1>13, <1>14, <2>1, <2>2, <2>3, <2>5 DEF Linked
    <2> QED
      BY <2>4, <2>5
  <1>16. ASSUME NEW t \in Thread PROVE Ended(s, h, x, c, t)
    <2>1. Going(s, h, t) <=> Going(r, h, t) \/ t \in gone \ {next, aside}
      BY <1>8, <1>12 DEF Going, Kept
    <2>2. t = next => t \in gone /\ r.state[t] = "READY" /\ t # NULL
      BY <1>2, <1>4, <1>7
    <2>3. t \in gone \ {next, aside} => r.state[t] = "STOPPED" /\ InR(r, t)
      BY <1>4
    <2>4. InR(r, t) => ~Going(r, h, t)
      BY <1>1 DEF Ended
    <2>5. InR(r, t) /\ r.state[t] = "STOPPED" => t # c
      BY <1>1 DEF Ended
    <2>6. t \in s.gcq <=> t \in r.gcq \/ t \in gone \ {next, aside}
      BY <1>8, <1>12
    <2>7. Ended(r, h, NULL, c, t)
      BY <1>1
    <2>8. CASE t \in gone
      <3>1. /\ ~InR(s, t) /\ ~Going(r, h, t)
            /\ s.state[t] = "STOPPED" => t # c /\ t # next
        BY <1>4, <1>13, <1>14, <2>4, <2>5, <2>8
      <3>2. t = x \/ t = next \/ t \in gone \ {next, aside}
        BY <1>5, <2>8
      <3> QED
        BY <1>12, <1>13, <2>1, <2>2, <2>3, <2>5, <2>6, <2>7, <3>1, <3>2
           DEF Ended, Going, Kept
    <2>9. CASE t \notin gone
      <3>1. s.state[t] = r.state[t] /\ (InR(s, t) <=> InR(r, t))
        BY <1>13, <1>14, <2>2, <2>9
      <3> QED
        BY <1>2, <1>12, <2>1, <2>6, <2>7, <2>9, <3>1 DEF Ended, Going, Kept
    <2> QED
      BY <2>8, <2>9
  <1>17. Sound(s, h, x, c)
    BY <1>11, <1>15, <1>16 DEF Sound
  <1>18. \A t \in Thread : /\ lim = 4 /\ t # aside /\ r.state[t] = "READY"
                           => next # NULL
    BY <1>1, <1>2, <1>4 DEF Linked
  <1> QED
    BY <1>4, <1>6, <1>7, <1>12, <1>13, <1>14, <1>17, <1>18

\* The loop when no thread is set aside, and the signal to gc after it.
Looped(r, lim, target) ==
  GcSignalIf(Take(r, lim, NULL), Reaped(r, lim, NULL) # {}, target, {})

\* The loop followed by gc.signal, as preempt and sleep run it.
LEMMA LoopSound ==
  ASSUME NEW r, NEW h, Sound(r, h, NULL, r.cur), NEW lim \in 0..4,
         NEW next, next = NextThread(r, lim, NULL), NEW target,
         NEW s, s = Looped(r, lim, target)
  PROVE  /\ Sound(s, h, NULL, r.cur) /\ Kept(r, s) /\ s.cur = r.cur
         /\ next # NULL => next \in Thread /\ r.state[next] = "READY"
         /\ \A t \in Thread :
              IF t = next THEN s.state[t] = "RUNNING"
              ELSE \/ s.state[t] = r.state[t]
                   \/ r.state[t] = "WAITING" /\ s.state[t] = "READY"
         /\ \A t \in Thread : lim = 4 /\ r.state[t] = "READY" => next # NULL
  <1>1. PICK q : q = Take(r, lim, NULL)
    OBVIOUS
  <1>2. PICK x : x = Aside(r, lim, NULL)
    OBVIOUS
  <1>3. x = NULL
    BY <1>2, Zenon DEF Aside
  <1>4. NULL \notin Thread
    BY ThreadAssumption DEF Waitable
  <1>5. /\ Sound(q, h, NULL, r.cur)
        /\ Kept(r, q) /\ q.cur = r.cur
        /\ next # NULL => /\ next \in Thread /\ next # x
                          /\ r.state[next] = "READY"
        /\ \A t \in Thread : q.state[t] = IF t = next THEN "RUNNING"
                                          ELSE r.state[t]
        /\ \A t \in Thread : /\ lim = 4 /\ t # NULL /\ r.state[t] = "READY"
                             => next # NULL
    BY <1>1, <1>2, <1>3, TakeSound
  <1>6. Sound(q, h, NULL, r.cur) /\ GcEv \notin {}
    BY <1>5
  <1>7. Sound(s, h, NULL, r.cur) /\ Woke(q, s)
    <2>1. PICK cond : cond = (Reaped(r, lim, NULL) # {})
      OBVIOUS
    <2>2. PICK held : held = {}
      OBVIOUS
    <2>3. s = GcSignalIf(q, cond, target, held)
      BY <1>1, <2>1, <2>2, Zenon DEF Looped
    <2>4. \/ Sound(s, h, NULL, r.cur) /\ Woke(q, s)
          \/ GcEv \in held /\ s = Bugcheck(q, "spinlock timeout")
      BY <1>6, <2>3, GcSignalSound, Zenon
    <2> QED
      BY <2>2, <2>4
  <1>8. Kept(r, s) /\ s.cur = r.cur
    BY <1>5, <1>7 DEF Kept, Woke, Same
  <1>9. ASSUME NEW t \in Thread
        PROVE  IF t = next THEN s.state[t] = "RUNNING"
               ELSE \/ s.state[t] = r.state[t]
                    \/ r.state[t] = "WAITING" /\ s.state[t] = "READY"
    BY <1>5, <1>7 DEF Woke
  <1> QED
    BY <1>4, <1>5, <1>7, <1>8, <1>9

\* The running thread becomes READY and is queued.
GivesUp(r, t) == ReadyPut([r EXCEPT !.state[t] = "READY"], t)

\* The running thread goes back to the ready queue of its priority.
LEMMA GiveUpSound ==
  ASSUME NEW r, NEW h, NEW t \in Thread, NEW c, Sound(r, h, NULL, c),
         r.state[t] \in {"RUNNING", "FREE"},
         NEW s, s = GivesUp(r, t)
  PROVE  /\ Sound(s, h, NULL, c) /\ Same(r, s)
         /\ \A u \in Thread : s.state[u] = IF u = t THEN "READY"
                                           ELSE r.state[u]
  <1>1. PICK q : q = Turned(r, t, "READY")
    OBVIOUS
  <1>2. /\ Sound(q, h, t, c) /\ Same(r, q) /\ ~InR(q, t)
        /\ \A u \in Thread : q.state[u] = IF u = t THEN "READY"
                                          ELSE r.state[u]
    BY <1>1, ReadySound
  <1>3. q.state[t] = "READY"
    BY <1>2
  <1>4. Sound(s, h, NULL, c) /\ Same(q, s) /\ s.state = q.state
    <2>1. s = ReadyPut(q, t)
      BY <1>1, Zenon DEF Turned, GivesUp
    <2> QED
      BY <1>2, <1>3, <2>1, PutSound
  <1> QED
    BY <1>2, <1>4 DEF Same

\* What a handler does to the states: no thread stops and none comes back, and
\* the core runs a thread that is RUNNING.
Hands(r, s) ==
  /\ Kept(r, s) /\ RunsOne(s) /\ s.state[s.cur] = "RUNNING"
  /\ \A t \in Thread : s.state[t] = "STOPPED" <=> r.state[t] = "STOPPED"

\* A thread is taken out of the ready queues and gets the core.
LEMMA HandOver ==
  ASSUME NEW r, NEW h, Sound(r, h, NULL, r.cur), NEW next \in Thread,
         NEW r0, next # r.cur, r.state[next] = "RUNNING",
         \A t \in Thread : r.state[t] = "RUNNING" => t = next,
         \A t \in Thread : r.state[t] = "STOPPED" <=> r0.state[t] = "STOPPED",
         r.state[Idle] \in {"READY", "RUNNING"}, Kept(r0, r),
         NEW s, s = SwitchTo(r, next)
  PROVE  Sound(s, h, NULL, s.cur) /\ Hands(r0, s)
  <1>1. /\ Sound(s, h, NULL, s.cur) /\ s.cur = next
        /\ Kept(r, s) /\ StatesWoke(r, s)
    BY SwitchSound
  <1>2. Idle \in Thread
    BY DEF Thread
  <1>3. s.state[next] = "RUNNING" /\ s.state[Idle] \in {"READY", "RUNNING"}
    BY <1>1, <1>2 DEF StatesWoke
  <1>4. \A t \in Thread : s.state[t] = "RUNNING" => t = s.cur
    BY <1>1 DEF StatesWoke
  <1>5. \A t \in Thread : s.state[t] = "STOPPED" <=> r0.state[t] = "STOPPED"
    BY <1>1 DEF StatesWoke
  <1>6. Kept(r0, s)
    BY <1>1 DEF Kept
  <1> QED
    BY <1>1, <1>3, <1>4, <1>5, <1>6 DEF Hands, RunsOne

\* core_manager::preempt: the links stay sound, one thread runs afterwards,
\* and a STOPPED thread that has the core loses it.
LEMMA PreemptSound ==
  ASSUME NEW r, NEW h, Sound(r, h, NULL, r.cur), RunsOne(r),
         NEW lower \in BOOLEAN, NEW s, s = Preempt(r, lower)
  PROVE  Sound(s, h, NULL, s.cur) /\ Hands(r, s)
  <1> DEFINE me == r.cur
  <1>1. PICK lim : lim = r.priority[me] + (IF lower THEN 1 ELSE 0)
    OBVIOUS
  <1>2. me \in Thread /\ lim \in 0..4 /\ Idle \in Thread /\ NULL \notin Thread
    <2>1. r \in Kernel
      BY DEF Sound
    <2>2. me \in Thread /\ r.priority[me] \in 0..3
      BY <2>1 DEF Kernel, Level
    <2>3. lim \in 0..4
      BY <1>1, <2>2
    <2> QED
      BY <2>2, <2>3, ThreadAssumption DEF Waitable, Thread
  <1>3. /\ \A t \in Thread : r.state[t] = "RUNNING" => t = me
        /\ r.state[me] \in {"RUNNING", "STOPPED"}
        /\ r.state[Idle] \in {"READY", "RUNNING"}
    BY DEF RunsOne
  <1>4. PICK next : next = NextThread(r, lim, NULL)
    OBVIOUS
  <1>5. PICK r1 : r1 = Looped(r, lim, next)
    OBVIOUS
  <1>6. /\ Sound(r1, h, NULL, r.cur) /\ Kept(r, r1) /\ r1.cur = r.cur
        /\ next # NULL => next \in Thread /\ r.state[next] = "READY"
        /\ \A t \in Thread :
             IF t = next THEN r1.state[t] = "RUNNING"
             ELSE \/ r1.state[t] = r.state[t]
                  \/ r.state[t] = "WAITING" /\ r1.state[t] = "READY"
    <2>1. lim \in 0..4
      BY <1>2
    <2> QED
      BY <1>4, <1>5, <2>1, LoopSound
  <1>7. PICK r2 : r2 = IF r1.state[me] = "STOPPED" THEN r1
                       ELSE ReadyPut([r1 EXCEPT !.state[me] = "READY"], me)
    OBVIOUS
  <1>8. PICK next2 : next2 = NextThread(r1, 4, NULL)
    OBVIOUS
  <1>9. PICK r3 : r3 = Looped(r1, 4, next2)
    OBVIOUS
  <1>10. s = CASE next # NULL -> SwitchTo(r2, next)
               [] next = NULL /\ r1.state[me] # "STOPPED" -> r1
               [] next = NULL /\ r1.state[me] = "STOPPED" /\ next2 = NULL ->
                    Bugcheck(r1, "no ready thread")
               [] OTHER -> SwitchTo(r3, next2)
    <2>1. 1 + IdlePriority = 4
      BY DEF IdlePriority
    <2> QED
      BY <1>1, <1>4, <1>5, <1>7, <1>8, <1>9, <2>1, Zenon
         DEF Preempt, Looped
  <1>11. CASE next # NULL
    <2>1. next \in Thread /\ next # me /\ r1.state[next] = "RUNNING"
      BY <1>3, <1>6, <1>11
    <2>2. /\ r1.state[me] = r.state[me]
          /\ \A t \in Thread :
               r1.state[t] = "STOPPED" <=> r.state[t] = "STOPPED"
          /\ \A t \in Thread : r1.state[t] = "RUNNING" => t \in {me, next}
          /\ r1.state[Idle] \in {"READY", "RUNNING"}
      BY <1>2, <1>3, <1>6, <2>1
    <2>3. /\ Sound(r2, h, NULL, r.cur) /\ r2.cur = r.cur /\ Kept(r, r2)
          /\ \A t \in Thread \ {me} : r2.state[t] = r1.state[t]
          /\ r2.state[me] = IF r.state[me] = "STOPPED" THEN "STOPPED"
                            ELSE "READY"
      <3>1. CASE r1.state[me] = "STOPPED"
        BY <1>6, <1>7, <2>2, <3>1
      <3>2. CASE r1.state[me] # "STOPPED"
        <4>1. r1.state[me] \in {"RUNNING", "FREE"}
          BY <1>3, <2>2, <3>2
        <4>2. r2 = GivesUp(r1, me)
          BY <1>7, <3>2, Zenon DEF GivesUp
        <4>3. Sound(r1, h, NULL, r.cur) /\ me \in Thread
          BY <1>2, <1>6
        <4>4. /\ Sound(r2, h, NULL, r.cur) /\ Same(r1, r2)
              /\ \A u \in Thread : r2.state[u] = IF u = me THEN "READY"
                                                 ELSE r1.state[u]
          BY <4>1, <4>2, <4>3, GiveUpSound
        <4> QED
          BY <1>2, <1>6, <2>2, <3>2, <4>4 DEF Kept, Same
      <3> QED
        BY <3>1, <3>2
    <2>4. s = SwitchTo(r2, next)
      BY <1>10, <1>11, Zenon
    <2>5. /\ r2.state[next] = "RUNNING" /\ next # r2.cur
          /\ \A t \in Thread : r2.state[t] = "RUNNING" => t = next
          /\ \A t \in Thread :
               r2.state[t] = "STOPPED" <=> r.state[t] = "STOPPED"
          /\ r2.state[Idle] \in {"READY", "RUNNING"}
          /\ Sound(r2, h, NULL, r2.cur)
      BY <1>2, <1>3, <2>1, <2>2, <2>3
    <2> QED
      BY <2>1, <2>3, <2>4, <2>5, HandOver
  <1>12. CASE next = NULL /\ r1.state[me] # "STOPPED"
    <2>1. s = r1
      BY <1>10, <1>12, Zenon
    <2>2. \A t \in Thread : \/ r1.state[t] = r.state[t]
                            \/ r.state[t] = "WAITING" /\ r1.state[t] = "READY"
      BY <1>2, <1>6, <1>12
    <2>3. r1.state[me] = "RUNNING"
      BY <1>2, <1>3, <1>12, <2>2
    <2> QED
      BY <1>2, <1>3, <1>6, <2>1, <2>2, <2>3 DEF Hands, RunsOne
  <1>13. CASE next = NULL /\ r1.state[me] = "STOPPED"
    <2>1. /\ \A t \in Thread :
               \/ r1.state[t] = r.state[t]
               \/ r.state[t] = "WAITING" /\ r1.state[t] = "READY"
          /\ r1.state[Idle] = "READY" /\ r.state[me] = "STOPPED"
          /\ \A t \in Thread : r1.state[t] # "RUNNING"
      BY <1>2, <1>3, <1>6, <1>13
    <2>2. Sound(r1, h, NULL, r1.cur) /\ 4 \in 0..4
      BY <1>6
    <2>3. /\ Sound(r3, h, NULL, r1.cur) /\ Kept(r1, r3) /\ r3.cur = r1.cur
          /\ next2 # NULL => next2 \in Thread /\ r1.state[next2] = "READY"
          /\ \A t \in Thread :
               IF t = next2 THEN r3.state[t] = "RUNNING"
               ELSE \/ r3.state[t] = r1.state[t]
                    \/ r1.state[t] = "WAITING" /\ r3.state[t] = "READY"
          /\ \A t \in Thread : 4 = 4 /\ r1.state[t] = "READY" => next2 # NULL
      BY <1>8, <1>9, <2>2, LoopSound
    <2>4. next2 # NULL
      BY <1>2, <2>1, <2>3
    <2>5. s = SwitchTo(r3, next2)
      BY <1>10, <1>13, <2>4, Zenon
    <2>6. /\ next2 \in Thread /\ next2 # r3.cur
          /\ r3.state[next2] = "RUNNING" /\ Sound(r3, h, NULL, r3.cur)
          /\ \A t \in Thread : r3.state[t] = "RUNNING" => t = next2
          /\ \A t \in Thread :
               r3.state[t] = "STOPPED" <=> r.state[t] = "STOPPED"
          /\ r3.state[Idle] \in {"READY", "RUNNING"}
      BY <1>2, <1>6, <1>13, <2>1, <2>3, <2>4
    <2>7. Kept(r, r3)
      BY <1>6, <2>3 DEF Kept
    <2> QED
      BY <2>5, <2>6, <2>7, HandOver
  <1> QED
    BY <1>11, <1>12, <1>13

(***************************************************************************)
(* Blocking                                                                *)
(***************************************************************************)
Blocked(r, t, o, timed) ==
  [r EXCEPT
     !.armed = IF timed THEN @ \cup {t} ELSE @,
     !.state[t] = "WAITING",
     !.wait_for[t] = o,
     !.ticket[t] = timed,
     !.wq[o] = Put(@, t)]

\* The running thread joins the wait queue of o.
LEMMA BlockSound ==
  ASSUME NEW r, NEW h, NEW x, NEW c, Sound(r, h, x, c), NEW t \in Thread,
         r.state[t] = "RUNNING", NEW o \in Waitable, NEW timed \in BOOLEAN,
         NEW s, s = Blocked(r, t, o, timed)
  PROVE  /\ Sound(s, h, x, c) /\ Same(r, s)
         /\ \A u \in Thread : InR(s, u) <=> InR(r, u)
         /\ \A u \in Thread : s.state[u] = IF u = t THEN "WAITING"
                                           ELSE r.state[u]
  <1>1. /\ r \in Kernel
        /\ \A u \in Thread : Linked(r, x, u) /\ Ended(r, h, x, c, u)
    BY DEF Sound
  <1>2. NULL \notin Waitable
    BY ThreadAssumption
  <1>3. r.wait_for[t] = NULL /\ ~r.ticket[t] /\ t \notin r.armed /\ ~InR(r, t)
    BY <1>1, <1>2 DEF Linked, Kernel
  <1>4. r.wq[o] \in Queues /\ t \notin Elems(r.wq[o])
    BY <1>1, <1>2, <1>3 DEF Linked, Kernel
  <1>5. PICK q : q = Put(r.wq[o], t)
    OBVIOUS
  <1>6. q \in Queues /\ Elems(q) = Elems(r.wq[o]) \cup {t}
    BY <1>4, <1>5, PutQueue, Zenon
  <1>7. PICK ar, sf, wf, tf, wq :
          /\ ar = (IF timed THEN r.armed \cup {t} ELSE r.armed)
          /\ sf = [r.state EXCEPT ![t] = "WAITING"]
          /\ wf = [r.wait_for EXCEPT ![t] = o]
          /\ tf = [r.ticket EXCEPT ![t] = timed]
          /\ wq = [r.wq EXCEPT ![o] = q]
    OBVIOUS
  <1>8. s = [r EXCEPT !.armed = ar, !.state = sf, !.wait_for = wf,
                      !.ticket = tf, !.wq = wq]
    BY <1>1, <1>5, <1>7 DEF Blocked, Kernel
  <1>9. /\ ar \in SUBSET Thread /\ sf \in [Thread -> States]
        /\ wf \in [Thread -> Waitable \cup {NULL}]
        /\ tf \in [Thread -> BOOLEAN] /\ wq \in [Waitable -> Queues]
    BY <1>1, <1>6, <1>7 DEF Kernel, States
  <1>10. /\ s \in Kernel /\ s.armed = ar /\ s.state = sf /\ s.wait_for = wf
         /\ s.ticket = tf /\ s.wq = wq /\ s.ready = r.ready /\ Same(r, s)
    BY <1>1, <1>8, <1>9 DEF Kernel, Same
  <1>11. \A u \in Thread :
           /\ u \in s.armed <=> u \in r.armed \/ (u = t /\ timed)
           /\ s.state[u] = IF u = t THEN "WAITING" ELSE r.state[u]
           /\ s.wait_for[u] = IF u = t THEN o ELSE r.wait_for[u]
           /\ s.ticket[u] = IF u = t THEN timed ELSE r.ticket[u]
    BY <1>1, <1>7, <1>10 DEF Kernel
  <1>12. \A w \in Waitable : s.wq[w] = IF w = o THEN q ELSE r.wq[w]
    BY <1>1, <1>7, <1>10 DEF Kernel
  <1>13. \A u \in Thread : InR(s, u) <=> InR(r, u)
    BY <1>10 DEF InR
  <1>14. ASSUME NEW u \in Thread PROVE Linked(s, x, u)
    <2>1. \A w \in Waitable : u \in Elems(s.wq[w]) <=> s.wait_for[u] = w
      BY <1>1, <1>2, <1>3, <1>6, <1>11, <1>12 DEF Linked
    <2>2. CASE u = t
      BY <1>1, <1>2, <1>3, <1>10, <1>11, <1>13, <2>1, <2>2 DEF Linked
    <2>3. CASE u # t
      BY <1>1, <1>10, <1>11, <1>13, <2>1, <2>3 DEF Linked
    <2> QED
      BY <2>2, <2>3
  <1>15. ASSUME NEW u \in Thread PROVE Ended(s, h, x, c, u)
    <2>1. Going(s, h, u) <=> Going(r, h, u)
      BY <1>10 DEF Going, Same
    <2> QED
      BY <1>1, <1>10, <1>11, <1>13, <2>1 DEF Ended, Same
  <1> QED
    BY <1>10, <1>11, <1>13, <1>14, <1>15 DEF Sound

Slept(r, t) ==
  [r EXCEPT !.armed = @ \cup {t}, !.state[t] = "WAITING", !.ticket[t] = TRUE]

\* The running thread waits for its timer only.
LEMMA NapSound ==
  ASSUME NEW r, NEW h, NEW c, Sound(r, h, NULL, c), NEW t \in Thread,
         r.state[t] = "RUNNING", NEW s, s = Slept(r, t)
  PROVE  /\ Sound(s, h, NULL, c) /\ Same(r, s)
         /\ \A u \in Thread : s.state[u] = IF u = t THEN "WAITING"
                                           ELSE r.state[u]
  <1>1. r \in Kernel
        /\ \A u \in Thread : Linked(r, NULL, u) /\ Ended(r, h, NULL, c, u)
    BY DEF Sound
  <1>2. ~InR(r, t) /\ r.wait_for[t] = NULL
    BY <1>1 DEF Linked, Kernel
  <1>0. PICK timed \in BOOLEAN : timed = TRUE
    OBVIOUS
  <1>3. PICK ar, sf, tf : /\ ar = r.armed \cup {t}
                          /\ sf = [r.state EXCEPT ![t] = "WAITING"]
                          /\ tf = [r.ticket EXCEPT ![t] = timed]
    OBVIOUS
  <1>4. s = [r EXCEPT !.armed = ar, !.state = sf, !.ticket = tf]
    BY <1>0, <1>1, <1>3 DEF Slept, Kernel
  <1>5. /\ ar \in SUBSET Thread /\ sf \in [Thread -> States]
        /\ tf \in [Thread -> BOOLEAN]
    BY <1>1, <1>3 DEF Kernel, States
  <1>6. /\ s \in Kernel /\ s.armed = ar /\ s.state = sf
        /\ s.wait_for = r.wait_for /\ s.ticket = tf /\ s.wq = r.wq
        /\ s.ready = r.ready /\ Same(r, s)
    BY <1>1, <1>4, <1>5 DEF Kernel, Same
  <1>7. \A u \in Thread :
           /\ u \in s.armed <=> u \in r.armed \/ u = t
           /\ s.state[u] = IF u = t THEN "WAITING" ELSE r.state[u]
           /\ s.ticket[u] = IF u = t THEN timed ELSE r.ticket[u]
    BY <1>1, <1>3, <1>6 DEF Kernel
  <1>8. \A u \in Thread : InR(s, u) <=> InR(r, u)
    BY <1>6 DEF InR
  <1>9. ASSUME NEW u \in Thread PROVE Linked(s, NULL, u)
    <2>1. CASE u = t
      <3>1. s.ticket[u] /\ u \in s.armed /\ s.state[u] = "WAITING"
        BY <1>0, <1>7, <2>1
      <3> QED
        BY <1>1, <1>2, <1>6, <1>8, <2>1, <3>1 DEF Linked
    <2>2. CASE u # t
      BY <1>1, <1>6, <1>7, <1>8, <2>2 DEF Linked
    <2> QED
      BY <2>1, <2>2
  <1>10. ASSUME NEW u \in Thread PROVE Ended(s, h, NULL, c, u)
    <2>1. Going(s, h, u) <=> Going(r, h, u)
      BY <1>6 DEF Going, Same
    <2> QED
      BY <1>1, <1>6, <1>7, <1>8, <2>1 DEF Ended, Same
  <1> QED
    BY <1>6, <1>7, <1>9, <1>10 DEF Sound

\* Idle is READY whenever another thread runs, so a thread that blocks finds
\* a next one.
LEMMA SleepSound ==
  ASSUME NEW r, NEW h, Sound(r, h, NULL, r.cur), RunsOne(r),
         r.state[r.cur] = "RUNNING", r.cur # Idle, NEW s, s = Sleep(r)
  PROVE  Sound(s, h, NULL, s.cur) /\ Hands(r, s)
  <1> DEFINE me == r.cur
  <1>1. /\ me \in Thread /\ Idle \in Thread /\ NULL \notin Thread
        /\ \A t \in Thread : r.state[t] = "RUNNING" => t = me
        /\ r.state[Idle] = "READY"
    BY ThreadAssumption DEF Sound, Kernel, Waitable, Thread, RunsOne
  <1>2. PICK next : next = NextThread(r, 4, NULL)
    OBVIOUS
  <1>3. PICK r1 : r1 = Looped(r, 4, NULL)
    OBVIOUS
  <1>4. /\ Sound(r1, h, NULL, r.cur) /\ Kept(r, r1) /\ r1.cur = r.cur
        /\ next # NULL => next \in Thread /\ r.state[next] = "READY"
        /\ \A t \in Thread :
             IF t = next THEN r1.state[t] = "RUNNING"
             ELSE \/ r1.state[t] = r.state[t]
                  \/ r.state[t] = "WAITING" /\ r1.state[t] = "READY"
        /\ \A t \in Thread : 4 = 4 /\ r.state[t] = "READY" => next # NULL
    <2>0. PICK target : target = NULL
      OBVIOUS
    <2>1. PICK lim \in 0..4 : lim = 4
      OBVIOUS
    <2>2. next = NextThread(r, lim, NULL) /\ r1 = Looped(r, lim, target)
      BY <1>2, <1>3, <2>0, <2>1, Zenon
    <2>3. /\ Sound(r1, h, NULL, r.cur) /\ Kept(r, r1) /\ r1.cur = r.cur
          /\ next # NULL => next \in Thread /\ r.state[next] = "READY"
          /\ \A t \in Thread :
               IF t = next THEN r1.state[t] = "RUNNING"
               ELSE \/ r1.state[t] = r.state[t]
                    \/ r.state[t] = "WAITING" /\ r1.state[t] = "READY"
          /\ \A t \in Thread : lim = 4 /\ r.state[t] = "READY" => next # NULL
      BY <2>2, LoopSound
    <2> QED
      BY <2>1, <2>3
  <1>5. /\ next # NULL /\ next \in Thread /\ next # me
        /\ r1.state[next] = "RUNNING" /\ r1.state[me] = "RUNNING"
        /\ r1.state[Idle] \in {"READY", "RUNNING"}
        /\ \A t \in Thread : r1.state[t] = "RUNNING" => t \in {me, next}
        /\ \A t \in Thread : r1.state[t] = "STOPPED" <=> r.state[t] = "STOPPED"
    BY <1>1, <1>4
  <1>6. PICK r2 : r2 = Slept(r1, me)
    OBVIOUS
  <1>7. s = SwitchTo(r2, next)
    <2>1. 1 + IdlePriority = 4
      BY DEF IdlePriority
    <2> QED
      BY <1>2, <1>3, <1>5, <1>6, <2>1, Zenon DEF Sleep, Slept, Looped
  <1>8. /\ Sound(r2, h, NULL, r.cur) /\ Same(r1, r2)
        /\ \A u \in Thread : r2.state[u] = IF u = me THEN "WAITING"
                                          ELSE r1.state[u]
    BY <1>1, <1>4, <1>5, <1>6, NapSound
  <1>9. /\ r2.cur = me /\ Kept(r, r2) /\ r2.state[next] = "RUNNING"
        /\ \A t \in Thread : r2.state[t] = "RUNNING" => t = next
        /\ \A t \in Thread : r2.state[t] = "STOPPED" <=> r.state[t] = "STOPPED"
        /\ r2.state[Idle] \in {"READY", "RUNNING"}
    BY <1>1, <1>4, <1>5, <1>8 DEF Kept, Same
  <1> QED
    BY <1>5, <1>7, <1>8, <1>9, HandOver

Halting == Halts \ {"no", "no ready thread"}

HaltedAt(r, w) == [r EXCEPT !.halt = w]

\* imp_wait, entered with the objlock of o held: the thread blocks, or the
\* kernel halts where it was.
LEMMA ImpWaitSound ==
  ASSUME NEW r, NEW h, Sound(r, h, NULL, r.cur), RunsOne(r), r.halt = "no",
         r.state[r.cur] = "RUNNING", r.cur # Idle,
         NEW o \in Waitable, o # Idle,
         NEW timed \in BOOLEAN, NEW s, s = ImpWait(r, o, timed)
  PROVE  \/ Sound(s, h, NULL, s.cur) /\ Hands(r, s)
         \/ \E w \in Halting :
              s = HaltedAt(r, w)
  <1> DEFINE me == r.cur
  <1>1. /\ me \in Thread /\ Idle \in Thread /\ NULL \notin Thread
        /\ o \in Waitable /\ o # Idle /\ o # NULL
        /\ \A t \in Thread : r.state[t] = "RUNNING" => t = me
        /\ r.state[Idle] = "READY"
    BY ThreadAssumption DEF Sound, Kernel, Waitable, Thread, RunsOne
  <1>2. PICK next : next = NextThread(r, 4, o)
    OBVIOUS
  <1>3. PICK q, x : q = Take(r, 4, o) /\ x = Aside(r, 4, o)
    OBVIOUS
  <1>4. /\ Sound(q, h, x, r.cur) /\ Kept(r, q) /\ q.cur = r.cur
        /\ x # NULL => /\ x = o /\ x \in Thread /\ ~InR(q, x)
                       /\ r.state[x] \in {"READY", "STOPPED"}
        /\ next # NULL => /\ next \in Thread /\ next # x
                          /\ r.state[next] = "READY"
        /\ \A t \in Thread : q.state[t] = IF t = next THEN "RUNNING"
                                          ELSE r.state[t]
        /\ \A t \in Thread : /\ 4 = 4 /\ t # o /\ r.state[t] = "READY"
                             => next # NULL
    <2>1. 4 \in 0..4
      OBVIOUS
    <2> QED
      BY <1>2, <1>3, <2>1, TakeSound
  <1>a. Sound(q, h, x, r.cur)
    BY <1>4
  <1>5. next # NULL /\ next \in Thread /\ next # me
    BY <1>1, <1>4
  <1>6. PICK cond, held : cond = (Reaped(r, 4, o) # {}) /\ held = {o}
    OBVIOUS
  <1>7. PICK r1 : r1 = GcSignalIf(q, cond, next, held)
    OBVIOUS
  <1>8. PICK r2 : r2 = Blocked(r1, me, o, timed)
    OBVIOUS
  <1>9. PICK r3 : r3 = IF x # NULL THEN ReadyPut(r2, o) ELSE r2
    OBVIOUS
  <1>10. s = IF r3.halt # "no" THEN [r EXCEPT !.halt = r3.halt]
             ELSE SwitchTo(r3, next)
    <2> DEFINE all == 1 + IdlePriority
               N == NextThread(r, all, o)
               R1 == GcSignalIf(Take(r, all, o), Reaped(r, all, o) # {},
                                N, {o})
               R2 == Blocked(R1, me, o, timed)
               R3 == IF PutBack(r, all, o) THEN ReadyPut(R2, o) ELSE R2
    <2>1. s = IF N = NULL THEN Bugcheck(r, "no ready thread")
              ELSE IF R3.halt # "no" THEN [r EXCEPT !.halt = R3.halt]
              ELSE SwitchTo(R3, N)
      BY Zenon DEF ImpWait, Blocked
    <2>2. all = 4
      BY DEF IdlePriority
    <2>3. N = next
      BY <1>2, <2>2, Zenon
    <2>4. R1 = r1
      BY <1>3, <1>6, <1>7, <2>2, <2>3, Zenon
    <2> HIDE DEF R1, N
    <2>5. R2 = r2
      BY <1>8, <2>4, Zenon
    <2> HIDE DEF R2
    <2>6. x # NULL <=> PutBack(r, all, o)
      BY <1>1, <1>3, <2>2, Zenon DEF Aside
    <2>7. R3 = r3
      BY <1>9, <2>5, <2>6, Zenon
    <2> HIDE DEF R3
    <2> QED
      BY <1>5, <2>1, <2>3, <2>7, Zenon
  <1>11. SUFFICES ASSUME r3.halt = "no"
                  PROVE  Sound(s, h, NULL, s.cur) /\ Hands(r, s)
    <2>1. r3.halt \in Halts \ {"no ready thread"}
      <3>1. q \in Kernel /\ q.halt = "no"
        BY <1>4 DEF Sound, Kept
      <3>2. r1 \in Kernel /\ r1.halt \in {"no", "spinlock timeout"}
        <4>1. \/ Sound(r1, h, x, r.cur) /\ Woke(q, r1)
              \/ GcEv \in held /\ r1 = Bugcheck(q, "spinlock timeout")
          BY <1>7, <1>a, GcSignalSound, Zenon
        <4>2. CASE Sound(r1, h, x, r.cur) /\ Woke(q, r1)
          BY <3>1, <4>2 DEF Sound, Woke, Same
        <4>3. CASE r1 = Bugcheck(q, "spinlock timeout")
          BY <3>1, <4>3 DEF Bugcheck, Kernel, Halts
        <4> QED
          BY <4>1, <4>2, <4>3
      <3>3. r2.halt = r1.halt /\ DOMAIN r2 = DOMAIN r1
        BY <1>8, <3>2 DEF Blocked, Kernel
      <3>4. r3.halt \in {r2.halt, "put: thread not READY"}
        BY <1>9, <3>2, <3>3 DEF ReadyPut, Bugcheck, Kernel
      <3> QED
        BY <3>2, <3>3, <3>4 DEF Halts
    <2>2. CASE r3.halt # "no"
      BY <1>10, <2>1, <2>2 DEF HaltedAt, Halting
    <2> QED
      BY <2>2
  <1>12. Sound(r1, h, x, r.cur) /\ Woke(q, r1)
    <2>1. \/ Sound(r1, h, x, r.cur) /\ Woke(q, r1)
          \/ GcEv \in held /\ r1 = Bugcheck(q, "spinlock timeout")
      BY <1>7, <1>a, GcSignalSound, Zenon
    <2>2. CASE r1 = Bugcheck(q, "spinlock timeout")
      <3>1. q \in Kernel /\ q.halt = "no"
        BY <1>4 DEF Sound, Kept
      <3>2. r1 \in Kernel /\ r1.halt = "spinlock timeout"
        BY <2>2, <3>1 DEF Bugcheck, Kernel, Halts
      <3>3. r2.halt = "spinlock timeout" /\ DOMAIN r2 = DOMAIN r1
        BY <1>8, <3>2 DEF Blocked, Kernel
      <3>4. r3.halt # "no"
        BY <1>9, <3>2, <3>3 DEF ReadyPut, Bugcheck, Kernel
      <3> QED
        BY <1>11, <3>4
    <2> QED
      BY <2>1, <2>2
  <1>13. /\ r1.state[next] = "RUNNING" /\ r1.state[me] = "RUNNING"
         /\ r1.state[Idle] \in {"READY", "RUNNING"}
         /\ \A t \in Thread : r1.state[t] = "RUNNING" => t \in {me, next}
         /\ \A t \in Thread :
              r1.state[t] = "STOPPED" <=> r.state[t] = "STOPPED"
         /\ x # NULL => ~InR(r1, x)
         /\ Kept(r, r1) /\ r1.cur = r.cur
    BY <1>1, <1>4, <1>5, <1>12 DEF Woke, Same, Kept
  <1>14. /\ Sound(r2, h, x, r.cur) /\ Same(r1, r2)
         /\ \A u \in Thread : InR(r2, u) <=> InR(r1, u)
         /\ \A u \in Thread : r2.state[u] = IF u = me THEN "WAITING"
                                           ELSE r1.state[u]
    BY <1>1, <1>8, <1>12, <1>13, BlockSound
  <1>15. Sound(r3, h, NULL, r.cur) /\ Same(r2, r3) /\ r3.state = r2.state
    <2>1. CASE x = NULL
      BY <1>9, <1>14, <2>1 DEF Same
    <2>2. CASE x # NULL
      <3>1. x = o /\ o \in Thread /\ ~InR(r2, o) /\ Sound(r2, h, o, r.cur)
        BY <1>4, <1>13, <1>14, <2>2
      <3>2. r3 = ReadyPut(r2, o)
        BY <1>9, <2>2
      <3>3. r2.state[o] = "READY"
        <4>1. SUFFICES ASSUME r2.state[o] # "READY" PROVE FALSE
          OBVIOUS
        <4>2. r2 \in Kernel
          BY <1>14 DEF Sound
        <4> QED
          BY <1>11, <3>2, <4>1, <4>2 DEF ReadyPut, Bugcheck, Kernel
      <3> QED
        BY <3>1, <3>2, <3>3, PutSound
    <2> QED
      BY <2>1, <2>2
  <1>16. s = SwitchTo(r3, next)
    BY <1>10, <1>11, Zenon
  <1>17. /\ r3.cur = me /\ Kept(r, r3) /\ r3.state[next] = "RUNNING"
         /\ \A t \in Thread : r3.state[t] = "RUNNING" => t = next
         /\ \A t \in Thread :
              r3.state[t] = "STOPPED" <=> r.state[t] = "STOPPED"
         /\ r3.state[Idle] \in {"READY", "RUNNING"}
    BY <1>1, <1>5, <1>13, <1>14, <1>15 DEF Kept, Same
  <1> QED
    BY <1>5, <1>15, <1>16, <1>17, HandOver

(***************************************************************************)
(* Leaving a wait, stopping                                                *)
(***************************************************************************)
\* the fields the links of a thread depend on
SameLinks(r, s) ==
  /\ s.state = r.state /\ s.wait_for = r.wait_for /\ s.ticket = r.ticket
  /\ s.armed = r.armed /\ s.ready = r.ready /\ s.wq = r.wq
  /\ s.gcq = r.gcq /\ s.gc_ptr = r.gc_ptr /\ s.dead = r.dead

\* What changes no link leaves them sound.
LEMMA FrameSound ==
  ASSUME NEW r, NEW h, NEW x, NEW c, Sound(r, h, x, c), NEW s \in Kernel,
         SameLinks(r, s)
  PROVE  Sound(s, h, x, c)
  <1>1. ASSUME NEW t \in Thread PROVE Linked(s, x, t) /\ Ended(s, h, x, c, t)
    <2>1. Linked(r, x, t) /\ Ended(r, h, x, c, t)
      BY DEF Sound
    <2>2. InR(s, t) <=> InR(r, t)
      BY DEF InR, SameLinks
    <2>3. Linked(s, x, t)
      BY <2>1, <2>2 DEF Linked, SameLinks
    <2>4. Ended(s, h, x, c, t)
      BY <2>1, <2>2 DEF Ended, Going, SameLinks
    <2> QED
      BY <2>3, <2>4
  <1> QED
    BY <1>1 DEF Sound

Withdrawn(r, t, v) ==
  [r EXCEPT
     !.state[t] = v,
     !.wq = Cancel(r, t),
     !.wait_for[t] = NULL,
     !.armed = @ \ {t},
     !.ticket[t] = FALSE]

\* A waiting thread leaves its wait queue and its timer, in transit.
LEMMA WithdrawSound ==
  ASSUME NEW r, NEW h, NEW c, Sound(r, h, NULL, c), NEW t \in Thread,
         r.state[t] = "WAITING", NEW v \in {"READY", "RUNNING", "STOPPED"},
         NEW x, x = t \/ (v = "RUNNING" /\ x = NULL),
         NEW s, s = Withdrawn(r, t, v)
  PROVE  /\ Sound(s, h, x, c) /\ Same(r, s) /\ ~InR(s, t)
         /\ \A u \in Thread : s.state[u] = IF u = t THEN v ELSE r.state[u]
         /\ ~Going(s, h, t)
  <1>1. r \in Kernel
        /\ \A u \in Thread : Linked(r, NULL, u) /\ Ended(r, h, NULL, c, u)
    BY DEF Sound
  <1>2. NULL \notin Waitable /\ NULL \notin Thread
    BY ThreadAssumption DEF Waitable
  <1>3. PICK o : o = r.wait_for[t]
    OBVIOUS
  <1>4. o \in Waitable \cup {NULL} /\ ~InR(r, t) /\ ~Going(r, h, t)
    BY <1>1, <1>3 DEF Kernel, Linked, Ended
  <1>5. PICK no \in BOOLEAN : no = FALSE
    OBVIOUS
  <1>6. PICK q : q = Unlink(r.wq[o], t)
    OBVIOUS
  <1>7. o # NULL => q \in Queues /\ Elems(q) = Elems(r.wq[o]) \ {t}
    <2>1. SUFFICES ASSUME o # NULL
                   PROVE  q \in Queues /\ Elems(q) = Elems(r.wq[o]) \ {t}
      OBVIOUS
    <2>2. r.wq[o] \in Queues
      BY <1>1, <1>4, <2>1 DEF Kernel
    <2>3. q = Only(r.wq[o], Thread \ {t})
      BY <1>6, Zenon DEF Unlink
    <2>4. q \in Queues /\ Elems(q) = Elems(r.wq[o]) \cap (Thread \ {t})
      BY <2>2, <2>3, OnlyQueue, Zenon
    <2>5. Elems(r.wq[o]) \subseteq Thread
      BY <2>2, QueueElems
    <2> QED
      BY <2>4, <2>5
  <1>8. PICK sf, wq, wf, ar, tf :
          /\ sf = [r.state EXCEPT ![t] = v]
          /\ wq = (IF o = NULL THEN r.wq ELSE [r.wq EXCEPT ![o] = q])
          /\ wf = [r.wait_for EXCEPT ![t] = NULL]
          /\ ar = r.armed \ {t}
          /\ tf = [r.ticket EXCEPT ![t] = no]
    OBVIOUS
  <1>9. s = [r EXCEPT !.state = sf, !.wq = wq, !.wait_for = wf, !.armed = ar,
                      !.ticket = tf]
    <2>1. wq = Cancel(r, t)
      BY <1>3, <1>6, <1>8, Zenon DEF Cancel
    <2>2. s = [r EXCEPT !.state[t] = v, !.wq = wq, !.wait_for[t] = NULL,
                        !.armed = @ \ {t}, !.ticket[t] = FALSE]
      BY <2>1 DEF Withdrawn
    <2> QED
      BY <1>1, <1>5, <1>8, <2>2 DEF Kernel
  <1>10. /\ sf \in [Thread -> States] /\ wq \in [Waitable -> Queues]
         /\ wf \in [Thread -> Waitable \cup {NULL}] /\ ar \in SUBSET Thread
         /\ tf \in [Thread -> BOOLEAN]
    BY <1>1, <1>4, <1>7, <1>8 DEF Kernel, States
  <1>11. /\ s \in Kernel /\ s.state = sf /\ s.wq = wq /\ s.wait_for = wf
         /\ s.armed = ar /\ s.ticket = tf /\ s.ready = r.ready /\ Same(r, s)
    BY <1>1, <1>9, <1>10 DEF Kernel, Same
  <1>12. \A u \in Thread :
           /\ u \in s.armed <=> u \in r.armed /\ u # t
           /\ s.state[u] = IF u = t THEN v ELSE r.state[u]
           /\ s.wait_for[u] = IF u = t THEN NULL ELSE r.wait_for[u]
           /\ s.ticket[u] = IF u = t THEN no ELSE r.ticket[u]
    BY <1>1, <1>8, <1>11 DEF Kernel
  <1>13. \A w \in Waitable : s.wq[w] = IF w = o THEN q ELSE r.wq[w]
    BY <1>1, <1>2, <1>8, <1>11 DEF Kernel
  <1>14. \A u \in Thread : InR(s, u) <=> InR(r, u)
    BY <1>11 DEF InR
  <1>15. ASSUME NEW u \in Thread PROVE Linked(s, x, u)
    <2>1. \A w \in Waitable : u \in Elems(s.wq[w]) <=> s.wait_for[u] = w
      <3>1. SUFFICES ASSUME NEW w \in Waitable
                     PROVE  u \in Elems(s.wq[w]) <=> s.wait_for[u] = w
        OBVIOUS
      <3>2. /\ u \in Elems(r.wq[w]) <=> r.wait_for[u] = w
            /\ t \in Elems(r.wq[w]) <=> o = w
        BY <1>1, <1>3 DEF Linked
      <3>3. w = o => Elems(s.wq[w]) = Elems(r.wq[w]) \ {t}
        BY <1>2, <1>7, <1>13
      <3>4. w # o => s.wq[w] = r.wq[w]
        BY <1>13
      <3> QED
        BY <1>2, <1>12, <3>2, <3>3, <3>4
    <2>2. CASE u = t
      <3>1. ~s.ticket[u] /\ u \notin s.armed /\ s.wait_for[u] = NULL
        BY <1>5, <1>12, <2>2
      <3> QED
        BY <1>4, <1>11, <1>12, <1>14, <2>1, <2>2, <3>1 DEF Linked, InR
    <2>3. CASE u # t
      BY <1>1, <1>2, <1>11, <1>12, <1>14, <2>1, <2>3 DEF Linked
    <2> QED
      BY <2>2, <2>3
  <1>16. ASSUME NEW u \in Thread PROVE Ended(s, h, x, c, u)
    <2>1. Going(s, h, u) <=> Going(r, h, u)
      BY <1>11 DEF Going, Same
    <2> QED
      BY <1>1, <1>2, <1>4, <1>11, <1>12, <1>14, <2>1 DEF Ended, Same
  <1>17. ~Going(s, h, t)
    BY <1>4, <1>11 DEF Going, Same
  <1> QED
    BY <1>4, <1>11, <1>12, <1>14, <1>15, <1>16, <1>17 DEF Sound

\* A READY thread is stopped in its queue, the running one on the core.
LEMMA StopSound ==
  ASSUME NEW r, NEW h, NEW t \in Thread, NEW c, Sound(r, h, NULL, c),
         \/ r.state[t] \in {"READY", "STOPPED"}
         \/ r.state[t] = "RUNNING" /\ t = c,
         t = c => r.state[t] # "READY",
         NEW s, s = Turned(r, t, "STOPPED")
  PROVE  /\ Sound(s, h, NULL, c) /\ Same(r, s)
         /\ \A u \in Thread : s.state[u] = IF u = t THEN "STOPPED"
                                           ELSE r.state[u]
  <1>1. r \in Kernel
        /\ \A u \in Thread : Linked(r, NULL, u) /\ Ended(r, h, NULL, c, u)
    BY DEF Sound
  <1>2. /\ s \in Kernel /\ Same(r, s)
        /\ s.wait_for = r.wait_for /\ s.ticket = r.ticket
        /\ s.armed = r.armed /\ s.wq = r.wq /\ s.ready = r.ready
        /\ \A u \in Thread : s.state[u] = IF u = t THEN "STOPPED"
                                          ELSE r.state[u]
    BY <1>1 DEF Kernel, Same, States, Turned
  <1>3. \A u \in Thread : InR(s, u) <=> InR(r, u)
    BY <1>2 DEF InR
  <1>4. NULL \notin Thread
    BY ThreadAssumption DEF Waitable
  <1>5. ASSUME NEW u \in Thread
        PROVE  Linked(s, NULL, u) /\ Ended(s, h, NULL, c, u)
    <2>1. Linked(s, NULL, u)
      BY <1>1, <1>2, <1>3, <1>4 DEF Linked
    <2>2. Going(s, h, u) <=> Going(r, h, u)
      BY <1>2 DEF Going, Same
    <2>3. u = t => \/ InR(r, u) /\ u # c
                   \/ u = c /\ ~InR(r, u)
                   \/ Going(r, h, u)
      BY <1>1, <1>4 DEF Linked, Ended
    <2>4. Ended(s, h, NULL, c, u)
      BY <1>1, <1>2, <1>3, <1>4, <2>2, <2>3 DEF Ended, Same
    <2> QED
      BY <2>1, <2>4
  <1> QED
    BY <1>2, <1>5 DEF Sound

\* The running thread is stopped on the core.
LEMMA SelfStopSound ==
  ASSUME NEW r, NEW h, NEW t \in Thread, Sound(r, h, NULL, t),
         r.state[t] = "RUNNING", NEW s, s = Turned(r, t, "STOPPED")
  PROVE  /\ Sound(s, h, NULL, t) /\ Same(r, s)
         /\ \A u \in Thread : s.state[u] = IF u = t THEN "STOPPED"
                                           ELSE r.state[u]
  BY StopSound

\* a thread is handed to gc
LEMMA HandedSound ==
  ASSUME NEW r, NEW h, NEW c, NEW t \in Thread, Sound(r, h, t, c),
         r.state[t] = "STOPPED", ~InR(r, t), ~Going(r, h, t), t # c,
         NEW s, s = OnStop(r, {t})
  PROVE  /\ Sound(s, h, NULL, c) /\ Kept(r, s) /\ s.cur = r.cur
         /\ s.state = r.state
  <1>1. /\ r \in Kernel
        /\ \A u \in Thread : Linked(r, t, u) /\ Ended(r, h, t, c, u)
    BY DEF Sound
  <1>2. PICK g : g = r.gcq \cup {t}
    OBVIOUS
  <1>3. g \in SUBSET Thread /\ s = [r EXCEPT !.gcq = g]
    BY <1>1, <1>2 DEF Kernel, OnStop
  <1>4. /\ s \in Kernel /\ s.state = r.state /\ s.wait_for = r.wait_for
        /\ s.ticket = r.ticket /\ s.armed = r.armed /\ s.ready = r.ready
        /\ s.wq = r.wq /\ s.gcq = g /\ s.gc_ptr = r.gc_ptr /\ s.cur = r.cur
        /\ Kept(r, s)
    BY <1>1, <1>3 DEF Kernel, Kept
  <1>5. ASSUME NEW u \in Thread
        PROVE  Linked(s, NULL, u) /\ Ended(s, h, NULL, c, u)
    <2>1. InR(s, u) <=> InR(r, u)
      BY <1>4 DEF InR
    <2>2. Linked(s, NULL, u)
      <3>1. Linked(r, t, u) /\ (u = t => s.state[u] = "STOPPED")
        BY <1>1, <1>4
      <3> QED
        BY <1>4, <2>1, <3>1 DEF Linked
    <2>3. Going(s, h, u) <=> Going(r, h, u) \/ u = t
      BY <1>2, <1>4 DEF Going, Kept
    <2>4. Ended(s, h, NULL, c, u)
      BY <1>1, <1>2, <1>4, <2>1, <2>3 DEF Ended, Kept, Going
    <2> QED
      BY <2>2, <2>4
  <1> QED
    BY <1>4, <1>5 DEF Sound

\* thread::kill of another thread: it is marked in a critical section, taken
\* out of what it waits for and handed to gc when it waits, and stopped in
\* its queue otherwise.
LEMMA KillSound ==
  ASSUME NEW r, NEW h, NEW c, Sound(r, h, NULL, c), NEW t \in Thread, t # c,
         r.state[t] \in {"READY", "WAITING", "STOPPED"},
         NEW s, s = Kill(r, t)
  PROVE  /\ Sound(s, h, NULL, c) /\ s.cur = r.cur /\ s.dead = r.dead
         /\ s.halt = r.halt
         /\ \A u \in Thread \ {t} :
              \/ s.state[u] = r.state[u]
              \/ r.state[u] = "WAITING" /\ s.state[u] = "READY"
         /\ \A u \in Thread :
              "CRITICAL" \in s.critical[u] => "CRITICAL" \in r.critical[u]
         /\ s.state[t] = IF "CRITICAL" \in r.critical[t] THEN r.state[t]
                         ELSE "STOPPED"
  <1>1. r \in Kernel
        /\ \A u \in Thread : Linked(r, NULL, u) /\ Ended(r, h, NULL, c, u)
    BY DEF Sound
  <1>2. CASE "CRITICAL" \in r.critical[t]
    <2>1. PICK f : f = [r.critical EXCEPT ![t] = @ \cup {"KILL"}]
      OBVIOUS
    <2>2. s = [r EXCEPT !.critical = f]
      BY <1>1, <1>2, <2>1 DEF Kill, Kernel
    <2>3. f \in [Thread -> SUBSET {"CRITICAL", "KILL"}]
      BY <1>1, <2>1 DEF Kernel
    <2>4. /\ s \in Kernel /\ SameLinks(r, s) /\ s.cur = r.cur
          /\ s.dead = r.dead /\ s.halt = r.halt /\ s.critical = f
      BY <1>1, <2>2, <2>3 DEF Kernel, SameLinks
    <2>5. Sound(s, h, NULL, c)
      BY <2>4, FrameSound
    <2>6. \A u \in Thread :
             "CRITICAL" \in f[u] => "CRITICAL" \in r.critical[u]
      BY <1>1, <2>1 DEF Kernel
    <2> QED
      BY <1>2, <2>4, <2>5, <2>6 DEF SameLinks
  <1>3. CASE "CRITICAL" \notin r.critical[t] /\ r.state[t] = "WAITING"
    <2>1. PICK q : q = Withdrawn(r, t, "STOPPED")
      OBVIOUS
    <2>2. PICK q2 : q2 = OnStop(q, {t})
      OBVIOUS
    <2>3. PICK held, cond : held = {} /\ cond = TRUE
      OBVIOUS
    <2>4. s = GcSignalIf(q2, cond, NULL, held)
      <3>1. q = [r EXCEPT !.state[t] = "STOPPED",
                          !.wq = Cancel(r, t),
                          !.wait_for[t] = NULL,
                          !.armed = IF r.ticket[t] THEN @ \ {t} ELSE @,
                          !.ticket[t] = FALSE]
        <4>1. PICK ar : ar = r.armed \ {t}
          OBVIOUS
        <4>2. ar = IF r.ticket[t] THEN r.armed \ {t} ELSE r.armed
          BY <1>1, <4>1 DEF Linked
        <4> QED
          BY <2>1, <4>1, <4>2 DEF Withdrawn
      <3>2. s = GcSignal(q2, NULL, {})
        BY <1>3, <2>2, <3>1, Zenon DEF Kill
      <3> QED
        BY <2>3, <3>2 DEF GcSignalIf
    <2>5. /\ Sound(q, h, t, c) /\ Same(r, q) /\ ~InR(q, t)
          /\ \A u \in Thread : q.state[u] = IF u = t THEN "STOPPED"
                                            ELSE r.state[u]
          /\ ~Going(q, h, t)
      BY <1>3, <2>1, WithdrawSound
    <2>6. /\ Sound(q2, h, NULL, c) /\ Kept(q, q2) /\ q2.cur = q.cur
          /\ q2.state = q.state
      BY <2>2, <2>5, HandedSound
    <2>7. Sound(s, h, NULL, c) /\ Woke(q2, s)
      <3>1. \/ Sound(s, h, NULL, c) /\ Woke(q2, s)
            \/ GcEv \in held /\ s = Bugcheck(q2, "spinlock timeout")
        BY <2>4, <2>6, GcSignalSound
      <3> QED
        BY <2>3, <3>1
    <2> QED
      BY <1>3, <2>5, <2>6, <2>7 DEF Woke, Same, Kept
  <1>4. CASE "CRITICAL" \notin r.critical[t] /\ r.state[t] # "WAITING"
    <2>1. s = Turned(r, t, "STOPPED")
      BY <1>4, Zenon DEF Kill, Turned
    <2>2. /\ Sound(s, h, NULL, c) /\ Same(r, s)
          /\ \A u \in Thread : s.state[u] = IF u = t THEN "STOPPED"
                                            ELSE r.state[u]
      <3>1. /\ \/ r.state[t] \in {"READY", "STOPPED"}
               \/ r.state[t] = "RUNNING" /\ t = c
            /\ t = c => r.state[t] # "READY"
        BY <1>4
      <3> QED
        BY <2>1, <3>1, StopSound
    <2> QED
      BY <1>4, <2>2 DEF Same
  <1> QED
    BY <1>2, <1>3, <1>4

(***************************************************************************)
(* Steps                                                                   *)
(***************************************************************************)
\* A STOPPED thread stays STOPPED and does not get the core.
Final(r, s) ==
  /\ r.dead \subseteq s.dead
  /\ \A u \in Thread : r.state[u] = "STOPPED" =>
       s.state[u] = "STOPPED" /\ (s.cur = u => r.cur = u)

\* A thread in a critical section is not stopped.
Guarded(r, s, u) ==
  "CRITICAL" \in s.critical[u] => /\ "CRITICAL" \in r.critical[u]
                                  /\ s.state[u] = "STOPPED" =>
                                       r.state[u] = "STOPPED"

Runs(r) == RunsOne(r) /\ r.halt # "no ready thread"

\* A step that moves no thread to another place.
LEMMA IrqStep ==
  ASSUME IInv, pc' = pc, obj' = obj,
         Sound(k', Hand, NULL, k'.cur), Runs(k'), Final(k, k'),
         \A u \in Thread : Guarded(k, k', u),
         k'.state[k'.cur] = "STOPPED" =>
            k'.cur = k.cur /\ k.state[k.cur] = "STOPPED"
  PROVE  IInv' /\ Final(k, k')
  <1>1. Hand' = Hand
    BY DEF Hand
  <1>2. PlacesFine'
    BY DEF IInv, PlacesFine, Guarded
  <1>3. Sound(k', Hand', NULL, k'.cur)
    BY <1>1
  <1> QED
    BY <1>2, <1>3, Zenon DEF IInv, Runs

\* An IF-off section of thread t that ends at the place at.
LEMMA ThreadStep ==
  ASSUME IInv, NEW t \in User \cup {GC}, NEW at \in Places,
         NEW o \in Waitable \cup {NULL}, NEW h,
         pc' = [pc EXCEPT ![t] = at], obj' = [obj EXCEPT ![t] = o],
         h = IF t = GC THEN (IF at = "collect" THEN o ELSE NULL) ELSE Hand,
         Sound(k', h, NULL, k'.cur), Runs(k'), Final(k, k'),
         \A u \in Thread \ {t} : Guarded(k, k', u),
         "CRITICAL" \in k'.critical[t] =>
            /\ t # GC /\ at \in {"service", "leave", "wait"}
            /\ k'.state[t] # "STOPPED",
         k'.state[k'.cur] = "STOPPED" => k'.cur = t /\ at = "escape",
         t = GC => /\ at \in {"wait", "get", "collect"}
                   /\ at = "collect" => o \in Thread,
         t # GC => (at = "wait" => o \in (Event \cup User) \ {t})
  PROVE  IInv' /\ Final(k, k')
  <1>1. /\ pc \in [Thread -> Places]
        /\ obj \in [Thread -> Waitable \cup {NULL}]
        /\ pc[GC] \in {"wait", "get", "collect"}
        /\ pc[GC] = "collect" => obj[GC] \in Thread
        /\ \A u \in User : pc[u] = "wait" => obj[u] \in (Event \cup User) \ {u}
        /\ \A u \in Thread : "CRITICAL" \in k.critical[u] =>
             /\ u # GC /\ pc[u] \in {"service", "leave", "wait"}
             /\ k.state[u] # "STOPPED"
    BY DEF IInv, PlacesFine
  <1>2. /\ t \in Thread /\ GC \in Thread /\ GC \notin User
        /\ User \subseteq Thread
    BY ThreadAssumption DEF Thread
  <1>3. /\ \A u \in Thread : pc'[u] = IF u = t THEN at ELSE pc[u]
        /\ \A u \in Thread : obj'[u] = IF u = t THEN o ELSE obj[u]
        /\ pc' \in [Thread -> Places]
        /\ obj' \in [Thread -> Waitable \cup {NULL}]
    BY <1>1, <1>2
  <1>4. Hand' = h
    BY <1>2, <1>3 DEF Hand
  <1>5. PlacesFine'
    <2>1. pc'[GC] \in {"wait", "get", "collect"}
      BY <1>1, <1>2, <1>3
    <2>2. pc'[GC] = "collect" => obj'[GC] \in Thread
      BY <1>1, <1>2, <1>3
    <2>3. \A u \in User :
            pc'[u] = "wait" => obj'[u] \in (Event \cup User) \ {u}
      BY <1>1, <1>2, <1>3
    <2>4. \A u \in Thread : "CRITICAL" \in k'.critical[u] =>
            /\ u # GC /\ pc'[u] \in {"service", "leave", "wait"}
            /\ k'.state[u] # "STOPPED"
      BY <1>1, <1>2, <1>3 DEF Guarded
    <2>5. k'.state[k'.cur] = "STOPPED" => pc'[k'.cur] = "escape"
      BY <1>2, <1>3
    <2> QED
      BY <1>3, <2>1, <2>2, <2>3, <2>4, <2>5 DEF PlacesFine
  <1>6. Sound(k', Hand', NULL, k'.cur)
    BY <1>4
  <1> QED
    BY <1>5, <1>6, Zenon DEF IInv, Runs

\* The kernel halts where it was.
LEMMA HaltStep ==
  ASSUME IInv, pc' = pc, obj' = obj, NEW r, NEW w \in Halts,
         w # "no ready thread", k' = [r EXCEPT !.halt = w],
         Sound(r, Hand, NULL, r.cur), RunsOne(r), r.cur = k.cur,
         r.state = k.state, r.dead = k.dead,
         \A u \in Thread : "CRITICAL" \in r.critical[u] =>
                           "CRITICAL" \in k.critical[u]
  PROVE  IInv' /\ Final(k, k')
  <1>1. r \in Kernel
    BY DEF Sound
  <1>2. /\ k' \in Kernel /\ SameLinks(r, k') /\ k'.cur = r.cur
        /\ k'.critical = r.critical /\ k'.halt = w
    BY <1>1 DEF Kernel, SameLinks
  <1>3. Sound(k', Hand, NULL, k'.cur)
    <2>1. Sound(k', Hand, NULL, r.cur)
      BY <1>2, FrameSound
    <2> QED
      BY <1>2, <2>1
  <1>4. Runs(k')
    BY <1>2 DEF Runs, RunsOne, SameLinks
  <1>5. Final(k, k') /\ \A u \in Thread : Guarded(k, k', u)
    BY <1>2 DEF Final, Guarded, SameLinks
  <1>6. k'.state[k'.cur] = "STOPPED" =>
            k'.cur = k.cur /\ k.state[k.cur] = "STOPPED"
    BY <1>2 DEF SameLinks
  <1> QED
    BY <1>3, <1>4, <1>5, <1>6, IrqStep

\* An objlock that was never released.
LEMMA SpinStep ==
  ASSUME IInv, k.halt = "no", pc' = pc, obj' = obj,
         k' = Bugcheck(k, "spinlock timeout")
  PROVE  IInv' /\ Final(k, k')
  <1>1. PICK r, w : r = k /\ w = "spinlock timeout"
    OBVIOUS
  <1>2. /\ w \in Halts /\ w # "no ready thread" /\ k' = [r EXCEPT !.halt = w]
        /\ Sound(r, Hand, NULL, r.cur) /\ RunsOne(r) /\ r.cur = k.cur
        /\ r.state = k.state /\ r.dead = k.dead /\ r.critical = k.critical
    BY <1>1 DEF Bugcheck, Halts, IInv
  <1> QED
    BY <1>2, HaltStep

\* An IF-off section keeps the invariant if what it leaves is sound and the
\* place it ends at suits the thread: the lock of an object that was never
\* released halts the kernel where it was.
LEMMA ExecStep ==
  ASSUME IInv, k.halt = "no", NEW t \in User \cup {GC}, NEW at \in Places,
         NEW o \in Waitable \cup {NULL}, NEW S, NEW h, NEW r, r.halt = "no",
         Exec(t, S, r, at, o),
         h = IF t = GC THEN (IF at = "collect" THEN o ELSE NULL) ELSE Hand,
         Sound(r, h, NULL, r.cur), Runs(r), Final(k, r),
         \A u \in Thread \ {t} : Guarded(k, r, u),
         "CRITICAL" \in r.critical[t] =>
            /\ t # GC /\ at \in {"service", "leave", "wait"}
            /\ r.state[t] # "STOPPED",
         r.state[r.cur] = "STOPPED" => r.cur = t /\ at = "escape",
         t = GC => /\ at \in {"wait", "get", "collect"}
                   /\ at = "collect" => o \in Thread,
         t # GC => (at = "wait" => o \in (Event \cup User) \ {t})
  PROVE  IInv' /\ Final(k, k')
  <1>1. CASE S \cap k.locked = {}
    <2>1. k' = r
      BY <1>1, Zenon DEF Exec, Locking
    <2>2. pc' = [pc EXCEPT ![t] = at] /\ obj' = [obj EXCEPT ![t] = o]
      BY <2>1 DEF Exec
    <2>3. /\ Sound(k', h, NULL, k'.cur) /\ Runs(k') /\ Final(k, k')
          /\ \A u \in Thread \ {t} : Guarded(k, k', u)
          /\ "CRITICAL" \in k'.critical[t] =>
               /\ t # GC /\ at \in {"service", "leave", "wait"}
               /\ k'.state[t] # "STOPPED"
          /\ k'.state[k'.cur] = "STOPPED" => k'.cur = t /\ at = "escape"
      BY <2>1
    <2> QED
      BY <2>2, <2>3, ThreadStep
  <1>2. CASE S \cap k.locked # {}
    <2>1. k' = Bugcheck(k, "spinlock timeout")
      BY <1>2, Zenon DEF Exec, Locking
    <2>2. k'.halt # "no"
      BY <2>1 DEF Bugcheck, IInv, Sound, Kernel
    <2>3. pc' = pc /\ obj' = obj
      BY <2>2 DEF Exec
    <2> QED
      BY <2>1, <2>3, SpinStep
  <1> QED
    BY <1>1, <1>2

\* What the invariant says of the thread that executes.
LEMMA RunningFacts ==
  ASSUME IInv, NEW t \in User \cup {GC}, NEW at, Running(t, at)
  PROVE  /\ t \in Thread /\ t # Idle /\ k.cur = t /\ k.halt = "no"
         /\ at # "escape" => k.state[t] = "RUNNING"
         /\ k \in Kernel /\ Sound(k, Hand, NULL, k.cur) /\ RunsOne(k)
         /\ \A u \in Thread : "CRITICAL" \in k.critical[u] =>
              /\ u # GC /\ pc[u] \in {"service", "leave", "wait"}
              /\ k.state[u] # "STOPPED"
  <1>1. t \in Thread /\ t # Idle
    BY ThreadAssumption DEF Thread
  <1> QED
    BY <1>1 DEF IInv, Running, PlacesFine, RunsOne, Sound

\* Calls that touch no link of a thread.
LEMMA QuietGood ==
  ASSUME IInv, NEW r \in Kernel, SameLinks(k, r), r.cur = k.cur,
         r.halt = k.halt
  PROVE  Sound(r, Hand, NULL, r.cur) /\ Runs(r) /\ Final(k, r)
  <1>1. Sound(k, Hand, NULL, k.cur) /\ RunsOne(k) /\ k.halt # "no ready thread"
    BY DEF IInv
  <1>2. Sound(r, Hand, NULL, k.cur)
    BY <1>1, FrameSound
  <1>3. Runs(r)
    BY <1>1 DEF Runs, RunsOne, SameLinks
  <1>4. Final(k, r)
    BY DEF Final, SameLinks
  <1> QED
    BY <1>2, <1>3, <1>4

\* Calls that wake threads.
LEMMA WokeGood ==
  ASSUME NEW q, q.cur \in Thread, RunsOne(q), q.halt = "no",
         NEW r, Woke(q, r)
  PROVE  /\ Runs(r) /\ Final(q, r) /\ r.cur = q.cur /\ r.halt = "no"
         /\ r.critical = q.critical
         /\ \A u \in Thread : r.state[u] = "STOPPED" <=> q.state[u] = "STOPPED"
  <1>1. Idle \in Thread
    BY DEF Thread
  <1>2. /\ r.cur = q.cur /\ r.halt = "no" /\ r.dead = q.dead
        /\ r.critical = q.critical
    BY DEF Woke, Same
  <1>3. \A u \in Thread : \/ r.state[u] = q.state[u]
                          \/ q.state[u] = "WAITING" /\ r.state[u] = "READY"
    BY DEF Woke
  <1>4. Runs(r)
    BY <1>1, <1>2, <1>3 DEF Runs, RunsOne
  <1> QED
    BY <1>2, <1>3, <1>4 DEF Final

\* Calls after which another thread may have the core.
LEMMA HandsGood ==
  ASSUME NEW q, NEW r, Hands(q, r), q.halt = "no"
  PROVE  /\ Runs(r) /\ Final(q, r) /\ r.halt = "no" /\ r.critical = q.critical
         /\ r.state[r.cur] # "STOPPED"
         /\ \A u \in Thread : r.state[u] = "STOPPED" <=> q.state[u] = "STOPPED"
  BY DEF Hands, Kept, Runs, Final

(***************************************************************************)
(* The actions                                                             *)
(***************************************************************************)
\* drop(): the end of the critical section, and of the thread if it was killed
LEMMA DroppedGood ==
  ASSUME IInv, NEW t \in User, NEW at, at # "escape", Running(t, at),
         NEW r, r = Dropped(k, t)
  PROVE  /\ Sound(r, Hand, NULL, r.cur) /\ Runs(r) /\ Final(k, r)
         /\ r.cur = t /\ r.halt = "no" /\ r.dead = k.dead
         /\ r.locked = k.locked
         /\ \A u \in Thread \ {t} : r.critical[u] = k.critical[u]
         /\ "CRITICAL" \notin r.critical[t]
         /\ IF "KILL" \in k.critical[t]
            THEN \A u \in Thread : r.state[u] = IF u = t THEN "STOPPED"
                                                ELSE k.state[u]
            ELSE r.state = k.state
  <1>1. t \in User \cup {GC}
    OBVIOUS
  <1>2. /\ t \in Thread /\ t # Idle /\ k.cur = t /\ k.halt = "no"
        /\ at # "escape" => k.state[t] = "RUNNING"
        /\ k \in Kernel /\ Sound(k, Hand, NULL, k.cur) /\ RunsOne(k)
    BY <1>1, RunningFacts
  <1>3. CASE "KILL" \in k.critical[t]
    <2>1. PICK q : q = Turned(k, t, "STOPPED")
      OBVIOUS
    <2>2. /\ Sound(q, Hand, NULL, k.cur) /\ Same(k, q)
          /\ \A u \in Thread : q.state[u] = IF u = t THEN "STOPPED"
                                            ELSE k.state[u]
      <3>1. PICK r0, c, h : r0 = k /\ c = k.cur /\ h = Hand
        OBVIOUS
      <3>2. /\ r0.state[t] = "RUNNING" /\ t = c
            /\ Sound(r0, h, NULL, c) /\ t \in Thread
            /\ q = Turned(r0, t, "STOPPED")
        BY <1>2, <2>1, <3>1
      <3>3. /\ Sound(q, h, NULL, c) /\ Same(r0, q)
            /\ \A u \in Thread : q.state[u] = IF u = t THEN "STOPPED"
                                              ELSE r0.state[u]
        BY <3>2, StopSound
      <3> QED
        BY <3>1, <3>3
    <2>3. q \in Kernel
      BY <2>2 DEF Sound
    <2>4. PICK f : f = [q.critical EXCEPT ![t] = {"KILL"}]
      OBVIOUS
    <2>5. f \in [Thread -> SUBSET {"CRITICAL", "KILL"}]
      BY <2>3, <2>4 DEF Kernel
    <2>6. r = [q EXCEPT !.critical = f]
      BY <1>2, <1>3, <2>1, <2>4 DEF Dropped, Turned, Kernel
    <2>7. /\ r \in Kernel /\ SameLinks(q, r) /\ r.cur = q.cur
          /\ r.halt = q.halt /\ r.critical = f /\ r.locked = q.locked
      BY <2>3, <2>5, <2>6 DEF Kernel, SameLinks
    <2>8. Sound(r, Hand, NULL, k.cur)
      BY <2>2, <2>7, FrameSound
    <2>9. /\ r.cur = t /\ r.halt = "no" /\ r.dead = k.dead
          /\ r.locked = k.locked
          /\ \A u \in Thread : r.state[u] = IF u = t THEN "STOPPED"
                                            ELSE k.state[u]
      BY <1>2, <2>2, <2>7 DEF Same, SameLinks
    <2>10. /\ "CRITICAL" \notin f[t]
           /\ \A u \in Thread \ {t} : f[u] = k.critical[u]
      BY <1>2, <2>2, <2>3, <2>4 DEF Same, Kernel
    <2>11. Runs(r) /\ Final(k, r)
      BY <1>2, <2>9 DEF Runs, RunsOne, Final, Thread
    <2> QED
      BY <1>2, <1>3, <2>7, <2>8, <2>9, <2>10, <2>11
  <1>4. CASE "KILL" \notin k.critical[t]
    <2>1. PICK f : f = [k.critical EXCEPT ![t] = {}]
      OBVIOUS
    <2>2. f \in [Thread -> SUBSET {"CRITICAL", "KILL"}]
      BY <1>2, <2>1 DEF Kernel
    <2>3. r = [k EXCEPT !.critical = f]
      BY <1>2, <1>4, <2>1 DEF Dropped
    <2>4. /\ r \in Kernel /\ SameLinks(k, r) /\ r.cur = k.cur
          /\ r.halt = k.halt /\ r.critical = f /\ r.locked = k.locked
      BY <1>2, <2>2, <2>3 DEF Kernel, SameLinks
    <2>5. Sound(r, Hand, NULL, r.cur) /\ Runs(r) /\ Final(k, r)
      BY <2>4, QuietGood
    <2>6. /\ "CRITICAL" \notin f[t]
          /\ \A u \in Thread \ {t} : f[u] = k.critical[u]
      BY <1>2, <2>1 DEF Kernel
    <2> QED
      BY <1>2, <1>4, <2>4, <2>5, <2>6 DEF SameLinks
  <1> QED
    BY <1>3, <1>4

\* hold() opens a critical section of the thread that runs.
LEMMA HoldStep ==
  ASSUME IInv, NEW t \in User, Hold(t)
  PROVE  IInv' /\ Final(k, k')
  <1>1. t \in User \cup {GC} /\ Running(t, "user") /\ t # GC
    BY ThreadAssumption DEF Hold
  <1>2. /\ t \in Thread /\ k.cur = t /\ k.halt = "no"
        /\ k.state[t] = "RUNNING" /\ k \in Kernel
    BY <1>1, RunningFacts
  <1>3. PICK f : f = [k.critical EXCEPT ![t] = {"CRITICAL"}]
    OBVIOUS
  <1>4. PICK r : r = [k EXCEPT !.critical = f]
    OBVIOUS
  <1>5. PICK S, at, o : S = {t} /\ at = "service" /\ o = NULL
    OBVIOUS
  <1>6. Exec(t, S, r, at, o)
    BY <1>2, <1>3, <1>4, <1>5 DEF Hold, Kernel
  <1>7. f \in [Thread -> SUBSET {"CRITICAL", "KILL"}]
    BY <1>2, <1>3 DEF Kernel
  <1>8. /\ r \in Kernel /\ SameLinks(k, r) /\ r.cur = k.cur
        /\ r.halt = k.halt /\ r.critical = f
    BY <1>2, <1>4, <1>7 DEF Kernel, SameLinks
  <1>9. Sound(r, Hand, NULL, r.cur) /\ Runs(r) /\ Final(k, r)
    BY <1>8, QuietGood
  <1>10. \A u \in Thread \ {t} : Guarded(k, r, u)
    BY <1>2, <1>3, <1>8 DEF Guarded, SameLinks, Kernel
  <1>11. r.state[t] = "RUNNING" /\ r.cur = t
    BY <1>2, <1>8 DEF SameLinks
  <1>12. at \in Places /\ at # "wait" /\ at # "collect" /\ at = "service"
    BY <1>5 DEF Places
  <1>13. o \in Waitable \cup {NULL}
    BY <1>5
  <1> QED
    BY <1>1, <1>2, <1>6, <1>8, <1>9, <1>10, <1>11, <1>12, <1>13, ExecStep

\* a service call that returns
LEMMA LeaveStep ==
  ASSUME IInv, NEW t \in User, NEW from, from # "escape", Running(t, from),
         NEW S, NEW r, Exec(t, S, r, "leave", NULL),
         Sound(r, Hand, NULL, r.cur), Runs(r), Final(k, r), r.halt = "no",
         \A u \in Thread : Guarded(k, r, u), r.state[r.cur] # "STOPPED"
  PROVE  IInv' /\ Final(k, k')
  <1>1. t \in User \cup {GC} /\ t # GC
    BY ThreadAssumption
  <1>2. t \in Thread /\ k.halt = "no" /\ k.state[t] = "RUNNING"
    BY <1>1, RunningFacts
  <1>3. PICK at, o : at = "leave" /\ o = NULL
    OBVIOUS
  <1>4. Exec(t, S, r, at, o)
    BY <1>3
  <1>5. /\ at \in Places /\ at # "wait" /\ at # "collect"
        /\ at \in {"service", "leave", "wait"} /\ o \in Waitable \cup {NULL}
    BY <1>3 DEF Places
  <1>6. "CRITICAL" \in r.critical[t] => r.state[t] # "STOPPED"
    BY <1>2 DEF Guarded
  <1> QED
    BY <1>1, <1>2, <1>4, <1>5, <1>6, ExecStep

\* a call that wakes threads and returns
LEMMA WakingStep ==
  ASSUME IInv, NEW t \in User, Running(t, "service"), NEW S, NEW q, NEW r,
         Sound(q, Hand, NULL, q.cur), RunsOne(q), q.cur = k.cur,
         q.state = k.state, q.critical = k.critical, q.dead = k.dead,
         q.halt = "no", Sound(r, Hand, NULL, q.cur), Woke(q, r),
         Exec(t, S, r, "leave", NULL)
  PROVE  IInv' /\ Final(k, k')
  <1>1. t \in User \cup {GC}
    OBVIOUS
  <1>2. t \in Thread /\ k.cur = t /\ k.state[t] = "RUNNING"
    BY <1>1, RunningFacts
  <1>3. /\ Runs(r) /\ Final(q, r) /\ r.cur = q.cur /\ r.halt = "no"
        /\ r.critical = q.critical
        /\ \A u \in Thread : r.state[u] = "STOPPED" <=> q.state[u] = "STOPPED"
    BY <1>2, WokeGood
  <1>4. Final(k, r) /\ Sound(r, Hand, NULL, r.cur)
    BY <1>3 DEF Final
  <1>5. \A u \in Thread : Guarded(k, r, u)
    BY <1>3 DEF Guarded
  <1>6. r.state[r.cur] # "STOPPED"
    BY <1>2, <1>3
  <1>7. PICK from : from = "service"
    OBVIOUS
  <1>8. from # "escape" /\ Running(t, from)
    BY <1>7
  <1> QED
    BY <1>3, <1>4, <1>5, <1>6, <1>8, LeaveStep

\* a call that touches no link of a thread and returns
LEMMA QuietStep ==
  ASSUME IInv, NEW t \in User, Running(t, "service"), NEW S, NEW r \in Kernel,
         SameLinks(k, r), r.cur = k.cur, r.halt = k.halt,
         r.critical = k.critical, Exec(t, S, r, "leave", NULL)
  PROVE  IInv' /\ Final(k, k')
  <1>1. t \in User \cup {GC}
    OBVIOUS
  <1>2. t \in Thread /\ k.cur = t /\ k.state[t] = "RUNNING" /\ k.halt = "no"
    BY <1>1, RunningFacts
  <1>3. Sound(r, Hand, NULL, r.cur) /\ Runs(r) /\ Final(k, r)
    BY QuietGood
  <1>4. r.state[r.cur] # "STOPPED" /\ \A u \in Thread : Guarded(k, r, u)
    BY <1>2 DEF SameLinks, Guarded
  <1>5. PICK from : from = "service"
    OBVIOUS
  <1>6. from # "escape" /\ Running(t, from) /\ r.halt = "no"
    BY <1>2, <1>5
  <1> QED
    BY <1>3, <1>4, <1>6, LeaveStep

\* The service calls that wake threads or touch no link.
LEMMA CallSteps ==
  ASSUME IInv, NEW t \in User
  PROVE  /\ \A e \in Event, mode \in {"one", "all"} :
              SignalEvent(t, e, mode) => IInv' /\ Final(k, k')
         /\ \A e \in Event : ResetEvent(t, e) => IInv' /\ Final(k, k')
         /\ \A u \in User, p \in {ShellPriority, UserPriority} :
              SetPriority(t, u, p) => IInv' /\ Final(k, k')
  <1>1. t \in User \cup {GC}
    OBVIOUS
  <1>2. ASSUME Running(t, "service")
        PROVE  /\ t \in Thread /\ k.cur = t /\ k.halt = "no" /\ k \in Kernel
               /\ Sound(k, Hand, NULL, k.cur) /\ RunsOne(k)
    BY <1>1, <1>2, RunningFacts
  <1>3. ASSUME NEW e \in Event, NEW mode \in {"one", "all"},
               SignalEvent(t, e, mode)
        PROVE  IInv' /\ Final(k, k')
    <2>1. Running(t, "service") /\ e \in Waitable
      BY <1>3 DEF SignalEvent, Waitable
    <2>2. PICK S : S = {e}
      OBVIOUS
    <2>3. CASE mode = "one"
      <3>1. PICK r : r = SignalOne(k, e)
        OBVIOUS
      <3>2. Exec(t, S, r, "leave", NULL)
        BY <1>3, <2>2, <2>3, <3>1 DEF SignalEvent
      <3>3. PICK q : q = k
        OBVIOUS
      <3>4. /\ Sound(q, Hand, NULL, q.cur) /\ RunsOne(q) /\ q.cur = k.cur
            /\ q.state = k.state /\ q.critical = k.critical
            /\ q.dead = k.dead /\ q.halt = "no"
        BY <1>2, <2>1, <3>3
      <3>5. Sound(r, Hand, NULL, q.cur) /\ Woke(q, r)
        <4>1. Sound(SignalOne(q, e), Hand, NULL, q.cur)
              /\ Woke(q, SignalOne(q, e))
          BY <2>1, <3>4, SignalOneSound
        <4> QED
          BY <3>1, <3>3, <4>1
      <3> QED
        BY <2>1, <3>2, <3>4, <3>5, WakingStep
    <2>4. CASE mode = "all"
      <3>1. PICK g : g = k.signaled \cup {e}
        OBVIOUS
      <3>2. PICK q : q = [k EXCEPT !.signaled = g]
        OBVIOUS
      <3>3. PICK r : r = Notify(q, e)
        OBVIOUS
      <3>4. Exec(t, S, r, "leave", NULL)
        <4>1. q = [k EXCEPT !.signaled = @ \cup {e}]
          BY <3>1, <3>2
        <4> QED
          BY <1>3, <2>2, <2>4, <3>3, <4>1 DEF SignalEvent
      <3>5. g \in SUBSET Event
        BY <1>2, <2>1, <3>1 DEF Kernel
      <3>6. /\ q \in Kernel /\ SameLinks(k, q) /\ q.cur = k.cur
            /\ q.halt = k.halt /\ q.critical = k.critical
        BY <1>2, <2>1, <3>2, <3>5 DEF Kernel, SameLinks
      <3>7. Sound(q, Hand, NULL, q.cur) /\ Runs(q)
        BY <3>6, QuietGood
      <3>8. /\ RunsOne(q) /\ q.state = k.state /\ q.dead = k.dead
            /\ q.halt = "no"
        BY <1>2, <2>1, <3>6, <3>7 DEF Runs, SameLinks
      <3>9. Sound(r, Hand, NULL, q.cur) /\ Woke(q, r)
        BY <2>1, <3>3, <3>7, NotifyAllSound
      <3> QED
        BY <2>1, <3>4, <3>6, <3>7, <3>8, <3>9, WakingStep
    <2> QED
      BY <2>3, <2>4
  <1>4. ASSUME NEW e \in Event, ResetEvent(t, e)
        PROVE  IInv' /\ Final(k, k')
    <2>1. Running(t, "service")
      BY <1>4 DEF ResetEvent
    <2>2. PICK g, S : g = k.signaled \ {e} /\ S = {e}
      OBVIOUS
    <2>3. PICK r : r = [k EXCEPT !.signaled = g]
      OBVIOUS
    <2>4. Exec(t, S, r, "leave", NULL)
      BY <1>4, <2>2, <2>3 DEF ResetEvent
    <2>5. g \in SUBSET Event
      BY <1>2, <2>1, <2>2 DEF Kernel
    <2>6. /\ r \in Kernel /\ SameLinks(k, r) /\ r.cur = k.cur
          /\ r.halt = k.halt /\ r.critical = k.critical
      BY <1>2, <2>1, <2>3, <2>5 DEF Kernel, SameLinks
    <2> QED
      BY <2>1, <2>4, <2>6, QuietStep
  <1>5. ASSUME NEW u \in User, NEW p \in {ShellPriority, UserPriority},
               SetPriority(t, u, p)
        PROVE  IInv' /\ Final(k, k')
    <2>1. Running(t, "service") /\ u \in Thread /\ p \in Level
      BY <1>5 DEF SetPriority, Thread, ShellPriority, UserPriority, Level
    <2>2. PICK f, S : f = [k.priority EXCEPT ![u] = p] /\ S = {}
      OBVIOUS
    <2>3. PICK r : r = [k EXCEPT !.priority = f]
      OBVIOUS
    <2>4. Exec(t, S, r, "leave", NULL)
      BY <1>2, <1>5, <2>1, <2>2, <2>3 DEF SetPriority, Kernel
    <2>5. f \in [Thread -> Level]
      BY <1>2, <2>1, <2>2 DEF Kernel
    <2>6. /\ r \in Kernel /\ SameLinks(k, r) /\ r.cur = k.cur
          /\ r.halt = k.halt /\ r.critical = k.critical
      BY <1>2, <2>1, <2>3, <2>5 DEF Kernel, SameLinks
    <2> QED
      BY <2>1, <2>4, <2>6, QuietStep
  <1> QED
    BY <1>3, <1>4, <1>5

\* A service call kills another thread.
LEMMA KillStep ==
  ASSUME IInv, NEW t \in User, NEW u \in User, KillThread(t, u)
  PROVE  IInv' /\ Final(k, k')
  <1>1. t \in User \cup {GC}
    OBVIOUS
  <1>2. Running(t, "service") /\ u # t /\ k.state[u] # "FREE"
    BY DEF KillThread
  <1>3. /\ t \in Thread /\ k.cur = t /\ k.halt = "no" /\ k \in Kernel
        /\ Sound(k, Hand, NULL, k.cur) /\ RunsOne(k) /\ k.state[t] = "RUNNING"
    BY <1>1, <1>2, RunningFacts
  <1>4. u \in Thread /\ u # Idle /\ Idle \in Thread
    BY ThreadAssumption DEF Thread
  <1>5. PICK r, S, from : r = Kill(k, u) /\ S = {u} /\ from = "service"
    OBVIOUS
  <1>6. Exec(t, S, r, "leave", NULL) /\ Running(t, from) /\ from # "escape"
    BY <1>2, <1>5 DEF KillThread
  <1>7. k.state[u] \in {"READY", "WAITING", "STOPPED"}
    BY <1>2, <1>3, <1>4 DEF RunsOne, Kernel, States
  <1>8. PICK q, c, h : q = k /\ c = k.cur /\ h = Hand
    OBVIOUS
  <1>9. /\ Sound(r, h, NULL, c) /\ r.cur = q.cur /\ r.dead = q.dead
        /\ r.halt = q.halt
        /\ \A v \in Thread \ {u} :
             \/ r.state[v] = q.state[v]
             \/ q.state[v] = "WAITING" /\ r.state[v] = "READY"
        /\ \A v \in Thread :
             "CRITICAL" \in r.critical[v] => "CRITICAL" \in q.critical[v]
        /\ r.state[u] = IF "CRITICAL" \in q.critical[u] THEN q.state[u]
                        ELSE "STOPPED"
    <2>1. /\ Sound(q, h, NULL, c) /\ u # c /\ r = Kill(q, u)
          /\ q.state[u] \in {"READY", "WAITING", "STOPPED"}
      BY <1>2, <1>3, <1>5, <1>7, <1>8
    <2> QED
      BY <1>4, <2>1, KillSound
  <1>10. Sound(r, Hand, NULL, r.cur) /\ r.halt = "no"
    BY <1>3, <1>8, <1>9
  <1>11. Runs(r)
    BY <1>2, <1>3, <1>4, <1>7, <1>8, <1>9 DEF Runs, RunsOne
  <1>12. Final(k, r)
    BY <1>7, <1>8, <1>9 DEF Final
  <1>13. \A v \in Thread : Guarded(k, r, v)
    BY <1>8, <1>9 DEF Guarded
  <1>14. r.state[r.cur] # "STOPPED"
    BY <1>2, <1>3, <1>8, <1>9
  <1> QED
    BY <1>6, <1>10, <1>11, <1>12, <1>13, <1>14, LeaveStep

\* A new thread is READY and in the queue of its priority.
LEMMA SpawnStep ==
  ASSUME IInv, NEW t \in User, NEW u \in User, Spawn(t, u)
  PROVE  IInv' /\ Final(k, k')
  <1>1. t \in User \cup {GC}
    OBVIOUS
  <1>2. Running(t, "service") /\ k.state[u] = "FREE"
    BY DEF Spawn
  <1>3. /\ t \in Thread /\ k.cur = t /\ k.halt = "no" /\ k \in Kernel
        /\ Sound(k, Hand, NULL, k.cur) /\ RunsOne(k) /\ k.state[t] = "RUNNING"
    BY <1>1, <1>2, RunningFacts
  <1>4. u \in Thread /\ u # Idle /\ Idle \in Thread
    BY ThreadAssumption DEF Thread
  <1>5. PICK f, S, from : /\ f = [k.priority EXCEPT ![u] = k.priority[t]]
                          /\ S = {} /\ from = "service"
    OBVIOUS
  <1>6. PICK q : q = [k EXCEPT !.priority = f]
    OBVIOUS
  <1>7. PICK r : r = GivesUp(q, u)
    OBVIOUS
  <1>8. Exec(t, S, r, "leave", NULL) /\ Running(t, from) /\ from # "escape"
    <2>1. [q EXCEPT !.state[u] = "READY"] =
            [k EXCEPT !.state[u] = "READY", !.priority[u] = k.priority[t]]
      BY <1>3, <1>4, <1>5, <1>6 DEF Kernel
    <2> QED
      BY <1>2, <1>5, <1>7, <2>1 DEF Spawn, GivesUp
  <1>9. f \in [Thread -> Level]
    BY <1>3, <1>5 DEF Kernel
  <1>10. /\ q \in Kernel /\ SameLinks(k, q) /\ q.cur = k.cur
         /\ q.halt = k.halt /\ q.critical = k.critical
    BY <1>3, <1>6, <1>9 DEF Kernel, SameLinks
  <1>11. Sound(q, Hand, NULL, k.cur) /\ q.state[u] = "FREE"
    BY <1>2, <1>3, <1>10, FrameSound DEF SameLinks
  <1>12. /\ Sound(r, Hand, NULL, k.cur) /\ Same(q, r)
         /\ \A v \in Thread : r.state[v] = IF v = u THEN "READY"
                                           ELSE q.state[v]
    BY <1>4, <1>7, <1>11, GiveUpSound
  <1>13. /\ r.cur = k.cur /\ r.halt = "no" /\ r.dead = k.dead
         /\ r.critical = k.critical
         /\ \A v \in Thread : r.state[v] = IF v = u THEN "READY"
                                           ELSE k.state[v]
    BY <1>3, <1>10, <1>12 DEF Same, SameLinks
  <1>14. Sound(r, Hand, NULL, r.cur)
    BY <1>12, <1>13
  <1>15. Runs(r)
    BY <1>2, <1>3, <1>4, <1>13 DEF Runs, RunsOne
  <1>16. Final(k, r) /\ \A v \in Thread : Guarded(k, r, v)
    BY <1>2, <1>13 DEF Final, Guarded
  <1>17. r.state[r.cur] # "STOPPED"
    BY <1>2, <1>3, <1>13
  <1> QED
    BY <1>8, <1>13, <1>14, <1>15, <1>16, <1>17, LeaveStep

\* sleep and yield: another thread may have the core
LEMMA YieldStep ==
  ASSUME IInv, NEW t \in User, SleepFor(t) \/ Yield(t)
  PROVE  IInv' /\ Final(k, k')
  <1>1. t \in User \cup {GC}
    OBVIOUS
  <1>2. Running(t, "service")
    BY DEF SleepFor, Yield
  <1>3. /\ t \in Thread /\ k.cur = t /\ k.halt = "no" /\ t # Idle
        /\ Sound(k, Hand, NULL, k.cur) /\ RunsOne(k) /\ k.state[t] = "RUNNING"
    BY <1>1, <1>2, RunningFacts
  <1>4. PICK S, from : S = {} /\ from = "service"
    OBVIOUS
  <1>5. PICK r : /\ Exec(t, S, r, "leave", NULL)
                 /\ r = Sleep(k) \/ r = Preempt(k, TRUE)
    BY <1>4 DEF SleepFor, Yield
  <1>b. PICK b \in BOOLEAN : b = TRUE
    OBVIOUS
  <1>6. PICK q, h : q = k /\ h = Hand
    OBVIOUS
  <1>7. /\ Sound(q, h, NULL, q.cur) /\ RunsOne(q) /\ q.cur # Idle
        /\ q.state[q.cur] = "RUNNING" /\ q.halt = "no"
        /\ r = Sleep(q) \/ r = Preempt(q, b)
    BY <1>3, <1>5, <1>6, <1>b
  <1>8. Sound(r, h, NULL, r.cur) /\ Hands(q, r)
    BY <1>7, SleepSound, PreemptSound
  <1>9. /\ Runs(r) /\ Final(q, r) /\ r.halt = "no" /\ r.critical = q.critical
        /\ r.state[r.cur] # "STOPPED"
        /\ \A u \in Thread : r.state[u] = "STOPPED" <=> q.state[u] = "STOPPED"
    BY <1>7, <1>8, HandsGood
  <1>10. \A u \in Thread : Guarded(k, r, u)
    BY <1>6, <1>9 DEF Guarded
  <1>11. Sound(r, Hand, NULL, r.cur) /\ Final(k, r) /\ Running(t, from)
         /\ from # "escape"
    BY <1>2, <1>4, <1>6, <1>8, <1>9
  <1> QED
    BY <1>5, <1>9, <1>10, <1>11, LeaveStep

\* The end of a section that leaves the critical section.
LEMMA DropStep ==
  ASSUME IInv, NEW t \in User, Drop(t) \/ ExitThread(t)
  PROVE  IInv' /\ Final(k, k')
  <1>1. PICK from : from \in {"leave", "service"} /\ Running(t, from)
    BY DEF Drop, ExitThread
  <1>2. t \in User \cup {GC} /\ t # GC /\ from # "escape"
    BY <1>1, ThreadAssumption
  <1>3. t \in Thread /\ k.cur = t /\ k.halt = "no"
    BY <1>1, <1>2, RunningFacts
  <1>4. PICK r : r = Dropped(k, t)
    OBVIOUS
  <1>5. PICK S, o : S = {t} /\ o = NULL
    OBVIOUS
  <1>6. PICK at : /\ Exec(t, S, r, at, o)
                  /\ at \in {"escape", "user", "exit"}
                  /\ "KILL" \in k.critical[t] => at = "escape"
    BY <1>4, <1>5 DEF Drop, ExitThread
  <1>7. /\ Sound(r, Hand, NULL, r.cur) /\ Runs(r) /\ Final(k, r)
        /\ r.cur = t /\ r.halt = "no"
        /\ \A u \in Thread \ {t} : r.critical[u] = k.critical[u]
        /\ "CRITICAL" \notin r.critical[t]
        /\ IF "KILL" \in k.critical[t]
           THEN \A u \in Thread : r.state[u] = IF u = t THEN "STOPPED"
                                               ELSE k.state[u]
           ELSE r.state = k.state
    BY <1>1, <1>2, <1>4, DroppedGood
  <1>8. \A u \in Thread \ {t} : Guarded(k, r, u)
    BY <1>7 DEF Guarded
  <1>9. k.state[t] # "STOPPED"
    BY <1>1, <1>2, RunningFacts
  <1>10. r.state[r.cur] = "STOPPED" => r.cur = t /\ at = "escape"
    BY <1>6, <1>7, <1>9
  <1>11. at \in Places /\ at # "wait" /\ at # "collect"
         /\ o \in Waitable \cup {NULL}
    BY <1>5, <1>6 DEF Places
  <1> QED
    BY <1>2, <1>3, <1>6, <1>7, <1>8, <1>10, <1>11, ExecStep

\* A section that ends on another thread: the rest of drop(), and kill of the
\* running thread.
LEMMA EscapeStep ==
  ASSUME IInv, NEW t \in User, Escape(t) \/ ExitKill(t)
  PROVE  IInv' /\ Final(k, k')
  <1>1. PICK from : /\ from \in {"escape", "exit"} /\ Running(t, from)
                    /\ Escape(t) => from = "escape"
                    /\ ~Escape(t) => from = "exit"
    BY DEF Escape, ExitKill, Running
  <1>2. t \in User \cup {GC} /\ t # GC
    BY ThreadAssumption
  <1>3. /\ t \in Thread /\ k.cur = t /\ k.halt = "no" /\ t # Idle
        /\ Sound(k, Hand, NULL, k.cur) /\ RunsOne(k) /\ k \in Kernel
        /\ from # "escape" => k.state[t] = "RUNNING"
        /\ \A u \in Thread : "CRITICAL" \in k.critical[u] =>
              /\ u # GC /\ pc[u] \in {"service", "leave", "wait"}
              /\ k.state[u] # "STOPPED"
    BY <1>1, <1>2, RunningFacts
  <1>4. "CRITICAL" \notin k.critical[t]
    BY <1>1, <1>3 DEF Running
  <1>5. PICK b \in BOOLEAN : b = TRUE
    OBVIOUS
  <1>6. PICK h, o : h = Hand /\ o = NULL
    OBVIOUS
  <1>7. PICK q : q = IF Escape(t) THEN k ELSE Turned(k, t, "STOPPED")
    OBVIOUS
  <1>8. PICK r : r = Preempt(q, b)
    OBVIOUS
  <1>9. PICK S : Exec(t, S, r, from, o)
    BY <1>1, <1>3, <1>5, <1>6, <1>7, <1>8, Zenon
       DEF Escape, ExitKill, KillSelf, Turned
  <1>10. /\ Sound(q, h, NULL, q.cur) /\ RunsOne(q) /\ q.halt = "no"
         /\ q.cur = t /\ Final(k, q) /\ q.critical = k.critical
         /\ \A u \in Thread \ {t} : q.state[u] = k.state[u]
    <2>1. CASE Escape(t)
      BY <1>3, <1>6, <1>7, <2>1 DEF Final
    <2>2. CASE ~Escape(t)
      <3>1. PICK r0, c : r0 = k /\ c = k.cur
        OBVIOUS
      <3>2. /\ r0.state[t] = "RUNNING" /\ t = c
            /\ Sound(r0, h, NULL, c) /\ t \in Thread
            /\ q = Turned(r0, t, "STOPPED")
        BY <1>1, <1>3, <1>6, <1>7, <2>2, <3>1
      <3>3. /\ Sound(q, h, NULL, c) /\ Same(r0, q)
            /\ \A u \in Thread : q.state[u] = IF u = t THEN "STOPPED"
                                              ELSE r0.state[u]
        BY <3>2, SelfStopSound
      <3>4. /\ q.cur = t /\ q.halt = "no" /\ q.critical = k.critical
            /\ q.dead = k.dead
        BY <1>3, <3>1, <3>3 DEF Same
      <3>5. Idle \in Thread
        BY DEF Thread
      <3>6. RunsOne(q)
        BY <1>3, <3>1, <3>3, <3>4, <3>5 DEF RunsOne
      <3>7. Final(k, q)
        BY <1>3, <3>1, <3>3, <3>4 DEF Final
      <3> QED
        BY <1>3, <3>1, <3>2, <3>3, <3>4, <3>6, <3>7
    <2> QED
      BY <2>1, <2>2
  <1>11. Sound(r, h, NULL, r.cur) /\ Hands(q, r)
    BY <1>8, <1>10, PreemptSound
  <1>12. /\ Runs(r) /\ Final(q, r) /\ r.halt = "no" /\ r.critical = q.critical
         /\ r.state[r.cur] # "STOPPED"
         /\ \A u \in Thread : r.state[u] = "STOPPED" <=> q.state[u] = "STOPPED"
    BY <1>10, <1>11, HandsGood
  <1>13. /\ \A u \in Thread \ {t} : Guarded(k, r, u)
         /\ "CRITICAL" \notin r.critical[t]
    BY <1>4, <1>10, <1>12 DEF Guarded
  <1>14. r.cur \in Thread
    BY <1>11 DEF Sound, Kernel
  <1>15. Final(k, r)
    BY <1>10, <1>12, <1>14 DEF Final
  <1>16. from \in Places /\ from # "wait" /\ from # "collect"
         /\ o \in Waitable \cup {NULL} /\ Sound(r, Hand, NULL, r.cur)
    BY <1>1, <1>6, <1>11 DEF Places
  <1> QED
    BY <1>2, <1>3, <1>9, <1>12, <1>13, <1>15, <1>16, ExecStep

\* The first half of a wait looks at the object only.
LEMMA WaitCheckStep ==
  ASSUME IInv, NEW t \in User, NEW o \in Event \cup User, WaitCheck(t, o)
  PROVE  IInv' /\ Final(k, k')
  <1>1. t \in User \cup {GC} /\ t # GC /\ Running(t, "service") /\ o # t
    BY ThreadAssumption DEF WaitCheck
  <1>2. /\ t \in Thread /\ k.cur = t /\ k.halt = "no" /\ k \in Kernel
        /\ k.state[t] = "RUNNING" /\ Sound(k, Hand, NULL, k.cur) /\ RunsOne(k)
    BY <1>1, RunningFacts
  <1>3. PICK r, S : r = k /\ S = {}
    OBVIOUS
  <1>4. /\ r \in Kernel /\ SameLinks(k, r) /\ r.cur = k.cur /\ r.halt = k.halt
        /\ r.critical = k.critical
    BY <1>2, <1>3 DEF SameLinks
  <1>5. CASE Exec(t, {}, k, "leave", NULL)
    <2>1. Exec(t, S, r, "leave", NULL)
      BY <1>3, <1>5
    <2> QED
      BY <1>1, <1>4, <2>1, QuietStep
  <1>6. CASE Exec(t, {}, k, "wait", o)
    <2>1. PICK at : at = "wait"
      OBVIOUS
    <2>2. Exec(t, S, r, at, o)
      BY <1>3, <1>6, <2>1
    <2>3. Sound(r, Hand, NULL, r.cur) /\ Runs(r) /\ Final(k, r)
      BY <1>4, QuietGood
    <2>4. /\ \A u \in Thread : Guarded(k, r, u)
          /\ r.state[t] # "STOPPED" /\ r.cur = t /\ r.halt = "no"
      BY <1>2, <1>3 DEF Guarded
    <2>5. at \in Places /\ o \in Waitable \cup {NULL}
          /\ o \in (Event \cup User) \ {t} /\ at # "collect"
          /\ at \in {"service", "leave", "wait"}
      BY <1>1, <2>1 DEF Places, Waitable, Thread
    <2> QED
      BY <1>1, <1>2, <2>2, <2>3, <2>4, <2>5, ExecStep
  <1> QED
    BY <1>5, <1>6 DEF WaitCheck

\* The second half of a wait: the thread blocks, ends inside drop() with the
\* objlock held, or halts the kernel.
LEMMA WaitBlockStep ==
  ASSUME IInv, NEW t \in User, NEW timed \in BOOLEAN, WaitBlock(t, timed)
  PROVE  IInv' /\ Final(k, k')
  <1>1. PICK from : from = "wait" /\ from # "escape"
    OBVIOUS
  <1>2. t \in User \cup {GC} /\ t # GC /\ Running(t, from)
    BY <1>1, ThreadAssumption DEF WaitBlock
  <1>3. /\ t \in Thread /\ k.cur = t /\ k.halt = "no" /\ k \in Kernel
        /\ k.state[t] = "RUNNING" /\ t # Idle
    BY <1>1, <1>2, RunningFacts
  <1>4. PICK o : o = obj[t]
    OBVIOUS
  <1>5. o \in Waitable /\ o # Idle
    <2>1. o \in (Event \cup User) \ {t}
      BY <1>1, <1>2, <1>4 DEF Running, IInv, PlacesFine
    <2>2. Idle \notin User /\ Idle \notin Event
      BY ThreadAssumption DEF Thread
    <2> QED
      BY <2>1, <2>2 DEF Waitable, Thread
  <1>6. PICK q : q = Dropped(k, t)
    OBVIOUS
  <1>7. /\ Sound(q, Hand, NULL, q.cur) /\ Runs(q) /\ Final(k, q)
        /\ q.cur = t /\ q.halt = "no" /\ q.dead = k.dead
        /\ \A u \in Thread \ {t} : q.critical[u] = k.critical[u]
        /\ "CRITICAL" \notin q.critical[t]
        /\ IF "KILL" \in k.critical[t]
           THEN \A u \in Thread : q.state[u] = IF u = t THEN "STOPPED"
                                               ELSE k.state[u]
           ELSE q.state = k.state
    BY <1>1, <1>2, <1>6, DroppedGood
  <1>8. PICK S, at, n : S = {t, o} /\ at = "user" /\ n = NULL
    OBVIOUS
  <1>9. at \in Places /\ at # "wait" /\ at # "collect"
        /\ n \in Waitable \cup {NULL}
    BY <1>8 DEF Places
  <1>10. ASSUME NEW q2, NEW r, Sound(r, Hand, NULL, r.cur), Hands(q2, r),
                Exec(t, S, r, at, n), q2.cur = t, q2.halt = "no",
                q2.dead = k.dead, q2.state = q.state, q2.critical = q.critical
         PROVE  IInv' /\ Final(k, k')
    <2>1. /\ Runs(r) /\ Final(q2, r) /\ r.halt = "no"
          /\ r.critical = q2.critical /\ r.state[r.cur] # "STOPPED"
          /\ \A u \in Thread :
               r.state[u] = "STOPPED" <=> q2.state[u] = "STOPPED"
      BY <1>10, HandsGood
    <2>2. \A u \in Thread \ {t} : q.state[u] = k.state[u]
      BY <1>7
    <2>3. /\ \A u \in Thread \ {t} : Guarded(k, r, u)
          /\ "CRITICAL" \notin r.critical[t]
      BY <1>7, <1>10, <2>1, <2>2 DEF Guarded
    <2>4. r.cur \in Thread
      BY <1>10 DEF Sound, Kernel
    <2>5. Final(k, r)
      BY <1>3, <1>10, <2>1, <2>2, <2>4 DEF Final
    <2> QED
      BY <1>2, <1>3, <1>9, <1>10, <2>1, <2>3, <2>5, ExecStep
  <1>11. CASE "KILL" \in k.critical[t]
    <2>1. PICK l : l = q.locked \cup {o}
      OBVIOUS
    <2>2. PICK q2 : q2 = [q EXCEPT !.locked = l]
      OBVIOUS
    <2>3. PICK b \in BOOLEAN : b = TRUE
      OBVIOUS
    <2>4. PICK r : r = Preempt(q2, b)
      OBVIOUS
    <2>5. Exec(t, S, r, at, n)
      <3>1. q2 = [q EXCEPT !.locked = @ \cup {o}]
        BY <2>1, <2>2
      <3> QED
        BY <1>4, <1>6, <1>8, <1>11, <2>3, <2>4, <3>1, Zenon DEF WaitBlock
    <2>6. q \in Kernel
      BY <1>7 DEF Sound
    <2>7. l \in SUBSET Waitable
      BY <1>5, <2>1, <2>6 DEF Kernel
    <2>8. /\ q2 \in Kernel /\ SameLinks(q, q2) /\ q2.cur = q.cur
          /\ q2.halt = q.halt /\ q2.critical = q.critical
      BY <2>2, <2>6, <2>7 DEF Kernel, SameLinks
    <2>9. Sound(q2, Hand, NULL, q2.cur)
      <3>1. Sound(q2, Hand, NULL, q.cur)
        BY <1>7, <2>8, FrameSound
      <3> QED
        BY <2>8, <3>1
    <2>10. RunsOne(q2)
      BY <1>7, <2>8 DEF Runs, RunsOne, SameLinks
    <2>11. Sound(r, Hand, NULL, r.cur) /\ Hands(q2, r)
      BY <2>4, <2>9, <2>10, PreemptSound
    <2>12. /\ q2.cur = t /\ q2.halt = "no" /\ q2.dead = k.dead
           /\ q2.state = q.state
      BY <1>7, <2>8 DEF SameLinks
    <2> QED
      BY <1>10, <2>5, <2>8, <2>11, <2>12
  <1>12. CASE "KILL" \notin k.critical[t]
    <2>1. PICK r : r = ImpWait(q, o, timed)
      OBVIOUS
    <2>2. Exec(t, S, r, at, n)
      BY <1>4, <1>6, <1>8, <1>12, <2>1, Zenon DEF WaitBlock
    <2>3. /\ q.state[q.cur] = "RUNNING" /\ q.cur # Idle /\ RunsOne(q)
          /\ q.state = k.state
      BY <1>3, <1>7, <1>12 DEF Runs
    <2>4. \/ Sound(r, Hand, NULL, r.cur) /\ Hands(q, r)
          \/ \E w \in Halting :
               r = HaltedAt(q, w)
      <3>1. Sound(q, Hand, NULL, q.cur) /\ q.halt = "no"
        BY <1>7
      <3>2. RunsOne(q) /\ q.state[q.cur] = "RUNNING" /\ q.cur # Idle
        BY <2>3
      <3> QED
        BY <1>5, <2>1, <3>1, <3>2, ImpWaitSound
    <2>5. CASE Sound(r, Hand, NULL, r.cur) /\ Hands(q, r)
      BY <1>7, <1>10, <2>2, <2>5
    <2>6. ASSUME NEW w \in Halting,
                 r = HaltedAt(q, w)
          PROVE  IInv' /\ Final(k, k')
      <3>1. CASE S \cap k.locked = {}
        <4>1. k' = r
          BY <2>2, <3>1, Zenon DEF Exec, Locking
        <4>2. q \in Kernel
          BY <1>7 DEF Sound
        <4>3. k'.halt # "no"
          BY <2>6, <4>1, <4>2 DEF Kernel, HaltedAt, Halting
        <4>4. pc' = pc /\ obj' = obj
          BY <2>2, <4>3 DEF Exec
        <4>5. /\ w \in Halts /\ w # "no ready thread"
              /\ k' = [q EXCEPT !.halt = w]
          BY <2>6, <4>1 DEF HaltedAt, Halting
        <4>6. \A u \in Thread : "CRITICAL" \in q.critical[u] =>
                                "CRITICAL" \in k.critical[u]
          BY <1>7
        <4>7. q.cur = k.cur
          BY <1>3, <1>7
        <4> QED
          BY <1>7, <2>3, <4>4, <4>5, <4>6, <4>7, HaltStep
      <3>2. CASE S \cap k.locked # {}
        <4>1. k' = Bugcheck(k, "spinlock timeout")
          BY <2>2, <3>2, Zenon DEF Exec, Locking
        <4>2. k'.halt # "no"
          BY <1>3, <4>1 DEF Bugcheck, Kernel
        <4>3. pc' = pc /\ obj' = obj
          BY <2>2, <4>2 DEF Exec
        <4> QED
          BY <1>3, <4>1, <4>3, SpinStep
      <3> QED
        BY <3>1, <3>2
    <2> QED
      BY <2>4, <2>5, <2>6
  <1> QED
    BY <1>11, <1>12

(***************************************************************************)
(* The collector                                                           *)
(***************************************************************************)
\* a halt inside a section
LEMMA HaltExec ==
  ASSUME IInv, k.halt = "no", NEW t, NEW S, NEW r, NEW at, NEW o,
         Exec(t, S, r, at, o), NEW w \in Halting, r = HaltedAt(k, w)
  PROVE  IInv' /\ Final(k, k')
  <1>1. k \in Kernel
    BY DEF IInv, Sound
  <1>2. k' = r \/ k' = Bugcheck(k, "spinlock timeout")
    BY Zenon DEF Exec, Locking
  <1>3. PICK v \in Halts : /\ v # "no" /\ v # "no ready thread"
                           /\ k' = [k EXCEPT !.halt = v]
    BY <1>2 DEF HaltedAt, Halting, Halts, Bugcheck
  <1>4. k'.halt # "no"
    BY <1>1, <1>3 DEF Kernel
  <1>5. pc' = pc /\ obj' = obj
    BY <1>4 DEF Exec
  <1>6. PICK q : q = k
    OBVIOUS
  <1>7. /\ k' = [q EXCEPT !.halt = v] /\ Sound(q, Hand, NULL, q.cur)
        /\ RunsOne(q) /\ q.cur = k.cur /\ q.state = k.state /\ q.dead = k.dead
        /\ q.critical = k.critical
    BY <1>3, <1>6 DEF IInv
  <1> QED
    BY <1>3, <1>5, <1>7, HaltStep

\* The collector waits for gc_service::ev, whose objlock it holds: if it
\* meets a STOPPED thread in the ready queue, gc.signal locks the same
\* object and the kernel halts where it was.
LEMMA GcWaitStep ==
  ASSUME IInv, GcWait
  PROVE  IInv' /\ Final(k, k')
  <1>1. PICK t, from : t = GC /\ from = "wait"
    OBVIOUS
  <1>2. t \in User \cup {GC} /\ Running(t, from) /\ from # "escape"
    BY <1>1 DEF GcWait
  <1>3. /\ t \in Thread /\ k.cur = t /\ k.halt = "no" /\ t # Idle
        /\ k.state[t] = "RUNNING" /\ Sound(k, Hand, NULL, k.cur) /\ RunsOne(k)
        /\ \A u \in Thread : "CRITICAL" \in k.critical[u] =>
              /\ u # GC /\ pc[u] \in {"service", "leave", "wait"}
              /\ k.state[u] # "STOPPED"
    BY <1>2, RunningFacts
  <1>4. Hand = NULL
    BY <1>1, <1>2 DEF Running, Hand
  <1>5. PICK o, timed : o = GcEv /\ timed = FALSE
    OBVIOUS
  <1>6. o \in Waitable /\ o # Idle /\ timed \in BOOLEAN
    BY <1>5, ThreadAssumption DEF Waitable, Thread
  <1>7. PICK q, r, h : q = k /\ r = ImpWait(q, o, timed) /\ h = NULL
    OBVIOUS
  <1>8. PICK S, at, n : S = {GcEv} /\ at = "get" /\ n = NULL
    OBVIOUS
  <1>9. Exec(t, S, r, at, n)
    BY <1>1, <1>5, <1>7, <1>8, Zenon DEF GcWait
  <1>10. /\ q.state[q.cur] = "RUNNING" /\ q.cur # Idle /\ RunsOne(q)
         /\ q.halt = "no" /\ Sound(q, h, NULL, q.cur)
    BY <1>3, <1>4, <1>7
  <1>11. \/ Sound(r, h, NULL, r.cur) /\ Hands(q, r)
         \/ \E w \in Halting : r = HaltedAt(q, w)
    BY <1>6, <1>7, <1>10, ImpWaitSound
  <1>12. CASE Sound(r, h, NULL, r.cur) /\ Hands(q, r)
    <2>1. /\ Runs(r) /\ Final(q, r) /\ r.halt = "no"
          /\ r.critical = q.critical /\ r.state[r.cur] # "STOPPED"
          /\ \A u \in Thread :
               r.state[u] = "STOPPED" <=> q.state[u] = "STOPPED"
      BY <1>10, <1>12, HandsGood
    <2>2. Final(k, r) /\ \A u \in Thread : Guarded(k, r, u)
      BY <1>7, <2>1 DEF Guarded
    <2>3. /\ at \in Places /\ at \in {"wait", "get", "collect"}
          /\ at # "collect" /\ n \in Waitable \cup {NULL}
          /\ h = IF t = GC THEN (IF at = "collect" THEN n ELSE NULL) ELSE Hand
      BY <1>1, <1>7, <1>8 DEF Places
    <2>4. "CRITICAL" \notin r.critical[t]
      BY <1>1, <1>3, <1>7, <2>1
    <2> QED
      BY <1>1, <1>2, <1>3, <1>9, <1>12, <2>1, <2>2, <2>3, <2>4, ExecStep
  <1>13. ASSUME NEW w \in Halting, r = HaltedAt(q, w)
         PROVE  IInv' /\ Final(k, k')
    <2>1. r = HaltedAt(k, w)
      BY <1>7, <1>13
    <2> QED
      BY <1>3, <1>9, <2>1, HaltExec
  <1> QED
    BY <1>11, <1>12, <1>13

\* A thread leaves the gc queue for the hands of the collector.
LEMMA GcGetStep ==
  ASSUME IInv, GcGet
  PROVE  IInv' /\ Final(k, k')
  <1>1. PICK t, from : t = GC /\ from = "get"
    OBVIOUS
  <1>2. t \in User \cup {GC} /\ Running(t, from) /\ from # "escape"
    BY <1>1 DEF GcGet
  <1>3. /\ t \in Thread /\ k.cur = t /\ k.halt = "no" /\ k \in Kernel
        /\ k.state[t] = "RUNNING" /\ Sound(k, Hand, NULL, k.cur) /\ RunsOne(k)
        /\ \A u \in Thread : "CRITICAL" \in k.critical[u] =>
              /\ u # GC /\ pc[u] \in {"service", "leave", "wait"}
              /\ k.state[u] # "STOPPED"
    BY <1>2, RunningFacts
  <1>4. Hand = NULL /\ "CRITICAL" \notin k.critical[t]
    BY <1>1, <1>2, <1>3 DEF Running, Hand
  <1>5. PICK S : S = {}
    OBVIOUS
  <1>6. CASE k.gcq = {}
    <2>1. PICK r, at, n, h : r = k /\ at = "wait" /\ n = NULL /\ h = NULL
      OBVIOUS
    <2>2. Exec(t, S, r, at, n)
      BY <1>1, <1>5, <1>6, <2>1 DEF GcGet
    <2>3. /\ r \in Kernel /\ SameLinks(k, r) /\ r.cur = k.cur
          /\ r.halt = k.halt
      BY <1>3, <2>1 DEF SameLinks
    <2>4. Sound(r, Hand, NULL, r.cur) /\ Runs(r) /\ Final(k, r)
      BY <2>3, QuietGood
    <2>5. /\ \A u \in Thread : Guarded(k, r, u)
          /\ r.state[r.cur] # "STOPPED" /\ "CRITICAL" \notin r.critical[t]
          /\ r.halt = "no" /\ Sound(r, h, NULL, r.cur)
      BY <1>3, <1>4, <2>1, <2>4 DEF Guarded
    <2>6. /\ at \in Places /\ at \in {"wait", "get", "collect"}
          /\ at # "collect" /\ n \in Waitable \cup {NULL}
          /\ h = IF t = GC THEN (IF at = "collect" THEN n ELSE NULL) ELSE Hand
      BY <1>1, <2>1 DEF Places
    <2> QED
      BY <1>1, <1>2, <1>3, <2>2, <2>4, <2>5, <2>6, ExecStep
  <1>7. CASE k.gcq # {}
    <2>1. PICK d \in k.gcq :
            Exec(GC, {}, [k EXCEPT !.gcq = @ \ {d}], "collect", d)
      BY <1>7 DEF GcGet
    <2>2. PICK g, at : g = k.gcq \ {d} /\ at = "collect"
      OBVIOUS
    <2>3. PICK r : r = [k EXCEPT !.gcq = g]
      OBVIOUS
    <2>4. Exec(t, S, r, at, d)
      BY <1>1, <1>5, <2>1, <2>2, <2>3
    <2>5. d \in Thread /\ g \in SUBSET Thread
      BY <1>3, <2>2 DEF Kernel
    <2>6. /\ r \in Kernel /\ r.state = k.state /\ r.wait_for = k.wait_for
          /\ r.ticket = k.ticket /\ r.armed = k.armed /\ r.ready = k.ready
          /\ r.wq = k.wq /\ r.gcq = g /\ r.gc_ptr = k.gc_ptr
          /\ r.cur = k.cur /\ Kept(k, r)
      BY <1>3, <2>3, <2>5 DEF Kernel, Kept
    <2>7. NULL \notin Thread
      BY ThreadAssumption DEF Waitable
    <2>8. ASSUME NEW u \in Thread
          PROVE  Linked(r, NULL, u) /\ Ended(r, d, NULL, k.cur, u)
      <3>1. Linked(k, NULL, u) /\ Ended(k, NULL, NULL, k.cur, u)
        BY <1>3, <1>4 DEF Sound
      <3>2. InR(r, u) <=> InR(k, u)
        BY <2>6 DEF InR
      <3>3. Linked(r, NULL, u)
        BY <2>6, <3>1, <3>2 DEF Linked
      <3>4. Going(r, d, u) <=> Going(k, NULL, u)
        BY <2>2, <2>6, <2>7 DEF Going, Kept
      <3>5. Ended(r, d, NULL, k.cur, u)
        BY <2>2, <2>6, <2>7, <3>1, <3>2, <3>4 DEF Ended, Kept
      <3> QED
        BY <3>3, <3>5
    <2>9. Sound(r, d, NULL, r.cur)
      BY <2>6, <2>8 DEF Sound
    <2>10. Runs(r) /\ Final(k, r)
      BY <1>3, <2>6 DEF Runs, RunsOne, Final, Kept
    <2>11. /\ \A u \in Thread : Guarded(k, r, u)
           /\ r.state[r.cur] # "STOPPED" /\ "CRITICAL" \notin r.critical[t]
           /\ r.halt = "no"
      BY <1>3, <1>4, <2>6 DEF Guarded, Kept
    <2>12. /\ at \in Places /\ at \in {"wait", "get", "collect"}
           /\ d \in Waitable \cup {NULL}
           /\ d = IF t = GC THEN (IF at = "collect" THEN d ELSE NULL) ELSE Hand
      BY <1>1, <2>2, <2>5 DEF Places, Waitable
    <2> QED
      BY <1>1, <1>2, <1>3, <2>4, <2>5, <2>9, <2>10, <2>11, <2>12, ExecStep
  <1> QED
    BY <1>6, <1>7

\* The collector wakes the waiters of the thread it has and frees it.
LEMMA GcCollectStep ==
  ASSUME IInv, GcCollect
  PROVE  IInv' /\ Final(k, k')
  <1>1. PICK t, from : t = GC /\ from = "collect"
    OBVIOUS
  <1>2. t \in User \cup {GC} /\ Running(t, from) /\ from # "escape"
    BY <1>1 DEF GcCollect
  <1>3. /\ t \in Thread /\ k.cur = t /\ k.halt = "no" /\ k \in Kernel
        /\ k.state[t] = "RUNNING" /\ Sound(k, Hand, NULL, k.cur) /\ RunsOne(k)
        /\ \A u \in Thread : "CRITICAL" \in k.critical[u] =>
              /\ u # GC /\ pc[u] \in {"service", "leave", "wait"}
              /\ k.state[u] # "STOPPED"
    BY <1>2, RunningFacts
  <1>4. PICK d : d = obj[GC]
    OBVIOUS
  <1>5. Hand = d /\ "CRITICAL" \notin k.critical[t] /\ d \in Thread
    BY <1>1, <1>2, <1>3, <1>4 DEF Running, Hand, IInv, PlacesFine
  <1>6. PICK S, at, n, h : S = {d} /\ at = "get" /\ n = NULL /\ h = NULL
    OBVIOUS
  <1>7. PICK g : g = k.dead \cup {d}
    OBVIOUS
  <1>8. PICK q : q = [k EXCEPT !.dead = g]
    OBVIOUS
  <1>9. PICK r : r = Notify(q, d)
    OBVIOUS
  <1>10. Exec(t, S, r, at, n)
    <2>1. q = [k EXCEPT !.dead = @ \cup {d}]
      BY <1>7, <1>8
    <2> QED
      BY <1>1, <1>4, <1>6, <1>9, <2>1, Zenon DEF GcCollect
  <1>11. g \in SUBSET Thread /\ d \in Waitable
    BY <1>3, <1>5, <1>7 DEF Kernel, Waitable
  <1>12. /\ q \in Kernel /\ q.state = k.state /\ q.wait_for = k.wait_for
         /\ q.ticket = k.ticket /\ q.armed = k.armed /\ q.ready = k.ready
         /\ q.wq = k.wq /\ q.gcq = k.gcq /\ q.gc_ptr = k.gc_ptr
         /\ q.cur = k.cur /\ q.dead = g /\ q.halt = k.halt
         /\ q.critical = k.critical
    BY <1>3, <1>8, <1>11 DEF Kernel
  <1>13. NULL \notin Thread
    BY ThreadAssumption DEF Waitable
  <1>14. ASSUME NEW u \in Thread
         PROVE  Linked(q, NULL, u) /\ Ended(q, h, NULL, k.cur, u)
    <2>1. Linked(k, NULL, u) /\ Ended(k, d, NULL, k.cur, u)
      BY <1>3, <1>5 DEF Sound
    <2>2. InR(q, u) <=> InR(k, u)
      BY <1>12 DEF InR
    <2>3. Linked(q, NULL, u)
      BY <1>12, <2>1, <2>2 DEF Linked
    <2>4. Going(q, h, u) <=> Going(k, d, u)
      BY <1>6, <1>7, <1>12, <1>13 DEF Going
    <2>5. Ended(q, h, NULL, k.cur, u)
      BY <1>6, <1>7, <1>12, <1>13, <2>1, <2>2, <2>4 DEF Ended
    <2> QED
      BY <2>3, <2>5
  <1>15. Sound(q, h, NULL, q.cur) /\ RunsOne(q) /\ q.cur \in Thread
         /\ q.halt = "no"
    BY <1>3, <1>12, <1>14 DEF Sound, RunsOne
  <1>16. Sound(r, h, NULL, q.cur) /\ Woke(q, r)
    BY <1>9, <1>11, <1>15, NotifyAllSound
  <1>17. /\ Runs(r) /\ Final(q, r) /\ r.cur = q.cur /\ r.halt = "no"
         /\ r.critical = q.critical
         /\ \A u \in Thread : r.state[u] = "STOPPED" <=> q.state[u] = "STOPPED"
    BY <1>15, <1>16, WokeGood
  <1>18. Final(k, r) /\ Sound(r, h, NULL, r.cur)
    BY <1>7, <1>12, <1>16, <1>17 DEF Final
  <1>19. /\ \A u \in Thread : Guarded(k, r, u)
         /\ r.state[r.cur] # "STOPPED" /\ "CRITICAL" \notin r.critical[t]
    BY <1>3, <1>5, <1>12, <1>17 DEF Guarded
  <1>20. /\ at \in Places /\ at \in {"wait", "get", "collect"}
         /\ at # "collect" /\ n \in Waitable \cup {NULL}
         /\ h = IF t = GC THEN (IF at = "collect" THEN n ELSE NULL) ELSE Hand
    BY <1>1, <1>6 DEF Places
  <1> QED
    BY <1>1, <1>2, <1>3, <1>10, <1>17, <1>18, <1>19, <1>20, ExecStep

(***************************************************************************)
(* Interrupts                                                              *)
(***************************************************************************)
\* A slice has run out.
LEMMA SliceStep ==
  ASSUME IInv, NEW lower \in BOOLEAN, OnSlice(lower)
  PROVE  IInv' /\ Final(k, k')
  <1>1. /\ k.halt = "no" /\ k' = Preempt(k, lower) /\ pc' = pc /\ obj' = obj
        /\ Sound(k, Hand, NULL, k.cur) /\ RunsOne(k)
    BY DEF OnSlice, IInv
  <1>2. PICK q, r, h : q = k /\ r = k' /\ h = Hand
    OBVIOUS
  <1>3. Sound(r, h, NULL, r.cur) /\ Hands(q, r)
    BY <1>1, <1>2, PreemptSound
  <1>4. /\ Runs(r) /\ Final(q, r) /\ r.halt = "no" /\ r.critical = q.critical
        /\ r.state[r.cur] # "STOPPED"
        /\ \A u \in Thread : r.state[u] = "STOPPED" <=> q.state[u] = "STOPPED"
    BY <1>1, <1>2, <1>3, HandsGood
  <1>5. /\ Sound(k', Hand, NULL, k'.cur) /\ Runs(k') /\ Final(k, k')
        /\ k'.state[k'.cur] # "STOPPED"
        /\ \A u \in Thread : Guarded(k, k', u)
    BY <1>2, <1>3, <1>4 DEF Guarded
  <1> QED
    BY <1>1, <1>5, IrqStep

\* A wait has timed out: the thread leaves the wait queue and gets the core
\* or goes to the ready queue.
LEMMA TimeoutStep ==
  ASSUME IInv, NEW t \in Thread, OnTimeout(t)
  PROVE  IInv' /\ Final(k, k')
  <1>1. PICK q, h, me : q = k /\ h = Hand /\ me = k.cur
    OBVIOUS
  <1>2. /\ q \in Kernel /\ Sound(q, h, NULL, me) /\ RunsOne(q)
        /\ q.halt = "no" /\ t \in q.armed /\ me = q.cur
        /\ pc' = pc /\ obj' = obj
    BY <1>1 DEF IInv, Sound, OnTimeout
  <1>3. q.state[t] = "WAITING" /\ me \in Thread /\ t # me /\ Idle \in Thread
    BY <1>2 DEF Sound, Linked, Kernel, RunsOne, Thread
  <1>4. PICK ready, run : /\ ready = Withdrawn(q, t, "READY")
                          /\ run = Withdrawn(q, t, "RUNNING")
    OBVIOUS
  <1>5. PICK r3 : r3 = IF run.state[me] = "STOPPED" THEN run
                       ELSE GivesUp(run, me)
    OBVIOUS
  <1>6. PICK r : r = IF q.priority[t] < q.priority[me] THEN SwitchTo(r3, t)
                     ELSE ReadyPut(ready, t)
    OBVIOUS
  <1>7. k' = r \/ k' = Bugcheck(k, "spinlock timeout")
    <2>1. PICK r1 : r1 = SetReady(k, t, "TIMEOUT")
      OBVIOUS
    <2>2. PICK w, a, b : /\ w = Cancel(k, t) /\ a = k.armed \ {t}
                         /\ b = FALSE
      OBVIOUS
    <2>3. r1 = [k EXCEPT !.state[t] = "READY", !.wait_for[t] = NULL,
                         !.ticket[t] = b, !.wq = w]
      BY <1>1, <1>2, <2>1, <2>2 DEF SetReady, Kernel
    <2>4. \A v : Withdrawn(k, t, v) =
                   [k EXCEPT !.state[t] = v, !.wq = w, !.wait_for[t] = NULL,
                             !.armed = a, !.ticket[t] = b]
      BY <2>2, Zenon DEF Withdrawn
    <2>5. PICK ra : ra = [k EXCEPT !.state[t] = "READY", !.wait_for[t] = NULL,
                                   !.ticket[t] = b, !.wq = w, !.armed = a]
      OBVIOUS
    <2>6. [r1 EXCEPT !.armed = @ \ {t}] = ra
      BY <1>1, <1>2, <2>2, <2>3, <2>5 DEF Kernel
    <2>7. ready = ra
      <3>1. ready = [k EXCEPT !.state[t] = "READY", !.wq = w,
                              !.wait_for[t] = NULL, !.armed = a,
                              !.ticket[t] = b]
        BY <1>1, <1>4, <2>4, Zenon
      <3> QED
        BY <1>1, <1>2, <2>5, <3>1 DEF Kernel
    <2>8. PICK rr : rr = [r1 EXCEPT !.armed = @ \ {t}, !.state[t] = "RUNNING"]
      OBVIOUS
    <2>9. rr = [ra EXCEPT !.state[t] = "RUNNING"]
      BY <1>1, <1>2, <2>3, <2>6, <2>8 DEF Kernel
    <2>10. rr = run
      <3>1. run = [k EXCEPT !.state[t] = "RUNNING", !.wq = w,
                            !.wait_for[t] = NULL, !.armed = a,
                            !.ticket[t] = b]
        BY <1>1, <1>4, <2>4, Zenon
      <3>2. PICK sf, sg, wf, tf : /\ sf = [k.state EXCEPT ![t] = "READY"]
                                  /\ sg = [k.state EXCEPT ![t] = "RUNNING"]
                                  /\ wf = [k.wait_for EXCEPT ![t] = NULL]
                                  /\ tf = [k.ticket EXCEPT ![t] = b]
        OBVIOUS
      <3>3. [sf EXCEPT ![t] = "RUNNING"] = sg
        BY <1>1, <1>2, <3>2 DEF Kernel
      <3>4. ra = [k EXCEPT !.state = sf, !.wait_for = wf, !.ticket = tf,
                           !.wq = w, !.armed = a]
        BY <1>1, <1>2, <2>5, <3>2 DEF Kernel
      <3>5. run = [k EXCEPT !.state = sg, !.wait_for = wf, !.ticket = tf,
                            !.wq = w, !.armed = a]
        BY <1>1, <1>2, <3>1, <3>2 DEF Kernel
      <3>6. rr = [ra EXCEPT !.state = sg]
        BY <1>1, <1>2, <2>9, <3>3, <3>4 DEF Kernel
      <3> QED
        BY <1>1, <1>2, <3>4, <3>5, <3>6 DEF Kernel
    <2> DEFINE R1 == SetReady(k, t, "TIMEOUT")
               RA == [R1 EXCEPT !.armed = @ \ {t}]
               RR == [R1 EXCEPT !.armed = @ \ {t}, !.state[t] = "RUNNING"]
               R3 == IF RR.state[k.cur] = "STOPPED" THEN RR
                     ELSE GivesUp(RR, k.cur)
               S == {t} \cup ({k.wait_for[t]} \ {NULL})
    <2>11. k' = Locking(S, IF k.priority[t] < k.priority[k.cur]
                           THEN SwitchTo(R3, t) ELSE ReadyPut(RA, t))
      BY DEF OnTimeout, GivesUp
    <2>12. RA = ready /\ RR = run
      BY <2>1, <2>6, <2>7, <2>8, <2>10
    <2> HIDE DEF R1, RA, RR
    <2>13. R3 = r3
      BY <1>1, <1>5, <2>12, Zenon
    <2> HIDE DEF R3, S
    <2>14. k' = Locking(S, r)
      BY <1>1, <1>6, <2>11, <2>12, <2>13, Zenon
    <2> QED
      BY <2>14, Zenon DEF Locking
  <1>8. CASE k' = Bugcheck(k, "spinlock timeout")
    BY <1>1, <1>2, <1>8, SpinStep
  <1>9. CASE k' = r /\ q.priority[t] < q.priority[me]
    <2>1. r = SwitchTo(r3, t)
      BY <1>6, <1>9
    <2>2. /\ Sound(run, h, NULL, me) /\ Same(q, run) /\ ~InR(run, t)
          /\ \A u \in Thread : run.state[u] = IF u = t THEN "RUNNING"
                                              ELSE q.state[u]
      <3>1. PICK x, v : x = NULL /\ v = "RUNNING"
        OBVIOUS
      <3>2. /\ v \in {"READY", "RUNNING", "STOPPED"}
            /\ x = t \/ (v = "RUNNING" /\ x = NULL)
            /\ run = Withdrawn(q, t, v)
        BY <1>4, <3>1
      <3>3. /\ Sound(run, h, x, me) /\ Same(q, run) /\ ~InR(run, t)
            /\ \A u \in Thread : run.state[u] = IF u = t THEN v ELSE q.state[u]
        BY <1>2, <1>3, <3>1, <3>2, WithdrawSound
      <3> QED
        BY <3>1, <3>3
    <2>3. /\ Sound(r3, h, NULL, me) /\ Same(q, r3)
          /\ \A u \in Thread \ {me} : r3.state[u] = run.state[u]
          /\ r3.state[me] = IF q.state[me] = "STOPPED" THEN "STOPPED"
                            ELSE "READY"
      <3>1. /\ run.state[me] = q.state[me]
            /\ q.state[me] \in {"RUNNING", "STOPPED"}
        BY <1>2, <1>3, <2>2 DEF RunsOne
      <3>2. CASE run.state[me] = "STOPPED"
        BY <1>5, <2>2, <3>1, <3>2
      <3>3. CASE run.state[me] # "STOPPED"
        <4>1. r3 = GivesUp(run, me) /\ run.state[me] \in {"RUNNING", "FREE"}
          BY <1>5, <3>1, <3>3
        <4>2. /\ Sound(r3, h, NULL, me) /\ Same(run, r3)
              /\ \A u \in Thread : r3.state[u] = IF u = me THEN "READY"
                                                 ELSE run.state[u]
          BY <1>3, <2>2, <4>1, GiveUpSound
        <4> QED
          BY <1>3, <2>2, <3>1, <3>3, <4>2 DEF Same
      <3> QED
        BY <3>2, <3>3
    <2>4. /\ Sound(r3, h, NULL, r3.cur) /\ Kept(q, r3) /\ t # r3.cur
          /\ r3.state[t] = "RUNNING"
          /\ \A u \in Thread : r3.state[u] = "RUNNING" => u = t
          /\ \A u \in Thread :
               r3.state[u] = "STOPPED" <=> q.state[u] = "STOPPED"
          /\ r3.state[Idle] \in {"READY", "RUNNING"}
      BY <1>2, <1>3, <2>2, <2>3 DEF Same, Kept, RunsOne
    <2>5. Sound(r, h, NULL, r.cur) /\ Hands(q, r)
      BY <2>1, <2>4, HandOver
    <2>6. /\ Runs(r) /\ Final(q, r) /\ r.critical = q.critical
          /\ r.state[r.cur] # "STOPPED"
          /\ \A u \in Thread :
               r.state[u] = "STOPPED" <=> q.state[u] = "STOPPED"
      BY <1>2, <2>5, HandsGood
    <2>7. /\ Sound(k', Hand, NULL, k'.cur) /\ Runs(k') /\ Final(k, k')
          /\ k'.state[k'.cur] # "STOPPED"
          /\ \A u \in Thread : Guarded(k, k', u)
      BY <1>1, <1>9, <2>5, <2>6 DEF Guarded
    <2> QED
      BY <1>2, <2>7, IrqStep
  <1>10. CASE k' = r /\ ~(q.priority[t] < q.priority[me])
    <2>1. r = ReadyPut(ready, t)
      BY <1>6, <1>10
    <2>2. /\ Sound(ready, h, t, me) /\ Same(q, ready) /\ ~InR(ready, t)
          /\ \A u \in Thread : ready.state[u] = IF u = t THEN "READY"
                                                ELSE q.state[u]
      <3>1. PICK x, v : x = t /\ v = "READY"
        OBVIOUS
      <3>2. /\ v \in {"READY", "RUNNING", "STOPPED"}
            /\ x = t \/ (v = "RUNNING" /\ x = NULL)
            /\ ready = Withdrawn(q, t, v)
        BY <1>4, <3>1
      <3>3. /\ Sound(ready, h, x, me) /\ Same(q, ready) /\ ~InR(ready, t)
            /\ \A u \in Thread : ready.state[u] = IF u = t THEN v
                                                  ELSE q.state[u]
        BY <1>2, <1>3, <3>1, <3>2, WithdrawSound
      <3> QED
        BY <3>1, <3>3
    <2>3. ready.state[t] = "READY"
      BY <2>2
    <2>4. Sound(r, h, NULL, me) /\ Same(ready, r) /\ r.state = ready.state
      BY <2>1, <2>2, <2>3, PutSound
    <2>5. /\ Sound(r, h, NULL, r.cur) /\ r.cur = me /\ r.critical = q.critical
          /\ r.dead = q.dead /\ r.halt = "no"
          /\ \A u \in Thread : r.state[u] = IF u = t THEN "READY"
                                            ELSE q.state[u]
      BY <1>2, <2>2, <2>4 DEF Same
    <2>6. Runs(r)
      BY <1>2, <1>3, <2>5 DEF Runs, RunsOne
    <2>7. Final(q, r) /\ \A u \in Thread : Guarded(q, r, u)
      BY <1>2, <1>3, <2>5 DEF Final, Guarded
    <2>8. r.state[r.cur] = "STOPPED" =>
            r.cur = q.cur /\ q.state[q.cur] = "STOPPED"
      BY <1>2, <1>3, <2>5
    <2>9. /\ Sound(k', Hand, NULL, k'.cur) /\ Runs(k') /\ Final(k, k')
          /\ \A u \in Thread : Guarded(k, k', u)
          /\ k'.state[k'.cur] = "STOPPED" =>
               k'.cur = k.cur /\ k.state[k.cur] = "STOPPED"
      BY <1>1, <1>10, <2>5, <2>6, <2>7, <2>8
    <2> QED
      BY <1>2, <2>9, IrqStep
  <1> QED
    BY <1>7, <1>8, <1>9, <1>10

(***************************************************************************)
(* The specification                                                       *)
(***************************************************************************)
\* The threads that exist initially are in one queue, each once.
LEMMA BornQueue == BornOrder \in Queues /\ Elems(BornOrder) = Born
  <1>1. IsFiniteSet(Born) /\ Born \subseteq Thread
    BY ThreadAssumption, FS_Subset DEF Thread
  <1>2. PICK n \in Nat : n = Cardinality(Born)
    BY <1>1, FS_CardinalityType
  <1>3. ExistsBijection(1..n, Born)
    BY <1>1, <1>2, FS_CardinalityType
  <1>4. \E s \in [1..n -> Born] : \A i, j \in 1..n : s[i] = s[j] => i = j
    BY <1>3 DEF ExistsBijection, Bijection, Injection, IsInjective
  <1>5. \E s \in [1..n -> Born] : \A i, j \in DOMAIN s : s[i] = s[j] => i = j
    BY <1>4
  <1>6. PICK s : s = BornOrder
    OBVIOUS
  <1>7. /\ s \in [1..n -> Born]
        /\ \A i, j \in DOMAIN s : s[i] = s[j] => i = j
    BY <1>2, <1>5, <1>6, Zenon DEF BornOrder
  <1>8. s \in Seq(Thread)
    BY <1>1, <1>7
  <1>9. s \in Surjection(1..n, Born)
    <2>1. s \in Injection(1..n, Born)
      BY <1>7 DEF Injection, IsInjective
    <2>2. Cardinality(1..n) = n
      BY FS_Interval
    <2> QED
      BY <1>1, <1>2, <2>1, <2>2, FS_Injection, Zenon
  <1>10. Elems(s) = Born
    BY <1>7, <1>9 DEF Surjection, Elems
  <1> QED
    BY <1>6, <1>7, <1>8, <1>10, Zenon DEF Queues

\* The state after boot satisfies the invariant.
LEMMA InitIInv == ASSUME Init PROVE IInv
  <1>1. PICK one, born, none : /\ one = Put(Empty, GC) /\ born = BornOrder
                               /\ none = Empty
    OBVIOUS
  <1>2. /\ one \in Queues /\ Elems(one) = {GC}
        /\ born \in Queues /\ Elems(born) = Born
        /\ none \in Queues /\ Elems(none) = {}
    <2>1. GC \in Thread
      BY DEF Thread
    <2> QED
      BY <1>1, <2>1, EmptyQueue, PutQueue, BornQueue, Zenon
  <1>3. /\ \A p \in Level : k.ready[p] = IF p = 0 THEN one
                                         ELSE IF p = 2 THEN born ELSE none
        /\ \A o \in Waitable : k.wq[o] = none
        /\ k.ready \in [Level -> Queues] /\ k.wq \in [Waitable -> Queues]
    BY <1>1, <1>2 DEF Init, ServicePriority, UserPriority
  <1>4. k \in Kernel
    <2>1. GC \in Thread /\ Idle \in Thread
      BY DEF Thread
    <2>2. /\ k.state \in [Thread -> States] /\ k.priority \in [Thread -> Level]
          /\ k.critical \in [Thread -> SUBSET {"CRITICAL", "KILL"}]
          /\ k.wait_for \in [Thread -> Waitable \cup {NULL}]
          /\ k.ticket \in [Thread -> BOOLEAN]
      BY DEF Init, States, Level, IdlePriority, ServicePriority, UserPriority
    <2>3. /\ k.armed = {} /\ k.signaled = {} /\ k.gcq = {} /\ k.dead = {}
          /\ k.locked = {} /\ k.gc_ptr = NULL /\ k.cur = Idle /\ k.halt = "no"
      BY DEF Init
    <2>4. k = [state |-> k.state, priority |-> k.priority,
               critical |-> k.critical, wait_for |-> k.wait_for,
               ticket |-> k.ticket, armed |-> k.armed, ready |-> k.ready,
               wq |-> k.wq, signaled |-> k.signaled, gcq |-> k.gcq,
               gc_ptr |-> k.gc_ptr, dead |-> k.dead, cur |-> k.cur,
               locked |-> k.locked, halt |-> k.halt]
      BY DEF Init
    <2> QED
      BY <1>3, <2>1, <2>2, <2>3, <2>4 DEF Kernel, Halts
  <1>5. /\ k.armed = {} /\ k.gcq = {} /\ k.dead = {} /\ k.gc_ptr = NULL
        /\ k.cur = Idle /\ k.halt = "no"
        /\ \A t \in Thread :
             /\ k.state[t] = IF t = Idle THEN "RUNNING"
                             ELSE IF t \in Born \cup {GC} THEN "READY"
                             ELSE "FREE"
             /\ k.wait_for[t] = NULL /\ ~k.ticket[t] /\ k.critical[t] = {}
    BY DEF Init
  <1>6. /\ pc \in [Thread -> Places]
        /\ obj \in [Thread -> Waitable \cup {NULL}]
        /\ \A t \in Thread : pc[t] = IF t = GC THEN "wait" ELSE "user"
    BY DEF Init, Places
  <1>7. /\ GC \in Thread /\ Idle \in Thread /\ User \subseteq Thread
        /\ GC # Idle /\ GC \notin User /\ Idle \notin User
        /\ Born \subseteq User
        /\ NULL \notin Thread /\ NULL \notin Waitable
    BY ThreadAssumption DEF Thread, Waitable
  <1>8. Hand = NULL
    BY <1>6, <1>7 DEF Hand
  <1>9. \A t \in Thread, p \in Level :
          t \in Elems(k.ready[p]) <=> \/ p = 0 /\ t = GC
                                      \/ p = 2 /\ t \in Born
    BY <1>2, <1>3, <1>7
  <1>10. \A t \in Thread : InR(k, t) <=> t = GC \/ t \in Born
    BY <1>9 DEF InR, Level
  <1>11. ASSUME NEW t \in Thread PROVE Linked(k, NULL, t)
    <2>1. \A o \in Waitable : t \notin Elems(k.wq[o])
      BY <1>2, <1>3
    <2> QED
      BY <1>5, <1>7, <1>9, <1>10, <2>1 DEF Linked
  <1>12. ASSUME NEW t \in Thread PROVE Ended(k, NULL, NULL, k.cur, t)
    BY <1>5, <1>7 DEF Ended, Going
  <1>13. Sound(k, Hand, NULL, k.cur) /\ RunsOne(k)
    BY <1>4, <1>5, <1>7, <1>8, <1>11, <1>12 DEF Sound, RunsOne
  <1>14. PlacesFine
    BY <1>5, <1>6, <1>7 DEF PlacesFine
  <1> QED
    BY <1>5, <1>13, <1>14 DEF IInv

\* Every step keeps the invariant, and no step undoes the end of a thread.
LEMMA NextIInv ==
  ASSUME IInv, [Next]_vars
  PROVE  IInv' /\ Final(k, k')
  <1>1. CASE UNCHANGED vars
    <2>1. k' = k /\ pc' = pc /\ obj' = obj
      BY <1>1 DEF vars
    <2>2. Hand' = Hand
      BY <2>1 DEF Hand
    <2>3. PlacesFine'
      BY <2>1 DEF IInv, PlacesFine
    <2>4. IInv'
      BY <2>1, <2>2, <2>3 DEF IInv
    <2> QED
      BY <2>1, <2>4 DEF Final
  <1>2. ASSUME NEW t \in User, Hold(t) PROVE IInv' /\ Final(k, k')
    BY <1>2, HoldStep
  <1>3. ASSUME NEW t \in User, InKernel(t) PROVE IInv' /\ Final(k, k')
    <2>1. CASE Drop(t) \/ ExitThread(t)
      BY <2>1, DropStep
    <2>2. CASE Escape(t) \/ ExitKill(t)
      BY <2>2, EscapeStep
    <2>3. ASSUME NEW u \in User, KillThread(t, u) PROVE IInv' /\ Final(k, k')
      BY <2>3, KillStep
    <2>4. ASSUME NEW u \in User, Spawn(t, u) PROVE IInv' /\ Final(k, k')
      BY <2>4, SpawnStep
    <2>5. ASSUME NEW u \in User, NEW p \in {ShellPriority, UserPriority},
                 SetPriority(t, u, p)
          PROVE  IInv' /\ Final(k, k')
      BY <2>5, CallSteps
    <2>6. ASSUME NEW e \in Event, NEW mode \in {"one", "all"},
                 SignalEvent(t, e, mode)
          PROVE  IInv' /\ Final(k, k')
      BY <2>6, CallSteps
    <2>7. ASSUME NEW e \in Event, ResetEvent(t, e)
          PROVE  IInv' /\ Final(k, k')
      BY <2>7, CallSteps
    <2>8. ASSUME NEW o \in Event \cup User, WaitCheck(t, o)
          PROVE  IInv' /\ Final(k, k')
      BY <2>8, WaitCheckStep
    <2>9. ASSUME NEW timed \in BOOLEAN, WaitBlock(t, timed)
          PROVE  IInv' /\ Final(k, k')
      BY <2>9, WaitBlockStep
    <2>10. CASE SleepFor(t) \/ Yield(t)
      BY <2>10, YieldStep
    <2> QED
      BY <1>3, <2>1, <2>2, <2>3, <2>4, <2>5, <2>6, <2>7, <2>8, <2>9, <2>10,
         Zenon DEF InKernel
  <1>4. CASE Collector
    BY <1>4, GcWaitStep, GcGetStep, GcCollectStep DEF Collector
  <1>5. ASSUME NEW lower \in BOOLEAN, OnSlice(lower)
        PROVE  IInv' /\ Final(k, k')
    BY <1>5, SliceStep
  <1>6. ASSUME NEW t \in Thread, OnTimeout(t) PROVE IInv' /\ Final(k, k')
    BY <1>6, TimeoutStep
  <1> QED
    BY <1>1, <1>2, <1>3, <1>4, <1>5, <1>6, Zenon DEF Next

(* The inductive invariant of the thread core: every thread is linked      *)
(* where its state says (Linked), a STOPPED thread is on exactly one way   *)
(* to gc_service (Ended), one thread runs and idle can always be found     *)
(* (RunsOne), and a thread is in a critical section only at the places of  *)
(* a service call (PlacesFine).                                            *)
THEOREM InvariantHolds == Spec => []IInv
  <1>1. Init => IInv
    BY InitIInv
  <1>2. IInv /\ [Next]_vars => IInv'
    BY NextIInv
  <1> QED
    BY <1>1, <1>2, PTL DEF Spec

\* The invariant gives the types.
LEMMA IInvTypeOK == ASSUME IInv PROVE TypeOK
  <1>1. k \in Kernel /\ PlacesFine
    BY DEF IInv, Sound
  <1>2. \A p \in Level : Elems(k.ready[p]) \subseteq Thread
    BY <1>1, QueueElems DEF Kernel
  <1>3. \A o \in Waitable : Elems(k.wq[o]) \subseteq Thread
    BY <1>1, QueueElems DEF Kernel
  <1> QED
    BY <1>1, <1>2, <1>3 DEF TypeOK, Kernel, PlacesFine

\* The cardinality of a set with one element at most.
LEMMA AtMostOnce ==
  ASSUME NEW S, \A a, b \in S : a = b
  PROVE  /\ Cardinality(S) = IF S = {} THEN 0 ELSE 1
         /\ IsFiniteSet(S)
  <1>1. CASE S = {}
    BY <1>1, FS_EmptySet
  <1>2. ASSUME NEW a \in S PROVE Cardinality(S) = 1 /\ IsFiniteSet(S)
    <2>1. S = {a}
      OBVIOUS
    <2> QED
      BY <2>1, FS_Singleton
  <1> QED
    BY <1>1, <1>2

\* A thread is in a queue once at most.
LEMMA OnceInQueue ==
  ASSUME NEW q \in Queues, NEW t
  PROVE  Times(q, t) <= 1
  <1>1. PICK S : S = {i \in DOMAIN q : q[i] = t}
    OBVIOUS
  <1>2. \A a, b \in S : a = b
    BY <1>1 DEF Queues
  <1>3. Cardinality(S) = IF S = {} THEN 0 ELSE 1
    BY <1>2, AtMostOnce
  <1>4. Times(q, t) = Cardinality(S)
    BY <1>1, Zenon DEF Times
  <1> QED
    BY <1>3, <1>4

\* The invariant, counted the way LinksSound counts.
LEMMA IInvLinks == ASSUME IInv PROVE LinksSound
  <1>1. /\ k \in Kernel
        /\ \A t \in Thread :
             Linked(k, NULL, t) /\ Ended(k, Hand, NULL, k.cur, t)
        /\ NULL \notin Thread /\ NULL \notin Waitable
    BY ThreadAssumption DEF IInv, Sound, Waitable
  <1>2. ASSUME NEW t \in Thread
        PROVE  /\ \A p \in Level : Times(k.ready[p], t) <= 1
               /\ \A o \in Waitable : Times(k.wq[o], t) <= 1
    BY <1>1, OnceInQueue DEF Kernel
  <1>3. ASSUME NEW t \in Thread
        PROVE  /\ InReady(t) # {} <=> InR(k, t)
               /\ InWait(t) = IF k.wait_for[t] = NULL THEN {}
                              ELSE {k.wait_for[t]}
               /\ Cardinality(InReady(t)) = IF InR(k, t) THEN 1 ELSE 0
               /\ Cardinality(InWait(t)) = IF k.wait_for[t] = NULL THEN 0
                                           ELSE 1
    <2>0. Linked(k, NULL, t) /\ k.wait_for[t] \in Waitable \cup {NULL}
      BY <1>1 DEF Kernel
    <2>1. InReady(t) # {} <=> InR(k, t)
      BY DEF InReady, InR
    <2>2. \A a, b \in InReady(t) : a = b
      BY <2>0 DEF InReady, Linked
    <2>3. InWait(t) = IF k.wait_for[t] = NULL THEN {} ELSE {k.wait_for[t]}
      BY <1>1, <2>0 DEF InWait, Linked
    <2>4. \A a, b \in InWait(t) : a = b
      BY <2>3
    <2>5. InWait(t) = {} <=> k.wait_for[t] = NULL
      BY <2>3
    <2>6. /\ Cardinality(InReady(t)) = IF InReady(t) = {} THEN 0 ELSE 1
          /\ Cardinality(InWait(t)) = IF InWait(t) = {} THEN 0 ELSE 1
      BY <2>2, <2>4, AtMostOnce
    <2> QED
      BY <2>1, <2>3, <2>5, <2>6
  <1>4. ASSUME NEW t \in Thread
        PROVE  /\ Cardinality(InReady(t)) + Cardinality(InWait(t))
                    + (IF t \in k.gcq THEN 1 ELSE 0) <= 1
               /\ k.state[t] = "READY" => InReady(t) # {}
               /\ k.wait_for[t] # NULL => k.state[t] = "WAITING"
               /\ k.state[t] \in {"RUNNING", "FREE"} =>
                    InReady(t) = {} /\ t \notin k.gcq
    <2>1. /\ t \in k.gcq => k.state[t] = "STOPPED" /\ ~InR(k, t)
          /\ InR(k, t) => k.state[t] \in {"READY", "STOPPED"}
          /\ k.wait_for[t] # NULL => k.state[t] = "WAITING"
          /\ k.state[t] = "READY" => InR(k, t)
      BY <1>1 DEF Linked, Ended, Going
    <2> QED
      BY <1>3, <2>1
  <1>5. QueueMatchesState
    BY <1>2, <1>3, <1>4, Zenon DEF QueueMatchesState
  <1>6. TimerMatchesTicket
    BY <1>1 DEF TimerMatchesTicket, Linked
  <1> QED
    BY <1>5, <1>6 DEF LinksSound

\* The invariant, counted the way StopIsOrderly counts.
LEMMA IInvStops == ASSUME IInv PROVE StopIsOrderly
  <1>1. ASSUME NEW t \in User
        PROVE  Cardinality({w \in {"ready", "core", "gc_ptr", "gcq", "gc",
                                   "dead"} :
                  CASE w = "ready" -> InReady(t) # {} /\ k.state[t] = "STOPPED"
                    [] w = "core" -> k.cur = t /\ k.state[t] = "STOPPED"
                    [] w = "gc_ptr" -> k.gc_ptr = t
                    [] w = "gcq" -> t \in k.gcq
                    [] w = "gc" -> pc[GC] = "collect" /\ obj[GC] = t
                    [] OTHER -> t \in k.dead})
               = IF k.state[t] = "STOPPED" THEN 1 ELSE 0
    <2>1. /\ t \in Thread /\ NULL \notin Thread
          /\ Ended(k, Hand, NULL, k.cur, t)
      BY ThreadAssumption DEF IInv, Sound, Thread, Waitable
    <2>2. /\ InReady(t) # {} <=> InR(k, t)
          /\ pc[GC] = "collect" /\ obj[GC] = t <=> t = Hand
      BY <2>1 DEF InReady, InR, Hand
    <2>3. PICK W : W =
            {w \in {"ready", "core", "gc_ptr", "gcq", "gc", "dead"} :
               CASE w = "ready" -> InReady(t) # {} /\ k.state[t] = "STOPPED"
                 [] w = "core" -> k.cur = t /\ k.state[t] = "STOPPED"
                 [] w = "gc_ptr" -> k.gc_ptr = t
                 [] w = "gcq" -> t \in k.gcq
                 [] w = "gc" -> pc[GC] = "collect" /\ obj[GC] = t
                 [] OTHER -> t \in k.dead}
      OBVIOUS
    <2>4. /\ W \subseteq {"ready", "core", "gc_ptr", "gcq", "gc", "dead"}
          /\ "ready" \in W <=> InR(k, t) /\ k.state[t] = "STOPPED"
          /\ "core" \in W <=> k.cur = t /\ k.state[t] = "STOPPED"
          /\ "gc_ptr" \in W <=> k.gc_ptr = t
          /\ "gcq" \in W <=> t \in k.gcq
          /\ "gc" \in W <=> t = Hand
          /\ "dead" \in W <=> t \in k.dead
      BY <2>2, <2>3
    <2>5. \A a, b \in W : a = b
      BY <2>1, <2>4 DEF Ended, Going
    <2>6. W = {} <=> k.state[t] # "STOPPED"
      BY <2>1, <2>4 DEF Ended, Going
    <2>7. Cardinality(W) = IF W = {} THEN 0 ELSE 1
      BY <2>5, AtMostOnce
    <2>8. Cardinality(W) = IF k.state[t] = "STOPPED" THEN 1 ELSE 0
      BY <2>6, <2>7
    <2> QED
      BY <2>3, <2>8, Zenon
  <1>2. StoppedIsKept
    BY <1>1, Zenon DEF StoppedIsKept
  <1>3. CriticalNotStopped
    BY DEF CriticalNotStopped, IInv, PlacesFine
  <1> QED
    BY <1>2, <1>3 DEF StopIsOrderly

\* The invariant gives OneRunning.
LEMMA IInvOne == ASSUME IInv PROVE OneRunning
  BY DEF IInv, RunsOne, PlacesFine, OneRunning

(* For every set of threads and events, every field of the thread core     *)
(* keeps its C++ type.                                                     *)
THEOREM TypesHold == Spec => []TypeOK
  BY InvariantHolds, IInvTypeOK, PTL

(* For every set of threads and events: the intrusive links of             *)
(* waitable.cpp and core_state.cpp agree with the state of every thread,   *)
(* whatever kill, notify, timeouts and preemption do in between, and a     *)
(* timer is armed exactly for the threads that wait with a ticket.         *)
THEOREM ThreadsAreLinkedOnce == Spec => []LinksSound
  BY InvariantHolds, IInvLinks, PTL

(* For every set of threads and events: thread::kill and thread::drop stop *)
(* a thread outside its critical sections only, and a STOPPED thread is on *)
(* exactly one way to gc_service, so that none is lost and none is         *)
(* collected twice.                                                        *)
THEOREM ThreadsStopInOrder == Spec => []StopIsOrderly
  BY InvariantHolds, IInvStops, PTL

(* For every set of threads and events: the core runs the one RUNNING      *)
(* thread, or a STOPPED one inside drop(), and the search for a next       *)
(* thread never fails.                                                     *)
THEOREM OneThreadRuns == Spec => []OneRunning
  BY InvariantHolds, IInvOne, PTL

(* For every set of threads and events: set_state lets no thread come back *)
(* from STOPPED, switch_to never gives it the core, and a collected thread *)
(* is never queued for gc again.                                           *)
THEOREM NoThreadReturns == Spec => StoppedIsFinal
  <1>1. IInv /\ [Next]_vars =>
          [\A t \in Thread :
             k.state[t] = "STOPPED" =>
               /\ k'.state[t] = "STOPPED"
               /\ k'.cur = t => k.cur = t
               /\ t \in k.dead => t \notin k'.gcq]_vars
    <2> SUFFICES ASSUME IInv, [Next]_vars, NEW t \in Thread,
                        k.state[t] = "STOPPED"
                 PROVE  /\ k'.state[t] = "STOPPED"
                        /\ k'.cur = t => k.cur = t
                        /\ t \in k.dead => t \notin k'.gcq
      OBVIOUS
    <2>1. IInv' /\ Final(k, k')
      BY NextIInv
    <2>2. t \in k'.gcq => t \notin k'.dead
      BY <2>1 DEF IInv, Sound, Ended
    <2> QED
      BY <2>1, <2>2 DEF Final
  <1> QED
    BY <1>1, InvariantHolds, PTL DEF Spec, StoppedIsFinal

(* For every set of threads and events: whatever ends a wait disarms the   *)
(* timer of the thread and takes it out of every wait queue.               *)
THEOREM WakingWithdraws == Spec => WakeIsComplete
  <1>1. IInv /\ [Next]_vars =>
          [\A t \in Thread :
             k.state[t] = "WAITING" /\ k'.state[t] # "WAITING" =>
               /\ t \notin k'.armed /\ ~k'.ticket[t] /\ k'.wait_for[t] = NULL
               /\ \A o \in Waitable : t \notin Elems(k'.wq[o])]_vars
    <2> SUFFICES ASSUME IInv, [Next]_vars, NEW t \in Thread,
                        k'.state[t] # "WAITING"
                 PROVE  /\ t \notin k'.armed /\ ~k'.ticket[t]
                        /\ k'.wait_for[t] = NULL
                        /\ \A o \in Waitable : t \notin Elems(k'.wq[o])
      OBVIOUS
    <2>1. IInv'
      BY NextIInv
    <2>2. Linked(k', NULL, t)
      BY <2>1 DEF IInv, Sound
    <2> QED
      BY <2>2, ThreadAssumption DEF Linked
  <1> QED
    BY <1>1, InvariantHolds, PTL DEF Spec, WakeIsComplete
====
