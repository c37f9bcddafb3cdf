------------------------------ MODULE BuddyHeap ------------------------------
(***************************************************************************)
(* util/include/buddy_heap.hpp, the heap of the kernel (kernel/global.cpp) *)
(* and of every process (app/libuos/crt_heap.cpp).  A block of shift sh    *)
(* has 2^sh units, the smallest one unit; a request is rounded up to a     *)
(* block.  The lock is held for one get, put or expand; between them other *)
(* threads of a process may use the heap (the kernel keeps interrupts off, *)
(* which is the case of one thread).  A list in order of addresses is the  *)
(* set of its blocks.                                                      *)
(***************************************************************************)
EXTENDS AllocatorConstants

VARIABLES
  pool,      \* per shift, the addresses of the free blocks
  cap_size,  \* units that the heap was given
  taken,     \* the blocks that are allocated: <<address, shift>>
  call,      \* per thread, where it is within allocate: "idle", "grow" or
             \* "retry", and the shift it asks for
  pages      \* pages that are part of the heap

vars == <<pool, cap_size, taken, call, pages>>

Shift == 0..Top - 1
Addr == 0..HeapPages * PageUnits - 1

Init ==
  /\ pool = [sh \in Shift |-> {}]
  /\ cap_size = 0
  /\ taken = {}
  /\ call = [c \in Callers |-> [at |-> "idle", sh |-> 0]]
  /\ pages = {}

\* Faulty: only the block in front is looked at.
BuddyBefore(p, a, sh) ==
  IF sh + 1 < Top THEN {b \in p[sh] : b + Size(sh) = a /\ b % Size(sh + 1) = 0}
  ELSE {}

\* put looks at the neighbours in the list; only the other half of a block of
\* the next size differs from a in the one bit
Buddy(p, a, sh) ==
  IF sh + 1 < Top
  THEN {b \in p[sh] : \/ b + Size(sh) = a /\ b % Size(sh + 1) = 0
                      \/ a + Size(sh) = b /\ a % Size(sh + 1) = 0}
  ELSE {}

\* put() at one size: q has the pools and the block that is put, which joins
\* its buddy if that is free
PutAt(q, sh) ==
  LET b == Buddy(q.pool, q.addr, sh)
  IN IF q.done THEN q
     ELSE IF b = {}
     THEN [pool |-> [q.pool EXCEPT ![sh] = @ \cup {q.addr}],
           addr |-> q.addr, done |-> TRUE]
     ELSE [pool |-> [q.pool EXCEPT ![sh] = @ \ b],
           addr |-> CHOOSE m \in b \cup {q.addr} : \A x \in b \cup {q.addr} : m <= x,
           done |-> FALSE]

\* put(), which calls itself for the next size
put(p0, a0, sh0) ==
  LET p[sh \in sh0..Top] ==
        IF sh = sh0 THEN [pool |-> p0, addr |-> a0, done |-> FALSE]
        ELSE PutAt(p[sh - 1], sh - 1)
  IN p[Top].pool

\* get(): the first block of the smallest size that has one is split; the
\* upper halves go into the pools
Splittable(sh) == {k \in Shift : k >= sh /\ pool[k] # {}}

\* Faulty: the upper half of a block that is split is lost.
get_loses_half(sh) ==
  LET k == CHOOSE k \in Splittable(sh) : \A m \in Splittable(sh) : k <= m
      a == CHOOSE a \in pool[k] : \A b \in pool[k] : a <= b
  IN [addr |-> a, pool |-> [pool EXCEPT ![k] = @ \ {a}]]

\* block a of shift k is taken and its upper halves are put, down to shift sh
Split(a, k, sh) ==
  LET p[n \in 0..k - sh] == IF n = 0 THEN [pool EXCEPT ![k] = @ \ {a}]
                            ELSE put(p[n - 1], a + Size(k - n), k - n)
  IN p[k - sh]

get(sh) ==
  LET k == CHOOSE k \in Splittable(sh) : \A m \in Splittable(sh) : k <= m
      a == CHOOSE a \in pool[k] : \A b \in pool[k] : a <= b
  IN [addr |-> a, pool |-> Split(a, k, sh)]

At(c, at, sh) == call' = [call EXCEPT ![c] = [at |-> at, sh |-> sh]]

\* allocate(): a block, or the lock is given up and the heap grows
Allocate(c, sh) ==
  /\ \/ call[c].at = "idle"
     \/ call[c].at = "retry" /\ call[c].sh = sh
  /\ IF Splittable(sh) # {}
     THEN /\ pool' = get(sh).pool
          /\ taken' = taken \cup {<<get(sh).addr, sh>>}
          /\ At(c, "idle", 0)
     ELSE /\ At(c, "grow", sh)
          /\ UNCHANGED <<pool, taken>>
  /\ UNCHANGED <<cap_size, pages>>

\* expand(): the region is put block by block, each the largest that is
\* aligned and fits (category); the callbacks return whole pages, which are
\* cut into blocks of the largest size
Expanded(a, len) ==
  LET most == Size(Top - 1)
      x[n \in 0..len \div most] ==
        IF n = 0 THEN pool ELSE put(x[n - 1], a + (n - 1) * most, Top - 1)
  IN x[len \div most]

\* the pages asked for, as many as the heap has; cap_size is read without
\* the lock
Wanted == LET n == cap_size \div PageUnits IN IF n > MinGrow THEN n ELSE MinGrow

Room(n) == {p \in 0..HeapPages - n : \A q \in p..p + n - 1 : q \notin pages}

\* the callback: pages of vm_reserve and vm_commit, one page when there is no
\* room or no memory for more, and the expansion that follows
Grow(c) ==
  /\ call[c].at = "grow"
  /\ \E n \in {Wanted, 1} : \E p \in Room(n) :
       /\ pages' = pages \cup (p..p + n - 1)
       /\ pool' = Expanded(p * PageUnits, n * PageUnits)
       /\ cap_size' = cap_size + n * PageUnits
  /\ At(c, "retry", call[c].sh)
  /\ UNCHANGED taken

\* the callback finds no memory and allocate returns nullptr
GrowFails(c) ==
  /\ call[c].at = "grow"
  /\ At(c, "idle", 0)
  /\ UNCHANGED <<pool, cap_size, taken, pages>>

\* release(), by any thread
Release(b) ==
  /\ b \in taken
  /\ pool' = put(pool, b[1], b[2])
  /\ taken' = taken \ {b}
  /\ UNCHANGED <<cap_size, call, pages>>

Next == \/ \E c \in Callers : \/ \E sh \in Shift : Allocate(c, sh)
                              \/ Grow(c) \/ GrowFails(c)
        \/ \E b \in taken : Release(b)

Spec == Init /\ [][Next]_vars

(***************************************************************************)
(* Properties                                                              *)
(***************************************************************************)
Free == UNION {{<<a, sh>> : a \in pool[sh]} : sh \in Shift}
All == Free \cup taken
Units(b) == b[1]..b[1] + Size(b[2]) - 1

(* Every unit that the heap was given is in exactly one block, free or     *)
(* allocated, whatever was split, merged and expanded in between, and      *)
(* blocks are aligned to their size.                                       *)
HeapIsPartition ==
  /\ \A b, c \in All : b # c => Units(b) \cap Units(c) = {}
  /\ Free \cap taken = {}
  /\ UNION {Units(b) : b \in All} =
       UNION {p * PageUnits..p * PageUnits + PageUnits - 1 : p \in pages}
  /\ cap_size = Cardinality(pages) * PageUnits
  /\ \A b \in All : b[1] % Size(b[2]) = 0

(* Memory does not stay split: two free halves of a block are always       *)
(* joined, so a heap with nothing allocated consists of largest blocks.    *)
BuddiesJoined ==
  \A sh \in Shift : \A a \in pool[sh] : Buddy(pool, a, sh) = {}
=============================================================================
