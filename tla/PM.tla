-------------------------------- MODULE PM --------------------------------
(***************************************************************************)
(* kernel/memory/pm.cpp: the physical page allocator.  One byte per page   *)
(* holds two bits: "free", and "solid", which says that no page after this *)
(* one in the same block is free.  allocate() finds a page by a binary     *)
(* search for the first solid page of a block, so the bits must stay exact *)
(* through every sequence of allocations and releases.                     *)
(*                                                                         *)
(* A block is one page of the bitmap, B stands for PAGE_SIZE entries.      *)
(* Every operation runs under interrupt_guard(lock), so it is one action.  *)
(* The callers of reserve() (kernel_vspace::commit, user_vspace::commit,   *)
(* virtual_space::reserve_big) take what they reserved before they enable  *)
(* interrupts again: while reserved # 0 nobody else runs on the one core.  *)
(* critical_check() calls a callback that no code installs; left out.      *)
(***************************************************************************)
EXTENDS AllocatorConstants

VARIABLES
  free, solid,            \* the two bits of pmm_bmp
  total, used, reserved,
  next,                   \* the block where the search starts
  hard,                   \* hard_critical_limit
  held,                   \* the pages that callers own
  halt                    \* "no", or why the kernel has stopped

vars == <<free, solid, total, used, reserved, next, hard, held, halt>>

\* the pages after i in block b that are free in f
Above(b, i, f) == {j \in Off : j > i /\ <<b, j>> \in f}

Init ==
  /\ free = Usable
  /\ solid = {p \in Page : Above(p[1], p[2], Usable) = {}}
  /\ used \in 1..B
  /\ total = used + Cardinality(Usable)
  /\ used < total
  /\ reserved = 0
  /\ next = 0
  /\ hard = 0
  /\ held = {}
  /\ halt = "no"

\* PM::set_mp_count, called once by the constructor of core_manager
SetMpCount ==
  /\ halt = "no" /\ reserved = 0
  /\ hard = 0
  /\ hard' = Hard
  /\ UNCHANGED <<free, solid, total, used, reserved, next, held, halt>>

\* Faulty: a block is skipped as soon as its first entry is solid.
IsFullSolid(b) == <<b, 0>> \in solid

\* The block search skips a block whose first entry is solid and not free.
IsFull(b) == <<b, 0>> \in solid /\ <<b, 0>> \notin free

\* the n-th block from "next", with wrap around
Candidate(n) == (next + n) % NB

\* the block where the search ends
Finds(n) == /\ ~IsFull(Candidate(n))
            /\ \A m \in 0..n - 1 : IsFull(Candidate(m))

\* What the binary search looks for: the first solid page of block b.
First(b) == CHOOSE i \in Off : /\ <<b, i>> \in solid
                               /\ \A j \in 0..i - 1 : <<b, j>> \notin solid

\* The loop of the binary search: head and tail enclose the first solid page.
Enclosed(b) ==
  LET step[q \in Off \X (1..B)] ==
        LET head == q[1]
            tail == q[2]
            mid == (head + tail) \div 2
        IN IF head + 1 < tail
           THEN step[IF <<b, mid>> \in solid THEN <<head, mid>> ELSE <<mid, tail>>]
           ELSE head
  IN step[<<0, B>>]

\* and the correction after the loop, for a head that is not solid itself
Bisect(b) == LET head == Enclosed(b) IN
             IF <<b, head>> \in solid THEN head ELSE head + 1

\* Faulty: the loop stops before the nearest free page.
SolidifiedShort(b, i) ==
  {<<b, j>> : j \in {j \in 0..i - 1 :
                       \A m \in j..i - 1 : <<b, m>> \notin free}}

\* The pages before i up to the nearest free one become solid.
Solidified(b, i) ==
  {<<b, j>> : j \in {j \in 0..i - 1 :
                       \A m \in j + 1..i - 1 : <<b, m>> \notin free}}

\* The pages before i that are solid without a gap are pierced again.
Pierced(b, i) ==
  {<<b, j>> : j \in {j \in 0..i - 1 :
                       \A m \in j..i - 1 : <<b, m>> \in solid}}

\* PM::allocate below its early return; mode TAKE uses up a reservation
Grab(take) ==
  IF \A b \in Block : IsFull(b)
  THEN /\ halt' = "used up"
       /\ UNCHANGED <<free, solid, total, used, reserved, next, hard, held>>
  ELSE \E n \in 0..NB - 1 :
         LET b == Candidate(n)
             i == First(b) IN
         /\ Finds(n)
         /\ free' = free \ {<<b, i>>}
         /\ solid' = solid \cup Solidified(b, i)
         /\ next' = b
         /\ used' = used + 1
         /\ reserved' = IF take THEN reserved - 1 ELSE reserved
         /\ held' = held \cup {<<b, i>>}
         /\ halt' = IF /\ <<b, i>> \in free
                       /\ Solidified(b, i) \cap solid = {}
                       /\ used + reserved < total
                       /\ take => reserved # 0
                    THEN "no" ELSE "assert"
         /\ UNCHANGED <<total, hard>>

\* allocate() and allocate(MUST_SUCCEED)
Allocate(must_succeed) ==
  /\ halt = "no" /\ reserved = 0
  /\ must_succeed \/ used + reserved + hard < total
  /\ Grab(FALSE)

\* allocate() by a caller that can do without: nothing changes
AllocateFails ==
  /\ halt = "no" /\ reserved = 0
  /\ used + reserved + hard >= total
  /\ UNCHANGED vars

\* Faulty: a page is taken from a reservation that is used up.
TakeUnreserved ==
  /\ halt = "no"
  /\ Grab(TRUE)

\* allocate(TAKE): the loops of commit and reserve_big
Take ==
  /\ halt = "no" /\ reserved # 0
  /\ Grab(TRUE)

\* Faulty: the pages that are set aside for MUST_SUCCEED are not counted.
ReserveIgnoresLimit(n) ==
  /\ halt = "no" /\ reserved = 0
  /\ IF used + reserved + n < total
     THEN reserved' = reserved + n
     ELSE UNCHANGED reserved
  /\ UNCHANGED <<free, solid, total, used, next, hard, held, halt>>

\* PM::reserve
Reserve(n) ==
  /\ halt = "no" /\ reserved = 0
  /\ IF used + reserved + n + hard < total
     THEN reserved' = reserved + n
     ELSE UNCHANGED reserved
  /\ UNCHANGED <<free, solid, total, used, next, hard, held, halt>>

\* Faulty: the page is marked free and the count of used pages is kept.
ReleaseKeepsUsed(p) ==
  /\ halt = "no" /\ reserved = 0
  /\ p \in held
  /\ free' = free \cup {p}
  /\ solid' = solid \ Pierced(p[1], p[2])
  /\ held' = held \ {p}
  /\ UNCHANGED <<total, used, reserved, next, hard, halt>>

\* PM::release of a page that was allocated before
Release(p) ==
  /\ halt = "no" /\ reserved = 0
  /\ p \in held
  /\ held' = held \ {p}
  /\ IF p \in free
     THEN /\ halt' = "double release"
          /\ UNCHANGED <<free, solid, used>>
     ELSE /\ halt' = IF used = 0 THEN "assert" ELSE "no"
          /\ free' = free \cup {p}
          /\ solid' = solid \ Pierced(p[1], p[2])
          /\ used' = used - 1
  /\ UNCHANGED <<total, reserved, next, hard>>

Next ==
  \/ SetMpCount
  \/ \E must_succeed \in BOOLEAN : Allocate(must_succeed)
  \/ AllocateFails
  \/ Take
  \/ \E n \in 0..NB * B : Reserve(n)
  \/ \E p \in Page : Release(p)

Spec == Init /\ [][Next]_vars

(***************************************************************************)
(* Properties                                                              *)
(***************************************************************************)
\* The counters never go below zero and the bits belong to existing pages.
TypeOK ==
  /\ free \subseteq Page /\ solid \subseteq Page /\ held \subseteq Page
  /\ total \in Nat /\ used \in Nat /\ reserved \in Nat /\ hard \in {0, Hard}
  /\ next \in Block
  /\ halt \in {"no", "used up", "double release", "assert"}

(* What PM::check_integrity looks for: whatever was allocated and released *)
(* in whatever order, a page is solid exactly if no page behind it in its  *)
(* block is free.                                                          *)
Integrity == \A p \in Page : p \in solid <=> Above(p[1], p[2], free) = {}

(* The second part of check_integrity: the free pages of the bitmap and    *)
(* the used ones add up, and what callers own is used and not free.        *)
Accounting ==
  /\ Cardinality(free) + used = total
  /\ held \cap free = {}
  /\ Cardinality(held) < used

(* A reservation is backed by free pages, with the hard limit left for the *)
(* callers that must succeed, until it has been taken.                     *)
ReservationBacked ==
  reserved # 0 => reserved + hard < Cardinality(free)

(* No assertion of allocate and release fails, no page is handed out twice *)
(* and the kernel stops with "physical memory used up" only if there is no *)
(* free page anywhere and no reservation is open.                          *)
StopsOnlyWhenUsedUp ==
  halt # "no" => halt = "used up" /\ free = {} /\ reserved = 0

(* The binary search finds the first solid page of every block that is not *)
(* full, and that page is free.                                            *)
BisectFindsFree ==
  \A b \in Block : ~IsFull(b) => /\ Bisect(b) = First(b)
                                 /\ <<b, Bisect(b)>> \in free
=============================================================================
