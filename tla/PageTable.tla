------------------------------ MODULE PageTable ------------------------------
(***************************************************************************)
(* kernel/memory/vm.cpp: one page table as an allocator of address ranges. *)
(* The free blocks are linked in order of size, and the links live in the  *)
(* page table entries that the blocks consist of: the first entry of a     *)
(* block holds the link to the next block, the second the link back, the   *)
(* third the size and the others their offset.  A block of one page has no *)
(* link back.                                                              *)
(*                                                                         *)
(* An entry is free when it is neither present nor preserved.  The bits of *)
(* the list that stay behind in an entry that is taken ("KEPT") are left   *)
(* out: BLOCK::put writes every entry of a block before BLOCK::get reads   *)
(* one.  A link without its valid bit is None.  The virtual space is       *)
(* locked, so a call is one action.                                        *)
(***************************************************************************)
EXTENDS AllocatorConstants

VARIABLES
  t    \* pte (the entries), head and remain (of the PDTE), stop (the assertion
       \* on the third entry of a block has failed), ok (no other has)

vars == <<t>>

Index == 0..N - 1
None == -1

\* the free pages, and what the table implements
FreePages == {i \in Index : t.pte[i].type # "KEPT"}
R == INSTANCE Region WITH free <- FreePages

Check(d, cond) == IF cond THEN d ELSE [d EXCEPT !.ok = FALSE]

IsFree(d, i) == i \in Index /\ d.pte[i].type # "KEPT"

\* the first entry of the block that entry i belongs to
First(d, i) == CASE d.pte[i].type = "OFF" -> i - d.pte[i].data
                 [] d.pte[i].type = "SIZE" -> i - 2
                 [] d.pte[i].type = "PREV" -> i - 1
                 [] OTHER -> i

\* BLOCK::get
Get(d, i) ==
  LET s == First(d, i)
      size == CASE ~IsFree(d, s + 1) -> 1
                [] IsFree(d, s + 1) /\ ~IsFree(d, s + 2) -> 2
                [] OTHER -> d.pte[s + 2].data + 1
  IN [self |-> s, size |-> size, next |-> d.pte[s].data,
      prev |-> IF size = 1 THEN None ELSE d.pte[s + 1].data]

\* the assertion of BLOCK::get on the third entry of a block, where put has
\* stored the size less one: only a block of four pages passes
ThirdFails(d, i) == IsFree(d, i) /\ d.pte[i].type = "SIZE" /\ d.pte[i].data # 3

\* the other assertions of BLOCK::get
GetOK(d, i) ==
  /\ IsFree(d, i) /\ d.pte[i].type # "STALE"
  /\ LET s == First(d, i) IN
     /\ IsFree(d, s) /\ d.pte[s].type = "NEXT"
     /\ IsFree(d, s + 1) => d.pte[s + 1].type = "PREV"
     /\ IsFree(d, s + 1) /\ IsFree(d, s + 2) => d.pte[s + 2].type = "SIZE"
     /\ \A j \in 3..Get(d, i).size - 1 :
          IsFree(d, s + j) /\ d.pte[s + j] = [type |-> "OFF", data |-> j]

\* BLOCK::put
Put(d, b) ==
  LET entry(j) == CASE j = 0 -> [type |-> "NEXT", data |-> b.next]
                    [] j = 1 -> [type |-> "PREV", data |-> b.prev]
                    [] j = 2 -> [type |-> "SIZE", data |-> b.size - 1]
                    [] OTHER -> [type |-> "OFF", data |-> j]
      own == b.self..b.self + b.size - 1
  IN Check([d EXCEPT !.pte = [i \in Index |->
              IF i \in own THEN entry(i - b.self) ELSE d.pte[i]]],
           /\ \A i \in own : IsFree(d, i)
           /\ ~IsFree(d, b.self + b.size))

\* the n-th block of the list
Chain(d) ==
  LET c[n \in 0..N] == IF n = 0 THEN IF d.remain = 0 THEN None ELSE d.head
                       ELSE IF c[n - 1] = None THEN None
                       ELSE Get(d, c[n - 1]).next
  IN c

\* Faulty: the list is not searched for the block before a block of one page.
resolve_prior_short(d, b) == b

\* resolve_prior: a block of one page is found from the head of the list
resolve_prior(d, b) ==
  IF d.head = b.self \/ b.size > 1 THEN b
  ELSE [b EXCEPT !.prev =
          CHOOSE p \in {Chain(d)[n] : n \in 0..N} \ {None} :
            Get(d, p).next = b.self]

\* and its assertions
PriorOK(d, b) ==
  CASE d.head = b.self -> b.prev = None
    [] d.head # b.self /\ b.size > 1 -> b.prev # None
    [] OTHER -> \E n \in 0..N : /\ Chain(d)[n] # None
                                /\ Get(d, Chain(d)[n]).next = b.self
                                /\ \A m \in 0..n : Get(d, Chain(d)[m]).size = 1

\* Faulty: the link back of the following block is kept.
erase_keeps_prev(d, b) ==
  LET p == Get(d, b.prev)
      d1 == IF b.prev # None THEN Put(d, [p EXCEPT !.next = b.next])
            ELSE [d EXCEPT !.head = b.next]
      size == CASE b.next # None -> R!get_max_size(d.remain)
                [] b.next = None /\ b.prev # None -> p.size
                [] OTHER -> 0
  IN [d1 EXCEPT !.remain = R!put_max_size(size)]

\* the first half of erase: the block before b, or the head, passes over b
Bypassed(d, b) ==
  IF b.prev # None
  THEN Check(Put(d, [Get(d, b.prev) EXCEPT !.next = b.next]),
             GetOK(d, b.prev) /\ Get(d, b.prev).next = b.self)
  ELSE Check([d EXCEPT !.head = b.next], d.head = b.self)

\* the second half: the block n after b is linked back
LinkedBack(d, b, n) ==
  Check(IF n.size > 1
        THEN Check(Put(d, [n EXCEPT !.prev = b.prev]), n.prev = b.self)
        ELSE d,
        GetOK(d, b.next))

\* the size of the largest block without b
MaxWithout(d, b) ==
  CASE b.next # None -> LET max == R!get_max_size(d.remain)
                            size == Get(d, b.next).size
                        IN IF size > max THEN size ELSE max
    [] b.next = None /\ b.prev # None -> Get(d, b.prev).size
    [] OTHER -> 0

\* erase, d1 being the table when b has been passed over
Erased(d, b, d1) ==
  [IF b.next # None THEN LinkedBack(d1, b, Get(d1, b.next)) ELSE d1
     EXCEPT !.remain = R!put_max_size(MaxWithout(d, b))]

erase(d, b) == Erased(d, b, Bypassed(d, b))

SizeAt(d, i) == IF i = None THEN 0 ELSE Get(d, i).size

\* Faulty: blocks are linked where they were, whatever their size.
PlaceUnordered(d, size, prev, next) == <<prev, next>>

\* the loop of insert: where a block of the given size goes, searched from
\* the place <<prev, next>> to the left or to the right
Place(d, size, prev, next) ==
  LET left[p \in Index] ==
        LET q == Get(d, p).prev IN
        IF SizeAt(d, q) > size THEN left[q] ELSE <<q, p>>
      right[p \in Index \cup {None}, n \in Index \cup {None}] ==
        IF n # None /\ SizeAt(d, n) < size
        THEN right[n, Get(d, n).next] ELSE <<p, n>>
  IN IF SizeAt(d, prev) > size THEN left[prev] ELSE right[prev, next]

\* the block after the new one is linked back to it
Before(d, b, n) ==
  IF n # None
  THEN Check(Put(d, [Get(d, n) EXCEPT !.prev = b.self]),
             GetOK(d, n) /\ SizeAt(d, n) >= b.size)
  ELSE [d EXCEPT !.remain = R!put_max_size(b.size)]

\* the block before the new one, or the head, is linked to it; d1 is the
\* table after Before
After(d, d1, b, p, n) ==
  IF p # None
  THEN Check(Put(d1, [Get(d, p) EXCEPT !.next = b.self]),
             GetOK(d, p) /\ SizeAt(d, p) <= b.size)
  ELSE Check([d1 EXCEPT !.head = b.self], n = None \/ d.head = n)

Between(d, b, p, n) ==
  Put(After(d, Before(d, b, n), b, p, n), [b EXCEPT !.prev = p, !.next = n])

Placed(d, b, place) == Between(d, b, place[1], place[2])

\* insert; the links of the block are hints
insert(d, b) ==
  IF b.size = 0 THEN d
  ELSE Placed(d, b, Place(d, b.size, b.prev,
                          IF b.prev = None /\ b.next = None /\ d.remain # 0
                          THEN d.head ELSE b.next))

\* pages i to i + n - 1 become preserved
Keep(d, i, n) ==
  [d EXCEPT !.pte = [j \in Index |-> IF j \in R!Range(i, n)
                                     THEN [type |-> "KEPT", data |-> None]
                                     ELSE d.pte[j]]]

\* block b, taken out of the list
Removed(d, b) == [block |-> b, rest |-> erase(d, b)]

\* the block of entry i, taken out of the list
Unlink(d, i) ==
  Removed(Check(d, GetOK(d, i) /\ PriorOK(d, Get(d, i))),
          resolve_prior(d, Get(d, i)))

\* the end of an unlinked block is kept, its front goes back
Shortened(u, n) ==
  insert(Keep(u.rest, u.block.self + u.block.size - n, n),
         [u.block EXCEPT !.size = @ - n])

\* the machine runs
Runs == t.ok /\ ~t.stop
Stopped == t' = [t EXCEPT !.stop = TRUE]

\* Faulty: the last block that is large enough is taken.
imp_reserve_any_last(n) ==
  /\ Runs
  /\ n <= R!get_max_size(t.remain)
  /\ LET fits == {k \in 0..N : SizeAt(t, Chain(t)[k]) >= n} IN
     \E k \in fits : /\ \A m \in fits : m <= k
                     /\ t' = Shortened(Unlink(t, Chain(t)[k]), n)

(***************************************************************************)
(* imp_reserve_any: the first block that is large enough gives its end.    *)
(***************************************************************************)
imp_reserve_any(n) ==
  /\ Runs
  /\ n <= R!get_max_size(t.remain)
  /\ LET fits == {k \in 0..N : SizeAt(t, Chain(t)[k]) >= n} IN
     IF fits = {} THEN t' = [t EXCEPT !.ok = FALSE]
     ELSE \E k \in fits : /\ \A m \in fits : k <= m
                          /\ t' = Shortened(Unlink(t, Chain(t)[k]), n)

\* Faulty: the part in front of the range is lost.
imp_reserve_fixed_front(i, n) ==
  /\ Runs /\ t.remain # 0
  /\ R!Range(i, n) \subseteq FreePages /\ ~ThirdFails(t, i)
  /\ LET u == Unlink(t, i)
         b == u.block
         after == [self |-> i + n, size |-> b.self + b.size - i - n,
                   prev |-> None, next |-> None]
     IN t' = insert(Keep(u.rest, i, n), after)

\* the parts of an unlinked block around a range, the larger one first
Split(u, i, n, before, after) ==
  LET first == after.size > before.size IN
  insert(insert(Keep(u.rest, i, n), IF first THEN after ELSE before),
         [IF first THEN before ELSE after EXCEPT !.prev = None, !.next = None])

\* the range lies in the unlinked block u
Fits(u, i, n) ==
  /\ i + n <= u.block.self + u.block.size
  /\ t' = Split(u, i, n,
                [u.block EXCEPT !.size = i - u.block.self],
                [u.block EXCEPT !.self = i + n,
                                !.size = u.block.self + @ - i - n])

(***************************************************************************)
(* imp_reserve_fixed: the range must lie in one free block; what is left   *)
(* of the block on both sides goes back, the larger part first.  The       *)
(* caller does not look for a full table, which is an assertion here.  At  *)
(* the third page of a block that has not four pages the machine stops.    *)
(***************************************************************************)
imp_reserve_fixed(i, n) ==
  /\ Runs /\ t.remain # 0
  /\ IsFree(t, i)
  /\ IF ThirdFails(t, i) THEN Stopped ELSE Fits(Unlink(t, i), i, n)

\* the range becomes part of the unlinked block v, which goes back
JoinedBefore(v, i, n) ==
  insert([v.rest EXCEPT !.pte = [j \in Index |->
            IF j \in R!Range(i, n)
            THEN [type |-> "STALE", data |-> None] ELSE @[j]]],
         v.block)

\* u is the free block after the range, unlinked, or an empty one
JoinedAfter(u, i, n) ==
  IF IsFree(t, i - 1)
  THEN LET v == Unlink(u.rest, i - 1) IN
       JoinedBefore([v EXCEPT !.block.size = @ + n + u.block.size], i, n)
  ELSE JoinedBefore([u EXCEPT !.block.self = i, !.block.size = @ + n], i, n)

(***************************************************************************)
(* imp_release: the range and the free blocks on both sides become one     *)
(* block.  The caller has seen that every page of the range is in use.     *)
(* Behind a free block of three pages the machine stops.                   *)
(***************************************************************************)
imp_release(i, n) ==
  /\ Runs
  /\ R!Range(i, n) \cap FreePages = {}
  /\ IF ThirdFails(t, i - 1) THEN Stopped
     ELSE t' = JoinedAfter(IF IsFree(t, i + n) THEN Unlink(t, i + n)
                           ELSE [block |-> [self |-> i + n, size |-> 0,
                                            prev |-> None, next |-> None],
                                 rest |-> t],
                           i, n)

\* one free block from page i on, and everything else taken
OneBlock(i, size) ==
  Put([pte |-> [j \in Index |-> IF j \in R!Range(i, size)
                                THEN [type |-> "STALE", data |-> None]
                                ELSE [type |-> "KEPT", data |-> None]],
       head |-> i, remain |-> R!put_max_size(size), stop |-> FALSE, ok |-> TRUE],
      [self |-> i, size |-> size, prev |-> None, next |-> None])

\* new_pt, and the first table of the kernel in kernel_vspace()
Init == t \in {OneBlock(0, N), OneBlock(Boot, N - Boot - Stk)}

Next == \E n \in 1..N : \/ imp_reserve_any(n)
                        \/ \E i \in 0..N - n : \/ imp_reserve_fixed(i, n)
                                               \/ imp_release(i, n)

Spec == Init /\ [][Next]_vars

(***************************************************************************)
(* Properties                                                              *)
(***************************************************************************)
(* check_integrity of vm.cpp and the assertions of the list operations,    *)
(* all but the one of BLOCK::get on the third entry: after any sequence of *)
(* calls the list holds every free run exactly once, in order of size and  *)
(* linked back correctly, and remain is the rounded size of the largest.   *)
ListIntegrity ==
  LET c == Chain(t)
      on == {n \in 0..N : c[n] # None}
  IN /\ t.ok
     /\ {<<c[n], SizeAt(t, c[n])>> : n \in on} = R!Blocks(FreePages)
     /\ \A m, n \in on : m < n => /\ c[m] # c[n]
                                  /\ SizeAt(t, c[m]) <= SizeAt(t, c[n])
     /\ \A n \in on \ {0} :
          SizeAt(t, c[n]) > 1 => Get(t, c[n]).prev = c[n - 1]
     /\ t.remain = R!put_max_size(R!Largest(FreePages))

(* The free list is invisible: each call reserves or releases exactly the  *)
(* pages that the plain set of free pages allows, whole ranges only, and a *)
(* request without an address is served from the end of a smallest block   *)
(* that is large enough.  The machine stops exactly at the third page of a *)
(* block of other than four pages.                                         *)
ImplementsRegion ==
  /\ R!Spec
  /\ [][t' # t => \A n \in 1..N :
         /\ imp_reserve_any(n) => R!ReserveAny(n) /\ ~t'.stop
         /\ \A i \in 0..N - n :
              /\ imp_reserve_fixed(i, n) =>
                   IF R!Stops(FreePages, i) THEN t'.stop
                   ELSE R!ReserveFixed(i, n) /\ ~t'.stop
              /\ imp_release(i, n) =>
                   IF R!Stops(FreePages, i - 1) THEN t'.stop
                   ELSE R!Release(i, n) /\ ~t'.stop]_vars
=============================================================================
