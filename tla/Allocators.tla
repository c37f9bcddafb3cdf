----------------------------- MODULE Allocators -----------------------------
(***************************************************************************)
(* The kernel's allocators side by side: physical pages (PM), handles of a *)
(* process (HandleTable), the free list of a page table (PageTable),       *)
(* address spaces (VSpace), windows on physical pages (MapView) and the    *)
(* heap (BuddyHeap).  What one needs of another is part of its own module  *)
(* (VSpace takes its pages from a count, BuddyHeap from a set), so a       *)
(* behaviour exercises one of them, which is chosen initially.             *)
(***************************************************************************)
EXTENDS PM

VARIABLES
  part,
  table, slots, count, top, cleared,         \* HandleTable
  t,                                         \* PageTable
  kind, s, ret, stuck,                       \* VSpace
  slot, at, pc, index, frame, failed,        \* MapView
  pool, cap_size, taken, call, pages         \* BuddyHeap

handles == <<table, slots, count, top, cleared>>
space == <<kind, s, ret, stuck>>
views == <<slot, at, pc, index, frame, failed>>
heap == <<pool, cap_size, taken, call, pages>>

H == INSTANCE HandleTable WITH used <- slots
L == INSTANCE PageTable
V == INSTANCE VSpace WITH halt <- stuck
M == INSTANCE MapView WITH halt <- failed
B2 == INSTANCE BuddyHeap

\* three blocks; the kernel image has some pages at the start of the first
UsablePages == Page \ {<<0, 0>>, <<0, 1>>, <<1, 2>>}

AllocInit ==
  /\ part \in {"pages", "handles", "table", "space", "views", "heap"}
  /\ Init /\ H!Init /\ L!Init /\ V!Init /\ M!Init /\ B2!Init
  /\ part # "pages" => used = 1
  /\ part # "table" => t = L!OneBlock(0, N)
  /\ part # "space" => kind = "user"

AllocNext ==
  /\ \/ part = "pages" /\ Next /\ UNCHANGED <<handles, t, space, views, heap>>
     \/ part = "handles" /\ H!Next /\ UNCHANGED <<vars, t, space, views, heap>>
     \/ part = "table" /\ L!Next /\ UNCHANGED <<vars, handles, space, views, heap>>
     \/ part = "space" /\ V!Next /\ UNCHANGED <<vars, handles, t, views, heap>>
     \/ part = "views" /\ M!Next /\ UNCHANGED <<vars, handles, t, space, heap>>
     \/ part = "heap" /\ B2!Next /\ UNCHANGED <<vars, handles, t, space, views>>
  /\ UNCHANGED part

AllocSpec ==
  AllocInit /\ [][AllocNext]_<<part, vars, handles, t, space, views, heap>>

(***************************************************************************)
(* Properties: Integrity and ReservationBacked of PM, and those of the     *)
(* other components, stated together where they say the same of each.      *)
(***************************************************************************)
(* The counters that decide about the next allocation agree with what is   *)
(* really in use, after every sequence of operations and failures: pages   *)
(* of PM, handles, and the physical pages of an address space, which       *)
(* leaves those that are set aside.                                        *)
CountersExact ==
  CASE part = "pages" -> Accounting
    [] part = "handles" -> H!CountExact /\ H!TopExact
    [] part = "space" -> V!PagesConserved /\ V!RoomIsLeft
    [] OTHER -> TRUE

(* No allocator gives up early: pages only when all are used, and the      *)
(* bisection ends at a free page of every block that has one; handles only *)
(* when three quarters of them are used.                                   *)
NoEarlyExhaustion ==
  CASE part = "pages" -> StopsOnlyWhenUsedUp /\ BisectFindsFree
    [] part = "handles" -> H!NoEarlyExhaustion
    [] OTHER -> TRUE

(* Nothing is given out twice and nothing leaks: every unit of the heap is *)
(* in one block and free halves are joined, every window has one view.     *)
OwnedOnce ==
  CASE part = "heap" -> B2!HeapIsPartition /\ B2!BuddiesJoined
    [] part = "views" -> M!ViewsAreExclusive
    [] OTHER -> TRUE

\* The free list of a page table holds every free run once, in order.
ListIntegrity == part = "table" => L!ListIntegrity

\* The free list implements the set of free pages, call by call.
ImplementsRegion == L!ImplementsRegion

(* A reserve in an address space takes exactly the range that it returns   *)
(* or nothing; the boot area and device pages are never given out.         *)
ReserveIsExact == V!ReserveIsExact /\ V!BypassIsKept
=============================================================================
