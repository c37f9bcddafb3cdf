------------------------- MODULE AllocatorConstants -------------------------
(***************************************************************************)
(* The parameters of the kernel's allocators: the page allocator (PM), the *)
(* handle table (HandleTable), virtual memory (PageTable, VSpace, MapView) *)
(* and the heap (BuddyHeap), and what is assumed of them.                  *)
(***************************************************************************)
EXTENDS Integers, FiniteSets

CONSTANTS
  NB,               \* blocks of the page bitmap: bmp_page_count()
  B,                \* pages of a block: PAGE_SIZE
  Usable,           \* the pages that are free when the constructor of PM ends
  Hard,             \* 4 * count of PM::set_mp_count(count)
  limit,            \* handle_table::limit, 0x800
  avl_base,         \* handle_table::avl_base, 4
  handle_of_page    \* handle_table::handle_of_page, 0x200

Block == 0..NB - 1
Off == 0..B - 1
Page == Block \X Off

ASSUME PMAssumption ==
  /\ NB \in Nat \ {0}
  /\ B \in Nat /\ B >= 2
  /\ Usable \subseteq Page
  /\ Hard \in Nat \ {0}

ASSUME HandleAssumption ==
  /\ limit \in Nat /\ avl_base \in Nat \ {0} /\ limit > 4 * avl_base
  /\ handle_of_page \in Nat \ {0}

(* Virtual memory (PageTable, VSpace, MapView) and the heap (BuddyHeap). *)
CONSTANTS
  N,        \* entries of a page table (0x200 in the code)
  K, Step,  \* the encoding of PDTE::remain (7 and 56)
  TabPages, TabK, \* N and K for VSpace, which has several tables
  ND, NP,   \* tables of a directory, directories (0x200 each)
  Wrap,     \* directories whose addresses fit into 32 bits (4)
  Phys,     \* pages of physical memory
  Spare,    \* pages that only allocations that must succeed may use
  Boot, Stk, \* pages at both ends of the kernel's first table that are taken
  Views, Slots, Frames,  \* map_views, slots of the map table, pages looked at
  Callers,   \* threads that use a heap
  Top,       \* number of block sizes of a heap
  PageUnits, \* units of a page, larger than the largest block
  HeapPages, \* pages that the address space can give to a heap
  MinGrow    \* pages asked for at least when a heap grows

ASSUME TableAssumption ==
  /\ N \in Nat \ {0} /\ K \in Nat \ {0} /\ Step \in Nat \ {0}
  /\ 2 ^ (K - 1) <= N /\ (N - 2 ^ (K - 1)) % Step = 0
  /\ TabPages \in Nat \ {0} /\ TabK \in Nat \ {0}
  /\ 2 ^ (TabK - 1) <= TabPages /\ (TabPages - 2 ^ (TabK - 1)) % Step = 0

ASSUME SpaceAssumption ==
  /\ ND \in Nat \ {0} /\ NP \in Nat \ {0} /\ Wrap \in Nat \ {0}
  /\ Phys \in Nat /\ Spare \in Nat /\ Phys >= Spare + 3
  /\ Boot \in Nat /\ Stk \in Nat /\ Boot + Stk < N /\ Boot + Stk < TabPages

ASSUME ViewAssumption == Slots \in Nat \ {0} /\ 0 \notin Frames

\* the units of a block of shift sh, 2 ^ sh
Size(sh) == LET p[n \in 0..Top] == IF n = 0 THEN 1 ELSE 2 * p[n - 1] IN p[sh]

ASSUME HeapAssumption ==
  /\ Top \in Nat \ {0} /\ MinGrow \in Nat \ {0} /\ HeapPages \in Nat
  /\ PageUnits \in Nat \ {0} /\ PageUnits % Size(Top - 1) = 0
=============================================================================
