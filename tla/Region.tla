------------------------------- MODULE Region -------------------------------
(***************************************************************************)
(* What a page table promises as an allocator of address ranges: the set   *)
(* of pages that are free, whatever the free list looks like.  PageTable   *)
(* implements it; VSpace is built on its operators.                        *)
(***************************************************************************)
EXTENDS Integers, FiniteSets

CONSTANTS N, K, Step, Boot, Stk

VARIABLE free

Index == 0..N - 1

\* virtual_space::get_max_size and put_max_size: the size of the largest
\* block is kept in four bits, rounded down.
get_max_size(remain) ==
  IF remain <= K THEN IF remain = 0 THEN 0 ELSE 2 ^ (remain - 1)
  ELSE 2 ^ (K - 1) + Step * (remain - K)

put_max_size(size) ==
  CHOOSE r \in 0..K + N :
    get_max_size(r) <= size /\ size < get_max_size(r + 1)

\* the maximal runs of free pages, as <<first, size>>
Blocks(f) ==
  {b \in Index \X (1..N) :
     /\ b[1] + b[2] <= N
     /\ \A i \in b[1]..b[1] + b[2] - 1 : i \in f
     /\ b[1] - 1 \notin f /\ b[1] + b[2] \notin f}

Largest(f) == IF f = {} THEN 0
              ELSE CHOOSE s \in 1..N : /\ \E b \in Blocks(f) : b[2] = s
                                       /\ \A b \in Blocks(f) : b[2] <= s

Range(i, n) == i..i + n - 1

\* the ranges that a request for n pages may get: the end of a smallest
\* block that is large enough, if the rounded size admits the request
AnyRange(f, n) ==
  {b[1] + b[2] - n : b \in {b \in Blocks(f) :
     /\ n <= get_max_size(put_max_size(Largest(f)))
     /\ b[2] >= n
     /\ \A c \in Blocks(f) : c[2] >= n => b[2] <= c[2]}}

\* BLOCK::get asserts that the third entry of a block tells four pages: a call
\* that looks for the block of this entry stops the machine otherwise.
Stops(f, i) == \E b \in Blocks(f) : i = b[1] + 2 /\ b[2] > 2 /\ b[2] # 4

ReserveAny(n) == \E i \in AnyRange(free, n) : free' = free \ Range(i, n)

ReserveFixed(i, n) ==
  /\ Range(i, n) \subseteq free /\ ~Stops(free, i)
  /\ free' = free \ Range(i, n)

Release(i, n) ==
  /\ Range(i, n) \cap free = {} /\ ~Stops(free, i - 1)
  /\ free' = free \cup Range(i, n)

\* a new table, or the one that the kernel starts with
Init == free = Index \/ free = Boot..N - 1 - Stk

Next == /\ free' # free
        /\ \E n \in 1..N :
             \/ ReserveAny(n)
             \/ \E i \in 0..N - n : ReserveFixed(i, n) \/ Release(i, n)

Spec == Init /\ [][Next]_free
=============================================================================
