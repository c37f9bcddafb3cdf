------------------------- MODULE Allocators_proofs -------------------------
(***************************************************************************)
(* Proofs about the allocators: the page allocator (PM) on its own, then   *)
(* handle tables, windows on physical pages, address spaces and heaps in   *)
(* the composition Allocators, for every size of each.  The free list of a *)
(* page table is left to TLC.                                              *)
(***************************************************************************)
EXTENDS Allocators, FiniteSetTheorems, WellFoundedInduction, TLAPS

(***************************************************************************)
(* Induction and recursion                                                 *)
(***************************************************************************)
\* A set of natural numbers that is not empty has a least element.
LEMMA Least ==
  ASSUME NEW T, T \subseteq Nat, T # {}
  PROVE  \E x \in T : \A y \in T : x <= y
  <1>1. PICK x \in T : \A y \in T : ~ (<<y, x>> \in OpToRel(<, Nat))
    BY NatLessThanWellFounded, WFMin, Zenon
  <1>2. \A y \in T : ~ (y < x)
    BY <1>1 DEF OpToRel
  <1> QED
    BY <1>2

\* Induction over an interval, for a set of its members.
LEMMA IntervalInduct ==
  ASSUME NEW lo \in Int, NEW hi \in Int, NEW P,
         \A k \in lo..hi : (\A j \in lo..k - 1 : j \in P) => k \in P
  PROVE  \A k \in lo..hi : k \in P
  <1> SUFFICES ASSUME NEW c \in lo..hi, c \notin P PROVE FALSE
    OBVIOUS
  <1> DEFINE T == {n \in Nat : lo + n <= hi /\ lo + n \notin P}
  <1>1. c - lo \in T
    BY c = lo + (c - lo)
  <1>2. PICK x \in T : \A y \in T : x <= y
    BY <1>1, Least, T \subseteq Nat, Zenon
  <1>3. x \in Nat /\ lo + x <= hi /\ lo + x \notin P /\ lo + x \in lo..hi
    BY <1>2
  <1>4. PICK j \in lo..lo + x - 1 : j \notin P
    BY <1>3
  <1>5. j - lo \in T /\ j - lo < x
    BY <1>3, <1>4, j = lo + (j - lo)
  <1> QED
    BY <1>2, <1>5


(* Functions on an interval that are defined from their values below: G    *)
(* gives the value at k from a function that is right below k.             *)
FromBelow(D, X, G) ==
  /\ \E lo, hi \in Int : D = lo..hi
  /\ X # {}
  /\ G \in [D \X [D -> X] -> X]
  /\ \A k \in D : \A f, g \in [D -> X] :
       (\A j \in D : j < k => f[j] = g[j]) => G[<<k, f>>] = G[<<k, g>>]
Solved(D, X, G) == \E f \in [D -> X] : \A k \in D : f[k] = G[<<k, f>>]

\* There is such a function.
LEMMA Recursion ==
  ASSUME NEW D, NEW X, NEW G, FromBelow(D, X, G)
  PROVE  Solved(D, X, G)
  <1>1. PICK lo \in Int, hi \in Int : D = lo..hi
    BY DEF FromBelow
  <1>2. PICK x0 \in X : TRUE
    BY DEF FromBelow
  <1>3. \A k \in D, f \in [D -> X] : G[<<k, f>>] \in X
    BY DEF FromBelow
  <1>4. \A k \in D : \A f, g \in [D -> X] :
       (\A j \in D : j < k => f[j] = g[j]) => G[<<k, f>>] = G[<<k, g>>]
    BY DEF FromBelow
  <1> DEFINE Upto(f, n) == \A k \in D : k <= n => f[k] = G[<<k, f>>]
             P == {n \in D : \E f \in [D -> X] : Upto(f, n)}
  <1>5. ASSUME NEW n \in lo..hi, \A j \in lo..n - 1 : j \in P PROVE n \in P
    <2>1. PICK f \in [D -> X] : Upto(f, n - 1)
      <3>1. CASE n = lo
        <4> DEFINE f == [k \in D |-> x0]
        <4>1. f \in [D -> X]
          OBVIOUS
        <4>2. \A k \in D : ~(k <= n - 1)
          BY <3>1, <1>1
        <4>3. Upto(f, n - 1)
          BY <4>2
        <4> QED
          BY <4>1, <4>3
      <3>2. CASE n # lo
        <4>1. n - 1 \in lo..n - 1
          BY <3>2
        <4>2. n - 1 \in P
          BY <4>1, <1>5
        <4> QED
          BY <4>2
      <3> QED
        BY <3>1, <3>2
    <2> DEFINE g == [f EXCEPT ![n] = G[<<n, f>>]]
    <2>2. /\ g \in [D -> X] /\ g[n] = G[<<n, f>>]
          /\ \A j \in D : j < n => g[j] = f[j]
      BY <1>1, <1>3
    <2> HIDE DEF g
    <2>3. ASSUME NEW k \in D, k <= n PROVE g[k] = G[<<k, g>>]
      <3>1. \A j \in D : j < k => g[j] = f[j]
        BY <2>2, <2>3, <1>1
      <3>2. G[<<k, g>>] = G[<<k, f>>]
        BY <3>1, <2>2, <1>4
      <3>3. CASE k = n
        BY <3>2, <3>3, <2>2
      <3>4. CASE k # n
        <4>1. k < n /\ k <= n - 1
          BY <3>4, <2>3, <1>1
        <4> QED
          BY <4>1, <3>2, <2>1, <2>2
      <3> QED
        BY <3>3, <3>4
    <2>4. Upto(g, n)
      BY <2>3
    <2>5. n \in D
      BY <1>1
    <2> QED
      BY <2>2, <2>4, <2>5
  <1> HIDE DEF P
  <1>6. \A n \in lo..hi : n \in P
    BY <1>5, IntervalInduct
  <1>7. CASE lo <= hi
    <2>1. hi \in P
      BY <1>6, <1>7
    <2>2. PICK f \in [D -> X] : Upto(f, hi)
      BY <2>1 DEF P
    <2>3. \A k \in D : k <= hi
      BY <1>1
    <2> QED
      BY <2>2, <2>3 DEF Solved
  <1>8. CASE ~(lo <= hi)
    <2>1. D = {}
      BY <1>1, <1>8
    <2>2. [k \in D |-> x0] \in [D -> X]
      OBVIOUS
    <2> QED
      BY <2>1, <2>2 DEF Solved
  <1> QED
    BY <1>7, <1>8

(***************************************************************************)
(* The page allocator                                                      *)
(***************************************************************************)
\* The bitmap is finite.
LEMMA PageFinite == IsFiniteSet(Page)
  <1>1. IsFiniteSet(Block) /\ IsFiniteSet(Off)
    BY FS_Interval, PMAssumption DEF Block, Off
  <1> QED
    BY <1>1, FS_Product DEF Page

(* What allocate relies on: a block that is not full has a first solid     *)
(* page, and that page is free.                                            *)
LEMMA FirstIsFree ==
  ASSUME TypeOK, Integrity, NEW b \in Block, ~IsFull(b)
  PROVE  /\ First(b) \in Off
         /\ <<b, First(b)>> \in solid
         /\ \A j \in 0..First(b) - 1 : <<b, j>> \notin solid
         /\ <<b, First(b)>> \in free
  <1> DEFINE S == {i \in Off : <<b, i>> \in solid}
  <1>1. \A i \in Off : <<b, i>> \in solid
                       <=> \A j \in Off : j > i => <<b, j>> \notin free
    BY DEF Integrity, Above, Page
  <1>2. B - 1 \in S
    BY <1>1, PMAssumption DEF Off
  <1>3. PICK x \in S : \A y \in S : x <= y
    BY <1>2, Least, S \subseteq Nat DEF Off
  <1>4. /\ x \in Off /\ <<b, x>> \in solid
        /\ \A j \in 0..x - 1 : <<b, j>> \notin solid
    <2> SUFFICES ASSUME NEW j \in 0..x - 1, <<b, j>> \in solid PROVE FALSE
      BY <1>3
    <2>1. j \in Off /\ j < x
      BY <1>3, PMAssumption DEF Off
    <2> QED
      BY <2>1, <1>3 DEF Off
  <1> HIDE DEF S
  <1>5. /\ First(b) \in Off
        /\ <<b, First(b)>> \in solid
        /\ \A j \in 0..First(b) - 1 : <<b, j>> \notin solid
    BY <1>4 DEF First
  <1>6. <<b, First(b)>> \in free
    <2>1. CASE First(b) = 0
      BY <2>1, <1>5 DEF IsFull
    <2>2. CASE First(b) # 0
      <3>1. /\ First(b) - 1 \in Off
            /\ First(b) - 1 \in 0..First(b) - 1
        BY <2>2, <1>5, PMAssumption DEF Off
      <3>2. PICK j \in Off : j > First(b) - 1 /\ <<b, j>> \in free
        BY <3>1, <1>5, <1>1
      <3>3. ~ (j > First(b))
        BY <3>2, <1>5, <1>1
      <3> QED
        BY <3>2, <3>3, <1>5 DEF Off
    <2> QED
      BY <2>1, <2>2
  <1> QED
    BY <1>5, <1>6

\* If the search finds every block full then there is no free page.
LEMMA AllFullIsEmpty ==
  ASSUME TypeOK, Integrity, \A b \in Block : IsFull(b)
  PROVE  free = {}
  <1> SUFFICES ASSUME NEW p \in free PROVE FALSE
    OBVIOUS
  <1>0. PICK b \in Block, i \in Off : p = <<b, i>>
    <2>1. p \in Block \X Off
      BY DEF TypeOK, Page
    <2> QED
      BY <2>1
  <1>1. 0 \in Off
    BY PMAssumption DEF Off
  <1>2. <<b, 0>> \in solid /\ <<b, 0>> \notin free
    BY DEF IsFull
  <1>3. Above(b, 0, free) = {}
    BY <1>1, <1>2 DEF Integrity, Page
  <1> QED
    BY <1>0, <1>2, <1>3, PMAssumption DEF Above, Off

(* The bits stay exact when the first solid page of a block is taken and   *)
(* the pages before it are updated.                                        *)
LEMMA TakeKeepsIntegrity ==
  ASSUME TypeOK, Integrity, NEW b \in Block, ~IsFull(b),
         free' = free \ {<<b, First(b)>>},
         solid' = solid \cup Solidified(b, First(b))
  PROVE  Integrity' /\ Solidified(b, First(b)) \cap solid = {}
                    /\ Solidified(b, First(b)) \subseteq Page
  <1> DEFINE f == First(b)
  <1>1. /\ f \in Off /\ <<b, f>> \in solid /\ <<b, f>> \in free
        /\ \A j \in 0..f - 1 : <<b, j>> \notin solid
    BY FirstIsFree
  <1> HIDE DEF f
  <1>2. /\ free' = free \ {<<b, f>>}
        /\ solid' = solid \cup Solidified(b, f)
    BY DEF f
  <1>3. Solidified(b, f) \cap solid = {} /\ Solidified(b, f) \subseteq Page
    BY <1>1, PMAssumption DEF Solidified, Page, Off
  <1>4. ASSUME NEW c \in Block, NEW i \in Off
        PROVE  <<c, i>> \in solid' <=> Above(c, i, free') = {}
    <2>0. <<c, i>> \in solid <=> Above(c, i, free) = {}
      BY DEF Integrity, Page
    <2>1. CASE c # b
      <3>1. <<c, i>> \notin Solidified(b, f)
        BY <2>1 DEF Solidified
      <3>2. Above(c, i, free') = Above(c, i, free)
        BY <2>1, <1>2 DEF Above
      <3> QED
        BY <3>1, <3>2, <2>0, <1>2
    <2>2. CASE c = b /\ i >= f
      <3>1. <<c, i>> \notin Solidified(b, f)
        BY <2>2, <1>1 DEF Solidified, Off
      <3>2. Above(c, i, free') = Above(c, i, free)
        BY <2>2, <1>1, <1>2 DEF Above, Off
      <3> QED
        BY <3>1, <3>2, <2>0, <1>2
    <2>3. CASE c = b /\ i < f
      <3>1. <<c, i>> \notin solid
        BY <2>3, <1>1 DEF Off
      <3>2. \A j \in Off : j > f => <<b, j>> \notin free
        BY <1>1 DEF Integrity, Above, Page
      <3>3. <<c, i>> \in Solidified(b, f)
            <=> \A m \in i + 1..f - 1 : <<b, m>> \notin free
        BY <2>3, <1>1 DEF Solidified, Off
      <3>4. Above(c, i, free') = {}
            <=> \A m \in i + 1..f - 1 : <<b, m>> \notin free
        <4>1. ASSUME Above(c, i, free') = {}, NEW m \in i + 1..f - 1
              PROVE  <<b, m>> \notin free
          <5>1. m \in Off /\ m > i /\ m # f
            BY <4>1, <1>1, PMAssumption DEF Off
          <5> QED
            BY <5>1, <4>1, <2>3, <1>2 DEF Above
        <4>2. ASSUME \A m \in i + 1..f - 1 : <<b, m>> \notin free,
                     NEW j \in Off, j > i, <<b, j>> \in free'
              PROVE  FALSE
          <5>1. j # f /\ <<b, j>> \in free
            BY <4>2, <1>2
          <5>2. j \in i + 1..f - 1 \/ j > f
            BY <5>1, <4>2, <1>1 DEF Off
          <5> QED
            BY <5>1, <5>2, <4>2, <3>2
        <4> QED
          BY <4>1, <4>2, <2>3 DEF Above
      <3> QED
        BY <3>1, <3>3, <3>4, <1>2
    <2> QED
      BY <2>1, <2>2, <2>3, <1>1, PMAssumption DEF Off
  <1>5. Integrity'
    <2> SUFFICES ASSUME NEW p \in Page
                 PROVE  p \in solid' <=> Above(p[1], p[2], free') = {}
      BY DEF Integrity
    <2>1. p[1] \in Block /\ p[2] \in Off /\ p = <<p[1], p[2]>>
      BY DEF Page
    <2> QED
      BY <2>1, <1>4
  <1> QED
    BY <1>3, <1>5 DEF f

\* The bits stay exact when a page is released.
LEMMA ReleaseKeepsIntegrity ==
  ASSUME TypeOK, Integrity, NEW b \in Block, NEW f \in Off,
         free' = free \cup {<<b, f>>},
         solid' = solid \ Pierced(b, f)
  PROVE  Integrity'
  <1>1. ASSUME NEW c \in Block, NEW i \in Off
        PROVE  <<c, i>> \in solid' <=> Above(c, i, free') = {}
    <2>0. <<c, i>> \in solid <=> Above(c, i, free) = {}
      BY DEF Integrity, Page
    <2>1. CASE c # b
      <3>1. <<c, i>> \notin Pierced(b, f)
        BY <2>1 DEF Pierced
      <3>2. Above(c, i, free') = Above(c, i, free)
        BY <2>1 DEF Above
      <3> QED
        BY <3>1, <3>2, <2>0
    <2>2. CASE c = b /\ i >= f
      <3>1. <<c, i>> \notin Pierced(b, f)
        BY <2>2 DEF Pierced, Off
      <3>2. Above(c, i, free') = Above(c, i, free)
        BY <2>2 DEF Above, Off
      <3> QED
        BY <3>1, <3>2, <2>0
    <2>3. CASE c = b /\ i < f
      <3>1. f \in Above(c, i, free')
        BY <2>3 DEF Above
      <3>2. ASSUME <<c, i>> \in solid PROVE <<c, i>> \in Pierced(b, f)
        <4>1. \A j \in Off : j > i => <<b, j>> \notin free
          BY <3>2, <2>0, <2>3 DEF Above
        <4>2. ASSUME NEW m \in i..f - 1 PROVE <<b, m>> \in solid
          <5>1. m \in Off /\ m >= i
            BY PMAssumption DEF Off
          <5>2. Above(b, m, free) = {}
            BY <5>1, <4>1 DEF Above, Off
          <5> QED
            BY <5>1, <5>2 DEF Integrity, Page
        <4>3. i \in 0..f - 1
          BY <2>3 DEF Off
        <4> QED
          BY <4>2, <4>3, <2>3 DEF Pierced
      <3> QED
        BY <3>1, <3>2
    <2> QED
      BY <2>1, <2>2, <2>3, PMAssumption DEF Off
  <1> QED
    BY <1>1 DEF Integrity, Page

\* The inductive invariant.
IInv == /\ TypeOK /\ Integrity /\ Accounting
        /\ ReservationBacked /\ StopsOnlyWhenUsedUp

\* The bitmap that the constructor of PM builds satisfies the invariant.
LEMMA InitIInv == Init => IInv
  <1> SUFFICES ASSUME Init PROVE IInv
    OBVIOUS
  <1>1. IsFiniteSet(Usable) /\ Cardinality(Usable) \in Nat
    BY PageFinite, FS_Subset, FS_CardinalityType, PMAssumption
  <1>2. TypeOK
    BY <1>1, PMAssumption DEF Init, TypeOK, Block
  <1>3. Integrity
    BY DEF Init, Integrity
  <1>4. Accounting
    BY <1>1, FS_EmptySet, PMAssumption DEF Init, Accounting
  <1> QED
    BY <1>2, <1>3, <1>4 DEF Init, IInv, ReservationBacked, StopsOnlyWhenUsedUp

\* Taking a page from the bitmap, with or without a reservation.
LEMMA GrabIInv ==
  ASSUME IInv, NEW take \in BOOLEAN, Grab(take), halt = "no",
         take <=> reserved # 0
  PROVE  IInv'
  <1>1. /\ IsFiniteSet(free) /\ IsFiniteSet(held)
        /\ Cardinality(free) \in Nat /\ Cardinality(held) \in Nat
    BY PageFinite, FS_Subset, FS_CardinalityType DEF IInv, TypeOK
  <1>2. CASE \A b \in Block : IsFull(b)
    <2>1. free = {} /\ Cardinality(free) = 0
      BY <1>2, AllFullIsEmpty, FS_EmptySet DEF IInv
    <2>2. reserved = 0
      BY <2>1, PMAssumption DEF IInv, TypeOK, ReservationBacked
    <2>3. /\ halt' = "used up"
          /\ UNCHANGED <<free, solid, total, used, reserved, next, hard, held>>
      BY <1>2 DEF Grab
    <2> QED
      BY <2>1, <2>2, <2>3
      DEF IInv, TypeOK, Integrity, Accounting, ReservationBacked,
          StopsOnlyWhenUsedUp, Above
  <1>3. CASE ~ \A b \in Block : IsFull(b)
    <2>1. PICK n \in 0..NB - 1 :
            /\ Finds(n)
            /\ free' = free \ {<<Candidate(n), First(Candidate(n))>>}
            /\ solid' = solid \cup Solidified(Candidate(n), First(Candidate(n)))
            /\ next' = Candidate(n)
            /\ used' = used + 1
            /\ reserved' = IF take THEN reserved - 1 ELSE reserved
            /\ held' = held \cup {<<Candidate(n), First(Candidate(n))>>}
            /\ halt' = IF /\ <<Candidate(n), First(Candidate(n))>> \in free
                          /\ Solidified(Candidate(n), First(Candidate(n)))
                               \cap solid = {}
                          /\ used + reserved < total
                          /\ take => reserved # 0
                       THEN "no" ELSE "assert"
            /\ UNCHANGED <<total, hard>>
      BY <1>3, Zenon DEF Grab
    <2> DEFINE b == Candidate(n)
               p == <<b, First(b)>>
    <2>2. b \in Block
      <3>1. next + n \in Int
        BY DEF IInv, TypeOK, Block
      <3> QED
        BY <3>1, PMAssumption DEF Candidate, Block
    <2>3. ~IsFull(b)
      BY <2>1 DEF Finds
    <2> HIDE DEF b
    <2>4. p \in free /\ p \in Page
      BY <2>2, <2>3, FirstIsFree DEF IInv, Page
    <2>5. /\ free' = free \ {p}
          /\ solid' = solid \cup Solidified(b, First(b))
      BY <2>1 DEF b
    <2>6. /\ Integrity'
          /\ Solidified(b, First(b)) \cap solid = {}
          /\ Solidified(b, First(b)) \subseteq Page
      BY <2>2, <2>3, <2>5, TakeKeepsIntegrity DEF IInv
    <2>7. Cardinality(free') = Cardinality(free) - 1
      BY <1>1, <2>4, <2>5, FS_RemoveElement
    <2>8. Cardinality(held') = Cardinality(held) + 1
      <3>1. held' = held \cup {p} /\ p \notin held
        BY <2>1, <2>4 DEF b, IInv, Accounting
      <3> QED
        BY <3>1, <1>1, FS_AddElement
    <2>9. used + reserved < total /\ Cardinality(free) >= 1
      <3>1. Cardinality(free) # 0
        BY <1>1, <2>4, FS_EmptySet
      <3>2. CASE reserved = 0
        BY <3>1, <3>2, <1>1 DEF IInv, TypeOK, Accounting
      <3>3. CASE reserved # 0
        BY <3>1, <3>3, <1>1, PMAssumption
        DEF IInv, TypeOK, Accounting, ReservationBacked
      <3> QED
        BY <3>2, <3>3
    <2>10. halt' = "no"
      BY <2>1, <2>4, <2>6, <2>9 DEF b
    <2> HIDE DEF p
    <2>11. /\ used' = used + 1 /\ next' = b
           /\ total' = total /\ hard' = hard
           /\ reserved' = IF take THEN reserved - 1 ELSE reserved
           /\ held' = held \cup {p}
      BY <2>1 DEF b, p
    <2>12. TypeOK'
      BY <2>2, <2>4, <2>5, <2>6, <2>10, <2>11 DEF IInv, TypeOK
    <2>13. Accounting'
      <3>1. held' \cap free' = {}
        BY <2>5, <2>11 DEF IInv, Accounting
      <3> QED
        BY <3>1, <1>1, <2>7, <2>8, <2>11 DEF IInv, TypeOK, Accounting
    <2>14. ReservationBacked'
      BY <1>1, <2>7, <2>11, PMAssumption DEF IInv, TypeOK, ReservationBacked
    <2> QED
      BY <2>6, <2>10, <2>12, <2>13, <2>14 DEF IInv, StopsOnlyWhenUsedUp
  <1> QED
    BY <1>2, <1>3

\* release keeps the bitmap exact: the pages below the freed one lose solid.
LEMMA ReleaseIInv ==
  ASSUME IInv, NEW p \in Page, Release(p)
  PROVE  IInv'
  <1>1. /\ IsFiniteSet(free) /\ IsFiniteSet(held)
        /\ Cardinality(free) \in Nat /\ Cardinality(held) \in Nat
    BY PageFinite, FS_Subset, FS_CardinalityType DEF IInv, TypeOK
  <1>2. p \in held /\ p \notin free /\ reserved = 0
    BY DEF Release, IInv, Accounting
  <1>3. Cardinality(held) # 0
    BY <1>1, <1>2, FS_EmptySet
  <1>4. /\ used # 0 /\ used - 1 \in Nat
        /\ used \in Nat /\ total \in Nat
        /\ Cardinality(held) < used /\ Cardinality(free) + used = total
    <2>1. /\ used \in Nat /\ total \in Nat
          /\ Cardinality(held) < used /\ Cardinality(free) + used = total
      BY Zenon DEF IInv, TypeOK, Accounting
    <2> QED
      BY <2>1, <1>1
  <1>5. /\ free' = free \cup {p} /\ held' = held \ {p} /\ used' = used - 1
        /\ solid' = solid \ Pierced(p[1], p[2])
        /\ halt' = "no"
        /\ UNCHANGED <<total, reserved, next, hard>>
    BY <1>2, <1>4 DEF Release
  <1>6. Integrity'
    <2>1. p[1] \in Block /\ p[2] \in Off /\ p = <<p[1], p[2]>>
      BY DEF Page
    <2> QED
      BY <2>1, <1>5, ReleaseKeepsIntegrity DEF IInv
  <1>7. TypeOK'
    BY <1>4, <1>5 DEF IInv, TypeOK
  <1>8. Accounting'
    <2>1. /\ Cardinality(free') = Cardinality(free) + 1
          /\ Cardinality(held') = Cardinality(held) - 1
      BY <1>1, <1>2, <1>5, FS_AddElement, FS_RemoveElement
    <2>2. held' \cap free' = {}
      BY <1>5 DEF IInv, Accounting
    <2> QED
      BY <2>1, <2>2, <1>1, <1>4, <1>5 DEF Accounting
  <1> QED
    BY <1>2, <1>5, <1>6, <1>7, <1>8
    DEF IInv, ReservationBacked, StopsOnlyWhenUsedUp

\* Every operation of PM preserves the invariant.
LEMMA NextIInv == IInv /\ [Next]_vars => IInv'
  <1> SUFFICES ASSUME IInv, [Next]_vars PROVE IInv'
    OBVIOUS
  <1>0. Cardinality(free) \in Nat
    BY PageFinite, FS_Subset, FS_CardinalityType DEF IInv, TypeOK
  <1>1. CASE SetMpCount
    BY <1>1 DEF SetMpCount, IInv, TypeOK, Integrity, Accounting,
                ReservationBacked, StopsOnlyWhenUsedUp, Above
  <1>2. ASSUME NEW must_succeed \in BOOLEAN, Allocate(must_succeed)
        PROVE  IInv'
    BY <1>2, GrabIInv DEF Allocate
  <1>3. CASE UNCHANGED vars
    BY <1>3 DEF vars, IInv, TypeOK, Integrity, Accounting,
                ReservationBacked, StopsOnlyWhenUsedUp, Above
  <1>4. CASE Take
    BY <1>4, GrabIInv DEF Take
  <1>5. ASSUME NEW n \in 0..NB * B, Reserve(n)
        PROVE  IInv'
    <2>0. n \in Nat
      BY PMAssumption
    <2>1. TypeOK'
      BY <1>5, <2>0 DEF Reserve, IInv, TypeOK
    <2>2. ReservationBacked'
      BY <1>5, <1>0, <2>0, PMAssumption
      DEF Reserve, IInv, TypeOK, Accounting, ReservationBacked
    <2> QED
      BY <1>5, <2>1, <2>2
      DEF Reserve, IInv, Integrity, Accounting, StopsOnlyWhenUsedUp, Above
  <1>6. ASSUME NEW p \in Page, Release(p)
        PROVE  IInv'
    BY <1>6, ReleaseIInv
  <1> QED
    BY <1>1, <1>2, <1>3, <1>4, <1>5, <1>6 DEF Next, AllocateFails

(* The counters of the allocator and the type of its bitmap, for every     *)
(* memory size.                                                            *)
THEOREM TypeCorrect == Spec => []TypeOK
  <1> QED
    BY InitIInv, NextIInv, PTL DEF Spec, IInv

(* The solid bits are exact after every sequence of calls of allocate and  *)
(* release: check_integrity never stops the kernel.                        *)
THEOREM BitmapIsExact == Spec => [](Integrity /\ Accounting)
  <1>1. IInv => Integrity /\ Accounting
    BY DEF IInv
  <1> QED
    BY <1>1, InitIInv, NextIInv, PTL DEF Spec

(* A page that was reserved can be taken: commit and reserve_big never run *)
(* out of memory half way.                                                 *)
THEOREM ReservationIsKept == Spec => []ReservationBacked
  <1>1. IInv => ReservationBacked
    BY DEF IInv
  <1> QED
    BY <1>1, InitIInv, NextIInv, PTL DEF Spec

(* The only way the allocator stops the kernel is a request that must      *)
(* succeed when no page is free.                                           *)
THEOREM OnlyExhaustionStops == Spec => []StopsOnlyWhenUsedUp
  <1>1. IInv => StopsOnlyWhenUsedUp
    BY DEF IInv
  <1> QED
    BY <1>1, InitIInv, NextIInv, PTL DEF Spec

(***************************************************************************)
(* The binary search                                                       *)
(***************************************************************************)
Ends == Off \X (1..B)

\* One step of the search between head and tail, f being the rest of it.
Halved(f, b, q) ==
  IF q[1] + 1 < q[2]
  THEN f[IF <<b, (q[1] + q[2]) \div 2>> \in solid
         THEN <<q[1], (q[1] + q[2]) \div 2>>
         ELSE <<(q[1] + q[2]) \div 2, q[2]>>]
  ELSE q[1]

\* The middle lies between the ends.
LEMMA Middle ==
  ASSUME NEW q \in Ends
  PROVE  /\ q[1] \in Off /\ q[2] \in 1..B /\ q[1] \in Nat /\ q[2] \in Nat
         /\ q[2] <= B
         /\ q[1] + 1 < q[2] =>
              LET mid == (q[1] + q[2]) \div 2 IN
              /\ mid \in Nat /\ q[1] < mid /\ mid < q[2]
              /\ <<q[1], mid>> \in Ends /\ <<mid, q[2]>> \in Ends
  <1>1. q[1] \in Off /\ q[2] \in 1..B /\ q[1] \in Nat /\ q[2] \in Nat
        /\ q[2] <= B
    BY PMAssumption DEF Ends, Off
  <1>2. ASSUME NEW mid, mid = (q[1] + q[2]) \div 2, q[1] + 1 < q[2]
        PROVE  /\ mid \in Nat /\ q[1] < mid /\ mid < q[2]
               /\ mid \in Off /\ mid \in 1..B
    <2>1. mid \in Nat /\ q[1] < mid /\ mid < q[2]
      BY <1>1, <1>2
    <2> QED
      BY <2>1, <1>1, PMAssumption DEF Off
  <1> QED
    BY <1>1, <1>2 DEF Ends

\* The search ends: a function that takes these steps exists.
LEMMA SearchEnds ==
  ASSUME NEW b
  PROVE  \E f \in [Ends -> Off] : \A q \in Ends : f[q] = Halved(f, b, q)
  <1> DEFINE Upto(f, n) ==
               \A q \in Ends : q[2] - q[1] <= n => f[q] = Halved(f, b, q)
             P == {n \in 0..B : \E f \in [Ends -> Off] : Upto(f, n)}
  <1>1. ASSUME NEW f \in [Ends -> Off], NEW q \in Ends
        PROVE  Halved(f, b, q) \in Off
    BY Middle DEF Halved
  <1>2. ASSUME NEW f, NEW g, NEW q \in Ends,
               \A c \in Ends : c[2] - c[1] < q[2] - q[1] => f[c] = g[c]
        PROVE  Halved(f, b, q) = Halved(g, b, q)
    <2>1. CASE q[1] + 1 < q[2]
      <3>1. PICK mid : mid = (q[1] + q[2]) \div 2
        OBVIOUS
      <3>2. /\ mid \in Nat /\ q[1] < mid /\ mid < q[2]
            /\ q[1] \in Nat /\ q[2] \in Nat
            /\ <<q[1], mid>> \in Ends /\ <<mid, q[2]>> \in Ends
        BY <2>1, <3>1, Middle
      <3>3. f[<<q[1], mid>>] = g[<<q[1], mid>>]
        <4>1. mid - q[1] < q[2] - q[1]
          BY <3>2
        <4> QED
          BY <4>1, <3>2, <1>2
      <3>4. f[<<mid, q[2]>>] = g[<<mid, q[2]>>]
        <4>1. q[2] - mid < q[2] - q[1]
          BY <3>2
        <4> QED
          BY <4>1, <3>2, <1>2
      <3> QED
        BY <3>1, <3>3, <3>4 DEF Halved
    <2>2. CASE ~(q[1] + 1 < q[2])
      BY <2>2 DEF Halved
    <2> QED
      BY <2>1, <2>2
  <1> HIDE DEF Halved
  <1>3. ASSUME NEW n \in 0..B, \A j \in 0..n - 1 : j \in P PROVE n \in P
    <2>0. /\ n \in Nat
          /\ \A c \in Ends : c[1] \in Nat /\ c[2] \in Nat /\ c[2] <= B
      <3>1. n \in Nat
        BY PMAssumption
      <3> QED
        BY <3>1, Middle
    <2>1. PICK f \in [Ends -> Off] : Upto(f, n - 1)
      <3>1. CASE n = 0
        <4> DEFINE f == [q \in Ends |-> q[1]]
        <4>1. f \in [Ends -> Off]
          BY Middle
        <4>2. ASSUME NEW q \in Ends, q[2] - q[1] <= n - 1
              PROVE  f[q] = Halved(f, b, q)
          <5>1. ~(q[1] + 1 < q[2])
            BY <2>0, <3>1, <4>2
          <5> QED
            BY <5>1 DEF Halved
        <4> QED
          BY <4>1, <4>2
      <3>2. CASE n # 0
        <4>1. n - 1 \in 0..n - 1
          BY <3>2, PMAssumption
        <4>2. n - 1 \in P
          BY <4>1, <1>3
        <4> QED
          BY <4>2
      <3> QED
        BY <3>1, <3>2
    <2> DEFINE g == [q \in Ends |-> IF q[2] - q[1] < n THEN f[q]
                                    ELSE Halved(f, b, q)]
    <2>2. g \in [Ends -> Off]
      BY <1>1
    <2>3. ASSUME NEW q \in Ends, q[2] - q[1] <= n PROVE g[q] = Halved(g, b, q)
      <3>1. q[1] \in Nat /\ q[2] \in Nat
        BY <2>0
      <3>2. \A c \in Ends : c[2] - c[1] < q[2] - q[1] => f[c] = g[c]
        BY <2>0, <2>3
      <3>3. Halved(f, b, q) = Halved(g, b, q)
        BY <3>2, <1>2
      <3>4. CASE q[2] - q[1] < n
        <4>1. q[2] - q[1] <= n - 1
          BY <2>0, <3>1, <3>4
        <4>2. f[q] = Halved(f, b, q)
          BY <2>1, <4>1
        <4> QED
          BY <4>2, <3>3, <3>4
      <3>5. CASE ~(q[2] - q[1] < n)
        BY <3>3, <3>5
      <3> QED
        BY <3>4, <3>5
    <2>4. Upto(g, n)
      BY <2>3
    <2> QED
      BY <2>2, <2>4
  <1>4. B \in P
    <2> HIDE DEF P
    <2>1. 0 \in Int /\ B \in Int /\ B \in 0..B
      BY PMAssumption
    <2> QED
      BY <2>1, <1>3, IntervalInduct
  <1>5. PICK f \in [Ends -> Off] : Upto(f, B)
    BY <1>4
  <1>6. ASSUME NEW q \in Ends PROVE q[2] - q[1] <= B
    <2>1. q[1] \in Nat /\ q[2] \in Nat /\ q[2] <= B
      BY Middle
    <2> QED
      BY <2>1, PMAssumption
  <1> QED
    BY <1>5, <1>6

\* Enclosed is this search.
LEMMA EnclosedForm ==
  ASSUME NEW b
  PROVE  \E f : /\ Enclosed(b) = f[<<0, B>>]
               /\ \A q \in Ends : f[q] = Halved(f, b, q)
  <1>1. PICK f \in [Ends -> Off] : \A q \in Ends : f[q] = Halved(f, b, q)
    BY SearchEnds
  <1>2. f = [q \in Ends |-> Halved(f, b, q)]
    BY <1>1
  <1>3. PICK g : /\ g = [q \in Ends |-> Halved(g, b, q)]
                 /\ Enclosed(b) = g[<<0, B>>]
    BY <1>2, Zenon DEF Enclosed, Halved, Ends
  <1> QED
    BY <1>3

(* The pages from the first solid one on are solid: this is what makes     *)
(* bisection possible.                                                     *)
LEMMA SolidFromFirst ==
  ASSUME TypeOK, Integrity, NEW b \in Block, ~IsFull(b), NEW i \in Off
  PROVE  <<b, i>> \in solid <=> First(b) <= i
  <1>1. /\ First(b) \in Off /\ <<b, First(b)>> \in solid
        /\ \A j \in 0..First(b) - 1 : <<b, j>> \notin solid
    BY FirstIsFree
  <1>2. First(b) \in Nat /\ i \in Nat
    BY <1>1, PMAssumption DEF Off
  <1>3. \A k \in Off : <<b, k>> \in solid
                       <=> \A j \in Off : j > k => <<b, j>> \notin free
    BY DEF Integrity, Above, Page
  <1>4. ASSUME First(b) <= i PROVE <<b, i>> \in solid
    BY <1>1, <1>2, <1>3, <1>4 DEF Off
  <1>5. ASSUME ~(First(b) <= i) PROVE <<b, i>> \notin solid
    <2>1. i \in 0..First(b) - 1
      BY <1>2, <1>5
    <2> QED
      BY <2>1, <1>1
  <1> QED
    BY <1>4, <1>5

(* The ends enclose the first solid page all the time; when they meet, it  *)
(* is the head or the page after it.                                       *)
LEMMA BisectIsFirst ==
  ASSUME TypeOK, Integrity, NEW b \in Block, ~IsFull(b)
  PROVE  Bisect(b) = First(b)
  <1>1. First(b) \in Off /\ First(b) \in Nat
    <2>1. First(b) \in Off
      BY FirstIsFree
    <2> QED
      BY <2>1, PMAssumption DEF Off
  <1>2. PICK f : /\ Enclosed(b) = f[<<0, B>>]
                 /\ \A q \in Ends : f[q] = Halved(f, b, q)
    BY EnclosedForm
  <1> DEFINE Right(q) == f[q] = First(b) \/ (f[q] = First(b) - 1 /\ f[q] >= 0)
             P == {n \in 0..B : \A q \in Ends :
                     (/\ q[2] - q[1] <= n /\ q[1] < q[2]
                      /\ q[1] <= First(b) /\ First(b) <= q[2]) => Right(q)}
  <1>3. ASSUME NEW n \in 0..B, \A j \in 0..n - 1 : j \in P PROVE n \in P
    <2> SUFFICES ASSUME NEW q \in Ends, q[2] - q[1] <= n, q[1] < q[2],
                        q[1] <= First(b), First(b) <= q[2]
                 PROVE  Right(q)
      OBVIOUS
    <2>1. q[1] \in Nat /\ q[2] \in Nat /\ n \in Nat
      <3>1. q[1] \in Nat /\ q[2] \in Nat
        BY Middle
      <3> QED
        BY <3>1, PMAssumption
    <2>2. CASE ~(q[1] + 1 < q[2])
      <3>1. f[q] = q[1]
        BY <2>2, <1>2 DEF Halved
      <3> QED
        BY <3>1, <2>1, <2>2, <1>1
    <2>3. CASE q[1] + 1 < q[2]
      <3>1. PICK mid : mid = (q[1] + q[2]) \div 2
        OBVIOUS
      <3>2. /\ mid \in Nat /\ q[1] < mid /\ mid < q[2]
            /\ <<q[1], mid>> \in Ends /\ <<mid, q[2]>> \in Ends
        BY <2>3, <3>1, Middle
      <3>3. mid \in Off
        BY <3>2 DEF Ends
      <3>4. <<b, mid>> \in solid <=> First(b) <= mid
        BY <3>3, SolidFromFirst
      <3>5. n - 1 \in P /\ n - 1 \in 0..n - 1
        <4>1. n - 1 \in 0..n - 1
          BY <2>1, <2>3
        <4> QED
          BY <4>1, <1>3
      <3>6. CASE First(b) <= mid
        <4> DEFINE c == <<q[1], mid>>
        <4>1. f[q] = f[c]
          BY <3>1, <3>4, <3>6, <2>3, <1>2 DEF Halved
        <4>2. c \in Ends /\ c[2] - c[1] <= n - 1 /\ c[1] < c[2]
              /\ c[1] <= First(b) /\ First(b) <= c[2]
          BY <3>2, <3>6, <2>1
        <4> HIDE DEF c
        <4>3. Right(c)
          BY <4>2, <3>5
        <4> QED
          BY <4>1, <4>3
      <3>7. CASE ~(First(b) <= mid)
        <4> DEFINE c == <<mid, q[2]>>
        <4>1. f[q] = f[c]
          BY <3>1, <3>4, <3>7, <2>3, <1>2 DEF Halved
        <4>2. c \in Ends /\ c[2] - c[1] <= n - 1 /\ c[1] < c[2]
              /\ c[1] <= First(b) /\ First(b) <= c[2]
          BY <3>2, <3>7, <2>1, <1>1
        <4> HIDE DEF c
        <4>3. Right(c)
          BY <4>2, <3>5
        <4> QED
          BY <4>1, <4>3
      <3> QED
        BY <3>6, <3>7
    <2> QED
      BY <2>2, <2>3
  <1>4. B \in P
    <2> HIDE DEF P
    <2>1. 0 \in Int /\ B \in Int /\ B \in 0..B
      BY PMAssumption
    <2> QED
      BY <2>1, <1>3, IntervalInduct
  <1>5. Right(<<0, B>>)
    <2> DEFINE c == <<0, B>>
    <2>1. c \in Ends /\ c[2] - c[1] <= B /\ c[1] < c[2]
          /\ c[1] <= First(b) /\ First(b) <= c[2]
      BY <1>1, PMAssumption DEF Ends, Off
    <2> HIDE DEF c
    <2> QED
      BY <2>1, <1>4 DEF c
  <1>6. PICK h : h = Enclosed(b)
    OBVIOUS
  <1>7. h = First(b) \/ (h = First(b) - 1 /\ h >= 0)
    BY <1>2, <1>5, <1>6
  <1>8. h \in Off /\ (h = First(b) \/ (h + 1 = First(b) /\ ~(First(b) <= h)))
    BY <1>1, <1>7, PMAssumption DEF Off
  <1>9. <<b, h>> \in solid <=> First(b) <= h
    BY <1>8, SolidFromFirst
  <1> QED
    BY <1>1, <1>6, <1>8, <1>9 DEF Bisect

(* The binary search of allocate ends at the first solid page of every     *)
(* block that is not full, for every block size, and this page is free.    *)
THEOREM BisectionIsRight == Spec => []BisectFindsFree
  <1>1. IInv => BisectFindsFree
    BY BisectIsFirst, FirstIsFree DEF IInv, BisectFindsFree
  <1> QED
    BY <1>1, InitIInv, NextIInv, PTL DEF Spec

(***************************************************************************)
(* Handle tables                                                           *)
(***************************************************************************)
\* The inductive invariant.
HandleInv == H!TypeOK /\ H!CountExact /\ H!TopExact

\* The instances of the components count as this module does.
LEMMA SameCount ==
  /\ \A S : H!Cardinality(S) = Cardinality(S)
  /\ \A S : V!Cardinality(S) = Cardinality(S)
  /\ \A S : B2!Cardinality(S) = Cardinality(S)
  <1>1. \A S : /\ H!IsFiniteSet(S) = IsFiniteSet(S)
              /\ V!IsFiniteSet(S) = IsFiniteSet(S)
              /\ B2!IsFiniteSet(S) = IsFiniteSet(S)
    BY DEF H!IsFiniteSet, V!IsFiniteSet, B2!IsFiniteSet, IsFiniteSet
  <1> QED
    BY <1>1 DEF H!Cardinality, V!Cardinality, B2!Cardinality, Cardinality

\* count is the number of the slots in use.
LEMMA CountForm ==
  /\ H!CountExact <=> count = Cardinality(slots)
  /\ H!CountExact' <=> (count = Cardinality(slots))'
  BY SameCount DEF H!CountExact

\* The constants as numbers, and the used slots as a finite set.
LEMMA HandleFacts ==
  ASSUME H!TypeOK
  PROVE  /\ limit \in Nat /\ avl_base \in Nat /\ avl_base >= 1
         /\ limit > 4 * avl_base
         /\ IsFiniteSet(slots) /\ Cardinality(slots) \in Nat
         /\ top \in Nat /\ top <= limit /\ count \in Nat
         /\ slots \subseteq 0..limit - 1
  <1>1. limit \in Nat /\ avl_base \in Nat /\ avl_base >= 1 /\ limit > 4 * avl_base
    BY HandleAssumption
  <1>2. IsFiniteSet(H!Index) /\ slots \subseteq H!Index
    BY <1>1, FS_Interval DEF H!Index, H!TypeOK
  <1>3. IsFiniteSet(slots) /\ Cardinality(slots) \in Nat
    BY <1>2, FS_Subset, FS_CardinalityType
  <1> QED
    BY <1>1, <1>2, <1>3 DEF H!TypeOK, H!Index

\* The search starts at avl_base or above, and at top at the latest.
LEMMA StartRange ==
  ASSUME H!TypeOK
  PROVE  /\ H!Start \in Nat /\ H!Start >= avl_base
         /\ H!Start = avl_base \/ (count * 4 > top * 3 /\ H!Start = top)
  BY HandleFacts DEF H!Start, H!Max2

\* An index below a bound that is a number is in the interval below it.
LEMMA InInterval ==
  ASSUME NEW a \in Nat, NEW b \in Nat, NEW u \in a..b - 1
  PROVE  u \in Nat /\ u >= a /\ u < b
  OBVIOUS

\* The empty table of the constructor satisfies the invariant.
LEMMA InitHandles == H!Init => HandleInv
  <1> SUFFICES ASSUME H!Init PROVE HandleInv
    OBVIOUS
  <1>1. Cardinality(slots) = 0
    BY FS_EmptySet DEF H!Init
  <1>2. H!TypeOK
    <2>1. limit \in Nat
      BY HandleAssumption
    <2>2. count \in Nat /\ top \in 0..limit
      BY <2>1 DEF H!Init
    <2>3. cleared \in BOOLEAN /\ slots \subseteq H!Index
          /\ \A i \in slots : H!PageOf(i) \in table
      BY DEF H!Init
    <2> QED
      BY <2>2, <2>3 DEF H!TypeOK
  <1>3. \A i \in avl_base..top - 1 : H!PageOf(i) \in table
    BY HandleAssumption DEF H!Init
  <1> QED
    BY <1>1, <1>2, <1>3, CountForm, HandleAssumption
       DEF H!Init, HandleInv, H!TopExact

\* put and assign keep the counters: the new index is used and top is above it.
LEMMA PutHandles ==
  ASSUME HandleInv, NEW i \in H!Index, H!Put(i)
  PROVE  HandleInv'
  <1>0. /\ limit \in Nat /\ avl_base \in Nat /\ avl_base >= 1
        /\ IsFiniteSet(slots) /\ Cardinality(slots) \in Nat
        /\ top \in Nat /\ top <= limit /\ count \in Nat
        /\ slots \subseteq 0..limit - 1
    BY HandleFacts DEF HandleInv
  <1>1. /\ i \in H!Start..limit - 1 /\ i \notin slots
        /\ \A j \in H!Start..i - 1 : j \in slots
        /\ table' = table \cup {H!PageOf(i)}
        /\ slots' = slots \cup {i} /\ count' = count + 1
        /\ top' = H!Max2(top, i + 1) /\ cleared' = cleared /\ ~cleared
    BY DEF H!Put
  <1>2. /\ H!Start \in Nat /\ H!Start >= avl_base
        /\ H!Start = avl_base \/ H!Start = top
    BY StartRange DEF HandleInv
  <1>3. i \in Nat /\ i >= avl_base /\ i <= limit - 1
    BY <1>0, <1>1, <1>2
  <1>4. /\ \A u \in slots : u >= avl_base => u < top
        /\ top > avl_base => top - 1 \in slots
        /\ \A u \in avl_base..top - 1 : H!PageOf(u) \in table
    BY <1>1 DEF HandleInv, H!TopExact
  <1>5. i <= top \/ i = avl_base
    <2> SUFFICES ASSUME i > top, i # avl_base PROVE FALSE
      BY <1>0, <1>3
    <2>1. CASE H!Start < i
      <3>1. i - 1 \in H!Start..i - 1
        BY <1>2, <1>3, <2>1
      <3>2. i - 1 \in slots
        BY <3>1, <1>1
      <3>3. i - 1 >= avl_base
        BY <1>0, <1>2, <1>3, <2>1
      <3> QED
        BY <3>2, <3>3, <1>0, <1>3, <1>4
    <2>2. CASE H!Start = i
      BY <2>2, <1>0, <1>2, <1>3
    <2> QED
      BY <2>1, <2>2, <1>1, <1>2, <1>3
  <1>6. top' \in Nat /\ top' >= top /\ top' >= i + 1 /\ top' <= limit
        /\ (top' = top \/ top' = i + 1)
    BY <1>0, <1>1, <1>3 DEF H!Max2
  <1>7. H!TypeOK'
    BY <1>0, <1>1, <1>6 DEF HandleInv, H!TypeOK
  <1>8. H!CountExact'
    BY <1>0, <1>1, FS_AddElement, CountForm DEF HandleInv
  <1>9. H!TopExact'
    <2>1. \A u \in slots' : u >= avl_base => u < top'
      BY <1>0, <1>1, <1>3, <1>4, <1>6
    <2>2. top' > avl_base => top' - 1 \in slots'
      BY <1>0, <1>1, <1>3, <1>4, <1>6
    <2>3. ASSUME NEW u \in Nat, u >= avl_base, u < top'
          PROVE  H!PageOf(u) \in table'
      <3>1. CASE u < top
        <4>1. u \in avl_base..top - 1
          BY <2>3, <3>1, <1>0
        <4> QED
          BY <4>1, <1>1, <1>4
      <3>2. CASE u >= top
        <4>2. top' = i + 1
          BY <2>3, <3>2, <1>0, <1>6
        <4>3. u <= i
          BY <2>3, <4>2, <1>3
        <4>4. i <= u
          BY <2>3, <3>2, <1>0, <1>3, <1>5
        <4>5. u = i
          BY <4>3, <4>4, <1>3
        <4> QED
          BY <4>5, <1>1
      <3> QED
        BY <3>1, <3>2, <1>0, <1>6
    <2>4. \A u \in avl_base..top' - 1 : u \in Nat /\ u >= avl_base /\ u < top'
      <3>1. avl_base \in Nat /\ top' \in Nat
        BY <1>0, <1>6
      <3> QED
        BY <3>1, InInterval
    <2> QED
      BY <2>1, <2>2, <2>3, <2>4 DEF H!TopExact
  <1> QED
    BY <1>7, <1>8, <1>9 DEF HandleInv

\* close keeps the counters: top falls back to just above the last used index.
LEMMA CloseHandles ==
  ASSUME HandleInv, NEW i \in H!Index, H!Close(i)
  PROVE  HandleInv'
  <1>0. /\ limit \in Nat /\ avl_base \in Nat /\ avl_base >= 1
        /\ limit > 4 * avl_base
        /\ IsFiniteSet(slots) /\ Cardinality(slots) \in Nat
        /\ top \in Nat /\ top <= limit /\ count \in Nat
        /\ slots \subseteq 0..limit - 1
    BY HandleFacts DEF HandleInv
  <1>1. /\ i \in slots /\ i # 0 /\ count' = count - 1 /\ slots' = slots \ {i}
        /\ table' = table /\ cleared' = cleared /\ ~cleared
    BY DEF H!Close
  <1>2. i \in Nat /\ i >= 1 /\ i <= limit - 1
    BY <1>0, <1>1
  <1>3. /\ Cardinality(slots') = Cardinality(slots) - 1
        /\ Cardinality(slots) # 0
    BY <1>0, <1>1, FS_RemoveElement, FS_EmptySet
  <1>4. H!CountExact' /\ count' \in Nat
    BY <1>0, <1>1, <1>3, CountForm DEF HandleInv
  <1>5. /\ \A u \in slots : u >= avl_base => u < top
        /\ top > avl_base => top - 1 \in slots
        /\ \A u \in avl_base..top - 1 : H!PageOf(u) \in table
    BY <1>1 DEF HandleInv, H!TopExact
  <1>6. CASE i + 1 < top
    <2>1. top' = top
      BY <1>0, <1>2, <1>6 DEF H!Close
    <2>2. top - 1 # i
      BY <1>0, <1>2, <1>6
    <2>3. H!TypeOK'
      BY <1>1, <1>4, <2>1 DEF HandleInv, H!TypeOK
    <2>4. H!TopExact'
      BY <1>0, <1>1, <1>5, <2>1, <2>2 DEF H!TopExact
    <2> QED
      BY <1>4, <2>3, <2>4 DEF HandleInv
  <1>7. CASE ~ (i + 1 < top)
    <2>0. i + 1 >= top
      BY <1>0, <1>2, <1>7
    <2>1. PICK j \in 0..i - 1 : H!StopsAt(i, j) /\ top' = j + 1
      BY <2>0 DEF H!Close
    <2>2. /\ j < avl_base \/ j \in slots \/ H!PageOf(j) \notin table
          /\ \A m \in j + 1..i - 1 : m \notin slots
      BY <2>1 DEF H!StopsAt
    <2>3. j \in Nat /\ j < i /\ top' <= limit /\ top' \in Nat
      BY <1>0, <1>2, <2>1
    <2>4. H!TypeOK'
      BY <1>0, <1>1, <1>4, <2>3 DEF HandleInv, H!TypeOK
    <2>5. ASSUME NEW u \in slots', u >= avl_base
          PROVE  u < top'
      <3>1. u \in slots /\ u # i /\ u \in Nat /\ u < top
        BY <1>0, <1>1, <1>5, <2>5
      <3>2. u <= i - 1
        BY <3>1, <2>0, <1>0, <1>2
      <3>3. ~ (u >= j + 1)
        BY <3>1, <3>2, <2>2, <2>3, <1>2
      <3> QED
        BY <3>1, <3>3, <2>1, <2>3
    <2>6. ASSUME j >= avl_base
          PROVE  i < top
      BY <2>6, <2>3, <1>0, <1>1, <1>2, <1>5
    <2>7. top' > avl_base => top' - 1 \in slots'
      <3> SUFFICES ASSUME top' > avl_base PROVE j \in slots'
        BY <2>1, <2>3
      <3>1. j >= avl_base
        BY <2>1, <2>3, <1>0
      <3>2. j \in avl_base..top - 1
        BY <3>1, <2>3, <2>6, <1>0, <1>2
      <3>3. j \in slots
        BY <3>1, <3>2, <2>2, <1>0, <1>5, <2>3
      <3> QED
        BY <3>3, <1>1, <2>3, <1>2
    <2>8. ASSUME NEW u \in avl_base..top' - 1
          PROVE  H!PageOf(u) \in table'
      <3>1. u \in avl_base..top - 1
        BY <1>0, <1>2, <2>1, <2>3, <2>6
      <3> QED
        BY <3>1, <1>1, <1>5
    <2>9. H!TopExact'
      BY <2>5, <2>7, <2>8 DEF H!TopExact
    <2> QED
      BY <1>4, <2>4, <2>9 DEF HandleInv
  <1> QED
    BY <1>6, <1>7

\* Every operation of the handle table preserves the invariant.
LEMMA NextHandles == HandleInv /\ [H!Next]_(H!vars) => HandleInv'
  <1> SUFFICES ASSUME HandleInv, [H!Next]_(H!vars) PROVE HandleInv'
    OBVIOUS
  <1>0. /\ limit \in Nat /\ avl_base \in Nat /\ avl_base >= 1
        /\ limit > 4 * avl_base
        /\ IsFiniteSet(slots) /\ Cardinality(slots) \in Nat
        /\ top \in Nat /\ top <= limit /\ count \in Nat
    BY HandleFacts DEF HandleInv
  <1>1. CASE UNCHANGED (H!vars)
    BY <1>1, CountForm DEF H!vars, HandleInv, H!TypeOK, H!TopExact
  <1>2. ASSUME NEW i \in H!Index, H!Put(i)
        PROVE  HandleInv'
    BY <1>2, PutHandles
  <1>3. ASSUME NEW i \in H!Index, H!Assign(i)
        PROVE  HandleInv'
    <2>1. /\ i \in 0..avl_base - 1 /\ ~cleared
          /\ table' = table \cup {H!PageOf(i)} /\ slots' = slots \cup {i}
          /\ count' = IF i \in slots THEN count ELSE count + 1
          /\ top' = top /\ cleared' = cleared
      BY <1>3 DEF H!Assign
    <2>2. H!TypeOK'
      BY <1>0, <2>1 DEF HandleInv, H!TypeOK
    <2>3. H!CountExact'
      <3>1. CASE i \in slots
        <4>1. slots' = slots /\ count' = count
          BY <2>1, <3>1
        <4> QED
          BY <4>1, CountForm DEF HandleInv
      <3>2. CASE i \notin slots
        BY <1>0, <2>1, <3>2, FS_AddElement, CountForm DEF HandleInv
      <3> QED
        BY <3>1, <3>2
    <2>4. H!TopExact'
      BY <1>0, <2>1 DEF HandleInv, H!TopExact
    <2> QED
      BY <2>2, <2>3, <2>4 DEF HandleInv
  <1>4. ASSUME NEW i \in H!Index, H!Close(i)
        PROVE  HandleInv'
    BY <1>4, CloseHandles
  <1>5. CASE H!Clear
    <2>1. slots' = {} /\ Cardinality(slots') = 0
      BY <1>5, FS_EmptySet DEF H!Clear
    <2>2. count' = 0
      BY <1>0, <1>5, CountForm, SameCount DEF H!Clear, HandleInv
    <2> QED
      BY <1>5, <2>1, <2>2, CountForm
         DEF H!Clear, HandleInv, H!TypeOK, H!TopExact
  <1> QED
    BY <1>1, <1>2, <1>3, <1>4, <1>5 DEF H!Next, H!PutFails, H!vars

(* The invariant implies that a search that finds no slot has met a table  *)
(* that is more than three quarters full.                                  *)
LEMMA ExhaustedIsFull == HandleInv => H!NoEarlyExhaustion
  <1> SUFFICES ASSUME HandleInv, ~cleared, H!Exhausted
               PROVE  top = limit /\ count * 4 > limit * 3
    BY DEF H!NoEarlyExhaustion
  <1>0. /\ limit \in Nat /\ avl_base \in Nat /\ avl_base >= 1
        /\ limit > 4 * avl_base
        /\ IsFiniteSet(slots) /\ Cardinality(slots) \in Nat
        /\ top \in Nat /\ top <= limit /\ count \in Nat
    BY HandleFacts DEF HandleInv
  <1>1. /\ H!Start \in Nat
        /\ H!Start = avl_base \/ (count * 4 > top * 3 /\ H!Start = top)
    BY StartRange DEF HandleInv
  <1>2. CASE H!Start = avl_base
    <2>1. avl_base..limit - 1 \subseteq slots
      BY <1>2 DEF H!Exhausted
    <2>2. Cardinality(avl_base..limit - 1) = limit - avl_base
      BY <1>0, FS_Interval
    <2>3. count >= limit - avl_base
      BY <1>0, <2>1, <2>2, FS_Subset, CountForm DEF HandleInv
    <2>4. limit - 1 \in slots
      BY <1>0, <2>1
    <2>5. top = limit
      BY <1>0, <2>4 DEF HandleInv, H!TopExact
    <2> QED
      BY <1>0, <2>3, <2>5
  <1>3. CASE count * 4 > top * 3 /\ H!Start = top
    <2>1. top = limit
      <3> SUFFICES ASSUME top < limit PROVE FALSE
        BY <1>0
      <3>1. top \in slots
        BY <1>0, <1>3 DEF H!Exhausted
      <3>2. CASE top >= avl_base
        BY <3>1, <3>2, <1>0 DEF HandleInv, H!TopExact
      <3>3. CASE top < avl_base
        <4>1. H!Start >= avl_base
          BY StartRange DEF HandleInv
        <4> QED
          BY <4>1, <1>0, <1>3, <3>3
      <3> QED
        BY <3>2, <3>3, <1>0
    <2> QED
      BY <2>1, <1>3
  <1> QED
    BY <1>1, <1>2, <1>3

(* The counters of the handle table never wrap and its slots have pages.   *)
THEOREM HandleTypes == H!Spec => []H!TypeOK
  <1>1. HandleInv => H!TypeOK
    BY DEF HandleInv
  <1> QED
    BY <1>1, InitHandles, NextHandles, PTL DEF H!Spec

(* count and top are exact after every sequence of puts, assigns, closes   *)
(* and the final clear.                                                    *)
THEOREM HandleCounters == H!Spec => [](H!CountExact /\ H!TopExact)
  <1>1. HandleInv => H!CountExact /\ H!TopExact
    BY DEF HandleInv
  <1> QED
    BY <1>1, InitHandles, NextHandles, PTL DEF H!Spec

(* A process gets every handle it asks for until three quarters of the     *)
(* table are in use (or the kernel runs out of memory).                    *)
THEOREM HandlesUpToThreeQuarters == H!Spec => []H!NoEarlyExhaustion
  BY ExhaustedIsFull, InitHandles, NextHandles, PTL DEF H!Spec

(***************************************************************************)
(* The windows on physical pages                                           *)
(***************************************************************************)
\* A view within map() has given up its slot and looks for another one.
Searching ==
  \A v \in Views :
    /\ pc[v] # "idle" => at[v] = -1 /\ frame[v] \in Frames
    /\ pc[v] = "swap" => index[v] \in M!Slot
    /\ at[v] # -1 => frame[v] \in Frames

ViewInv == M!TypeOK /\ Searching /\ M!ViewsAreExclusive

\* A page that is mapped is not the entry of a free slot, and no slot is -1.
LEMMA ViewConstants == 0 \notin Frames /\ -1 \notin M!Slot /\ Slots \in Nat \ {0}
  BY ViewAssumption DEF M!Slot

\* Nobody looks through a window at first.
LEMMA InitViews == M!Init => ViewInv
  <1> SUFFICES ASSUME M!Init PROVE ViewInv
    OBVIOUS
  <1>1. M!TypeOK
    <2>1. 0 \in 0..Slots
      BY ViewAssumption
    <2> QED
      BY <2>1 DEF M!Init, M!TypeOK
  <1>2. Searching
    BY DEF M!Init, Searching
  <1>3. M!ViewsAreExclusive
    BY DEF M!Init, M!ViewsAreExclusive
  <1> QED
    BY <1>1, <1>2, <1>3 DEF ViewInv

\* unmap() frees the slot of the view, which is its own.
LEMMA UnmapStep ==
  ASSUME ViewInv, NEW v \in Views, M!Unmap(v), pc[v] = "idle"
  PROVE  /\ slot' \in [M!Slot -> Frames \cup {0}]
         /\ at' \in [Views -> M!Slot \cup {-1}]
         /\ failed' \in BOOLEAN
         /\ at'[v] = -1 /\ \A w \in Views \ {v} : at'[w] = at[w]
         /\ \A w \in Views : at'[w] # -1 => slot'[at'[w]] = frame[w]
         /\ \A w, u \in Views : w # u /\ at'[w] # -1 => at'[w] # at'[u]
         /\ \A i \in M!Slot : slot'[i] # 0 => \E w \in Views : at'[w] = i
  <1> USE ViewConstants DEF ViewInv, M!TypeOK
  <1>1. CASE at[v] = -1
    BY <1>1 DEF M!Unmap, M!ViewsAreExclusive
  <1>2. CASE at[v] # -1
    <2>1. /\ slot' = [slot EXCEPT ![at[v]] = 0]
          /\ at' = [at EXCEPT ![v] = -1]
          /\ failed' = (slot[at[v]] = 0)
      BY <1>2 DEF M!Unmap
    <2>2. at[v] \in M!Slot
      BY <1>2
    <2>3. ASSUME NEW w \in Views, at'[w] # -1 PROVE slot'[at'[w]] = frame[w]
      <3>1. w # v /\ at'[w] = at[w] /\ at[w] # at[v]
        BY <2>1, <2>3, <1>2 DEF M!ViewsAreExclusive
      <3>2. at[w] \in M!Slot
        BY <2>3, <3>1
      <3>3. slot'[at[w]] = slot[at[w]]
        BY <2>1, <2>2, <3>1, <3>2
      <3> QED
        BY <3>1, <3>3, <2>3 DEF M!ViewsAreExclusive
    <2>4. \A w, u \in Views : w # u /\ at'[w] # -1 => at'[w] # at'[u]
      BY <2>1 DEF M!ViewsAreExclusive
    <2>5. ASSUME NEW i \in M!Slot, slot'[i] # 0
          PROVE  \E w \in Views : at'[w] = i
      <3>1. i # at[v] /\ slot[i] # 0
        BY <2>1, <2>2, <2>5
      <3>2. PICK w \in Views : at[w] = i
        BY <3>1 DEF M!ViewsAreExclusive
      <3> QED
        BY <3>1, <3>2, <2>1
    <2> QED
      BY <2>1, <2>2, <2>3, <2>4, <2>5
  <1> QED
    BY <1>1, <1>2

\* map() and the destructor begin with unmap().
LEMMA MapStep ==
  ASSUME ViewInv, NEW v \in Views,
         (\E fr \in Frames : M!Map(v, fr)) \/ M!Destroy(v)
  PROVE  ViewInv'
  <1> USE ViewConstants
  <1>1. M!Unmap(v) /\ pc[v] = "idle"
    BY DEF M!Map, M!Destroy
  <1>2. /\ slot' \in [M!Slot -> Frames \cup {0}]
        /\ at' \in [Views -> M!Slot \cup {-1}]
        /\ failed' \in BOOLEAN
        /\ at'[v] = -1 /\ \A w \in Views \ {v} : at'[w] = at[w]
        /\ \A w \in Views : at'[w] # -1 => slot'[at'[w]] = frame[w]
        /\ \A w, u \in Views : w # u /\ at'[w] # -1 => at'[w] # at'[u]
        /\ \A i \in M!Slot : slot'[i] # 0 => \E w \in Views : at'[w] = i
    BY <1>1, UnmapStep
  <1>3. /\ pc' \in [Views -> {"idle", "read", "swap"}]
        /\ index' \in [Views -> 0..Slots]
        /\ frame' \in [Views -> Frames \cup {0}]
        /\ \A w \in Views \ {v} : pc'[w] = pc[w] /\ frame'[w] = frame[w]
                                  /\ index'[w] = index[w]
        /\ pc'[v] \in {"idle", "read"}
        /\ pc'[v] = "read" => frame'[v] \in Frames
    <2>1. ASSUME NEW fr \in Frames, M!Map(v, fr)
          PROVE  <1>3!:
      BY <2>1 DEF M!Map, ViewInv, M!TypeOK
    <2>2. CASE M!Destroy(v)
      BY <1>1, <2>2 DEF M!Destroy, ViewInv, M!TypeOK
    <2> QED
      BY <2>1, <2>2
  <1>4. M!TypeOK'
    BY <1>2, <1>3 DEF M!TypeOK
  <1>5. Searching'
    BY <1>2, <1>3 DEF Searching, ViewInv
  <1>6. M!ViewsAreExclusive'
    BY <1>2, <1>3 DEF M!ViewsAreExclusive
  <1> QED
    BY <1>4, <1>5, <1>6 DEF ViewInv

\* The compare and exchange takes a slot that is free at that moment.
LEMMA SwapStep ==
  ASSUME ViewInv, NEW v \in Views, M!Swap(v)
  PROVE  ViewInv'
  <1> USE ViewConstants DEF ViewInv
  <1>1. /\ pc[v] = "swap" /\ index[v] \in M!Slot /\ at[v] = -1
        /\ frame[v] \in Frames /\ frame' = frame /\ failed' = failed
    BY DEF M!Swap, Searching
  <1>2. CASE slot[index[v]] = 0
    <2>1. /\ slot' = [slot EXCEPT ![index[v]] = frame[v]]
          /\ at' = [at EXCEPT ![v] = index[v]]
          /\ pc' = [pc EXCEPT ![v] = "idle"] /\ index' = index
      BY <1>2 DEF M!Swap
    <2>2. M!TypeOK'
      BY <1>1, <2>1 DEF M!TypeOK
    <2>3. Searching'
      BY <1>1, <2>1 DEF Searching, M!TypeOK
    <2>4. \A w \in Views : at[w] # index[v]
      BY <1>1, <1>2 DEF M!ViewsAreExclusive, Searching
    <2>5. /\ at'[v] = index[v] /\ slot'[index[v]] = frame[v]
          /\ \A w \in Views \ {v} : at'[w] = at[w]
          /\ \A i \in M!Slot : i # index[v] => slot'[i] = slot[i]
          /\ \A w \in Views : at[w] # -1 => at[w] \in M!Slot
      BY <1>1, <2>1 DEF M!TypeOK
    <2>6. M!ViewsAreExclusive'
      BY <1>1, <2>4, <2>5 DEF M!ViewsAreExclusive
    <2> QED
      BY <2>2, <2>3, <2>6
  <1>3. CASE slot[index[v]] # 0
    <2>1. /\ index' = [index EXCEPT ![v] = @ + 1]
          /\ pc' = [pc EXCEPT ![v] = "read"] /\ slot' = slot /\ at' = at
      BY <1>3 DEF M!Swap
    <2>2. index[v] + 1 \in 0..Slots
      BY <1>1 DEF M!Slot
    <2>3. M!TypeOK'
      BY <1>1, <2>1, <2>2 DEF M!TypeOK
    <2>4. Searching'
      BY <1>1, <2>1 DEF Searching, M!TypeOK
    <2> QED
      BY <1>1, <2>1, <2>3, <2>4 DEF M!ViewsAreExclusive
  <1> QED
    BY <1>2, <1>3

\* The read passes over slots that are present.
LEMMA ReadStep ==
  ASSUME ViewInv, NEW v \in Views, M!Read(v)
  PROVE  ViewInv'
  <1> USE ViewConstants DEF ViewInv
  <1>1. /\ pc[v] = "read" /\ index[v] \in 0..Slots
        /\ slot' = slot /\ at' = at /\ frame' = frame
    BY DEF M!Read, M!TypeOK
  <1>2. M!ViewsAreExclusive'
    BY <1>1 DEF M!ViewsAreExclusive
  <1>3. CASE index[v] = Slots
    BY <1>1, <1>2, <1>3 DEF M!Read, M!TypeOK, Searching
  <1>4. CASE index[v] # Slots /\ slot[index[v]] # 0
    <2>1. index' = [index EXCEPT ![v] = @ + 1] /\ pc' = pc /\ failed' = failed
      BY <1>4 DEF M!Read
    <2>2. index[v] + 1 \in 0..Slots
      BY <1>1, <1>4
    <2> QED
      BY <1>1, <1>2, <2>1, <2>2 DEF M!TypeOK, Searching
  <1>5. CASE index[v] # Slots /\ slot[index[v]] = 0
    <2>1. pc' = [pc EXCEPT ![v] = "swap"] /\ index' = index /\ failed' = failed
      BY <1>5 DEF M!Read
    <2>2. index[v] \in M!Slot
      BY <1>1, <1>5 DEF M!Slot
    <2> QED
      BY <1>1, <1>2, <2>1, <2>2 DEF M!TypeOK, Searching
  <1> QED
    BY <1>3, <1>4, <1>5

\* Every step of a view keeps the invariant.
LEMMA NextViews == ViewInv /\ M!Next => ViewInv'
  BY MapStep, SwapStep, ReadStep DEF M!Next

(***************************************************************************)
(* Address spaces                                                          *)
(***************************************************************************)
SpaceRec ==
  [dir : [0..NP - 1 -> BOOLEAN],
   tab : [V!Tables -> {"absent", "present", "bypass"}],
   page : [V!Pages -> V!PageState], avail : Int, used_pages : Int]

Dirs(x) == {p \in 0..NP - 1 : x.dir[p]}
Tabs(x) == {j \in V!Tables : x.tab[j] = "present"}
Backing(x) == {b \in V!Pages : x.page[b] \in V!Backed}

(* The spaces that keep the books: c pages, the directories, the tables    *)
(* and the pages with memory are what is in use.                           *)
Sound(c) ==
  {x \in SpaceRec :
     /\ x.avail + x.used_pages = Phys /\ x.avail >= Spare
     /\ x.used_pages = c + Cardinality(Dirs(x)) + Cardinality(Tabs(x))
                         + Cardinality(Backing(x))}

\* What a space may become when directories and tables are made.
Grown(c, x) ==
  {y \in Sound(c) :
     /\ y.page = x.page
     /\ \A j \in V!Tables : y.tab[j] = "bypass" <=> x.tab[j] = "bypass"}

\* The constants of the address space as numbers.
LEMMA SpaceConstants ==
  /\ ND \in Nat /\ ND >= 1 /\ NP \in Nat /\ NP >= 1
  /\ TabPages \in Nat /\ TabPages >= 1 /\ NP * ND \in Nat
  /\ NP * ND >= 1 /\ NP * ND * TabPages \in Nat
  /\ Phys \in Nat /\ Spare \in Nat /\ Phys >= Spare + 3
  <1>1. /\ ND \in Nat /\ ND >= 1 /\ NP \in Nat /\ NP >= 1
        /\ TabPages \in Nat /\ TabPages >= 1
        /\ Phys \in Nat /\ Spare \in Nat /\ Phys >= Spare + 3
    BY SpaceAssumption, TableAssumption
  <1>2. NP * ND >= 1
    BY <1>1
  <1> QED
    BY <1>1, <1>2

\* What division by a positive number gives.
LEMMA Division ==
  ASSUME NEW m \in Nat \ {0}, NEW x \in Nat
  PROVE  /\ x \div m \in Nat
         /\ (x \div m) * m <= x /\ x < (x \div m) * m + m
  OBVIOUS

\* The quotient is determined by these bounds.
LEMMA Quotient ==
  ASSUME NEW m \in Nat \ {0}, NEW x \in Nat, NEW q \in Nat,
         q * m <= x, x < q * m + m
  PROVE  x \div m = q
  OBVIOUS

\* A number below k * m has a quotient below k.
LEMMA Below ==
  ASSUME NEW m \in Nat \ {0}, NEW k \in Nat, NEW x \in Nat, x < k * m
  PROVE  x \div m < k
  <1>1. PICK q \in Nat : q = x \div m /\ q * m <= x
    BY Division
  <1>2. q * m < k * m
    BY <1>1
  <1> QED
    BY <1>1, <1>2

\* Division keeps the order.
LEMMA DivisionMonotone ==
  ASSUME NEW m \in Nat \ {0}, NEW x \in Nat, NEW y \in Nat, x <= y
  PROVE  x \div m <= y \div m
  <1>1. PICK q \in Nat, r \in Nat : /\ q = x \div m /\ r = y \div m
                                    /\ q * m <= x /\ y < (r + 1) * m
    BY Division
  <1>2. q * m < (r + 1) * m
    BY <1>1
  <1>3. q < r + 1
    BY <1>1, <1>2
  <1> QED
    BY <1>1, <1>3

\* Every table belongs to a directory.
LEMMA DirInRange == ASSUME NEW j \in V!Tables PROVE V!DirOf(j) \in 0..NP - 1
  <1>1. NP \in Nat \ {0} /\ ND \in Nat \ {0}
    BY SpaceAssumption
  <1>2. j \in Nat /\ j < NP * ND
    BY <1>1 DEF V!Tables
  <1> QED
    BY <1>1, <1>2, Below, Division DEF V!DirOf

\* Every page belongs to a table.
LEMMA TabInRange ==
  ASSUME NEW b \in V!Pages
  PROVE  /\ V!TabOf(b) \in V!Tables /\ b \in Nat
         /\ V!TabOf(b) * TabPages <= b
         /\ b < V!TabOf(b) * TabPages + TabPages
         /\ b - V!TabOf(b) * TabPages \in V!Index
  <1>1. TabPages \in Nat \ {0} /\ NP * ND \in Nat
    BY SpaceConstants
  <1>2. PICK k \in Nat : k = NP * ND
    BY <1>1
  <1>3. b \in Nat /\ b < k * TabPages
    BY <1>1, <1>2 DEF V!Pages
  <1>4. PICK q : q = b \div TabPages
    OBVIOUS
  <1>5. q \in Nat /\ q * TabPages <= b /\ b < q * TabPages + TabPages
    BY <1>1, <1>3, <1>4, Division
  <1>6. q < k
    BY <1>1, <1>3, <1>4, Below
  <1>7. PICK r \in Nat : r = q * TabPages
    BY <1>1, <1>5
  <1>8. b - r \in 0..TabPages - 1
    BY <1>1, <1>3, <1>5, <1>7
  <1> QED
    BY <1>1, <1>2, <1>3, <1>4, <1>5, <1>6, <1>7, <1>8
       DEF V!TabOf, V!Tables, V!Index

\* The pages of a table.
LEMMA PageOfTable ==
  ASSUME NEW j \in V!Tables, NEW i \in V!Index
  PROVE  /\ j * TabPages + i \in V!Pages
         /\ V!TabOf(j * TabPages + i) = j
  <1>1. /\ TabPages \in Nat \ {0} /\ NP * ND \in Nat
        /\ NP * ND * TabPages \in Nat
    BY SpaceConstants
  <1>2. PICK k \in Nat : k = NP * ND
    BY <1>1
  <1>3. j \in Nat /\ j < k /\ i \in Nat /\ i < TabPages
    BY <1>1, <1>2 DEF V!Tables, V!Index
  <1>4. (j + 1) * TabPages <= k * TabPages
    <2>1. j + 1 <= k
      BY <1>3
    <2> QED
      BY <2>1, <1>1, <1>3
  <1>5. PICK b \in Nat : b = j * TabPages + i
    BY <1>1, <1>3
  <1>6. b < k * TabPages /\ j * TabPages <= b /\ b < j * TabPages + TabPages
    BY <1>1, <1>3, <1>4, <1>5
  <1>7. b \div TabPages = j
    BY <1>1, <1>3, <1>5, <1>6, Quotient
  <1> QED
    BY <1>1, <1>2, <1>5, <1>6, <1>7 DEF V!Pages, V!TabOf

\* The sets that are counted are finite.
LEMMA BooksFinite ==
  ASSUME NEW x
  PROVE  /\ IsFiniteSet(Dirs(x)) /\ IsFiniteSet(Tabs(x))
         /\ IsFiniteSet(Backing(x)) /\ IsFiniteSet(V!Tables)
         /\ IsFiniteSet(V!Pages)
         /\ Cardinality(Dirs(x)) \in Nat /\ Cardinality(Tabs(x)) \in Nat
         /\ Cardinality(Backing(x)) \in Nat
  <1>1. IsFiniteSet(0..NP - 1) /\ IsFiniteSet(V!Tables) /\ IsFiniteSet(V!Pages)
    BY SpaceConstants, FS_Interval DEF V!Tables, V!Pages
  <1>2. /\ Dirs(x) \subseteq 0..NP - 1 /\ Tabs(x) \subseteq V!Tables
        /\ Backing(x) \subseteq V!Pages
    BY DEF Dirs, Tabs, Backing
  <1> QED
    BY <1>1, <1>2, FS_Subset, FS_CardinalityType

\* TakePages changes the two counters.
LEMMA TakeFacts ==
  ASSUME NEW x \in SpaceRec, NEW k \in Int, NEW y, y = V!TakePages(x, k)
  PROVE  /\ y \in SpaceRec /\ y.dir = x.dir /\ y.tab = x.tab /\ y.page = x.page
         /\ y.avail = x.avail - k /\ y.used_pages = x.used_pages + k
  <1>1. x.avail \in Int /\ x.used_pages \in Int
    BY DEF SpaceRec
  <1>2. y = [[x EXCEPT !.avail = x.avail - k]
               EXCEPT !.used_pages = x.used_pages + k]
    BY DEF V!TakePages, SpaceRec
  <1>3. PICK w : w = [x EXCEPT !.avail = x.avail - k]
    OBVIOUS
  <1>4. /\ w \in SpaceRec /\ w.dir = x.dir /\ w.tab = x.tab /\ w.page = x.page
        /\ w.avail = x.avail - k /\ w.used_pages = x.used_pages
    BY <1>1, <1>3 DEF SpaceRec
  <1>5. y = [w EXCEPT !.used_pages = x.used_pages + k]
    BY <1>2, <1>3
  <1> QED
    BY <1>1, <1>4, <1>5 DEF SpaceRec

\* A directory that is made is counted.
LEMMA NewDirectory ==
  ASSUME NEW c \in Nat, NEW x \in Sound(c), NEW j \in V!Tables,
         ~x.dir[V!DirOf(j)], V!CanAllocate(x)
  PROVE  /\ V!new_pdt(x, j) \in Sound(c) /\ V!new_pdt(x, j).page = x.page
         /\ V!new_pdt(x, j).tab = x.tab
  <1>1. PICK p \in 0..NP - 1 : p = V!DirOf(j)
    BY DirInRange
  <1>2. PICK y : y = V!new_pdt(x, j)
    OBVIOUS
  <1>3. /\ y \in SpaceRec
        /\ y.dir = [x.dir EXCEPT ![p] = TRUE] /\ y.tab = x.tab
        /\ y.page = x.page /\ y.avail = x.avail - 1
        /\ y.used_pages = x.used_pages + 1
    <2>1. PICK w : w = [x EXCEPT !.dir[p] = TRUE]
      OBVIOUS
    <2>2. /\ w \in SpaceRec /\ w.dir = [x.dir EXCEPT ![p] = TRUE]
          /\ w.tab = x.tab /\ w.page = x.page /\ w.avail = x.avail
          /\ w.used_pages = x.used_pages
      BY <1>1, <2>1 DEF Sound, SpaceRec
    <2>3. y = V!TakePages(w, 1)
      BY <1>1, <1>2, <2>1 DEF V!new_pdt
    <2> QED
      BY <2>2, <2>3, TakeFacts
  <1>4. x.dir \in [0..NP - 1 -> BOOLEAN] /\ x.avail \in Int /\ x.used_pages \in Int
    BY DEF Sound, SpaceRec
  <1>5. Dirs(y) = Dirs(x) \cup {p} /\ p \notin Dirs(x)
    BY <1>1, <1>3, <1>4 DEF Dirs
  <1>6. Tabs(y) = Tabs(x) /\ Backing(y) = Backing(x)
    BY <1>3 DEF Tabs, Backing
  <1>7. Cardinality(Dirs(y)) = Cardinality(Dirs(x)) + 1
    BY <1>5, BooksFinite, FS_AddElement
  <1>8. /\ Cardinality(Dirs(x)) \in Nat /\ Cardinality(Tabs(x)) \in Nat
        /\ Cardinality(Backing(x)) \in Nat
    BY BooksFinite
  <1>9. x.avail > Spare
    BY DEF V!CanAllocate
  <1>10. /\ x.avail + x.used_pages = Phys
         /\ x.used_pages = c + Cardinality(Dirs(x)) + Cardinality(Tabs(x))
                             + Cardinality(Backing(x))
    BY DEF Sound
  <1>11. /\ y.avail + y.used_pages = Phys /\ y.avail >= Spare
         /\ y.used_pages = c + Cardinality(Dirs(y)) + Cardinality(Tabs(y))
                             + Cardinality(Backing(y))
    <2>1. Spare \in Nat /\ Phys \in Nat
      BY SpaceConstants
    <2>2. /\ y.avail = x.avail - 1 /\ y.used_pages = x.used_pages + 1
          /\ x.avail \in Int /\ x.used_pages \in Int
      BY <1>3, <1>4
    <2> QED
      BY <2>1, <2>2, <1>6, <1>7, <1>8, <1>9, <1>10
  <1>12. y \in Sound(c)
    BY <1>3, <1>11 DEF Sound
  <1> QED
    BY <1>2, <1>3, <1>12

\* So is a table.
LEMMA NewTable ==
  ASSUME NEW c \in Nat, NEW x \in Sound(c), NEW j \in V!Tables,
         x.tab[j] = "absent", V!CanAllocate(x)
  PROVE  /\ V!new_pt(x, j) \in Sound(c) /\ V!new_pt(x, j).page = x.page
         /\ V!new_pt(x, j).tab = [x.tab EXCEPT ![j] = "present"]
  <1>2. PICK y : y = V!new_pt(x, j)
    OBVIOUS
  <1>3. /\ y \in SpaceRec
        /\ y.tab = [x.tab EXCEPT ![j] = "present"] /\ y.dir = x.dir
        /\ y.page = x.page /\ y.avail = x.avail - 1
        /\ y.used_pages = x.used_pages + 1
    <2>1. PICK w : w = [x EXCEPT !.tab[j] = "present"]
      OBVIOUS
    <2>2. /\ w \in SpaceRec /\ w.tab = [x.tab EXCEPT ![j] = "present"]
          /\ w.dir = x.dir /\ w.page = x.page /\ w.avail = x.avail
          /\ w.used_pages = x.used_pages
      BY <2>1 DEF Sound, SpaceRec
    <2>3. y = V!TakePages(w, 1)
      BY <1>2, <2>1 DEF V!new_pt
    <2> QED
      BY <2>2, <2>3, TakeFacts
  <1>4. /\ x.tab \in [V!Tables -> {"absent", "present", "bypass"}]
        /\ x.avail \in Int /\ x.used_pages \in Int
    BY DEF Sound, SpaceRec
  <1>5. Tabs(y) = Tabs(x) \cup {j} /\ j \notin Tabs(x)
    BY <1>3, <1>4 DEF Tabs
  <1>6. Dirs(y) = Dirs(x) /\ Backing(y) = Backing(x)
    BY <1>3 DEF Dirs, Backing
  <1>7. Cardinality(Tabs(y)) = Cardinality(Tabs(x)) + 1
    BY <1>5, BooksFinite, FS_AddElement
  <1>8. /\ Cardinality(Dirs(x)) \in Nat /\ Cardinality(Tabs(x)) \in Nat
        /\ Cardinality(Backing(x)) \in Nat
    BY BooksFinite
  <1>9. x.avail > Spare
    BY DEF V!CanAllocate
  <1>10. /\ x.avail + x.used_pages = Phys
         /\ x.used_pages = c + Cardinality(Dirs(x)) + Cardinality(Tabs(x))
                             + Cardinality(Backing(x))
    BY DEF Sound
  <1>11. /\ y.avail + y.used_pages = Phys /\ y.avail >= Spare
         /\ y.used_pages = c + Cardinality(Dirs(y)) + Cardinality(Tabs(y))
                             + Cardinality(Backing(y))
    <2>1. Spare \in Nat /\ Phys \in Nat
      BY SpaceConstants
    <2>2. /\ y.avail = x.avail - 1 /\ y.used_pages = x.used_pages + 1
          /\ x.avail \in Int /\ x.used_pages \in Int
      BY <1>3, <1>4
    <2> QED
      BY <2>1, <2>2, <1>6, <1>7, <1>8, <1>9, <1>10
  <1>12. y \in Sound(c)
    BY <1>3, <1>11 DEF Sound
  <1> QED
    BY <1>2, <1>3, <1>12

\* Coming to a table makes it where it can be made.
LEMMA VisitGrows ==
  ASSUME NEW c \in Nat, NEW z, NEW x \in Grown(c, z), NEW j \in V!Tables
  PROVE  V!Visit(x, j) \in Grown(c, z)
  <1>0. /\ x \in Sound(c) /\ x.page = z.page
        /\ \A k \in V!Tables : x.tab[k] = "bypass" <=> z.tab[k] = "bypass"
    BY DEF Grown
  <1>1. PICK y : y = IF ~x.dir[V!DirOf(j)] /\ V!CanAllocate(x)
                     THEN V!new_pdt(x, j) ELSE x
    OBVIOUS
  <1>2. y \in Sound(c) /\ y.page = x.page /\ y.tab = x.tab
    BY <1>0, <1>1, NewDirectory
  <1>3. V!Visit(x, j) = IF y.dir[V!DirOf(j)] /\ y.tab[j] = "absent"
                           /\ V!CanAllocate(y)
                        THEN V!new_pt(y, j) ELSE y
    BY <1>1 DEF V!Visit
  <1>4. CASE y.dir[V!DirOf(j)] /\ y.tab[j] = "absent" /\ V!CanAllocate(y)
    <2>1. PICK w : w = V!new_pt(y, j)
      OBVIOUS
    <2>2. w \in Sound(c) /\ w.page = y.page
          /\ w.tab = [y.tab EXCEPT ![j] = "present"]
      BY <1>2, <1>4, <2>1, NewTable
    <2>3. y.tab \in [V!Tables -> {"absent", "present", "bypass"}]
      BY <1>2 DEF Sound, SpaceRec
    <2>4. \A k \in V!Tables : w.tab[k] = "bypass" <=> y.tab[k] = "bypass"
      BY <2>2, <2>3, <1>4
    <2> QED
      <3>1. V!Visit(x, j) = w
        BY <1>3, <1>4, <2>1
      <3>2. w.page = z.page
            /\ \A k \in V!Tables : w.tab[k] = "bypass" <=> z.tab[k] = "bypass"
        BY <1>0, <1>2, <2>2, <2>4
      <3> QED
        BY <2>2, <3>1, <3>2 DEF Grown
  <1>5. CASE ~(y.dir[V!DirOf(j)] /\ y.tab[j] = "absent" /\ V!CanAllocate(y))
    BY <1>0, <1>2, <1>3, <1>5 DEF Grown
  <1> QED
    BY <1>4, <1>5

\* What reserve_any finds at the tables.
LEMMA VisitedGrows ==
  ASSUME NEW c \in Nat, NEW x \in Sound(c)
  PROVE  V!Visited(x) \in [-1..NP * ND - 1 -> Grown(c, x)]
  <1> DEFINE D == -1..NP * ND - 1
             X == Grown(c, x)
             Val(f, j) ==
               IF j = -1 THEN x
               ELSE IF \E k \in 0..j - 1 : ~f[k].dir[V!DirOf(k)] THEN f[j - 1]
               ELSE V!Visit(f[j - 1], j)
             G == [q \in D \X [D -> X] |-> Val(q[2], q[1])]
  <1>0. NP * ND \in Nat
    BY SpaceConstants
  <1>1. ASSUME NEW f, NEW j \in D, \A k \in -1..j - 1 : f[k] \in X
        PROVE  Val(f, j) \in X
    <2>1. j # -1 => j - 1 \in -1..j - 1 /\ j \in V!Tables
      BY <1>0 DEF V!Tables
    <2>2. x \in X
      BY DEF Grown
    <2>3. \A y \in X : \A k \in V!Tables : V!Visit(y, k) \in X
      BY VisitGrows
    <2> HIDE DEF X
    <2> QED
      BY <2>1, <2>2, <2>3, <1>1
  <1>2. ASSUME NEW f, NEW g, NEW j \in D, \A k \in -1..j - 1 : f[k] = g[k]
        PROVE  Val(f, j) = Val(g, j)
    <2>1. j # -1 => j - 1 \in -1..j - 1 /\ \A k \in 0..j - 1 : k \in -1..j - 1
      BY <1>0
    <2> QED
      BY <2>1, <1>2
  <1>3. x \in X
    BY DEF Grown
  <1> HIDE DEF Val, X
  <1>4. \A j \in D : j \in Int
    BY <1>0
  <1>5. FromBelow(D, X, G)
    <2>1. \E lo, hi \in Int : D = lo..hi
      <3>1. -1 \in Int /\ NP * ND - 1 \in Int
        BY <1>0
      <3> QED
        BY <3>1
    <2>2. ASSUME NEW j \in D, NEW f \in [D -> X] PROVE Val(f, j) \in X
      <3>1. \A k \in -1..j - 1 : k \in D
        BY <1>0
      <3> QED
        BY <3>1, <1>1
    <2>3. ASSUME NEW j \in D, NEW f \in [D -> X], NEW g \in [D -> X],
                 \A k \in D : k < j => f[k] = g[k]
          PROVE  G[<<j, f>>] = G[<<j, g>>]
      <3>1. \A k \in -1..j - 1 : k \in D /\ k < j
        BY <1>0
      <3>2. Val(f, j) = Val(g, j)
        BY <3>1, <2>3, <1>2
      <3> QED
        BY <3>2
    <2>4. G \in [D \X [D -> X] -> X]
      BY <2>2
    <2> HIDE DEF G, D
    <2> QED
      BY <1>3, <2>1, <2>3, <2>4 DEF FromBelow
  <1>6. Solved(D, X, G)
    <2> HIDE DEF D, G
    <2> QED
      BY <1>5, Recursion
  <1>7. PICK f \in [D -> X] : f = [j \in D |-> Val(f, j)]
    BY <1>6 DEF Solved
  <1>8. V!Visited(x) = [j \in D |-> Val(V!Visited(x), j)]
    BY <1>7, Zenon DEF V!Visited, Val
  <1>9. PICK v : v = V!Visited(x)
    OBVIOUS
  <1>10. v = [j \in D |-> Val(v, j)]
    BY <1>8, <1>9
  <1> DEFINE P == {j \in D : v[j] \in X}
  <1>11. ASSUME NEW j \in D, \A k \in -1..j - 1 : k \in P PROVE j \in P
    <2>1. Val(v, j) \in X
      BY <1>1, <1>11
    <2>2. v[j] = Val(v, j)
      BY <1>10
    <2> QED
      BY <2>1, <2>2
  <1>12. \A j \in D : j \in P
    <2>1. -1 \in Int /\ NP * ND - 1 \in Int
      BY <1>0
    <2>2. PICK lo \in Int, hi \in Int : lo = -1 /\ hi = NP * ND - 1
      BY <2>1
    <2>3. D = lo..hi
      BY <2>2
    <2> HIDE DEF P, D
    <2>4. \A k \in lo..hi : (\A j \in lo..k - 1 : j \in P) => k \in P
      BY <1>11, <2>2, <2>3
    <2>5. \A k \in lo..hi : k \in P
      BY <2>4, IntervalInduct
    <2> QED
      BY <2>3, <2>5
  <1>13. v \in [D -> X]
    BY <1>10, <1>12
  <1> QED
    BY <1>9, <1>13 DEF X

\* The first table of a directory.
LEMMA FirstTable ==
  ASSUME NEW p \in 0..NP - 1
  PROVE  p * ND \in V!Tables /\ V!DirOf(p * ND) = p
  <1>1. ND \in Nat \ {0} /\ NP \in Nat /\ p \in Nat /\ p < NP
    BY SpaceConstants
  <1>2. PICK k \in Nat : k = p * ND
    BY <1>1
  <1>3. p + 1 <= NP
    BY <1>1
  <1>4. (p + 1) * ND <= NP * ND
    BY <1>1, <1>3
  <1>5. k < NP * ND
    BY <1>1, <1>2, <1>4
  <1>6. k \div ND = p
    BY <1>1, <1>2, Quotient
  <1> QED
    BY <1>1, <1>2, <1>5, <1>6 DEF V!Tables, V!DirOf

\* What reserve_big finds at the directories.
LEMMA DirectoriesGrow ==
  ASSUME NEW c \in Nat, s \in Sound(c)
  PROVE  V!Directories \in [-1..NP - 1 -> Grown(c, s)]
  <1> DEFINE D == -1..NP - 1
             X == Grown(c, s)
             Val(f, j) ==
               IF j = -1 THEN s
               ELSE LET y == f[j - 1] IN
                    IF (j > 0 /\ ~y.dir[j - 1]) \/ y.dir[j] \/ ~V!CanAllocate(y)
                    THEN y ELSE V!new_pdt(y, j * ND)
             G == [q \in D \X [D -> X] |-> Val(q[2], q[1])]
  <1>0. NP \in Nat
    BY SpaceConstants
  <1>1. ASSUME NEW f, NEW j \in D, \A k \in -1..j - 1 : f[k] \in X
        PROVE  Val(f, j) \in X
    <2>1. j # -1 => j - 1 \in -1..j - 1 /\ j \in 0..NP - 1
      BY <1>0
    <2>2. s \in X
      BY DEF Grown
    <2>3. ASSUME NEW y \in X, NEW k \in 0..NP - 1, ~y.dir[k], V!CanAllocate(y)
          PROVE  V!new_pdt(y, k * ND) \in X
      <3>1. k * ND \in V!Tables /\ V!DirOf(k * ND) = k
        BY FirstTable
      <3> QED
        BY <2>3, <3>1, NewDirectory DEF Grown
    <2> HIDE DEF X
    <2> QED
      BY <2>1, <2>2, <2>3, <1>1
  <1>2. ASSUME NEW f, NEW g, NEW j \in D, \A k \in -1..j - 1 : f[k] = g[k]
        PROVE  Val(f, j) = Val(g, j)
    <2>1. j # -1 => j - 1 \in -1..j - 1 /\ \A k \in 0..j - 1 : k \in -1..j - 1
      BY <1>0
    <2> QED
      BY <2>1, <1>2
  <1>3. s \in X
    BY DEF Grown
  <1> HIDE DEF Val, X
  <1>4. \A j \in D : j \in Int
    BY <1>0
  <1>5. FromBelow(D, X, G)
    <2>1. \E lo, hi \in Int : D = lo..hi
      <3>1. -1 \in Int /\ NP - 1 \in Int
        BY <1>0
      <3> QED
        BY <3>1
    <2>2. ASSUME NEW j \in D, NEW f \in [D -> X] PROVE Val(f, j) \in X
      <3>1. \A k \in -1..j - 1 : k \in D
        BY <1>0
      <3> QED
        BY <3>1, <1>1
    <2>3. ASSUME NEW j \in D, NEW f \in [D -> X], NEW g \in [D -> X],
                 \A k \in D : k < j => f[k] = g[k]
          PROVE  G[<<j, f>>] = G[<<j, g>>]
      <3>1. \A k \in -1..j - 1 : k \in D /\ k < j
        BY <1>0
      <3>2. Val(f, j) = Val(g, j)
        BY <3>1, <2>3, <1>2
      <3> QED
        BY <3>2
    <2>4. G \in [D \X [D -> X] -> X]
      BY <2>2
    <2> HIDE DEF G, D
    <2> QED
      BY <1>3, <2>1, <2>3, <2>4 DEF FromBelow
  <1>6. Solved(D, X, G)
    <2> HIDE DEF D, G
    <2> QED
      BY <1>5, Recursion
  <1>7. PICK f \in [D -> X] : f = [j \in D |-> Val(f, j)]
    BY <1>6 DEF Solved
  <1>8. V!Directories = [j \in D |-> Val(V!Directories, j)]
    BY <1>7, Zenon DEF V!Directories, Val
  <1>9. PICK v : v = V!Directories
    OBVIOUS
  <1>10. v = [j \in D |-> Val(v, j)]
    BY <1>8, <1>9
  <1> DEFINE P == {j \in D : v[j] \in X}
  <1>11. ASSUME NEW j \in D, \A k \in -1..j - 1 : k \in P PROVE j \in P
    <2>1. Val(v, j) \in X
      BY <1>1, <1>11
    <2>2. v[j] = Val(v, j)
      BY <1>10
    <2> QED
      BY <2>1, <2>2
  <1>12. \A j \in D : j \in P
    <2>1. -1 \in Int /\ NP - 1 \in Int
      BY <1>0
    <2>2. PICK lo \in Int, hi \in Int : lo = -1 /\ hi = NP - 1
      BY <2>1
    <2>3. D = lo..hi
      BY <2>2
    <2> HIDE DEF P, D
    <2>4. \A k \in lo..hi : (\A j \in lo..k - 1 : j \in P) => k \in P
      BY <1>11, <2>2, <2>3
    <2>5. \A k \in lo..hi : k \in P
      BY <2>4, IntervalInduct
    <2> QED
      BY <2>3, <2>5
  <1>13. v \in [D -> X]
    BY <1>10, <1>12
  <1> QED
    BY <1>9, <1>13 DEF X

\* One table of reserve_fixed, f being what was found before.
FixedStep(f, a, n, j) ==
  IF j = V!TabOf(a) - 1 THEN [x |-> s, end |-> "no"]
  ELSE IF f[j - 1].end # "no" THEN f[j - 1]
  ELSE V!FixedAt(a, n, f[j - 1].x, j)

FixedFun(c, a) ==
  [V!TabOf(a) - 1..NP * ND - 1 ->
     [x : Grown(c, s), end : {"no", "fail", "assert"}]]
FixedSteps(f, a, n) ==
  \A j \in V!TabOf(a) - 1..NP * ND - 1 : f[j] = FixedStep(f, a, n, j)

\* What reserve_fixed finds at the tables of the range.
LEMMA FixedGrows ==
  ASSUME NEW c \in Nat, s \in Sound(c), NEW a \in V!Pages, NEW n \in Nat
  PROVE  V!Fixed(a, n) \in FixedFun(c, a) /\ FixedSteps(V!Fixed(a, n), a, n)
  <1> DEFINE D == V!TabOf(a) - 1..NP * ND - 1
             X == [x : Grown(c, s), end : {"no", "fail", "assert"}]
             Val(f, j) == FixedStep(f, a, n, j)
             G == [q \in D \X [D -> X] |-> Val(q[2], q[1])]
  <1>0. NP * ND \in Nat /\ V!TabOf(a) \in Nat
    BY SpaceConstants, TabInRange DEF V!Tables
  <1>1. ASSUME NEW f, NEW j \in D, \A k \in V!TabOf(a) - 1..j - 1 : f[k] \in X
        PROVE  Val(f, j) \in X
    <2>1. j # V!TabOf(a) - 1 => j - 1 \in V!TabOf(a) - 1..j - 1 /\ j \in V!Tables
      BY <1>0 DEF V!Tables
    <2>2. s \in Grown(c, s)
      BY DEF Grown
    <2>3. \A y \in Grown(c, s) : \A k \in V!Tables : V!Visit(y, k) \in Grown(c, s)
      BY VisitGrows
    <2>4. CASE j = V!TabOf(a) - 1
      BY <2>2, <2>4 DEF FixedStep
    <2>5. CASE j # V!TabOf(a) - 1 /\ f[j - 1].end # "no"
      BY <2>1, <2>5, <1>1 DEF FixedStep
    <2>6. CASE j # V!TabOf(a) - 1 /\ f[j - 1].end = "no"
      <3>1. f[j - 1].x \in Grown(c, s)
        BY <2>1, <2>6, <1>1
      <3>2. PICK y \in Grown(c, s) : y = V!Visit(f[j - 1].x, j)
        BY <3>1, <2>1, <2>3, <2>6
      <3> QED
        BY <2>6, <3>2 DEF FixedStep, V!FixedAt
    <2> QED
      BY <2>4, <2>5, <2>6
  <1>2. ASSUME NEW f, NEW g, NEW j \in D, \A k \in V!TabOf(a) - 1..j - 1 : f[k] = g[k]
        PROVE  Val(f, j) = Val(g, j)
    <2>1. j # V!TabOf(a) - 1 => j - 1 \in V!TabOf(a) - 1..j - 1
      BY <1>0
    <2> QED
      BY <2>1, <1>2 DEF FixedStep
  <1>3. X # {}
    <2>1. s \in Grown(c, s)
      BY DEF Grown
    <2>2. [x |-> s, end |-> "no"] \in X
      BY <2>1
    <2> QED
      BY <2>2
  <1> HIDE DEF Val, X
  <1>4. \A j \in D : j \in Int
    BY <1>0
  <1>5. FromBelow(D, X, G)
    <2>1. \E lo, hi \in Int : D = lo..hi
      <3>1. V!TabOf(a) - 1 \in Int /\ NP * ND - 1 \in Int
        BY <1>0
      <3> QED
        BY <3>1
    <2>2. ASSUME NEW j \in D, NEW f \in [D -> X] PROVE Val(f, j) \in X
      <3>1. \A k \in V!TabOf(a) - 1..j - 1 : k \in D
        BY <1>0
      <3> QED
        BY <3>1, <1>1
    <2>3. ASSUME NEW j \in D, NEW f \in [D -> X], NEW g \in [D -> X],
                 \A k \in D : k < j => f[k] = g[k]
          PROVE  G[<<j, f>>] = G[<<j, g>>]
      <3>1. \A k \in V!TabOf(a) - 1..j - 1 : k \in D /\ k < j
        BY <1>0
      <3>2. Val(f, j) = Val(g, j)
        BY <3>1, <2>3, <1>2
      <3> QED
        BY <3>2
    <2>4. G \in [D \X [D -> X] -> X]
      BY <2>2
    <2> HIDE DEF G, D
    <2> QED
      BY <1>3, <2>1, <2>3, <2>4 DEF FromBelow
  <1>6. Solved(D, X, G)
    <2> HIDE DEF D, G
    <2> QED
      BY <1>5, Recursion
  <1>7. PICK f \in [D -> X] : f = [j \in D |-> Val(f, j)]
    BY <1>6 DEF Solved
  <1>8. PICK v : v = [j \in D |-> Val(v, j)] /\ V!Fixed(a, n) = v
    BY <1>7, Zenon DEF V!Fixed, Val, FixedStep
  <1>9. v = V!Fixed(a, n)
    BY <1>8
  <1>10. v = [j \in D |-> Val(v, j)]
    BY <1>8
  <1> DEFINE P == {j \in D : v[j] \in X}
  <1>11. ASSUME NEW j \in D, \A k \in V!TabOf(a) - 1..j - 1 : k \in P PROVE j \in P
    <2>1. Val(v, j) \in X
      BY <1>1, <1>11
    <2>2. v[j] = Val(v, j)
      BY <1>10
    <2> QED
      BY <2>1, <2>2
  <1>12. \A j \in D : j \in P
    <2>1. V!TabOf(a) - 1 \in Int /\ NP * ND - 1 \in Int
      BY <1>0
    <2>2. PICK lo \in Int, hi \in Int : lo = V!TabOf(a) - 1 /\ hi = NP * ND - 1
      BY <2>1
    <2>3. D = lo..hi
      BY <2>2
    <2> HIDE DEF P, D
    <2>4. \A k \in lo..hi : (\A j \in lo..k - 1 : j \in P) => k \in P
      BY <1>11, <2>2, <2>3
    <2>5. \A k \in lo..hi : k \in P
      BY <2>4, IntervalInduct
    <2> QED
      BY <2>3, <2>5
  <1>13. v \in [D -> X]
    BY <1>10, <1>12
  <1> QED
    BY <1>9, <1>10, <1>13 DEF X, Val, FixedFun, FixedSteps


\* Tables stay.
LEMMA VisitKeeps ==
  ASSUME NEW c \in Nat, NEW x \in Sound(c), NEW j \in V!Tables,
         NEW k \in V!Tables, x.tab[k] = "present"
  PROVE  V!Visit(x, j).tab[k] = "present"
  <1>1. PICK y : y = IF ~x.dir[V!DirOf(j)] /\ V!CanAllocate(x)
                     THEN V!new_pdt(x, j) ELSE x
    OBVIOUS
  <1>2. y \in Sound(c) /\ y.tab = x.tab
    BY <1>1, NewDirectory
  <1>3. V!Visit(x, j) = IF y.dir[V!DirOf(j)] /\ y.tab[j] = "absent"
                           /\ V!CanAllocate(y)
                        THEN V!new_pt(y, j) ELSE y
    BY <1>1 DEF V!Visit
  <1>4. CASE y.dir[V!DirOf(j)] /\ y.tab[j] = "absent" /\ V!CanAllocate(y)
    <2>1. V!new_pt(y, j).tab = [y.tab EXCEPT ![j] = "present"]
      BY <1>2, <1>4, NewTable
    <2>2. y.tab \in [V!Tables -> {"absent", "present", "bypass"}]
      BY <1>2 DEF Sound, SpaceRec
    <2> QED
      BY <1>2, <1>3, <1>4, <2>1, <2>2
  <1>5. CASE ~(y.dir[V!DirOf(j)] /\ y.tab[j] = "absent" /\ V!CanAllocate(y))
    BY <1>2, <1>3, <1>5
  <1> QED
    BY <1>4, <1>5

(* When no table refuses, all tables of the range are there and its pages  *)
(* are free.                                                               *)
LEMMA FixedIsFree ==
  ASSUME NEW c \in Nat, s \in Sound(c), NEW a \in V!Pages, NEW n \in Nat,
         NEW f \in FixedFun(c, a), FixedSteps(f, a, n)
  PROVE  \A j \in V!TabOf(a) - 1..NP * ND - 1 : f[j].end = "no" =>
           \A k \in V!TabOf(a)..j :
             /\ f[j].x.tab[k] = "present"
             /\ \A b \in V!Part(a, n, k) : s.page[b] = "free"
  <1> DEFINE lo == V!TabOf(a) - 1
             hi == NP * ND - 1
             Fine(j) == \A k \in V!TabOf(a)..j :
                          /\ f[j].x.tab[k] = "present"
                          /\ \A b \in V!Part(a, n, k) : s.page[b] = "free"
             P == {j \in lo..hi : f[j].end = "no" => Fine(j)}
  <1>0. NP * ND \in Nat /\ V!TabOf(a) \in Nat /\ lo \in Int /\ hi \in Int
    BY SpaceConstants, TabInRange DEF V!Tables
  <1>1. ASSUME NEW j \in lo..hi, \A k \in lo..j - 1 : k \in P PROVE j \in P
    <2>1. CASE j = lo
      <3>1. V!TabOf(a)..j = {}
        BY <1>0, <2>1
      <3> QED
        BY <3>1
    <2>2. CASE j # lo
      <3> SUFFICES ASSUME f[j].end = "no" PROVE Fine(j)
        OBVIOUS
      <3>1. /\ j - 1 \in lo..j - 1 /\ j \in V!Tables /\ j - 1 \in lo..hi
            /\ j \in Int
        BY <1>0, <2>2 DEF V!Tables
      <3>2. f[j] = FixedStep(f, a, n, j)
        BY DEF FixedSteps
      <3>3. f[j - 1].end = "no"
        BY <2>2, <3>2 DEF FixedStep
      <3>4. Fine(j - 1)
        BY <3>1, <3>3, <1>1
      <3>5. f[j - 1].x \in Grown(c, s) /\ f[j].x \in Grown(c, s)
        BY <3>1 DEF FixedFun
      <3>6. PICK y : y = V!Visit(f[j - 1].x, j)
        OBVIOUS
      <3>7. /\ f[j].x = y /\ y.tab[j] = "present"
            /\ \A b \in V!Part(a, n, j) : y.page[b] = "free"
        <4>1. f[j] = V!FixedAt(a, n, f[j - 1].x, j)
          BY <2>2, <3>2, <3>3 DEF FixedStep
        <4> QED
          BY <4>1, <3>6 DEF V!FixedAt
      <3>8. y.page = s.page
        BY <3>5, <3>7 DEF Grown
      <3> SUFFICES ASSUME NEW k \in V!TabOf(a)..j
                   PROVE  /\ f[j].x.tab[k] = "present"
                          /\ \A b \in V!Part(a, n, k) : s.page[b] = "free"
        OBVIOUS
      <3>9. CASE k = j
        BY <3>7, <3>8, <3>9
      <3>10. CASE k # j
        <4>1. k \in V!TabOf(a)..j - 1 /\ k \in V!Tables
          BY <1>0, <3>1, <3>10 DEF V!Tables
        <4>2. f[j - 1].x.tab[k] = "present"
          BY <3>4, <4>1
        <4>3. f[j - 1].x \in Sound(c)
          BY <3>5 DEF Grown
        <4>4. y.tab[k] = "present"
          BY <3>1, <3>6, <4>1, <4>2, <4>3, VisitKeeps
        <4> QED
          BY <3>4, <3>7, <4>1, <4>4
      <3> QED
        BY <3>9, <3>10
    <2> QED
      BY <2>1, <2>2
  <1>2. \A j \in lo..hi : j \in P
    <2> HIDE DEF P, lo, hi
    <2> QED
      BY <1>0, <1>1, IntervalInduct
  <1> QED
    BY <1>2

\* What SetPages changes.
LEMMA SetFacts ==
  ASSUME NEW x \in SpaceRec, NEW a \in Int, NEW n \in Int,
         NEW v \in V!PageState, NEW y, y = V!SetPages(x, a, n, v)
  PROVE  /\ y \in SpaceRec /\ y.dir = x.dir /\ y.tab = x.tab
         /\ y.avail = x.avail /\ y.used_pages = x.used_pages
         /\ \A b \in V!Pages : y.page[b] = IF b \in a..a + n - 1 THEN v
                                           ELSE x.page[b]
  <1>1. PICK g : g = [b \in V!Pages |-> IF b \in a..a + n - 1 THEN v
                                        ELSE x.page[b]]
    OBVIOUS
  <1>2. y = [x EXCEPT !.page = g]
    BY <1>1 DEF V!SetPages, V!R!Range
  <1>3. g \in [V!Pages -> V!PageState]
    BY <1>1 DEF SpaceRec
  <1> QED
    BY <1>1, <1>2, <1>3 DEF SpaceRec

\* The free pages of a range in tables that are there.
RangeFree(z, y, a, n) ==
  /\ a \in Nat /\ n \in Nat
  /\ \A b \in a..a + n - 1 : /\ b \in V!Pages /\ z.page[b] = "free"
                             /\ y.tab[V!TabOf(b)] = "present"

\* Free pages outside the bypassed tables.
SetFree(z, S) ==
  \A b \in S : /\ b \in V!Pages /\ z.page[b] = "free"
               /\ z.tab[V!TabOf(b)] # "bypass"

\* The space y with the pages of S kept.
KeepSet(y, S) ==
  [y EXCEPT !.page = [b \in V!Pages |-> IF b \in S THEN "kept" ELSE y.page[b]]]

\* S is what a reserve with this answer may take.
Taken(S) ==
  IF ret'.asked # 0
  THEN S = IF ret'.addr = 0 THEN {} ELSE V!R!Range(ret'.addr, ret'.n)
  ELSE \E zeros \in SUBSET {a \in V!Pages : V!Low(a) = 0} :
         IF ret'.addr = 0 THEN S = UNION {V!R!Range(a, ret'.n) : a \in zeros}
         ELSE \E a \in V!Pages :
                /\ V!Low(a) = ret'.addr
                /\ S = V!R!Range(a, ret'.n)
                         \cup UNION {V!R!Range(k, ret'.n) : k \in zeros}

\* A reserve makes tables, and takes pages that belong to its answer.
ReserveForm(c) ==
  \E y \in Grown(c, s) : \E S :
    SetFree(s, S) /\ s' = KeepSet(y, S) /\ Taken(S)

\* What KeepSet changes.
LEMMA KeepFacts ==
  ASSUME NEW x \in SpaceRec, NEW S, NEW y, y = KeepSet(x, S)
  PROVE  /\ y \in SpaceRec /\ y.dir = x.dir /\ y.tab = x.tab
         /\ y.avail = x.avail /\ y.used_pages = x.used_pages
         /\ \A b \in V!Pages : y.page[b] = IF b \in S THEN "kept" ELSE x.page[b]
  <1>1. PICK g : g = [b \in V!Pages |-> IF b \in S THEN "kept" ELSE x.page[b]]
    OBVIOUS
  <1>2. y = [x EXCEPT !.page = g]
    BY <1>1 DEF KeepSet
  <1>3. g \in [V!Pages -> V!PageState]
    BY <1>1 DEF SpaceRec, V!PageState
  <1> QED
    BY <1>1, <1>2, <1>3 DEF SpaceRec

\* A range is a set.
LEMMA RangeIsSet ==
  ASSUME NEW c \in Nat, NEW z, NEW y \in Grown(c, z), NEW a, NEW n,
         RangeFree(z, y, a, n)
  PROVE  /\ SetFree(z, V!R!Range(a, n))
         /\ V!SetPages(y, a, n, "kept") = KeepSet(y, V!R!Range(a, n))
  <1>1. ASSUME NEW b \in a..a + n - 1
        PROVE  b \in V!Pages /\ z.page[b] = "free" /\ z.tab[V!TabOf(b)] # "bypass"
    <2>1. b \in V!Pages /\ z.page[b] = "free" /\ y.tab[V!TabOf(b)] = "present"
      BY DEF RangeFree
    <2>2. V!TabOf(b) \in V!Tables
      BY <2>1, TabInRange
    <2> QED
      BY <2>1, <2>2 DEF Grown
  <1>2. V!R!Range(a, n) = a..a + n - 1
    BY DEF V!R!Range
  <1> QED
    BY <1>1, <1>2 DEF SetFree, KeepSet, V!SetPages

\* Nothing is counted for pages that are kept.
LEMMA KeptIsSound ==
  ASSUME NEW c \in Nat, NEW z, NEW y \in Grown(c, z), NEW S, SetFree(z, S)
  PROVE  KeepSet(y, S) \in Sound(c)
  <1>1. PICK w : w = KeepSet(y, S)
    OBVIOUS
  <1>2. y \in Sound(c) /\ y \in SpaceRec /\ y.page = z.page
    BY DEF Grown, Sound
  <1>3. /\ w \in SpaceRec /\ w.dir = y.dir /\ w.tab = y.tab
        /\ w.avail = y.avail /\ w.used_pages = y.used_pages
        /\ \A b \in V!Pages : w.page[b] = IF b \in S THEN "kept" ELSE y.page[b]
    BY <1>1, <1>2, KeepFacts
  <1>4. Dirs(w) = Dirs(y) /\ Tabs(w) = Tabs(y)
    BY <1>3 DEF Dirs, Tabs
  <1>5. Backing(w) = Backing(y)
    BY <1>2, <1>3 DEF Backing, V!Backed, SetFree
  <1> QED
    BY <1>1, <1>2, <1>3, <1>4, <1>5 DEF Sound

\* A place that reserve_any may take is free.
LEMMA AnyIsFree ==
  ASSUME NEW f, NEW n \in Nat \ {0}, NEW i \in V!R!AnyRange(f, n)
  PROVE  i \in Nat /\ V!R!Range(i, n) \subseteq f
  <1>1. PICK b \in V!R!Blocks(f) : i = b[1] + b[2] - n /\ b[2] >= n
    BY DEF V!R!AnyRange
  <1>2. /\ b[1] \in Nat /\ b[2] \in Nat
        /\ \A k \in b[1]..b[1] + b[2] - 1 : k \in f
    BY <1>1, TableAssumption DEF V!R!Blocks, V!R!Index
  <1>3. i \in Nat /\ b[1] <= i /\ i + n = b[1] + b[2]
    BY <1>1, <1>2
  <1> QED
    BY <1>1, <1>2, <1>3 DEF V!R!Range

\* What the remainder of a positive number gives.
LEMMA Remainder ==
  ASSUME NEW m \in Nat \ {0}, NEW x \in Nat
  PROVE  /\ x % m \in Nat /\ x % m < m
         /\ x = (x \div m) * m + (x % m)
  OBVIOUS

\* The remainder is determined by its bounds.
LEMMA RemainderUnique ==
  ASSUME NEW m \in Nat \ {0}, NEW q \in Nat, NEW r \in Nat, r < m,
         NEW x, x = q * m + r
  PROVE  x % m = r
  <1>1. x \in Nat
    OBVIOUS
  <1>2. q * m <= x /\ x < q * m + m
    OBVIOUS
  <1>3. x \div m = q
    BY <1>1, <1>2, Quotient
  <1>4. x = (x \div m) * m + (x % m) /\ x % m \in Nat
    BY <1>1, Remainder
  <1>5. PICK u \in Nat : u = q * m
    OBVIOUS
  <1> QED
    BY <1>3, <1>4, <1>5

\* The address of a page in 32 bits: the base of its table wraps, the page in
\* the table does not.
LEMMA AddressIsLow ==
  ASSUME NEW j \in V!Tables, NEW i \in V!Index
  PROVE  V!Low(j * TabPages + i) = V!Address(j, i)
  <1>1. /\ NP * ND \in Nat /\ TabPages \in Nat \ {0} /\ ND \in Nat \ {0}
        /\ Wrap \in Nat /\ Wrap >= 1 /\ j \in Nat /\ i \in Nat /\ i < TabPages
    BY SpaceConstants, SpaceAssumption DEF V!Tables, V!Index
  <1>2. PICK w \in Nat \ {0} : w = Wrap * ND
    BY <1>1
  <1>3. PICK m \in Nat \ {0} : m = w * TabPages
    BY <1>1, <1>2
  <1>4. PICK u \in Nat : u = j * TabPages
    BY <1>1
  <1>5. PICK q \in Nat, r \in Nat : q = u \div m /\ r = u % m
    BY <1>3, <1>4, Remainder, Division
  <1>6. r < m /\ u = q * m + r
    BY <1>3, <1>4, <1>5, Remainder
  <1>7. r + i < m
    <2>1. PICK k \in Int : k = j - q * w
      BY <1>1, <1>2, <1>5
    <2>2. k * TabPages = r
      <3>1. k * TabPages = j * TabPages - q * (w * TabPages)
        BY <1>1, <1>2, <1>5, <2>1
      <3>2. PICK e \in Nat : e = q * m
        BY <1>3, <1>5
      <3> QED
        BY <1>3, <1>4, <1>6, <3>1, <3>2
    <2>3. k < w
      <3>1. k * TabPages < w * TabPages
        BY <1>3, <1>6, <2>2
      <3> QED
        BY <1>1, <1>2, <2>1, <3>1
    <2>4. (k + 1) * TabPages <= w * TabPages
      BY <1>1, <1>2, <2>1, <2>3
    <2>5. (k + 1) * TabPages = r + TabPages
      BY <1>1, <2>1, <2>2
    <2> QED
      BY <1>1, <1>3, <1>5, <2>4, <2>5
  <1>8. (u + i) % m = r + i
    <2>1. PICK e \in Nat : e = q * m
      BY <1>3, <1>5
    <2>2. u + i = q * m + (r + i)
      BY <1>1, <1>4, <1>5, <1>6, <2>1
    <2> QED
      BY <1>1, <1>3, <1>5, <1>7, <2>2, RemainderUnique
  <1>9. m = Wrap * ND * TabPages
    BY <1>2, <1>3
  <1> QED
    BY <1>4, <1>5, <1>8, <1>9 DEF V!Address, V!Low

\* reserve_any
LEMMA ReserveAnyForm ==
  ASSUME NEW c \in Nat, s \in Sound(c), NEW n \in Nat \ {0}, V!reserve_any(n)
  PROVE  ReserveForm(c)
  <1>1. PICK v : v = V!Visited(s)
    OBVIOUS
  <1>2. v \in [-1..NP * ND - 1 -> Grown(c, s)]
    BY <1>1, VisitedGrows
  <1>3. NP * ND \in Nat /\ NP * ND >= 1 /\ TabPages \in Nat
    BY SpaceConstants
  <1>4. ASSUME NEW j \in V!Tables, v[j].tab[j] = "present",
               NEW i \in V!R!AnyRange(V!FreeIn(v[j], j), n)
        PROVE  /\ i \in V!Index /\ j * TabPages + i \in V!Pages
               /\ SetFree(s, V!R!Range(j * TabPages + i, n))
    <2>1. v[j] \in Grown(c, s)
      BY <1>2, <1>3 DEF V!Tables
    <2>2. i \in Nat /\ V!R!Range(i, n) \subseteq V!FreeIn(v[j], j)
      BY AnyIsFree
    <2>3. j \in Nat
      BY <1>3 DEF V!Tables
    <2>4. PICK r \in Nat : r = j * TabPages
      BY <1>3, <2>3
    <2>5. ASSUME NEW b \in r + i..r + i + n - 1
          PROVE  /\ b \in V!Pages /\ s.page[b] = "free"
                 /\ s.tab[V!TabOf(b)] # "bypass"
      <3>1. b - r \in i..i + n - 1
        BY <2>2, <2>4
      <3>2. b - r \in V!FreeIn(v[j], j)
        BY <2>2, <3>1 DEF V!R!Range
      <3>3. b - r \in V!Index /\ v[j].page[r + (b - r)] = "free"
        BY <2>4, <3>2 DEF V!FreeIn
      <3>4. r + (b - r) = b
        BY <2>2, <2>4
      <3>5. b \in V!Pages /\ V!TabOf(b) = j
        BY <2>4, <3>3, <3>4, PageOfTable
      <3> QED
        BY <1>4, <2>1, <3>3, <3>4, <3>5 DEF Grown
    <2>6. i \in V!Index
      <3>1. i \in V!R!Range(i, n)
        BY <2>2 DEF V!R!Range
      <3> QED
        BY <2>2, <3>1 DEF V!FreeIn
    <2> QED
      BY <2>4, <2>5, <2>6, PageOfTable DEF SetFree, V!R!Range
  <1> DEFINE places(j) == V!R!AnyRange(V!FreeIn(v[j], j), n)
             serves(j) == v[j].dir[V!DirOf(j)] /\ v[j].tab[j] = "present" /\ places(j) # {}
             first(lost) == {j \in V!Tables \ lost : serves(j) /\
                               \A k \in 0..j - 1 : serves(k) => k \in lost}
  <1>5. PICK lost \in SUBSET {j \in V!Tables : V!Address(j, 0) = 0 /\ serves(j)
                                               /\ 0 \in places(j)} :
          \/ \E j \in first(lost) : \E i \in places(j) :
               /\ V!Address(j, i) # 0
               /\ s' = V!SetPages(V!KeepStarts(v[j], lost, n),
                                  j * TabPages + i, n, "kept")
               /\ V!Found(V!Address(j, i), n)
          \/ /\ s' = V!KeepStarts(v[NP * ND - 1], lost, n)
             /\ V!Found(0, n)
    BY <1>1 DEF V!reserve_any
  <1>6. PICK zeros : zeros = {j * TabPages : j \in lost}
    OBVIOUS
  <1>7. PICK gone : gone = UNION {V!R!Range(a, n) : a \in zeros}
    OBVIOUS
  <1>8. ASSUME NEW j \in lost
        PROVE  /\ j * TabPages \in V!Pages /\ V!Low(j * TabPages) = 0
               /\ SetFree(s, V!R!Range(j * TabPages, n))
    <2>1. j \in V!Tables /\ v[j].tab[j] = "present" /\ 0 \in places(j)
          /\ V!Address(j, 0) = 0
      BY <1>5
    <2>2. 0 \in V!Index /\ j * TabPages + 0 \in V!Pages
          /\ SetFree(s, V!R!Range(j * TabPages + 0, n))
      BY <2>1, <1>4
    <2>3. V!Low(j * TabPages + 0) = 0
      BY <2>1, <2>2, AddressIsLow
    <2>4. j \in Nat /\ j * TabPages + 0 = j * TabPages
      BY <1>3, <2>1 DEF V!Tables
    <2> QED
      BY <2>2, <2>3, <2>4
  <1>9. zeros \in SUBSET {a \in V!Pages : V!Low(a) = 0} /\ SetFree(s, gone)
    <2>1. \A a \in zeros : a \in V!Pages /\ V!Low(a) = 0 /\ SetFree(s, V!R!Range(a, n))
      BY <1>6, <1>8
    <2> QED
      BY <1>7, <2>1 DEF SetFree
  <1>10. ASSUME NEW x PROVE V!KeepStarts(x, lost, n) = KeepSet(x, gone)
    <2>1. \A b : (\E j \in lost : b \in V!R!Range(j * TabPages, n)) <=> b \in gone
      BY <1>6, <1>7
    <2> QED
      BY <2>1 DEF V!KeepStarts, KeepSet
  <1> HIDE DEF places, serves, first
  <1>11. CASE s' = V!KeepStarts(v[NP * ND - 1], lost, n) /\ V!Found(0, n)
    <2>1. v[NP * ND - 1] \in Grown(c, s)
      BY <1>2, <1>3
    <2>2. s' = KeepSet(v[NP * ND - 1], gone)
      BY <1>10, <1>11
    <2>3. ret'.asked = 0 /\ ret'.addr = 0 /\ ret'.n = n
      BY <1>11 DEF V!Found
    <2>4. Taken(gone)
      BY <1>7, <1>9, <2>3 DEF Taken
    <2> QED
      BY <1>9, <2>1, <2>2, <2>4 DEF ReserveForm
  <1>12. ASSUME NEW j \in first(lost), NEW i \in places(j), V!Address(j, i) # 0,
                s' = V!SetPages(V!KeepStarts(v[j], lost, n),
                                j * TabPages + i, n, "kept"),
                V!Found(V!Address(j, i), n)
         PROVE  ReserveForm(c)
    <2>1. j \in V!Tables /\ v[j].tab[j] = "present"
      BY DEF first, serves
    <2>2. v[j] \in Grown(c, s)
      BY <1>2, <1>3, <2>1 DEF V!Tables
    <2>3. /\ i \in V!Index /\ j * TabPages + i \in V!Pages
          /\ SetFree(s, V!R!Range(j * TabPages + i, n))
      BY <1>4, <1>12, <2>1 DEF places
    <2>4. PICK a \in V!Pages : a = j * TabPages + i
      BY <2>3
    <2>5. V!Low(a) = V!Address(j, i)
      BY <2>1, <2>3, <2>4, AddressIsLow
    <2>6. PICK S : S = V!R!Range(a, n) \cup gone
      OBVIOUS
    <2>7. SetFree(s, S)
      BY <1>9, <2>3, <2>4, <2>6 DEF SetFree
    <2>8. s' = KeepSet(v[j], S)
      <3>1. PICK y : y = v[j]
        OBVIOUS
      <3>2. y \in SpaceRec
        BY <2>2, <3>1 DEF Grown, Sound
      <3>3. PICK z : z = KeepSet(y, gone)
        OBVIOUS
      <3>4. s' = V!SetPages(z, a, n, "kept")
        BY <1>10, <1>12, <2>4, <3>1, <3>3
      <3>5. z = [y EXCEPT !.page = z.page]
            /\ \A b \in V!Pages : z.page[b] = IF b \in gone THEN "kept" ELSE y.page[b]
        BY <3>2, <3>3 DEF KeepSet, SpaceRec
      <3>6. [b \in V!Pages |-> IF b \in V!R!Range(a, n) THEN "kept" ELSE z.page[b]]
              = [b \in V!Pages |-> IF b \in S THEN "kept" ELSE y.page[b]]
        BY <2>6, <3>5
      <3>7. s' = [z EXCEPT !.page = [b \in V!Pages |->
                    IF b \in V!R!Range(a, n) THEN "kept" ELSE z.page[b]]]
        BY <3>4 DEF V!SetPages
      <3>8. PICK g : g = [b \in V!Pages |-> IF b \in S THEN "kept" ELSE y.page[b]]
        OBVIOUS
      <3>9. s' = [z EXCEPT !.page = g]
        BY <3>6, <3>7, <3>8
      <3>10. [z EXCEPT !.page = g] = [y EXCEPT !.page = g]
        BY <3>2, <3>3 DEF KeepSet, SpaceRec
      <3> QED
        BY <3>1, <3>8, <3>9, <3>10 DEF KeepSet
    <2>9. ret'.asked = 0 /\ ret'.addr = V!Address(j, i) /\ ret'.n = n
      BY <1>12 DEF V!Found
    <2>10. Taken(S)
      BY <1>7, <1>9, <1>12, <2>5, <2>6, <2>9 DEF Taken
    <2> QED
      BY <2>2, <2>7, <2>8, <2>10 DEF ReserveForm
  <1> QED
    BY <1>5, <1>11, <1>12

\* Keeping no page changes nothing.
LEMMA KeepNothing ==
  ASSUME NEW c \in Nat, NEW z, NEW y \in Grown(c, z) PROVE y = KeepSet(y, {})
  <1>1. y \in SpaceRec
    BY DEF Grown, Sound
  <1>2. [b \in V!Pages |-> IF b \in {} THEN "kept" ELSE y.page[b]] = y.page
    BY <1>1 DEF SpaceRec
  <1>3. [y EXCEPT !.page = y.page] = y
    BY <1>1 DEF SpaceRec
  <1> QED
    BY <1>2, <1>3 DEF KeepSet

\* reserve_fixed
LEMMA ReserveFixedForm ==
  ASSUME NEW c \in Nat, s \in Sound(c), NEW a \in V!Pages, NEW n \in Nat,
         V!InSpace(a, n), V!reserve_fixed(a, n)
  PROVE  ReserveForm(c)
  <1>1. PICK f : f = V!Fixed(a, n)
    OBVIOUS
  <1>2. f \in FixedFun(c, a) /\ FixedSteps(f, a, n)
    BY <1>1, FixedGrows
  <1>3. /\ n >= 1 /\ a \in Nat /\ a + n - 1 \in V!Pages
        /\ \A b \in a..a + n - 1 : b \in V!Pages
    BY SpaceConstants DEF V!InSpace, V!Pages
  <1>4. TabPages \in Nat \ {0} /\ NP * ND \in Nat
    BY SpaceConstants
  <1>5. PICK lst : lst = V!TabOf(a + n - 1)
    OBVIOUS
  <1>6. lst \in V!Tables /\ V!TabOf(a) \in V!Tables /\ V!TabOf(a) <= lst
    <2>1. a + n - 1 \in Nat /\ a <= a + n - 1
      BY <1>3
    <2>2. V!TabOf(a) <= lst
      BY <1>3, <1>4, <1>5, <2>1, DivisionMonotone DEF V!TabOf
    <2> QED
      BY <1>3, <1>5, <2>2, TabInRange
  <1>7. lst \in V!TabOf(a) - 1..NP * ND - 1
    BY <1>4, <1>6 DEF V!Tables
  <1>8. f[lst].x \in Grown(c, s)
    BY <1>2, <1>7 DEF FixedFun
  <1>9. CASE f[lst].end # "no"
    <2>1. s' = f[lst].x /\ ret'.addr = 0 /\ ret'.asked # 0
      BY <1>1, <1>5, <1>9 DEF V!reserve_fixed, V!InSpace
    <2>2. s' = KeepSet(f[lst].x, {})
      BY <1>8, <2>1, KeepNothing
    <2>3. SetFree(s, {}) /\ Taken({})
      BY <2>1 DEF SetFree, Taken
    <2> QED
      BY <1>8, <2>2, <2>3 DEF ReserveForm
  <1>10. CASE f[lst].end = "no"
    <2>1. s' = V!SetPages(f[lst].x, a, n, "kept")
          /\ ret' = [ok |-> TRUE, addr |-> a, n |-> n, asked |-> a] /\ a # 0
      BY <1>1, <1>5, <1>10 DEF V!reserve_fixed, V!InSpace
    <2>2. \A k \in V!TabOf(a)..lst :
            /\ f[lst].x.tab[k] = "present"
            /\ \A b \in V!Part(a, n, k) : s.page[b] = "free"
      BY <1>2, <1>7, <1>10, FixedIsFree
    <2>3. ASSUME NEW b \in a..a + n - 1
          PROVE  /\ b \in V!Pages /\ s.page[b] = "free"
                 /\ f[lst].x.tab[V!TabOf(b)] = "present"
      <3>1. b \in V!Pages
        BY <1>3
      <3>2. PICK q \in V!Tables : /\ q = V!TabOf(b)
                                  /\ q * TabPages <= b
                                  /\ b < q * TabPages + TabPages
        BY <3>1, TabInRange
      <3>3. b \in Nat /\ a <= b /\ b <= a + n - 1 /\ a + n - 1 \in Nat
        BY <1>3
      <3>4. V!TabOf(a) <= q /\ q <= lst
        BY <1>3, <1>4, <1>5, <3>2, <3>3, DivisionMonotone DEF V!TabOf
      <3>5. q \in V!TabOf(a)..lst
        BY <1>6, <1>4, <3>2, <3>4 DEF V!Tables
      <3>6. b \in V!Part(a, n, q)
        <4>1. PICK r \in Nat : r = q * TabPages
          BY <1>4, <3>2 DEF V!Tables
        <4>2. b \in r..r + TabPages - 1
          BY <1>4, <3>2, <3>3, <4>1
        <4> QED
          BY <4>1, <4>2 DEF V!Part, V!R!Range
      <3> QED
        BY <2>2, <3>1, <3>2, <3>5, <3>6
    <2>4. RangeFree(s, f[lst].x, a, n)
      BY <1>3, <2>3 DEF RangeFree
    <2>5. /\ SetFree(s, V!R!Range(a, n))
          /\ s' = KeepSet(f[lst].x, V!R!Range(a, n))
      BY <1>8, <2>1, <2>4, RangeIsSet
    <2>6. Taken(V!R!Range(a, n))
      BY <2>1 DEF Taken
    <2> QED
      BY <1>8, <2>5, <2>6 DEF ReserveForm
  <1> QED
    BY <1>9, <1>10

MadeFrom(y, T, x, w) ==
  /\ T \subseteq {j \in V!Tables : y.tab[j] = "absent"}
  /\ V!CanReserve(y, Cardinality(T))
  /\ x = V!TakePages(y, Cardinality(T))
  /\ w = [x EXCEPT !.tab = [j \in V!Tables |->
                              IF j \in T THEN "present" ELSE x.tab[j]]]

Made(c, z, y, T, w) ==
  /\ w \in Grown(c, z)
  /\ \A j \in V!Tables : w.tab[j] = IF j \in T THEN "present" ELSE y.tab[j]

(* The tables that reserve_big makes: w has those of y and the missing     *)
(* ones, which are counted.                                                *)
LEMMA TablesMade ==
  ASSUME NEW c \in Nat, NEW z, NEW y \in Grown(c, z), NEW T, NEW x, NEW w,
         MadeFrom(y, T, x, w)
  PROVE  Made(c, z, y, T, w)
  <1>0. IsFiniteSet(T) /\ Cardinality(T) \in Nat
    <2>1. T \subseteq V!Tables
      BY DEF MadeFrom
    <2> QED
      BY <2>1, BooksFinite, FS_Subset, FS_CardinalityType
  <1>1. /\ y \in Sound(c) /\ y \in SpaceRec /\ y.page = z.page
        /\ \A k \in V!Tables : y.tab[k] = "bypass" <=> z.tab[k] = "bypass"
    BY DEF Grown, Sound
  <1>2. PICK k \in Nat : k = Cardinality(T)
    BY <1>0
  <1>3. /\ x \in SpaceRec /\ x.dir = y.dir /\ x.tab = y.tab /\ x.page = y.page
        /\ x.avail = y.avail - k /\ x.used_pages = y.used_pages + k
    BY <1>1, <1>2, TakeFacts DEF MadeFrom
  <1>4. PICK g : g = [j \in V!Tables |-> IF j \in T THEN "present" ELSE x.tab[j]]
    OBVIOUS
  <1>5. g \in [V!Tables -> {"absent", "present", "bypass"}]
    BY <1>3, <1>4 DEF SpaceRec
  <1>6. /\ w \in SpaceRec /\ w.dir = y.dir /\ w.page = y.page /\ w.tab = g
        /\ w.avail = y.avail - k /\ w.used_pages = y.used_pages + k
    <2>1. w = [x EXCEPT !.tab = g]
      BY <1>4 DEF MadeFrom
    <2> QED
      BY <1>3, <1>5, <2>1 DEF SpaceRec
  <1>7. \A j \in V!Tables : w.tab[j] = IF j \in T THEN "present" ELSE y.tab[j]
    BY <1>3, <1>4, <1>6
  <1>8. Tabs(w) = Tabs(y) \cup T /\ Tabs(y) \cap T = {}
    BY <1>7 DEF Tabs, MadeFrom
  <1>9. Dirs(w) = Dirs(y) /\ Backing(w) = Backing(y)
    BY <1>6 DEF Dirs, Backing
  <1>10. /\ Cardinality(Dirs(y)) \in Nat /\ Cardinality(Tabs(y)) \in Nat
         /\ Cardinality(Backing(y)) \in Nat /\ IsFiniteSet(Tabs(y))
    BY BooksFinite
  <1>11. Cardinality(Tabs(w)) = Cardinality(Tabs(y)) + k
    <2>1. Cardinality(Tabs(y) \cup T) =
            Cardinality(Tabs(y)) + Cardinality(T) - Cardinality(Tabs(y) \cap T)
      BY <1>0, <1>10, FS_Union
    <2>2. Cardinality(Tabs(y) \cap T) = 0
      BY <1>8, FS_EmptySet
    <2> QED
      <3>1. Cardinality(Tabs(w)) = Cardinality(Tabs(y) \cup T)
        BY <1>8
      <3> QED
        BY <2>1, <2>2, <3>1, <1>2, <1>10
  <1>12. y.avail \in Int /\ y.used_pages \in Int /\ Spare \in Nat /\ Phys \in Nat
    BY <1>1, SpaceConstants DEF SpaceRec
  <1>13. y.avail > k + Spare
    BY <1>2 DEF V!CanReserve, MadeFrom
  <1>14. /\ y.avail + y.used_pages = Phys
         /\ y.used_pages = c + Cardinality(Dirs(y)) + Cardinality(Tabs(y))
                             + Cardinality(Backing(y))
    BY <1>1 DEF Sound
  <1>15. /\ w.avail + w.used_pages = Phys /\ w.avail >= Spare
         /\ w.used_pages = c + Cardinality(Dirs(w)) + Cardinality(Tabs(w))
                             + Cardinality(Backing(w))
    BY <1>6, <1>9, <1>10, <1>11, <1>12, <1>13, <1>14
  <1>16. w \in Sound(c)
    BY <1>6, <1>15 DEF Sound
  <1>17. /\ w.page = z.page
         /\ \A j \in V!Tables : w.tab[j] = "bypass" <=> z.tab[j] = "bypass"
    BY <1>1, <1>6, <1>7 DEF MadeFrom
  <1>18. w \in Grown(c, z)
    BY <1>16, <1>17 DEF Grown
  <1> QED
    BY <1>7, <1>18 DEF Made

\* The pages of as many tables as a request needs.
LEMMA PagesOfRun ==
  ASSUME NEW n \in Nat \ {0}, NEW need, need = (n + TabPages - 1) \div TabPages,
         NEW base \in Nat, base + need <= NP * ND,
         NEW b \in base * TabPages..base * TabPages + n - 1
  PROVE  b \in V!Pages /\ V!TabOf(b) \in base..base + need - 1
  <1>1. TabPages \in Nat \ {0} /\ TabPages >= 1 /\ NP * ND \in Nat
    BY SpaceConstants
  <1>2. /\ need \in Nat /\ n + TabPages - 1 < need * TabPages + TabPages
    BY <1>1, Division
  <1>3. PICK r \in Nat, q \in Nat, k \in Nat :
          r = base * TabPages /\ q = need * TabPages /\ k = NP * ND
    BY <1>1, <1>2
  <1>4. b \in Nat /\ r <= b /\ b < r + q
    BY <1>1, <1>2, <1>3
  <1>5. (base + need) * TabPages = r + q
    BY <1>1, <1>2, <1>3
  <1>6. (base + need) * TabPages <= k * TabPages
    BY <1>1, <1>2, <1>3
  <1>7. b \in V!Pages
    BY <1>1, <1>3, <1>4, <1>5, <1>6 DEF V!Pages
  <1>8. b \div TabPages < base + need
    <2>1. PICK u \in Nat : u = base + need
      BY <1>2
    <2>2. b < u * TabPages
      BY <1>4, <1>5, <2>1
    <2>3. b \div TabPages < u
      BY <1>1, <1>4, <2>1, <2>2, Below
    <2> QED
      BY <2>1, <2>3
  <1>9. b \div TabPages >= base
    <2>1. r \div TabPages = base
      BY <1>1, <1>3, Quotient
    <2>2. r \div TabPages <= b \div TabPages
      BY <1>1, <1>4, DivisionMonotone
    <2> QED
      BY <2>1, <2>2
  <1>10. b \div TabPages \in Nat
    BY <1>1, <1>4, Division
  <1> QED
    BY <1>2, <1>7, <1>8, <1>9, <1>10 DEF V!TabOf

\* reserve_big
LEMMA ReserveBigForm ==
  ASSUME NEW c \in Nat, s \in Sound(c), NEW n \in Nat \ {0}, V!reserve_big(n)
  PROVE  ReserveForm(c)
  <1> DEFINE dirs == V!Directories
             need == (n + TabPages - 1) \div TabPages
             Empty(x, j) == x.tab[j] # "bypass" /\ V!FreeIn(x, j) = V!Index
             runs(p) == {d \in 0..ND - need : \A k \in d..d + need - 1 :
                                                Empty(dirs[p], p * ND + k)}
             base(p) == p * ND + (CHOOSE d \in runs(p) :
                                    \A k \in runs(p) : d <= k)
             missing(p) == {j \in V!R!Range(base(p), need) :
                              dirs[p].tab[j] = "absent"}
             x(p) == V!TakePages(dirs[p], V!Cardinality(missing(p)))
             w(p) == [x(p) EXCEPT !.tab = [j \in V!Tables |->
                        IF j \in missing(p) THEN "present" ELSE x(p).tab[j]]]
  <1>1. dirs \in [-1..NP - 1 -> Grown(c, s)]
    BY DirectoriesGrow
  <1>2. NP \in Nat /\ NP >= 1 /\ ND \in Nat /\ ND >= 1
        /\ TabPages \in Nat \ {0} /\ TabPages >= 1
    BY SpaceConstants
  <1>3. CASE s' = dirs[NP - 1] /\ V!Found(0, n)
    <2>1. dirs[NP - 1] \in Grown(c, s)
      BY <1>1, <1>2
    <2>2. s' = KeepSet(dirs[NP - 1], {})
      BY <1>3, <2>1, KeepNothing
    <2>3. ret'.addr = 0 /\ ret'.asked = 0
      BY <1>3 DEF V!Found
    <2>4. SetFree(s, {})
      BY DEF SetFree
    <2>5. Taken({})
      <3>1. {} = UNION {V!R!Range(a, ret'.n) : a \in {}}
        OBVIOUS
      <3> QED
        BY <2>3, <3>1 DEF Taken
    <2> HIDE DEF dirs
    <2> QED
      BY <2>1, <2>2, <2>4, <2>5 DEF ReserveForm
  <1>4. ASSUME NEW p \in 0..NP - 1, runs(p) # {},
               V!CanReserve(dirs[p], V!Cardinality(missing(p))),
               s' = V!SetPages(w(p), base(p) * TabPages, n, "kept"),
               V!Found(V!Address(base(p), 0), n)
        PROVE  ReserveForm(c)
    <2>1. PICK y \in Grown(c, s) : y = dirs[p]
      BY <1>1, <1>2
    <2>2. need \in Nat
      BY <1>2, Division
    <2>3. PICK nd \in Nat : nd = need
      BY <2>2
    <2>4. PICK d \in runs(p) : base(p) = p * ND + d
      <3>1. runs(p) \subseteq Nat
        BY <1>2, <2>2
      <3>2. \E d \in runs(p) : \A k \in runs(p) : d <= k
        <4> HIDE DEF runs
        <4> QED
          BY <3>1, <1>4, Least
      <3> HIDE DEF runs
      <3> QED
        BY <3>2
    <2>5. /\ d \in Nat /\ d + nd <= ND
          /\ \A k \in d..d + nd - 1 : Empty(y, p * ND + k)
      BY <2>1, <2>2, <2>3, <2>4, <1>2
    <2>6. PICK bs \in Nat : bs = base(p) /\ bs = p * ND + d
      <3>1. p * ND + d \in Nat
        BY <1>2, <2>5
      <3> HIDE DEF base
      <3> QED
        BY <2>4, <3>1
    <2>7. bs + nd <= NP * ND
      <3>1. p \in Nat /\ p + 1 <= NP
        BY <1>2
      <3>2. (p + 1) * ND <= NP * ND
        BY <1>2, <3>1
      <3>3. PICK u \in Nat : u = p * ND
        BY <1>2, <3>1
      <3>4. (p + 1) * ND = u + ND
        BY <1>2, <3>1, <3>3
      <3> QED
        BY <1>2, <2>5, <2>6, <3>2, <3>3, <3>4
    <2>8. NP * ND \in Nat
      BY SpaceConstants
    <2>9. \A j \in bs..bs + nd - 1 : j \in V!Tables /\ Empty(y, j)
      <3> SUFFICES ASSUME NEW j \in bs..bs + nd - 1
                   PROVE  j \in V!Tables /\ Empty(y, j)
        OBVIOUS
      <3>1. PICK u \in Nat : u = p * ND
        BY <1>2
      <3>2. j - u \in d..d + nd - 1 /\ u + (j - u) = j
        BY <2>5, <2>6, <3>1
      <3>3. j \in V!Tables
        BY <2>7, <2>8, <2>6 DEF V!Tables
      <3> HIDE DEF Empty
      <3> QED
        BY <2>5, <3>1, <3>2, <3>3
    <2>10. PICK T : T = missing(p)
      OBVIOUS
    <2>11. T = {j \in bs..bs + nd - 1 : y.tab[j] = "absent"}
      BY <2>1, <2>3, <2>6, <2>10 DEF V!R!Range
    <2>12. PICK ww : ww = w(p)
      OBVIOUS
    <2>13. /\ ww \in Grown(c, s)
           /\ \A j \in V!Tables : ww.tab[j] = IF j \in T THEN "present"
                                              ELSE y.tab[j]
      <3>1. T \subseteq {j \in V!Tables : y.tab[j] = "absent"}
        BY <2>9, <2>11
      <3>2. V!CanReserve(y, Cardinality(T))
        BY <1>4, <2>1, <2>10, SameCount
      <3>3. PICK xx : xx = V!TakePages(y, Cardinality(T))
        OBVIOUS
      <3>4. ww = [xx EXCEPT !.tab = [j \in V!Tables |->
                       IF j \in T THEN "present" ELSE xx.tab[j]]]
        <4>1. xx = x(p)
          BY <2>1, <2>10, <3>3, SameCount
        <4> HIDE DEF x, missing
        <4> QED
          BY <2>10, <2>12, <4>1
      <3> HIDE DEF w, x, missing, base, runs, need, dirs, Empty
      <3>5. MadeFrom(y, T, xx, ww)
        BY <3>1, <3>2, <3>3, <3>4 DEF MadeFrom
      <3>6. Made(c, s, y, T, ww)
        BY <3>5, TablesMade
      <3> QED
        BY <3>6 DEF Made
    <2>14. PICK r \in Nat : r = bs * TabPages
      BY <1>2
    <2>15. ASSUME NEW b \in r..r + n - 1
           PROVE  /\ b \in V!Pages /\ s.page[b] = "free"
                  /\ ww.tab[V!TabOf(b)] = "present"
      <3>1. b \in V!Pages /\ V!TabOf(b) \in bs..bs + nd - 1
        <4>1. /\ nd = (n + TabPages - 1) \div TabPages
              /\ b \in bs * TabPages..bs * TabPages + n - 1
          BY <2>3, <2>14
        <4> QED
          BY <4>1, <2>7, PagesOfRun
      <3>2. PICK j \in bs..bs + nd - 1 : j = V!TabOf(b)
        BY <3>1
      <3>3. j \in V!Tables /\ y.tab[j] # "bypass" /\ V!FreeIn(y, j) = V!Index
        BY <2>9
      <3>4. b - j * TabPages \in V!Index
        BY <3>1, <3>2, TabInRange
      <3>5. y.page[b] = "free"
        <4>1. PICK u \in Nat : u = j * TabPages
          BY <1>2, <3>3, <2>8 DEF V!Tables
        <4>2. b - u \in V!FreeIn(y, j)
          BY <3>3, <3>4, <4>1
        <4>3. y.page[u + (b - u)] = "free"
          BY <4>1, <4>2 DEF V!FreeIn
        <4>4. b \in Nat
          BY <3>1, TabInRange
        <4> QED
          BY <4>1, <4>3, <4>4
      <3>6. ww.tab[j] = "present"
        <4>1. y.tab[j] \in {"absent", "present", "bypass"}
          BY <3>3 DEF Grown, Sound, SpaceRec
        <4> QED
          BY <2>11, <2>13, <3>3, <4>1
      <3> QED
        BY <3>1, <3>2, <3>5, <3>6 DEF Grown
    <2>16. RangeFree(s, ww, r, n)
      BY <2>15 DEF RangeFree
    <2>17. r \in V!Pages /\ V!Low(r) = ret'.addr
      <3>1. bs \in V!Tables
        <4>1. nd >= 1
          <5>1. n + TabPages - 1 < nd * TabPages + TabPages
            BY <1>2, <2>3, Division
          <5> QED
            BY <1>2, <2>3, <5>1
        <4> QED
          BY <2>7, <2>8, <4>1 DEF V!Tables
      <3>2. 0 \in V!Index /\ bs * TabPages + 0 = r
        BY <1>2, <2>14 DEF V!Index
      <3>3. V!Low(r) = V!Address(bs, 0) /\ r \in V!Pages
        BY <3>1, <3>2, AddressIsLow, PageOfTable
      <3>4. ret'.addr = V!Address(bs, 0)
        <4> HIDE DEF base
        <4> QED
          BY <1>4, <2>6 DEF V!Found
      <3> QED
        BY <3>3, <3>4
    <2>18. /\ s' = V!SetPages(ww, r, n, "kept")
           /\ ret'.asked = 0 /\ ret'.n = n
      BY <1>4, <2>6, <2>12, <2>14 DEF V!Found
    <2> HIDE DEF w, x, missing, base, runs, need, dirs, Empty
    <2>19. /\ SetFree(s, V!R!Range(r, n))
           /\ s' = KeepSet(ww, V!R!Range(r, n))
      BY <2>13, <2>16, <2>18, RangeIsSet
    <2>20. Taken(V!R!Range(r, n))
      <3>1. CASE ret'.addr = 0
        <4>1. {r} \in SUBSET {a \in V!Pages : V!Low(a) = 0}
          BY <2>17, <3>1
        <4>2. V!R!Range(r, ret'.n) = UNION {V!R!Range(a, ret'.n) : a \in {r}}
          OBVIOUS
        <4> QED
          BY <2>18, <3>1, <4>1, <4>2 DEF Taken
      <3>2. CASE ret'.addr # 0
        <4>1. V!R!Range(r, ret'.n) = V!R!Range(r, ret'.n)
                                       \cup UNION {V!R!Range(k, ret'.n) : k \in {}}
          OBVIOUS
        <4> QED
          BY <2>17, <2>18, <3>2, <4>1 DEF Taken
      <3> QED
        BY <3>1, <3>2
    <2> QED
      BY <2>13, <2>19, <2>20 DEF ReserveForm
  <1> QED
    BY <1>3, <1>4 DEF V!reserve_big

\* Every reserve has this form.
LEMMA ReserveHasForm ==
  ASSUME NEW c \in Nat, s \in Sound(c), NEW a \in V!Pages, NEW n \in Nat \ {0},
         V!Reserve(a, n)
  PROVE  ReserveForm(c)
  BY ReserveAnyForm, ReserveFixedForm, ReserveBigForm DEF V!Reserve

\* The pages that a space has apart from those that it counts one by one.
Own == IF kind = "user" THEN 2 ELSE 0

\* A call sets pages, none of which is a device page, to v.
PageStep(S, v) ==
  /\ \A b \in V!Pages : s'.page[b] = IF b \in S THEN v ELSE s.page[b]
  /\ \A b \in S : /\ b \in V!Pages /\ s.page[b] # "mapped"
                  /\ s.page[b] = "guard" => v = "mapped"
                  /\ s.tab[V!TabOf(b)] # "bypass"
  /\ v = "mapped" => kind = "kernel"
  /\ v # "guard"
  /\ \A j \in V!Tables : s'.tab[j] = "bypass" <=> s.tab[j] = "bypass"

\* A live space after a call.
Kept ==
  /\ s' \in Sound(Own)
  /\ \E S : \E v \in V!PageState : PageStep(S, v)

\* reserve
LEMMA ReserveKept ==
  ASSUME s \in Sound(Own), NEW a \in V!Pages, NEW n \in Nat \ {0},
         V!Reserve(a, n)
  PROVE  Kept
  <1>1. Own \in Nat
    BY DEF Own
  <1>2. PICK y, S : y \in Grown(Own, s) /\ SetFree(s, S) /\ s' = KeepSet(y, S)
    BY <1>1, ReserveHasForm DEF ReserveForm
  <1>3. /\ y \in Sound(Own) /\ y \in SpaceRec /\ y.page = s.page
        /\ \A j \in V!Tables : y.tab[j] = "bypass" <=> s.tab[j] = "bypass"
    BY <1>2 DEF Grown, Sound
  <1>4. s' \in Sound(Own)
    BY <1>1, <1>2, KeptIsSound
  <1>5. /\ s'.tab = y.tab
        /\ \A b \in V!Pages : s'.page[b] = IF b \in S THEN "kept" ELSE y.page[b]
    BY <1>2, <1>3, KeepFacts
  <1>6. PageStep(S, "kept")
    BY <1>2, <1>3, <1>5 DEF PageStep, SetFree
  <1> QED
    BY <1>4, <1>6 DEF Kept, V!PageState

\* The pages that the other calls are about.
LEMMA AllFacts ==
  ASSUME NEW a \in V!Pages, NEW n \in Nat \ {0}, NEW S, V!All(a, n, S)
  PROVE  /\ a \in Nat
         /\ \A b \in a..a + n - 1 : /\ b \in V!Pages /\ s.page[b] \in S
                                    /\ s.tab[V!TabOf(b)] = "present"
  BY SpaceConstants DEF V!All, V!InSpace, V!Pages, V!R!Range

\* protect and assign
LEMMA MarkKept ==
  ASSUME s \in Sound(Own), NEW a \in V!Pages, NEW n \in Nat \ {0}, NEW S, NEW v,
         V!All(a, n, S), s' = V!SetPages(s, a, n, v),
         \/ S = V!Backed /\ v \in V!Backed
         \/ S = {"kept", "guard"} /\ v = "mapped" /\ kind = "kernel"
  PROVE  Kept
  <1>1. /\ a \in Nat
        /\ \A b \in a..a + n - 1 : /\ b \in V!Pages /\ s.page[b] \in S
                                   /\ s.tab[V!TabOf(b)] = "present"
    BY AllFacts
  <1>2. PICK w : w = s'
    OBVIOUS
  <1>3. s \in SpaceRec
    BY DEF Sound
  <1>4. v \in V!PageState
    BY DEF V!Backed, V!PageState
  <1>5. /\ w \in SpaceRec /\ w.dir = s.dir /\ w.tab = s.tab
        /\ w.avail = s.avail /\ w.used_pages = s.used_pages
        /\ \A b \in V!Pages : w.page[b] = IF b \in a..a + n - 1 THEN v
                                          ELSE s.page[b]
    BY <1>1, <1>2, <1>3, <1>4, SetFacts
  <1>6. Dirs(w) = Dirs(s) /\ Tabs(w) = Tabs(s)
    BY <1>5 DEF Dirs, Tabs
  <1>7. Backing(w) = Backing(s)
    BY <1>1, <1>5 DEF Backing, V!Backed
  <1>8. w \in Sound(Own)
    BY <1>5, <1>6, <1>7 DEF Sound
  <1>9. PageStep(a..a + n - 1, v)
    BY <1>1, <1>2, <1>5 DEF PageStep, V!Backed
  <1> QED
    BY <1>1, <1>2, <1>4, <1>8, <1>9 DEF Kept

(* commit and release: the pages with memory become those of w, and the    *)
(* counters follow.                                                        *)
LEMMA CountKept ==
  ASSUME s \in Sound(Own), NEW w \in SpaceRec, NEW k \in Int,
         w.dir = s.dir, w.tab = s.tab,
         w.avail = s.avail - k, w.used_pages = s.used_pages + k,
         Cardinality(Backing(w)) = Cardinality(Backing(s)) + k,
         s.avail - k >= Spare
  PROVE  w \in Sound(Own)
  <1>1. Dirs(w) = Dirs(s) /\ Tabs(w) = Tabs(s)
    BY DEF Dirs, Tabs
  <1>2. /\ Cardinality(Dirs(s)) \in Nat /\ Cardinality(Tabs(s)) \in Nat
        /\ Cardinality(Backing(s)) \in Nat
    BY BooksFinite
  <1>3. s.avail \in Int /\ s.used_pages \in Int /\ Spare \in Nat /\ Phys \in Nat
        /\ Own \in Nat
    BY SpaceConstants DEF Sound, SpaceRec, Own
  <1>4. /\ s.avail + s.used_pages = Phys
        /\ s.used_pages = Own + Cardinality(Dirs(s)) + Cardinality(Tabs(s))
                              + Cardinality(Backing(s))
    BY DEF Sound
  <1>5. /\ w.avail + w.used_pages = Phys /\ w.avail >= Spare
        /\ w.used_pages = Own + Cardinality(Dirs(w)) + Cardinality(Tabs(w))
                              + Cardinality(Backing(w))
    BY <1>1, <1>2, <1>3, <1>4
  <1> QED
    BY <1>5 DEF Sound

\* commit
LEMMA CommitKept ==
  ASSUME s \in Sound(Own), NEW a \in V!Pages, NEW n \in Nat \ {0},
         V!Commit(a, n)
  PROVE  Kept
  <1>1. /\ a \in Nat
        /\ \A b \in a..a + n - 1 : /\ b \in V!Pages /\ s.page[b] = "kept"
                                   /\ s.tab[V!TabOf(b)] = "present"
    BY AllFacts DEF V!Commit
  <1>2. PICK x, w : x = V!SetPages(s, a, n, "held") /\ w = V!TakePages(x, n)
    OBVIOUS
  <1>3. s' = w
    BY <1>2 DEF V!Commit
  <1>4. s \in SpaceRec
    BY DEF Sound
  <1>5. /\ x \in SpaceRec /\ x.dir = s.dir /\ x.tab = s.tab
        /\ x.avail = s.avail /\ x.used_pages = s.used_pages
        /\ \A b \in V!Pages : x.page[b] = IF b \in a..a + n - 1 THEN "held"
                                          ELSE s.page[b]
    BY <1>1, <1>2, <1>4, SetFacts DEF V!PageState
  <1>6. /\ w \in SpaceRec /\ w.dir = x.dir /\ w.tab = x.tab /\ w.page = x.page
        /\ w.avail = x.avail - n /\ w.used_pages = x.used_pages + n
    BY <1>2, <1>5, TakeFacts
  <1>7. PICK T : T = a..a + n - 1
    OBVIOUS
  <1>8. IsFiniteSet(T) /\ Cardinality(T) = n
    BY <1>1, <1>7, FS_Interval
  <1>9. Backing(w) = Backing(s) \cup T /\ Backing(s) \cap T = {}
    <2>1. \A b \in V!Pages : w.page[b] = IF b \in T THEN "held" ELSE s.page[b]
      BY <1>5, <1>6, <1>7
    <2>2. \A b \in T : b \in V!Pages /\ s.page[b] = "kept"
      BY <1>1, <1>7
    <2> QED
      BY <2>1, <2>2 DEF Backing, V!Backed
  <1>10. Cardinality(Backing(w)) = Cardinality(Backing(s)) + n
    <2>1. IsFiniteSet(Backing(s)) /\ Cardinality(Backing(s)) \in Nat
      BY BooksFinite
    <2>2. Cardinality(Backing(s) \cup T) = Cardinality(Backing(s))
            + Cardinality(T) - Cardinality(Backing(s) \cap T)
      BY <1>8, <2>1, FS_Union
    <2>3. Cardinality(Backing(s) \cap T) = 0
      BY <1>9, FS_EmptySet
    <2>4. Cardinality(Backing(w)) = Cardinality(Backing(s) \cup T)
      BY <1>9
    <2> QED
      BY <1>8, <2>1, <2>2, <2>3, <2>4
  <1>11. s.avail - n >= Spare
    <2>1. s.avail \in Int /\ Spare \in Nat
      BY <1>4, SpaceConstants DEF SpaceRec
    <2> QED
      BY <2>1 DEF V!Commit, V!CanReserve
  <1>12. w \in Sound(Own)
    BY <1>5, <1>6, <1>10, <1>11, CountKept
  <1>13. PageStep(a..a + n - 1, "held")
    BY <1>1, <1>3, <1>5, <1>6 DEF PageStep
  <1> QED
    BY <1>1, <1>3, <1>12, <1>13 DEF Kept, V!PageState

\* release
LEMMA ReleaseKept ==
  ASSUME s \in Sound(Own), NEW a \in V!Pages, NEW n \in Nat \ {0},
         V!Release(a, n)
  PROVE  Kept
  <1>0. CASE V!ReleaseStops(s, a)
    <2>1. s' = s
      BY <1>0 DEF V!Release
    <2>2. PageStep({}, "kept")
      BY <2>1 DEF PageStep
    <2> QED
      BY <2>1, <2>2 DEF Kept, V!PageState
  <1> SUFFICES ASSUME ~V!ReleaseStops(s, a) PROVE Kept
    BY <1>0
  <1>1. /\ a \in Nat
        /\ \A b \in a..a + n - 1 : /\ b \in V!Pages
                                   /\ s.page[b] \in {"kept"} \cup V!Backed
                                   /\ s.tab[V!TabOf(b)] = "present"
    BY AllFacts DEF V!Release
  <1>2. PICK T : T = {b \in a..a + n - 1 : s.page[b] \in V!Backed}
    OBVIOUS
  <1>3. PICK x, w : /\ x = V!SetPages(s, a, n, "free")
                    /\ w = V!TakePages(x, -Cardinality(T))
    OBVIOUS
  <1>4. s' = w
    <2>1. T = {b \in V!R!Range(a, n) : s.page[b] \in V!Backed}
      BY <1>2 DEF V!R!Range
    <2> QED
      BY <1>3, <2>1, SameCount DEF V!Release
  <1>5. s \in SpaceRec
    BY DEF Sound
  <1>6. /\ x \in SpaceRec /\ x.dir = s.dir /\ x.tab = s.tab
        /\ x.avail = s.avail /\ x.used_pages = s.used_pages
        /\ \A b \in V!Pages : x.page[b] = IF b \in a..a + n - 1 THEN "free"
                                          ELSE s.page[b]
    BY <1>1, <1>3, <1>5, SetFacts DEF V!PageState
  <1>7. T \subseteq Backing(s) /\ Backing(w) = Backing(s) \ T
    <2>1. w.page = x.page
      BY <1>3, <1>6 DEF V!TakePages, SpaceRec
    <2>2. PICK r : r = a..a + n - 1
      OBVIOUS
    <2>3. /\ \A b \in V!Pages : w.page[b] = IF b \in r THEN "free" ELSE s.page[b]
          /\ \A b \in r : b \in V!Pages
          /\ T = {b \in r : s.page[b] \in V!Backed}
      BY <1>1, <1>2, <1>6, <2>1, <2>2
    <2>4. "free" \notin V!Backed
      BY DEF V!Backed
    <2> QED
      BY <2>3, <2>4 DEF Backing
  <1>8. IsFiniteSet(T) /\ Cardinality(T) \in Nat
    BY <1>7, BooksFinite, FS_Subset, FS_CardinalityType
  <1>9. PICK k \in Int : k = -Cardinality(T)
    BY <1>8
  <1>10. /\ w \in SpaceRec /\ w.dir = x.dir /\ w.tab = x.tab /\ w.page = x.page
         /\ w.avail = x.avail - k /\ w.used_pages = x.used_pages + k
    BY <1>3, <1>6, <1>9, TakeFacts
  <1>11. Cardinality(Backing(w)) = Cardinality(Backing(s)) + k
    <2>1. IsFiniteSet(Backing(s)) /\ Cardinality(Backing(s)) \in Nat
      BY BooksFinite
    <2>2. Cardinality(Backing(s) \ T) = Cardinality(Backing(s))
                                          - Cardinality(Backing(s) \cap T)
      BY <2>1, FS_Difference
    <2>3. Backing(s) \cap T = T
      BY <1>7
    <2>4. /\ Cardinality(Backing(w)) = Cardinality(Backing(s) \ T)
          /\ Cardinality(Backing(s) \cap T) = Cardinality(T)
      BY <1>7, <2>3
    <2> QED
      BY <1>8, <1>9, <2>1, <2>2, <2>4
  <1>12. s.avail - k >= Spare
    <2>1. s.avail \in Int /\ Spare \in Nat /\ s.avail >= Spare
      BY <1>5, SpaceConstants DEF SpaceRec, Sound
    <2> QED
      BY <1>8, <1>9, <2>1
  <1>13. w \in Sound(Own)
    BY <1>6, <1>10, <1>11, <1>12, CountKept
  <1>14. PageStep(a..a + n - 1, "free")
    BY <1>1, <1>4, <1>6, <1>10 DEF PageStep, V!Backed
  <1> QED
    BY <1>1, <1>4, <1>13, <1>14 DEF Kept, V!PageState

(***************************************************************************)
(* The invariant of an address space: while it lives the books are right,  *)
(* and only the kernel has device pages.                                   *)
(***************************************************************************)
SpaceInv ==
  /\ kind \in {"user", "kernel"}
  /\ s.used_pages > 0 => s \in Sound(Own)
  /\ s.avail + s.used_pages = Phys /\ s.avail >= Spare
  /\ kind = "user" => \A b \in V!Pages : s.page[b] \notin {"mapped", "guard"}

\* Every call but the destructor of the space.
LEMMA CallKept ==
  ASSUME SpaceInv, V!Next, ~V!Destroy
  PROVE  s \in Sound(Own) /\ Kept /\ kind' = kind
  <1>1. s \in Sound(Own)
    BY DEF V!Next, SpaceInv
  <1>2. PICK n \in 1..ND * TabPages, a \in V!Pages :
          \/ V!Reserve(a, n) \/ V!Commit(a, n) \/ V!Release(a, n)
          \/ V!Assign(a, n) \/ V!Protect(a, n, FALSE) \/ V!Protect(a, n, TRUE)
    BY DEF V!Next
  <1>3. n \in Nat \ {0}
    BY SpaceConstants
  <1>4. CASE V!Reserve(a, n)
    BY <1>1, <1>3, <1>4, ReserveKept DEF V!Next
  <1>5. CASE V!Commit(a, n)
    BY <1>1, <1>3, <1>5, CommitKept DEF V!Next
  <1>6. CASE V!Release(a, n)
    BY <1>1, <1>3, <1>6, ReleaseKept DEF V!Next
  <1>7. CASE V!Assign(a, n)
    BY <1>1, <1>3, <1>7, MarkKept DEF V!Next, V!Assign
  <1>8. ASSUME NEW wr \in BOOLEAN, V!Protect(a, n, wr) PROVE Kept
    <2>1. PICK v : v = IF wr THEN "held" ELSE "readonly"
      OBVIOUS
    <2>2. v \in V!Backed /\ V!All(a, n, V!Backed) /\ s' = V!SetPages(s, a, n, v)
      BY <1>8, <2>1 DEF V!Protect, V!Backed
    <2> QED
      BY <1>1, <1>3, <2>2, MarkKept
  <1> QED
    BY <1>1, <1>2, <1>4, <1>5, <1>6, <1>7, <1>8 DEF V!Next

\* The destructor gives everything back.
LEMMA DestroyGivesBack ==
  ASSUME SpaceInv, V!Destroy
  PROVE  /\ s'.avail = Phys /\ s'.used_pages = 0
         /\ \A b \in V!Pages : s'.page[b] = "free"
  <1>1. s \in Sound(2) /\ kind = "user"
    BY DEF V!Destroy, SpaceInv, Own
  <1>2. PICK k : k = s.avail + Cardinality(Backing(s)) + Cardinality(Tabs(s))
                       + Cardinality(Dirs(s)) + 2
    OBVIOUS
  <1>3. s' = [V!Gone EXCEPT !.avail = k]
    BY <1>2, SameCount DEF V!Destroy, Backing, Tabs, Dirs
  <1>4. s'.avail = k /\ s'.used_pages = 0 /\ s'.page = [b \in V!Pages |-> "free"]
    BY <1>3 DEF V!Gone
  <1>5. /\ Cardinality(Dirs(s)) \in Nat /\ Cardinality(Tabs(s)) \in Nat
        /\ Cardinality(Backing(s)) \in Nat
    BY BooksFinite
  <1>6. s.avail \in Int /\ s.used_pages \in Int /\ Phys \in Nat
    BY <1>1, SpaceConstants DEF Sound, SpaceRec
  <1>7. /\ s.avail + s.used_pages = Phys
        /\ s.used_pages = 2 + Cardinality(Dirs(s)) + Cardinality(Tabs(s))
                            + Cardinality(Backing(s))
    BY <1>1 DEF Sound
  <1>8. k = Phys
    BY <1>2, <1>5, <1>6, <1>7
  <1> QED
    BY <1>4, <1>8

\* Every step keeps the invariant.
LEMMA NextSpace == SpaceInv /\ V!Next => SpaceInv'
  <1> SUFFICES ASSUME SpaceInv, V!Next PROVE SpaceInv'
    OBVIOUS
  <1>1. CASE V!Destroy
    <2>1. kind' = kind
      BY DEF V!Next
    <2> QED
      BY <1>1, <2>1, DestroyGivesBack, SpaceConstants DEF SpaceInv
  <1>2. CASE ~V!Destroy
    <2>1. s \in Sound(Own) /\ s' \in Sound(Own) /\ kind' = kind
      BY <1>2, CallKept DEF Kept
    <2>2. PICK S, v : v \in V!PageState /\ PageStep(S, v)
      BY <1>2, CallKept DEF Kept
    <2>3. Own' = Own
      BY <2>1 DEF Own
    <2>4. s' \in Sound(Own')
      BY <2>1, <2>3
    <2>5. s'.avail + s'.used_pages = Phys /\ s'.avail >= Spare
      BY <2>1 DEF Sound
    <2>6. ASSUME kind = "user", NEW b \in V!Pages
          PROVE  s'.page[b] \notin {"mapped", "guard"}
      BY <2>2, <2>6 DEF PageStep, SpaceInv
    <2> QED
      BY <2>1, <2>4, <2>5, <2>6 DEF SpaceInv
  <1> QED
    BY <1>1, <1>2

\* The two constructors.
LEMMA InitSpace == V!Init => SpaceInv
  <1> SUFFICES ASSUME V!Init PROVE SpaceInv
    OBVIOUS
  <1>0. /\ NP \in Nat /\ NP >= 1 /\ NP * ND \in Nat /\ NP * ND >= 1
        /\ TabPages \in Nat /\ TabPages >= 1
        /\ Phys \in Nat /\ Spare \in Nat /\ Phys >= Spare + 3
    BY SpaceConstants
  <1>1. 0 \in 0..NP - 1 /\ 0 \in V!Tables /\ 0 \in V!Pages
    <2>1. PICK k \in Nat : k = NP * ND /\ k >= 1
      BY <1>0
    <2>2. k * TabPages >= 1
      BY <1>0, <2>1
    <2> QED
      BY <1>0, <2>1, <2>2 DEF V!Tables, V!Pages
  <1>2. Cardinality({0}) = 1 /\ Cardinality({}) = 0
    BY FS_Singleton, FS_EmptySet
  <1>3. CASE kind = "user" /\ s = V!UserSpace
    <2>1. /\ s \in SpaceRec /\ s.avail = Phys - 3 /\ s.used_pages = 3
          /\ s.dir = [p \in 0..NP - 1 |-> p = 0]
          /\ s.tab = [j \in V!Tables |-> IF j = 0 THEN "bypass" ELSE "absent"]
          /\ s.page = [b \in V!Pages |-> "free"]
      <3>1. s = [dir |-> [p \in 0..NP - 1 |-> p = 0],
                 tab |-> [j \in V!Tables |-> IF j = 0 THEN "bypass" ELSE "absent"],
                 page |-> [b \in V!Pages |-> "free"],
                 avail |-> Phys - 3, used_pages |-> 3]
        BY <1>1, <1>3 DEF V!UserSpace, V!Gone
      <3> QED
        BY <3>1, <1>0 DEF SpaceRec, V!PageState
    <2>2. Dirs(s) = {0} /\ Tabs(s) = {} /\ Backing(s) = {}
      BY <1>1, <2>1 DEF Dirs, Tabs, Backing, V!Backed
    <2>3. s \in Sound(2)
      <3>1. /\ s.avail + s.used_pages = Phys /\ s.avail >= Spare
            /\ s.used_pages = 2 + Cardinality(Dirs(s)) + Cardinality(Tabs(s))
                                + Cardinality(Backing(s))
        BY <1>0, <1>2, <2>1, <2>2
      <3> QED
        BY <2>1, <3>1 DEF Sound
    <2> QED
      BY <1>0, <1>1, <1>3, <2>1, <2>3 DEF SpaceInv, Own
  <1>4. CASE kind = "kernel" /\ s = V!KernelSpace
    <2> DEFINE pg == [b \in V!Pages |-> CASE b < Boot -> "guard"
                            [] b \in TabPages - Stk..TabPages - 2 -> "kept"
                            [] b = TabPages - 1 /\ Stk > 0 -> "guard"
                            [] OTHER -> "free"]
    <2>0. pg \in [V!Pages -> V!PageState] /\ \A b \in V!Pages : pg[b] \notin V!Backed
      BY DEF V!PageState, V!Backed
    <2>1. PICK d, tb : /\ d = [p \in 0..NP - 1 |-> p = 0]
                       /\ tb = [j \in V!Tables |-> IF j = 0 THEN "present"
                                  ELSE IF j = 1 THEN "bypass" ELSE "absent"]
      OBVIOUS
    <2>2. s = [dir |-> d, tab |-> tb, page |-> pg,
               avail |-> Phys - 2, used_pages |-> 2]
      <3> HIDE DEF pg
      <3>1. s = [V!Gone EXCEPT !.dir[0] = TRUE, !.tab[0] = "present",
                   !.avail = Phys - 2, !.tab[1] = "bypass", !.used_pages = 2,
                   !.page = pg]
        BY <1>4 DEF V!KernelSpace, pg
      <3>2. [[p \in 0..NP - 1 |-> FALSE] EXCEPT ![0] = TRUE] = d
        BY <1>1, <2>1
      <3>3. [[[j \in V!Tables |-> "absent"] EXCEPT ![0] = "present"]
               EXCEPT ![1] = "bypass"] = tb
        BY <1>1, <2>1
      <3> QED
        BY <3>1, <3>2, <3>3 DEF V!Gone
    <2> HIDE DEF pg
    <2>3. /\ s \in SpaceRec /\ s.avail = Phys - 2 /\ s.used_pages = 2
          /\ s.dir = d /\ s.tab = tb /\ s.page = pg
      BY <2>0, <2>1, <2>2, <1>0 DEF SpaceRec
    <2>4. Dirs(s) = {0} /\ Tabs(s) = {0} /\ Backing(s) = {}
      <3>1. Dirs(s) = {0}
        <4>1. \A p \in 0..NP - 1 : s.dir[p] = (p = 0)
          BY <2>1, <2>3
        <4> QED
          BY <1>1, <4>1 DEF Dirs
      <3>2. Tabs(s) = {0}
        BY <1>1, <2>1, <2>3 DEF Tabs
      <3>3. Backing(s) = {}
        BY <2>0, <2>3 DEF Backing
      <3> QED
        BY <3>1, <3>2, <3>3
    <2>5. s \in Sound(0)
      <3>1. /\ s.avail + s.used_pages = Phys /\ s.avail >= Spare
            /\ s.used_pages = 0 + Cardinality(Dirs(s)) + Cardinality(Tabs(s))
                                + Cardinality(Backing(s))
        BY <1>0, <1>2, <2>3, <2>4
      <3> QED
        BY <2>3, <3>1 DEF Sound
    <2> QED
      BY <1>0, <1>4, <2>3, <2>5 DEF SpaceInv, Own
  <1> QED
    BY <1>3, <1>4 DEF V!Init

\* What SpaceInv says about the run's properties.
LEMMA BooksAreRight == SpaceInv => V!PagesConserved /\ V!RoomIsLeft
  <1> SUFFICES ASSUME SpaceInv PROVE V!PagesConserved /\ V!RoomIsLeft
    OBVIOUS
  <1>1. ASSUME kind = "user", s.used_pages > 0
        PROVE  s.used_pages = 2 + V!Cardinality({p \in 0..NP - 1 : s.dir[p]})
                   + V!Cardinality({j \in V!Tables : s.tab[j] = "present"})
                   + V!Cardinality({b \in V!Pages : s.page[b] \in V!Backed})
    BY <1>1, SameCount DEF SpaceInv, Own, Sound, Dirs, Tabs, Backing
  <1> QED
    BY <1>1 DEF SpaceInv, V!PagesConserved, V!RoomIsLeft

\* Device pages and bypassed tables stay what they are.
LEMMA BypassStep ==
  ASSUME SpaceInv, V!Next
  PROVE  /\ \A b \in V!Pages : s.page[b] = "mapped" => s'.page[b] = "mapped"
         /\ \A b \in V!Pages :
              s.page[b] = "guard" => s'.page[b] \in {"guard", "mapped"}
         /\ \A j \in V!Tables : s.tab[j] = "bypass" /\ s'.used_pages > 0 =>
              s'.tab[j] = "bypass" /\ V!FreeIn(s', j) = V!FreeIn(s, j)
  <1>1. CASE V!Destroy
    <2>1. kind = "user"
      BY <1>1 DEF V!Destroy
    <2>2. \A b \in V!Pages : s.page[b] \notin {"mapped", "guard"}
      BY <2>1 DEF SpaceInv
    <2>3. s'.used_pages = 0
      BY <1>1, DestroyGivesBack
    <2> QED
      BY <2>2, <2>3
  <1>2. CASE ~V!Destroy
    <2>1. PICK S, v : v \in V!PageState /\ PageStep(S, v)
      BY <1>2, CallKept DEF Kept
    <2>2. ASSUME NEW j \in V!Tables, s.tab[j] = "bypass"
          PROVE  s'.tab[j] = "bypass" /\ V!FreeIn(s', j) = V!FreeIn(s, j)
      <3>1. s'.tab[j] = "bypass"
        BY <2>1, <2>2 DEF PageStep
      <3>2. ASSUME NEW i \in V!Index
            PROVE  s'.page[j * TabPages + i] = s.page[j * TabPages + i]
        <4>1. PICK b \in V!Pages : b = j * TabPages + i /\ V!TabOf(b) = j
          BY PageOfTable
        <4>2. b \notin S
          BY <2>1, <2>2, <4>1 DEF PageStep
        <4>3. s'.page[b] = s.page[b]
          BY <2>1, <4>2 DEF PageStep
        <4> QED
          BY <4>1, <4>3
      <3> QED
        BY <3>1, <3>2 DEF V!FreeIn
    <2> QED
      BY <2>1, <2>2 DEF PageStep
  <1> QED
    BY <1>1, <1>2

\* What a step of ReserveIsExact says.
ExactStep ==
  LET new == {b \in V!Pages : s'.page[b] # s.page[b]}
      lost == UNION {V!R!Range(a, ret'.n) : a \in {a \in V!Pages :
                       V!Low(a) = 0 /\ V!R!Range(a, ret'.n) \subseteq new}}
  IN /\ \A b \in new : s.page[b] = "free" /\ s'.page[b] = "kept"
     /\ IF ret'.asked # 0
        THEN new = IF ret'.addr = 0 THEN {} ELSE V!R!Range(ret'.addr, ret'.n)
        ELSE IF ret'.addr = 0 THEN new = lost
        ELSE \E a \in V!Pages : /\ V!Low(a) = ret'.addr
                                /\ V!R!Range(a, ret'.n) \subseteq new
                                /\ new \subseteq V!R!Range(a, ret'.n) \cup lost

\* A reserve takes what belongs to its answer and nothing else.
LEMMA ReserveStep ==
  ASSUME SpaceInv, V!Next, ret'.n > 0, ~stuck'
  PROVE  ExactStep
  <1>1. s \in Sound(Own) /\ Own \in Nat
    BY DEF V!Next, SpaceInv, Own
  <1>2. ASSUME NEW ok, V!Returns(ok) PROVE FALSE
    <2>1. ret'.n = 0
      BY <1>2 DEF V!Returns
    <2> QED
      BY <2>1
  <1>3. PICK n \in 1..ND * TabPages, a \in V!Pages : V!Reserve(a, n)
    BY <1>2 DEF V!Next, V!Commit, V!Release, V!Assign, V!Protect, V!Destroy
  <1>4. n \in Nat \ {0}
    BY SpaceConstants
  <1>5. PICK y, S : /\ y \in Grown(Own, s) /\ SetFree(s, S)
                    /\ s' = KeepSet(y, S) /\ Taken(S)
    BY <1>1, <1>3, <1>4, ReserveHasForm DEF ReserveForm
  <1>6. y \in SpaceRec /\ y.page = s.page
    BY <1>5 DEF Grown, Sound
  <1>7. \A b \in V!Pages : s'.page[b] = IF b \in S THEN "kept" ELSE s.page[b]
    BY <1>5, <1>6, KeepFacts
  <1>8. PICK new : new = {b \in V!Pages : s'.page[b] # s.page[b]}
    OBVIOUS
  <1>9. new = S
    BY <1>5, <1>7, <1>8 DEF SetFree
  <1>10. \A b \in new : s.page[b] = "free" /\ s'.page[b] = "kept"
    BY <1>5, <1>7, <1>9 DEF SetFree
  <1>11. PICK m : m = ret'.n
    OBVIOUS
  <1>12. PICK lost : lost = UNION {V!R!Range(k, m) : k \in {k \in V!Pages :
                              V!Low(k) = 0 /\ V!R!Range(k, m) \subseteq new}}
    OBVIOUS
  <1>13. lost \subseteq new
    BY <1>12
  <1>14. ASSUME NEW zeros \in SUBSET {k \in V!Pages : V!Low(k) = 0},
                UNION {V!R!Range(k, m) : k \in zeros} \subseteq new
         PROVE  UNION {V!R!Range(k, m) : k \in zeros} \subseteq lost
    <2>1. \A k \in zeros : V!R!Range(k, m) \subseteq new
      BY <1>14
    <2> QED
      BY <1>12, <2>1
  <1>15. CASE ret'.asked # 0
    BY <1>5, <1>8, <1>9, <1>10, <1>15 DEF Taken, ExactStep
  <1>16. CASE ret'.asked = 0 /\ ret'.addr = 0
    <2>1. new = lost
      BY <1>5, <1>9, <1>11, <1>13, <1>14, <1>16 DEF Taken
    <2> QED
      BY <1>8, <1>10, <1>11, <1>12, <1>16, <2>1 DEF ExactStep
  <1>17. CASE ret'.asked = 0 /\ ret'.addr # 0
    <2>1. PICK zeros \in SUBSET {k \in V!Pages : V!Low(k) = 0}, e \in V!Pages :
            /\ V!Low(e) = ret'.addr
            /\ S = V!R!Range(e, m) \cup UNION {V!R!Range(k, m) : k \in zeros}
      BY <1>5, <1>11, <1>17 DEF Taken
    <2>2. /\ V!R!Range(e, m) \subseteq new
          /\ new \subseteq V!R!Range(e, m) \cup lost
      BY <1>9, <1>14, <2>1
    <2> QED
      BY <1>8, <1>10, <1>11, <1>12, <1>17, <2>1, <2>2 DEF ExactStep
  <1> QED
    BY <1>15, <1>16, <1>17

(***************************************************************************)
(* The heap                                                                *)
(***************************************************************************)
\* The sizes of blocks are powers of two.
LEMMA SizeSteps ==
  /\ Size(0) = 1
  /\ \A sh \in 0..Top : Size(sh) \in Nat \ {0}
  /\ \A sh \in 0..Top - 1 : Size(sh + 1) = 2 * Size(sh)
  <1>0. Top \in Nat /\ Top >= 1
    BY HeapAssumption
  <1> DEFINE D == 0..Top
             X == Nat \ {0}
             Val(f, j) == IF j = 0 THEN 1 ELSE 2 * f[j - 1]
             G == [q \in D \X [D -> X] |-> Val(q[2], q[1])]
  <1>1. ASSUME NEW f, NEW j \in D, \A k \in 0..j - 1 : f[k] \in X
        PROVE  Val(f, j) \in X
    <2>1. CASE j = 0
      BY <2>1
    <2>2. CASE j # 0
      <3>1. f[j - 1] \in X
        BY <1>0, <1>1, <2>2
      <3> QED
        BY <2>2, <3>1
    <2> QED
      BY <2>1, <2>2
  <1>2. ASSUME NEW f, NEW g, NEW j \in D, \A k \in 0..j - 1 : f[k] = g[k]
        PROVE  Val(f, j) = Val(g, j)
    <2>1. j # 0 => j - 1 \in 0..j - 1
      BY <1>0
    <2> QED
      BY <2>1, <1>2
  <1>3. 1 \in X
    OBVIOUS
  <1> HIDE DEF Val, X
  <1>5. FromBelow(D, X, G)
    <2>1. \E lo, hi \in Int : D = lo..hi
      BY <1>0
    <2>2. ASSUME NEW j \in D, NEW f \in [D -> X] PROVE Val(f, j) \in X
      <3>1. \A k \in 0..j - 1 : k \in D
        BY <1>0
      <3> QED
        BY <3>1, <1>1
    <2>3. ASSUME NEW j \in D, NEW f \in [D -> X], NEW g \in [D -> X],
                 \A k \in D : k < j => f[k] = g[k]
          PROVE  G[<<j, f>>] = G[<<j, g>>]
      <3>1. \A k \in 0..j - 1 : k \in D /\ k < j
        BY <1>0
      <3>2. Val(f, j) = Val(g, j)
        BY <3>1, <2>3, <1>2
      <3> QED
        BY <3>2
    <2>4. G \in [D \X [D -> X] -> X]
      BY <2>2
    <2> HIDE DEF G, D
    <2> QED
      BY <1>3, <2>1, <2>3, <2>4 DEF FromBelow
  <1>6. Solved(D, X, G)
    <2> HIDE DEF D, G
    <2> QED
      BY <1>5, Recursion
  <1>7. PICK f \in [D -> X] : f = [j \in D |-> Val(f, j)]
    BY <1>6 DEF Solved
  <1>8. PICK v : v = [j \in D |-> Val(v, j)] /\ \A sh : Size(sh) = v[sh]
    BY <1>7, Zenon DEF Size, Val
  <1> DEFINE P == {j \in D : v[j] \in X}
  <1>9. ASSUME NEW j \in D, \A k \in 0..j - 1 : k \in P PROVE j \in P
    <2>1. Val(v, j) \in X
      BY <1>1, <1>9
    <2> QED
      BY <2>1, <1>8
  <1>10. \A j \in D : j \in P
    <2>1. 0 \in Int /\ Top \in Int
      BY <1>0
    <2> HIDE DEF P
    <2> QED
      BY <2>1, <1>9, IntervalInduct
  <1>11. \A j \in D : v[j] = IF j = 0 THEN 1 ELSE 2 * v[j - 1]
    BY <1>8 DEF Val
  <1>12. Size(0) = 1
    <2>1. 0 \in D
      BY <1>0
    <2>2. v[0] = 1
      BY <2>1, <1>11
    <2> QED
      BY <2>2, <1>8
  <1>13. ASSUME NEW sh \in 0..Top - 1 PROVE Size(sh + 1) = 2 * Size(sh)
    <2>1. sh + 1 \in D /\ sh + 1 # 0 /\ (sh + 1) - 1 = sh
      BY <1>0
    <2>2. v[sh + 1] = 2 * v[sh]
      BY <2>1, <1>11
    <2> QED
      BY <2>2, <1>8
  <1> QED
    BY <1>8, <1>10, <1>12, <1>13 DEF X

\* The heap module has the same sizes.
LEMMA SameSize == \A sh : B2!Size(sh) = Size(sh)
  BY DEF B2!Size, Size

\* Blocks as pairs of address and shift.
Block2 == Nat \X B2!Shift
Pools == [B2!Shift -> SUBSET Nat]
Blk(p) == {b \in Block2 : b[1] \in p[b[2]]}
Un(b) == b[1]..b[1] + Size(b[2]) - 1
Cover(S) == UNION {Un(b) : b \in S}

\* An aligned block, as a multiple of its size.
Aligned(b) == \E k \in Nat : b[1] = k * Size(b[2])

\* The two halves of a block of the next size.
Halves(a, b, sh) ==
  /\ sh + 1 < Top /\ b = a + Size(sh)
  /\ \E k \in Nat : a = k * Size(sh + 1)

(* The free blocks are a partition of R, aligned, and no two halves of a   *)
(* block are both free.                                                    *)
Parted(p, R) ==
  /\ p \in Pools
  /\ \A b, c \in Blk(p) : b # c => Un(b) \cap Un(c) = {}
  /\ \A b \in Blk(p) : Aligned(b)
  /\ Cover(Blk(p)) = R
  /\ \A sh \in B2!Shift : \A a, b \in p[sh] : ~Halves(a, b, sh)

\* A multiple is what leaves no remainder.
LEMMA Multiple ==
  ASSUME NEW m \in Nat \ {0}, NEW x \in Nat
  PROVE  x % m = 0 <=> \E k \in Nat : x = k * m
  <1>1. ASSUME x % m = 0 PROVE \E k \in Nat : x = k * m
    <2>1. x = (x \div m) * m + (x % m) /\ x \div m \in Nat
      OBVIOUS
    <2> QED
      BY <1>1, <2>1
  <1>2. ASSUME NEW k \in Nat, x = k * m PROVE x % m = 0
    <2>1. x \div m = k
      BY <1>2, Quotient
    <2>2. x = (x \div m) * m + (x % m)
      OBVIOUS
    <2>3. x % m \in Nat
      OBVIOUS
    <2> QED
      BY <1>2, <2>1, <2>2, <2>3
  <1> QED
    BY <1>1, <1>2

\* The numbers of the heap.
LEMMA ShiftFacts ==
  ASSUME NEW sh \in B2!Shift
  PROVE  /\ sh \in Nat /\ sh \in 0..Top - 1 /\ sh \in 0..Top
         /\ Size(sh) \in Nat \ {0} /\ Size(sh) >= 1
         /\ Size(sh + 1) \in Nat \ {0} /\ Size(sh + 1) = 2 * Size(sh)
         /\ (sh + 1 < Top <=> sh + 1 \in B2!Shift)
  <1>1. Top \in Nat /\ Top >= 1
    BY HeapAssumption
  <1>2. sh \in Nat /\ sh \in 0..Top - 1 /\ sh \in 0..Top /\ sh + 1 \in 0..Top
    BY <1>1 DEF B2!Shift
  <1>3. Size(sh) \in Nat \ {0} /\ Size(sh + 1) \in Nat \ {0}
        /\ Size(sh + 1) = 2 * Size(sh)
    BY <1>2, SizeSteps
  <1> QED
    BY <1>1, <1>2, <1>3 DEF B2!Shift

\* Buddy in terms of halves.
LEMMA BuddyForm ==
  ASSUME NEW p \in Pools, NEW a \in Nat, NEW sh \in B2!Shift
  PROVE  B2!Buddy(p, a, sh) = {b \in p[sh] : Halves(b, a, sh) \/ Halves(a, b, sh)}
  <1>1. \A b \in p[sh] : b \in Nat
    BY DEF Pools
  <1>2. /\ Size(sh) \in Nat \ {0} /\ Size(sh + 1) \in Nat \ {0}
        /\ B2!Size(sh) = Size(sh) /\ B2!Size(sh + 1) = Size(sh + 1)
    BY ShiftFacts, SameSize
  <1>3. \A b \in Nat : b % Size(sh + 1) = 0 <=> \E k \in Nat : b = k * Size(sh + 1)
    BY <1>2, Multiple
  <1>4. ASSUME NEW b \in p[sh]
        PROVE  /\ Halves(b, a, sh) <=>
                    (/\ sh + 1 < Top /\ b + B2!Size(sh) = a
                     /\ b % B2!Size(sh + 1) = 0)
               /\ Halves(a, b, sh) <=>
                    (/\ sh + 1 < Top /\ a + B2!Size(sh) = b
                     /\ a % B2!Size(sh + 1) = 0)
    BY <1>1, <1>2, <1>3 DEF Halves
  <1> QED
    BY <1>4 DEF B2!Buddy

\* The units of the halves of a block.
LEMMA HalvesJoin ==
  ASSUME NEW a \in Nat, NEW b \in Nat, NEW sh \in B2!Shift, Halves(a, b, sh)
  PROVE  /\ sh + 1 \in B2!Shift /\ Aligned(<<a, sh + 1>>)
         /\ Un(<<a, sh + 1>>) = Un(<<a, sh>>) \cup Un(<<b, sh>>)
         /\ Un(<<a, sh>>) \cap Un(<<b, sh>>) = {}
         /\ a < b
  BY ShiftFacts DEF Halves, Aligned, Un

\* A block has one buddy at most: it is the first or the second half.
LEMMA OneBuddy ==
  ASSUME NEW a \in Nat, NEW b \in Nat, NEW c \in Nat, NEW sh \in B2!Shift,
         Halves(a, b, sh)
  PROVE  ~Halves(b, c, sh) /\ ~Halves(c, a, sh)
  <1>1. PICK z \in Nat : z = Size(sh) /\ z >= 1 /\ Size(sh + 1) = 2 * z
    BY ShiftFacts
  <1>2. ASSUME NEW k \in Nat, NEW l \in Nat, k * (2 * z) + z = l * (2 * z)
        PROVE  FALSE
    <2>1. PICK u \in Nat, v \in Nat : u = k * z /\ v = l * z
      BY <1>1
    <2>2. 2 * u + z = 2 * v
      BY <1>1, <1>2, <2>1
    <2>3. CASE l <= k
      <3>1. l * z <= k * z
        BY <1>1, <2>3
      <3> QED
        BY <1>1, <2>1, <2>2, <3>1
    <2>4. CASE l >= k + 1
      <3>1. l * z >= (k + 1) * z
        BY <1>1, <2>4
      <3>2. (k + 1) * z = u + z
        BY <1>1, <2>1
      <3> QED
        BY <1>1, <2>1, <2>2, <3>1, <3>2
    <2> QED
      BY <2>3, <2>4
  <1>3. PICK k \in Nat : a = k * (2 * z) /\ b = a + z
    BY <1>1 DEF Halves
  <1>4. ASSUME Halves(b, c, sh) PROVE FALSE
    <2>1. PICK l \in Nat : b = l * (2 * z)
      BY <1>1, <1>4 DEF Halves
    <2> QED
      BY <1>2, <1>3, <2>1
  <1>5. ASSUME Halves(c, a, sh) PROVE FALSE
    <2>1. PICK l \in Nat : c = l * (2 * z) /\ a = c + z
      BY <1>1, <1>5 DEF Halves
    <2> QED
      BY <1>2, <1>3, <2>1
  <1> QED
    BY <1>4, <1>5

\* A free block is taken out.
LEMMA DropBlock ==
  ASSUME NEW p, NEW R, Parted(p, R), NEW sh \in B2!Shift, NEW a \in p[sh],
         NEW q, q = [p EXCEPT ![sh] = @ \ {a}]
  PROVE  /\ Parted(q, R \ Un(<<a, sh>>)) /\ Un(<<a, sh>>) \subseteq R
         /\ a \in Nat /\ Aligned(<<a, sh>>)
  <1>1. /\ p \in Pools /\ a \in Nat /\ q \in Pools
        /\ \A k \in B2!Shift : q[k] = IF k = sh THEN p[k] \ {a} ELSE p[k]
    BY DEF Parted, Pools
  <1>2. PICK x : x = <<a, sh>>
    OBVIOUS
  <1>3. x \in Block2 /\ x \in Blk(p) /\ Blk(q) = Blk(p) \ {x}
    BY <1>1, <1>2 DEF Blk, Block2
  <1>4. \A b \in Blk(q) : Un(b) \cap Un(x) = {}
    BY <1>3 DEF Parted
  <1>5. Cover(Blk(p)) = Cover(Blk(q)) \cup Un(x)
    BY <1>3 DEF Cover
  <1>6. Cover(Blk(q)) \cap Un(x) = {}
    BY <1>4 DEF Cover
  <1>7. Cover(Blk(q)) = R \ Un(x) /\ Un(x) \subseteq R
    BY <1>5, <1>6 DEF Parted
  <1>8. \A k \in B2!Shift : \A c, b \in q[k] : ~Halves(c, b, k)
    BY <1>1 DEF Parted
  <1>9. \A b, c \in Blk(q) : b # c => Un(b) \cap Un(c) = {}
    BY <1>3 DEF Parted
  <1>10. \A b \in Blk(q) : Aligned(b)
    BY <1>3 DEF Parted
  <1>11. Parted(q, R \ Un(x))
    BY <1>1, <1>7, <1>8, <1>9, <1>10 DEF Parted
  <1>12. Aligned(x)
    BY <1>3 DEF Parted
  <1> QED
    BY <1>1, <1>2, <1>7, <1>11, <1>12

\* A block without a free buddy is put into the pool.
LEMMA AddBlock ==
  ASSUME NEW p, NEW R, Parted(p, R), NEW sh \in B2!Shift, NEW a \in Nat,
         Aligned(<<a, sh>>), Un(<<a, sh>>) \cap R = {},
         \A b \in p[sh] : ~Halves(a, b, sh) /\ ~Halves(b, a, sh),
         NEW q, q = [p EXCEPT ![sh] = @ \cup {a}]
  PROVE  Parted(q, R \cup Un(<<a, sh>>))
  <1>1. /\ p \in Pools /\ q \in Pools
        /\ \A k \in B2!Shift : q[k] = IF k = sh THEN p[k] \cup {a} ELSE p[k]
    BY DEF Parted, Pools
  <1>2. PICK x : x = <<a, sh>>
    OBVIOUS
  <1>3. x \in Block2 /\ Blk(q) = Blk(p) \cup {x}
    BY <1>1, <1>2 DEF Blk, Block2
  <1>4. \A b \in Blk(p) : Un(b) \subseteq R
    BY DEF Parted, Cover
  <1>5. \A b \in Blk(p) : Un(b) \cap Un(x) = {}
    BY <1>2, <1>4
  <1>6. Cover(Blk(q)) = R \cup Un(x)
    <2>1. Cover(Blk(q)) = Cover(Blk(p)) \cup Un(x)
      BY <1>3 DEF Cover
    <2> QED
      BY <2>1 DEF Parted
  <1>7. \A b, c \in Blk(q) : b # c => Un(b) \cap Un(c) = {}
    BY <1>3, <1>5 DEF Parted
  <1>8. \A b \in Blk(q) : Aligned(b)
    BY <1>2, <1>3 DEF Parted
  <1>9. ~Halves(a, a, sh)
    BY ShiftFacts DEF Halves
  <1>10. \A k \in B2!Shift : \A c, b \in q[k] : ~Halves(c, b, k)
    BY <1>1, <1>9 DEF Parted
  <1> QED
    BY <1>1, <1>2, <1>6, <1>7, <1>8, <1>10 DEF Parted

(* put between two sizes: the block at hand is q.addr, of shift sh, and    *)
(* the pools have the rest of R.                                           *)
PutInv(q, sh, R) ==
  /\ q.done => Parted(q.pool, R)
  /\ ~q.done => /\ sh \in B2!Shift /\ q.addr \in Nat
                /\ Aligned(<<q.addr, sh>>) /\ Un(<<q.addr, sh>>) \subseteq R
                /\ Parted(q.pool, R \ Un(<<q.addr, sh>>))

PutRec == [pool : Pools, addr : Nat, done : BOOLEAN]

\* A record of put after one size.
LEMMA PutAtType ==
  ASSUME NEW q \in PutRec, NEW sh \in B2!Shift
  PROVE  B2!PutAt(q, sh) \in PutRec
  <1>1. PICK b : b = B2!Buddy(q.pool, q.addr, sh)
    OBVIOUS
  <1>2. q.pool \in Pools /\ q.addr \in Nat
    BY DEF PutRec
  <1>3. b \subseteq q.pool[sh] /\ b \subseteq Nat
    BY <1>1, <1>2 DEF B2!Buddy, Pools
  <1>4. PICK m \in b \cup {q.addr} : \A x \in b \cup {q.addr} : m <= x
    BY <1>2, <1>3, Least
  <1>5. (CHOOSE m1 \in b \cup {q.addr} : \A x \in b \cup {q.addr} : m1 <= x)
           \in b \cup {q.addr}
    BY <1>4
  <1>6. PICK lo : lo = CHOOSE m1 \in b \cup {q.addr} :
                         \A x \in b \cup {q.addr} : m1 <= x
    OBVIOUS
  <1>7. lo \in Nat
    BY <1>2, <1>3, <1>5, <1>6
  <1>8. B2!PutAt(q, sh) =
          IF q.done THEN q
          ELSE IF b = {}
          THEN [pool |-> [q.pool EXCEPT ![sh] = @ \cup {q.addr}],
                addr |-> q.addr, done |-> TRUE]
          ELSE [pool |-> [q.pool EXCEPT ![sh] = @ \ b],
                addr |-> lo, done |-> FALSE]
    BY <1>1, <1>6 DEF B2!PutAt
  <1>9. /\ [q.pool EXCEPT ![sh] = @ \cup {q.addr}] \in Pools
        /\ [q.pool EXCEPT ![sh] = @ \ b] \in Pools
    BY <1>2 DEF Pools
  <1> QED
    BY <1>2, <1>7, <1>8, <1>9 DEF PutRec

\* One size of put: the block goes into its pool or joins its buddy.
LEMMA PutAtStep ==
  ASSUME NEW q \in PutRec, NEW sh \in B2!Shift, NEW R, PutInv(q, sh, R)
  PROVE  PutInv(B2!PutAt(q, sh), sh + 1, R)
  <1>1. CASE q.done
    <2>1. B2!PutAt(q, sh) = q
      BY <1>1 DEF B2!PutAt
    <2> QED
      BY <1>1, <2>1 DEF PutInv
  <1>2. CASE ~q.done
    <2>0. PICK p, a, x : p = q.pool /\ a = q.addr /\ x = <<a, sh>>
      OBVIOUS
    <2>1. /\ p \in Pools /\ a \in Nat /\ Aligned(x) /\ Un(x) \subseteq R
          /\ Parted(p, R \ Un(x))
      BY <1>2, <2>0 DEF PutInv, PutRec
    <2>2. PICK b : b = B2!Buddy(p, a, sh)
      OBVIOUS
    <2>3. b = {c \in p[sh] : Halves(c, a, sh) \/ Halves(a, c, sh)}
      BY <2>1, <2>2, BuddyForm
    <2>4. CASE b = {}
      <3>1. PICK r : r = [p EXCEPT ![sh] = @ \cup {a}]
        OBVIOUS
      <3>2. B2!PutAt(q, sh) = [pool |-> r, addr |-> a, done |-> TRUE]
        BY <1>2, <2>0, <2>2, <2>4, <3>1 DEF B2!PutAt
      <3>3. Parted(r, (R \ Un(x)) \cup Un(x))
        <4>1. \A c \in p[sh] : ~Halves(a, c, sh) /\ ~Halves(c, a, sh)
          BY <2>3, <2>4
        <4>2. Un(x) \cap (R \ Un(x)) = {}
          OBVIOUS
        <4> QED
          BY <2>0, <2>1, <3>1, <4>1, <4>2, AddBlock
      <3>4. (R \ Un(x)) \cup Un(x) = R
        BY <2>1
      <3> QED
        BY <3>2, <3>3, <3>4 DEF PutInv
    <2>5. CASE b # {}
      <3>1. PICK y \in p[sh] : Halves(y, a, sh) \/ Halves(a, y, sh)
        BY <2>3, <2>5
      <3>2. y \in Nat /\ \A c \in p[sh] : c \in Nat
        BY <2>1 DEF Pools
      <3>3. b = {y}
        <4>1. \A c \in b : c = y
          <5> SUFFICES ASSUME NEW c \in b PROVE c = y
            OBVIOUS
          <5>1. c \in Nat /\ (Halves(c, a, sh) \/ Halves(a, c, sh))
            BY <2>3, <3>2
          <5>2. CASE Halves(y, a, sh)
            <6>1. ~Halves(a, c, sh)
              BY <2>1, <3>2, <5>1, <5>2, OneBuddy
            <6>2. Halves(c, a, sh)
              BY <5>1, <6>1
            <6>3. Size(sh) \in Nat
              BY ShiftFacts
            <6> QED
              BY <3>2, <5>1, <5>2, <6>2, <6>3 DEF Halves
          <5>3. CASE Halves(a, y, sh)
            <6>1. ~Halves(c, a, sh)
              BY <2>1, <3>2, <5>1, <5>3, OneBuddy
            <6>2. Halves(a, c, sh)
              BY <5>1, <6>1
            <6> QED
              BY <5>3, <6>2 DEF Halves
          <5> QED
            BY <3>1, <5>2, <5>3
        <4> QED
          BY <4>1, <2>5
      <3>4. PICK m \in {y, a} : \A z \in {y, a} : m <= z
        BY <2>1, <3>2
      <3>5. (CHOOSE m1 \in b \cup {a} : \A z \in b \cup {a} : m1 <= z) = m
        <4>1. b \cup {a} = {y, a}
          BY <3>3
        <4>2. \A m1 \in {y, a} : (\A z \in {y, a} : m1 <= z) => m1 = m
          BY <2>1, <3>2, <3>4
        <4> QED
          BY <3>4, <4>1, <4>2
      <3>6. PICK r : r = [p EXCEPT ![sh] = @ \ {y}]
        OBVIOUS
      <3>7. B2!PutAt(q, sh) = [pool |-> r, addr |-> m, done |-> FALSE]
        BY <1>2, <2>0, <2>2, <2>5, <3>3, <3>5, <3>6 DEF B2!PutAt
      <3>8. /\ Parted(r, (R \ Un(x)) \ Un(<<y, sh>>))
            /\ Un(<<y, sh>>) \subseteq R \ Un(x)
        <4>1. PICK S : S = R \ Un(x)
          OBVIOUS
        <4>2. Parted(p, S)
          BY <2>1, <4>1
        <4>3. Parted(r, S \ Un(<<y, sh>>)) /\ Un(<<y, sh>>) \subseteq S
          BY <3>1, <3>6, <4>2, DropBlock
        <4> QED
          BY <4>1, <4>3
      <3>9. /\ sh + 1 \in B2!Shift /\ m \in Nat /\ Aligned(<<m, sh + 1>>)
            /\ Un(<<m, sh + 1>>) = Un(x) \cup Un(<<y, sh>>)
        <4>1. CASE Halves(y, a, sh)
          <5>1. /\ sh + 1 \in B2!Shift /\ Aligned(<<y, sh + 1>>) /\ y < a
                /\ Un(<<y, sh + 1>>) = Un(<<y, sh>>) \cup Un(<<a, sh>>)
            BY <2>1, <3>2, <4>1, HalvesJoin
          <5>2. m = y
            BY <2>1, <3>2, <3>4, <5>1
          <5> QED
            BY <2>0, <3>2, <5>1, <5>2
        <4>2. CASE Halves(a, y, sh)
          <5>1. /\ sh + 1 \in B2!Shift /\ Aligned(<<a, sh + 1>>) /\ a < y
                /\ Un(<<a, sh + 1>>) = Un(<<a, sh>>) \cup Un(<<y, sh>>)
            BY <2>1, <3>2, <4>2, HalvesJoin
          <5>2. m = a
            BY <2>1, <3>2, <3>4, <5>1
          <5> QED
            BY <2>0, <2>1, <5>1, <5>2
        <4> QED
          BY <3>1, <4>1, <4>2
      <3>10. (R \ Un(x)) \ Un(<<y, sh>>) = R \ Un(<<m, sh + 1>>)
        BY <3>9
      <3>11. Un(<<m, sh + 1>>) \subseteq R
        BY <2>1, <3>8, <3>9
      <3>12. Parted(r, R \ Un(<<m, sh + 1>>))
        BY <3>8, <3>10
      <3>13. PICK w : w = B2!PutAt(q, sh)
        OBVIOUS
      <3>14. w.pool = r /\ w.addr = m /\ ~w.done
        BY <3>7, <3>13
      <3>15. PutInv(w, sh + 1, R)
        BY <3>9, <3>11, <3>12, <3>14 DEF PutInv
      <3> QED
        BY <3>13, <3>15
    <2> QED
      BY <2>4, <2>5
  <1> QED
    BY <1>1, <1>2

\* What put computes.
LEMMA PutSteps ==
  ASSUME NEW p0 \in Pools, NEW a0 \in Nat, NEW sh0 \in B2!Shift
  PROVE  \E f \in [sh0..Top -> PutRec] :
           /\ B2!put(p0, a0, sh0) = f[Top].pool
           /\ \A j \in sh0..Top :
                f[j] = IF j = sh0
                       THEN [pool |-> p0, addr |-> a0, done |-> FALSE]
                       ELSE B2!PutAt(f[j - 1], j - 1)
  <1> DEFINE D == sh0..Top
             X == PutRec
             Val(f, j) == IF j = sh0
                          THEN [pool |-> p0, addr |-> a0, done |-> FALSE]
                          ELSE B2!PutAt(f[j - 1], j - 1)
             G == [q \in D \X [D -> X] |-> Val(q[2], q[1])]
  <1>0. Top \in Nat /\ sh0 \in Nat /\ sh0 < Top
    BY HeapAssumption DEF B2!Shift
  <1>1. ASSUME NEW f, NEW j \in D, \A k \in sh0..j - 1 : f[k] \in X
        PROVE  Val(f, j) \in X
    <2>1. CASE j = sh0
      BY <2>1 DEF PutRec
    <2>2. CASE j # sh0
      <3>1. j - 1 \in sh0..j - 1 /\ j - 1 \in B2!Shift
        BY <1>0, <2>2 DEF B2!Shift
      <3>2. f[j - 1] \in PutRec
        BY <3>1, <1>1
      <3> QED
        BY <2>2, <3>1, <3>2, PutAtType
    <2> QED
      BY <2>1, <2>2
  <1>2. ASSUME NEW f, NEW g, NEW j \in D, \A k \in sh0..j - 1 : f[k] = g[k]
        PROVE  Val(f, j) = Val(g, j)
    <2>1. j # sh0 => j - 1 \in sh0..j - 1
      BY <1>0
    <2> QED
      BY <2>1, <1>2
  <1>3. X # {}
    <2>1. [pool |-> p0, addr |-> a0, done |-> FALSE] \in X
      BY DEF PutRec
    <2> QED
      BY <2>1
  <1> HIDE DEF Val, X
  <1>5. FromBelow(D, X, G)
    <2>1. \E lo, hi \in Int : D = lo..hi
      <3>1. sh0 \in Int /\ Top \in Int
        BY <1>0
      <3> QED
        BY <3>1
    <2>2. ASSUME NEW j \in D, NEW f \in [D -> X] PROVE Val(f, j) \in X
      <3>1. \A k \in sh0..j - 1 : k \in D
        BY <1>0
      <3> QED
        BY <3>1, <1>1
    <2>3. ASSUME NEW j \in D, NEW f \in [D -> X], NEW g \in [D -> X],
                 \A k \in D : k < j => f[k] = g[k]
          PROVE  G[<<j, f>>] = G[<<j, g>>]
      <3>1. \A k \in sh0..j - 1 : k \in D /\ k < j
        BY <1>0
      <3>2. Val(f, j) = Val(g, j)
        BY <3>1, <2>3, <1>2
      <3> QED
        BY <3>2
    <2>4. G \in [D \X [D -> X] -> X]
      BY <2>2
    <2> HIDE DEF G, D
    <2> QED
      BY <1>3, <2>1, <2>3, <2>4 DEF FromBelow
  <1>6. Solved(D, X, G)
    <2> HIDE DEF D, G
    <2> QED
      BY <1>5, Recursion
  <1>7. PICK f \in [D -> X] : f = [j \in D |-> Val(f, j)]
    BY <1>6 DEF Solved
  <1>8. PICK v : v = [j \in D |-> Val(v, j)] /\ B2!put(p0, a0, sh0) = v[Top].pool
    BY <1>7, Zenon DEF B2!put, Val
  <1> DEFINE P == {j \in D : v[j] \in X}
  <1>9. ASSUME NEW j \in D, \A k \in sh0..j - 1 : k \in P PROVE j \in P
    <2>1. Val(v, j) \in X
      BY <1>1, <1>9
    <2>2. v[j] = Val(v, j)
      BY <1>8
    <2> QED
      BY <2>1, <2>2
  <1>10. \A j \in D : j \in P
    <2>1. sh0 \in Int /\ Top \in Int
      BY <1>0
    <2> HIDE DEF P
    <2> QED
      BY <2>1, <1>9, IntervalInduct
  <1>11. v \in [D -> X] /\ \A j \in D : v[j] = Val(v, j)
    BY <1>8, <1>10
  <1> QED
    BY <1>8, <1>11 DEF X, Val

\* put adds a block: it is part of the partition afterwards.
LEMMA PutAdds ==
  ASSUME NEW p0, NEW R, Parted(p0, R), NEW a0 \in Nat, NEW sh0 \in B2!Shift,
         Aligned(<<a0, sh0>>), Un(<<a0, sh0>>) \cap R = {}
  PROVE  Parted(B2!put(p0, a0, sh0), R \cup Un(<<a0, sh0>>))
  <1>0. Top \in Nat /\ sh0 \in Nat /\ sh0 < Top /\ p0 \in Pools
    BY HeapAssumption DEF B2!Shift, Parted
  <1>1. PICK f \in [sh0..Top -> PutRec] :
          /\ B2!put(p0, a0, sh0) = f[Top].pool
          /\ \A j \in sh0..Top :
               f[j] = IF j = sh0
                      THEN [pool |-> p0, addr |-> a0, done |-> FALSE]
                      ELSE B2!PutAt(f[j - 1], j - 1)
    BY <1>0, PutSteps
  <1>2. PICK S : S = R \cup Un(<<a0, sh0>>)
    OBVIOUS
  <1> DEFINE P == {j \in sh0..Top : PutInv(f[j], j, S)}
  <1>3. ASSUME NEW j \in sh0..Top, \A k \in sh0..j - 1 : k \in P PROVE j \in P
    <2>1. CASE j = sh0
      <3>1. f[j] = [pool |-> p0, addr |-> a0, done |-> FALSE]
        BY <1>1, <2>1
      <3>2. S \ Un(<<a0, sh0>>) = R
        BY <1>2
      <3>3. Un(<<a0, sh0>>) \subseteq S
        BY <1>2
      <3> QED
        <4>1. PICK w : w = f[j]
          OBVIOUS
        <4>2. w.pool = p0 /\ w.addr = a0 /\ ~w.done
          BY <3>1, <4>1
        <4>3. Parted(p0, S \ Un(<<a0, sh0>>))
          BY <3>2
        <4>4. PutInv(w, sh0, S)
          BY <3>3, <4>2, <4>3 DEF PutInv
        <4> QED
          BY <2>1, <4>1, <4>4
    <2>2. CASE j # sh0
      <3>1. /\ j - 1 \in sh0..j - 1 /\ j - 1 \in B2!Shift
            /\ j - 1 \in sh0..Top /\ (j - 1) + 1 = j
        BY <1>0, <2>2 DEF B2!Shift
      <3>2. PutInv(f[j - 1], j - 1, S)
        BY <3>1, <1>3
      <3>3. f[j - 1] \in PutRec
        BY <3>1
      <3>4. PutInv(B2!PutAt(f[j - 1], j - 1), (j - 1) + 1, S)
        BY <3>1, <3>2, <3>3, PutAtStep
      <3>5. f[j] = B2!PutAt(f[j - 1], j - 1)
        BY <1>1, <2>2
      <3> QED
        BY <3>1, <3>4, <3>5
    <2> QED
      BY <2>1, <2>2
  <1>4. \A j \in sh0..Top : j \in P
    <2>1. sh0 \in Int /\ Top \in Int
      BY <1>0
    <2> HIDE DEF P
    <2> QED
      BY <2>1, <1>3, IntervalInduct
  <1>5. PutInv(f[Top], Top, S)
    BY <1>0, <1>4
  <1>6. Top \notin B2!Shift
    BY <1>0 DEF B2!Shift
  <1>7. f[Top] \in PutRec
    BY <1>0
  <1>8. Parted(f[Top].pool, S)
    BY <1>5, <1>6, <1>7 DEF PutInv, PutRec
  <1> QED
    BY <1>1, <1>2, <1>8

\* The lower and the upper half of a block.
LEMMA SplitBlock ==
  ASSUME NEW a \in Nat, NEW sh \in B2!Shift, sh + 1 \in B2!Shift,
         Aligned(<<a, sh + 1>>)
  PROVE  /\ a + Size(sh) \in Nat
         /\ Aligned(<<a, sh>>) /\ Aligned(<<a + Size(sh), sh>>)
         /\ Un(<<a, sh + 1>>) = Un(<<a, sh>>) \cup Un(<<a + Size(sh), sh>>)
         /\ Un(<<a, sh>>) \cap Un(<<a + Size(sh), sh>>) = {}
  <1>1. PICK z \in Nat : z = Size(sh) /\ z >= 1 /\ Size(sh + 1) = 2 * z
    BY ShiftFacts
  <1>2. PICK k \in Nat : a = k * (2 * z)
    BY <1>1 DEF Aligned
  <1>3. a = (2 * k) * z /\ a + z = (2 * k + 1) * z
    BY <1>1, <1>2
  <1>4. 2 * k \in Nat /\ 2 * k + 1 \in Nat
    OBVIOUS
  <1>5. Aligned(<<a, sh>>) /\ Aligned(<<a + Size(sh), sh>>)
    BY <1>1, <1>3, <1>4 DEF Aligned
  <1> QED
    BY <1>1, <1>5 DEF Un

\* put gives pools.
LEMMA PutType ==
  ASSUME NEW p0 \in Pools, NEW a0 \in Nat, NEW sh0 \in B2!Shift
  PROVE  B2!put(p0, a0, sh0) \in Pools
  <1>1. PICK f \in [sh0..Top -> PutRec] : B2!put(p0, a0, sh0) = f[Top].pool
    BY PutSteps
  <1>2. Top \in sh0..Top
    BY HeapAssumption DEF B2!Shift
  <1> QED
    BY <1>1, <1>2 DEF PutRec

\* What the splits of get compute.
LEMMA SplitSteps ==
  ASSUME pool \in Pools, NEW a \in Nat, NEW k \in B2!Shift, NEW sh \in 0..k
  PROVE  \E f : /\ B2!Split(a, k, sh) = f[k - sh]
               /\ \A j \in 0..k - sh :
                    f[j] = IF j = 0 THEN [pool EXCEPT ![k] = @ \ {a}]
                           ELSE B2!put(f[j - 1], a + B2!Size(k - j), k - j)
  <1> DEFINE D == 0..k - sh
             X == Pools
             Val(f, j) == IF j = 0 THEN [pool EXCEPT ![k] = @ \ {a}]
                          ELSE B2!put(f[j - 1], a + B2!Size(k - j), k - j)
             G == [q \in D \X [D -> X] |-> Val(q[2], q[1])]
  <1>0. Top \in Nat /\ k \in Nat /\ k < Top /\ sh \in Nat /\ k - sh \in Nat
    BY HeapAssumption DEF B2!Shift
  <1>1. ASSUME NEW f, NEW j \in D, \A k1 \in 0..j - 1 : f[k1] \in X
        PROVE  Val(f, j) \in X
    <2>1. CASE j = 0
      BY <2>1 DEF Pools
    <2>2. CASE j # 0
      <3>1. j - 1 \in 0..j - 1
        BY <1>0, <2>2
      <3>2. f[j - 1] \in X
        BY <3>1, <1>1
      <3>3. k - j \in B2!Shift
        BY <1>0 DEF B2!Shift
      <3>4. a + B2!Size(k - j) \in Nat
        BY <3>3, ShiftFacts, SameSize
      <3> QED
        BY <2>2, <3>2, <3>3, <3>4, PutType
    <2> QED
      BY <2>1, <2>2
  <1>2. ASSUME NEW f, NEW g, NEW j \in D, \A k1 \in 0..j - 1 : f[k1] = g[k1]
        PROVE  Val(f, j) = Val(g, j)
    <2>1. j # 0 => j - 1 \in 0..j - 1
      BY <1>0
    <2> QED
      BY <2>1, <1>2
  <1>3. X # {}
    <2>1. pool \in X
      OBVIOUS
    <2> QED
      BY <2>1
  <1> HIDE DEF Val, X
  <1>5. FromBelow(D, X, G)
    <2>1. \E lo, hi \in Int : D = lo..hi
      <3>1. 0 \in Int /\ k - sh \in Int
        BY <1>0
      <3> QED
        BY <3>1
    <2>2. ASSUME NEW j \in D, NEW f \in [D -> X] PROVE Val(f, j) \in X
      <3>1. \A k1 \in 0..j - 1 : k1 \in D
        BY <1>0
      <3> QED
        BY <3>1, <1>1
    <2>3. ASSUME NEW j \in D, NEW f \in [D -> X], NEW g \in [D -> X],
                 \A k1 \in D : k1 < j => f[k1] = g[k1]
          PROVE  G[<<j, f>>] = G[<<j, g>>]
      <3>1. \A k1 \in 0..j - 1 : k1 \in D /\ k1 < j
        BY <1>0
      <3>2. Val(f, j) = Val(g, j)
        BY <3>1, <2>3, <1>2
      <3> QED
        BY <3>2
    <2>4. G \in [D \X [D -> X] -> X]
      BY <2>2
    <2> HIDE DEF G, D
    <2> QED
      BY <1>3, <2>1, <2>3, <2>4 DEF FromBelow
  <1>6. Solved(D, X, G)
    <2> HIDE DEF D, G
    <2> QED
      BY <1>5, Recursion
  <1>7. PICK f \in [D -> X] : f = [j \in D |-> Val(f, j)]
    BY <1>6 DEF Solved
  <1>8. PICK v : v = [j \in D |-> Val(v, j)] /\ B2!Split(a, k, sh) = v[k - sh]
    BY <1>7, Zenon DEF B2!Split, Val
  <1> QED
    BY <1>8 DEF Val

\* What expand computes.
LEMMA ExpandSteps ==
  ASSUME pool \in Pools, NEW a \in Nat, NEW len, NEW c \in Nat, c = len \div Size(Top - 1)
  PROVE  \E f : /\ B2!Expanded(a, len) = f[c]
               /\ \A j \in 0..c :
                    f[j] = IF j = 0 THEN pool
                           ELSE B2!put(f[j - 1],
                                       a + (j - 1) * B2!Size(Top - 1), Top - 1)
  <1> DEFINE D == 0..c
             X == Pools
             Val(f, j) == IF j = 0 THEN pool
                          ELSE B2!put(f[j - 1], a + (j - 1) * B2!Size(Top - 1),
                                      Top - 1)
             G == [q \in D \X [D -> X] |-> Val(q[2], q[1])]
  <1>0. Top - 1 \in B2!Shift
    BY HeapAssumption DEF B2!Shift
  <1>1. ASSUME NEW f, NEW j \in D, \A k1 \in 0..j - 1 : f[k1] \in X
        PROVE  Val(f, j) \in X
    <2>1. CASE j = 0
      BY <2>1
    <2>2. CASE j # 0
      <3>1. j - 1 \in 0..j - 1
        BY <1>0, <2>2
      <3>2. f[j - 1] \in X
        BY <3>1, <1>1
      <3>3. B2!Size(Top - 1) \in Nat
        BY <1>0, ShiftFacts, SameSize
      <3>4. a + (j - 1) * B2!Size(Top - 1) \in Nat
        BY <2>2, <3>3
      <3> QED
        BY <2>2, <3>2, <3>4, <1>0, PutType
    <2> QED
      BY <2>1, <2>2
  <1>2. ASSUME NEW f, NEW g, NEW j \in D, \A k1 \in 0..j - 1 : f[k1] = g[k1]
        PROVE  Val(f, j) = Val(g, j)
    <2>1. j # 0 => j - 1 \in 0..j - 1
      BY <1>0
    <2> QED
      BY <2>1, <1>2
  <1>3. X # {}
    <2>1. pool \in X
      OBVIOUS
    <2> QED
      BY <2>1
  <1> HIDE DEF Val, X
  <1>5. FromBelow(D, X, G)
    <2>1. \E lo, hi \in Int : D = lo..hi
      <3>1. 0 \in Int /\ c \in Int
        BY <1>0
      <3> QED
        BY <3>1
    <2>2. ASSUME NEW j \in D, NEW f \in [D -> X] PROVE Val(f, j) \in X
      <3>1. \A k1 \in 0..j - 1 : k1 \in D
        BY <1>0
      <3> QED
        BY <3>1, <1>1
    <2>3. ASSUME NEW j \in D, NEW f \in [D -> X], NEW g \in [D -> X],
                 \A k1 \in D : k1 < j => f[k1] = g[k1]
          PROVE  G[<<j, f>>] = G[<<j, g>>]
      <3>1. \A k1 \in 0..j - 1 : k1 \in D /\ k1 < j
        BY <1>0
      <3>2. Val(f, j) = Val(g, j)
        BY <3>1, <2>3, <1>2
      <3> QED
        BY <3>2
    <2>4. G \in [D \X [D -> X] -> X]
      BY <2>2
    <2> HIDE DEF G, D
    <2> QED
      BY <1>3, <2>1, <2>3, <2>4 DEF FromBelow
  <1>6. Solved(D, X, G)
    <2> HIDE DEF D, G
    <2> QED
      BY <1>5, Recursion
  <1>7. PICK f \in [D -> X] : f = [j \in D |-> Val(f, j)]
    BY <1>6 DEF Solved
  <1>8. PICK v : v = [j \in D |-> Val(v, j)] /\ B2!Expanded(a, len) = v[c]
    <2>1. c = len \div B2!Size(Top - 1)
      BY SameSize
    <2> QED
      BY <1>7, <2>1, Zenon DEF B2!Expanded, Val
  <1> QED
    BY <1>8 DEF Val

\* get leaves the rest of the block that it splits in the pools.
LEMMA SplitParts ==
  ASSUME NEW R, Parted(pool, R), NEW k \in B2!Shift, NEW a \in pool[k],
         NEW sh \in 0..k
  PROVE  /\ Parted(B2!Split(a, k, sh), R \ Un(<<a, sh>>))
         /\ a \in Nat /\ Un(<<a, sh>>) \subseteq R /\ Aligned(<<a, sh>>)
  <1>0. /\ Top \in Nat /\ k \in Nat /\ k < Top /\ sh \in Nat /\ sh <= k
        /\ k - sh \in Nat
    BY HeapAssumption DEF B2!Shift
  <1>1. pool \in Pools /\ a \in Nat
    BY DEF Parted, Pools
  <1>2. PICK f : /\ B2!Split(a, k, sh) = f[k - sh]
                 /\ \A j \in 0..k - sh :
                      f[j] = IF j = 0 THEN [pool EXCEPT ![k] = @ \ {a}]
                             ELSE B2!put(f[j - 1], a + B2!Size(k - j), k - j)
    BY <1>1, SplitSteps
  <1> DEFINE Q(j) == /\ Parted(f[j], R \ Un(<<a, k - j>>))
                     /\ Un(<<a, k - j>>) \subseteq R /\ Aligned(<<a, k - j>>)
             P == {j \in 0..k - sh : Q(j)}
  <1>3. ASSUME NEW j \in 0..k - sh, \A i \in 0..j - 1 : i \in P PROVE j \in P
    <2>1. CASE j = 0
      <3>1. k - j = k
        BY <1>0, <2>1
      <3>2. f[j] = [pool EXCEPT ![k] = @ \ {a}]
        BY <1>2, <2>1
      <3>3. /\ Parted(f[j], R \ Un(<<a, k>>))
            /\ Un(<<a, k>>) \subseteq R /\ Aligned(<<a, k>>)
        BY <3>2, DropBlock
      <3> QED
        BY <3>1, <3>3
    <2>2. CASE j # 0
      <3>1. PICK i, m : i = j - 1 /\ m = k - j
        OBVIOUS
      <3>2. /\ i \in 0..j - 1 /\ m \in B2!Shift /\ m + 1 \in B2!Shift
            /\ k - i = m + 1
        BY <1>0, <2>2, <3>1 DEF B2!Shift
      <3>3. /\ Parted(f[i], R \ Un(<<a, m + 1>>))
            /\ Un(<<a, m + 1>>) \subseteq R /\ Aligned(<<a, m + 1>>)
        BY <1>3, <3>2
      <3>4. PICK u : u = a + Size(m)
        OBVIOUS
      <3>5. /\ u \in Nat /\ Aligned(<<a, m>>) /\ Aligned(<<u, m>>)
            /\ Un(<<a, m + 1>>) = Un(<<a, m>>) \cup Un(<<u, m>>)
            /\ Un(<<a, m>>) \cap Un(<<u, m>>) = {}
        BY <1>1, <3>2, <3>3, <3>4, SplitBlock
      <3>6. f[j] = B2!put(f[i], u, m)
        BY <1>2, <2>2, <3>1, <3>4, SameSize
      <3>7. PICK S : S = R \ Un(<<a, m + 1>>)
        OBVIOUS
      <3>8. Un(<<u, m>>) \cap S = {} /\ Parted(f[i], S)
        BY <3>3, <3>5, <3>7
      <3>9. Parted(f[j], S \cup Un(<<u, m>>))
        BY <3>2, <3>5, <3>6, <3>8, PutAdds
      <3>10. S \cup Un(<<u, m>>) = R \ Un(<<a, m>>)
        BY <3>3, <3>5, <3>7
      <3>11. Un(<<a, m>>) \subseteq R
        BY <3>3, <3>5
      <3> QED
        BY <3>1, <3>5, <3>9, <3>10, <3>11
    <2> QED
      BY <2>1, <2>2
  <1>4. \A j \in 0..k - sh : j \in P
    <2>1. 0 \in Int /\ k - sh \in Int
      BY <1>0
    <2> HIDE DEF P
    <2> QED
      BY <2>1, <1>3, IntervalInduct
  <1>5. k - (k - sh) = sh /\ k - sh \in 0..k - sh
    BY <1>0
  <1>6. k - sh \in P
    BY <1>4, <1>5
  <1>7. Q(k - sh)
    BY <1>6
  <1> QED
    BY <1>1, <1>2, <1>5, <1>7

\* expand adds a region of largest blocks.
LEMMA ExpandAdds ==
  ASSUME NEW R, Parted(pool, R), NEW i \in Nat, NEW c \in Nat,
         NEW most, most = Size(Top - 1), NEW a, a = i * most,
         NEW len, len = c * most, (a..a + len - 1) \cap R = {}
  PROVE  Parted(B2!Expanded(a, len), R \cup (a..a + len - 1))
  <1>0. /\ Top \in Nat /\ Top - 1 \in B2!Shift /\ most \in Nat \ {0}
        /\ most >= 1
    <2>1. Top \in Nat /\ Top - 1 \in B2!Shift
      BY HeapAssumption DEF B2!Shift
    <2> QED
      BY <2>1, ShiftFacts
  <1>1. a \in Nat /\ len \in Nat /\ len \div most = c /\ pool \in Pools
    <2>1. a \in Nat /\ len \in Nat
      BY <1>0
    <2>2. len \div most = c
      BY <1>0, <2>1, Quotient
    <2> QED
      BY <2>1, <2>2 DEF Parted
  <1>2. PICK f : /\ B2!Expanded(a, len) = f[c]
                 /\ \A j \in 0..c :
                      f[j] = IF j = 0 THEN pool
                             ELSE B2!put(f[j - 1],
                                         a + (j - 1) * B2!Size(Top - 1), Top - 1)
    BY <1>1, ExpandSteps
  <1> DEFINE P == {j \in 0..c : Parted(f[j], R \cup (a..a + j * most - 1))}
  <1>3. ASSUME NEW j \in 0..c, \A k \in 0..j - 1 : k \in P PROVE j \in P
    <2>1. CASE j = 0
      <3>1. a..a + j * most - 1 = {}
        BY <1>0, <1>1, <2>1
      <3>2. R \cup (a..a + j * most - 1) = R
        BY <3>1
      <3> QED
        BY <1>2, <2>1, <3>2
    <2>2. CASE j # 0
      <3>1. PICK k \in Nat : k = j - 1 /\ k \in 0..j - 1 /\ j = k + 1
        BY <2>2
      <3>2. PICK u \in Nat : u = k * most
        BY <1>0, <3>1
      <3>3. j * most = u + most
        BY <1>0, <3>1, <3>2
      <3>4. j * most <= len
        <4>1. j <= c /\ j \in Nat
          OBVIOUS
        <4> QED
          BY <1>0, <4>1
      <3>5. PICK S : S = R \cup (a..a + u - 1)
        OBVIOUS
      <3>6. Parted(f[k], S)
        BY <1>3, <3>1, <3>2, <3>5
      <3>7. PICK x : x = <<a + u, Top - 1>>
        OBVIOUS
      <3>8. Un(x) = a + u..a + u + most - 1
        BY <3>7 DEF Un
      <3>9. Aligned(x)
        <4>1. a + u = (i + k) * most /\ i + k \in Nat
          BY <1>0, <3>1, <3>2
        <4> QED
          BY <3>7, <4>1 DEF Aligned
      <3>10. Un(x) \cap S = {}
        <4>0. /\ a \in Nat /\ u \in Nat /\ len \in Nat /\ most \in Nat
              /\ most >= 1 /\ u + most <= len
          BY <1>0, <1>1, <3>2, <3>3, <3>4
        <4>1. Un(x) \subseteq a..a + len - 1
          BY ONLY <4>0, <3>8
        <4>2. Un(x) \cap (a..a + u - 1) = {}
          BY ONLY <4>0, <3>8
        <4> QED
          BY <3>5, <4>1, <4>2
      <3>11. f[j] = B2!put(f[k], a + u, Top - 1)
        BY <1>2, <2>2, <3>1, <3>2, SameSize
      <3>12. Parted(f[j], S \cup Un(x))
        <4>1. a + u \in Nat
          BY <1>1, <3>2
        <4> QED
          BY <1>0, <3>6, <3>7, <3>9, <3>10, <3>11, <4>1, PutAdds
      <3>13. S \cup Un(x) = R \cup (a..a + j * most - 1)
        <4>0. a \in Nat /\ u \in Nat /\ most \in Nat /\ most >= 1
          BY <1>0, <1>1, <3>2
        <4>1. (a..a + u - 1) \cup Un(x) = a..a + (u + most) - 1
          BY ONLY <4>0, <3>8
        <4> QED
          BY <3>3, <3>5, <4>1
      <3> QED
        BY <3>12, <3>13
    <2> QED
      BY <2>1, <2>2
  <1>4. \A j \in 0..c : j \in P
    <2>1. 0 \in Int /\ c \in Int
      OBVIOUS
    <2> HIDE DEF P
    <2> QED
      BY <2>1, <1>3, IntervalInduct
  <1>5. Parted(f[c], R \cup (a..a + c * most - 1))
    BY <1>4
  <1> QED
    BY <1>2, <1>5

\* The units of pages.
Given(P) == UNION {p * PageUnits..p * PageUnits + PageUnits - 1 : p \in P}

(* The pools are a partition of what the heap was given and did not hand   *)
(* out, and the blocks that are handed out are apart.                      *)
HeapInv ==
  /\ taken \subseteq Block2
  /\ \A b, c \in taken : b # c => Un(b) \cap Un(c) = {}
  /\ \A b \in taken : Aligned(b)
  /\ Cover(taken) \subseteq Given(pages)
  /\ Parted(pool, Given(pages) \ Cover(taken))
  /\ pages \subseteq 0..HeapPages - 1
  /\ cap_size = Cardinality(pages) * PageUnits
  /\ call \in [Callers -> [at : {"idle", "grow", "retry"}, sh : B2!Shift]]

\* A unit belongs to the page that its number divided by PageUnits names.
LEMMA GivenForm ==
  ASSUME NEW P, P \subseteq Nat
  PROVE  Given(P) = {u \in Nat : u \div PageUnits \in P}
  <1>0. PageUnits \in Nat \ {0}
    BY HeapAssumption
  <1>1. ASSUME NEW u \in Given(P) PROVE u \in Nat /\ u \div PageUnits \in P
    <2>1. PICK p \in P : u \in p * PageUnits..p * PageUnits + PageUnits - 1
      BY <1>1 DEF Given
    <2>2. p \in Nat /\ p * PageUnits \in Nat
      BY <1>0
    <2>3. u \in Nat /\ p * PageUnits <= u /\ u < p * PageUnits + PageUnits
      BY <1>0, <2>1, <2>2
    <2>4. u \div PageUnits = p
      BY <1>0, <2>2, <2>3, Quotient
    <2> QED
      BY <2>3, <2>4
  <1>2. ASSUME NEW u \in Nat, u \div PageUnits \in P PROVE u \in Given(P)
    <2>1. PICK p \in P : p = u \div PageUnits
      BY <1>2
    <2>2. p \in Nat /\ p * PageUnits <= u /\ u < p * PageUnits + PageUnits
      BY <1>0, <2>1, Division
    <2>3. p * PageUnits \in Nat
      BY <1>0, <2>2
    <2>4. u \in p * PageUnits..p * PageUnits + PageUnits - 1
      BY <1>0, <2>2, <2>3
    <2> QED
      BY <2>4 DEF Given
  <1> QED
    BY <1>1, <1>2

\* A run of pages is a run of units.
LEMMA GivenRun ==
  ASSUME NEW p \in Nat, NEW n \in Nat \ {0}
  PROVE  Given(p..p + n - 1) =
           p * PageUnits..p * PageUnits + n * PageUnits - 1
  <1>0. PageUnits \in Nat \ {0} /\ p..p + n - 1 \subseteq Nat
    BY HeapAssumption
  <1>1. PICK lo \in Nat, len \in Nat : lo = p * PageUnits /\ len = n * PageUnits
    BY <1>0
  <1>2. Given(p..p + n - 1) = {u \in Nat : u \div PageUnits \in p..p + n - 1}
    BY <1>0, GivenForm
  <1>3. (p + n) * PageUnits = lo + len
    BY <1>0, <1>1
  <1>4. ASSUME NEW u \in Nat
        PROVE  u \div PageUnits \in p..p + n - 1 <=> lo <= u /\ u < lo + len
    <2>1. PICK q \in Nat, e \in Nat :
            /\ q = u \div PageUnits /\ e = q * PageUnits
            /\ e <= u /\ u < e + PageUnits
      BY <1>0, Division
    <2>2. CASE q < p
      <3>1. (q + 1) * PageUnits <= p * PageUnits
        BY <1>0, <2>2
      <3>2. (q + 1) * PageUnits = e + PageUnits
        BY <1>0, <2>1
      <3>3. u < lo
        BY <1>0, <1>1, <2>1, <3>1, <3>2
      <3> QED
        BY <1>1, <2>1, <2>2, <3>3
    <2>3. CASE q >= p /\ q < p + n
      <3>1. p * PageUnits <= q * PageUnits
        BY <1>0, <2>3
      <3>2. (q + 1) * PageUnits <= (p + n) * PageUnits
        BY <1>0, <2>3
      <3>3. (q + 1) * PageUnits = e + PageUnits
        BY <1>0, <2>1
      <3>4. lo <= u /\ u < lo + len
        BY <1>0, <1>1, <1>3, <2>1, <3>1, <3>2, <3>3
      <3> QED
        BY <2>1, <2>3, <3>4
    <2>4. CASE q >= p + n
      <3>1. (p + n) * PageUnits <= q * PageUnits
        BY <1>0, <2>4
      <3>2. lo + len <= u
        BY <1>1, <1>3, <2>1, <3>1
      <3> QED
        BY <1>1, <2>1, <2>4, <3>2
    <2> QED
      BY <2>1, <2>2, <2>3, <2>4
  <1>5. ASSUME NEW u PROVE u \in Given(p..p + n - 1) <=> u \in lo..lo + len - 1
    <2>1. u \in lo..lo + len - 1 <=> u \in Nat /\ lo <= u /\ u < lo + len
      BY <1>1
    <2> QED
      BY <1>2, <1>4, <2>1
  <1> QED
    BY <1>1, <1>5

\* The heap starts with nothing.
LEMMA InitHeap == B2!Init => HeapInv
  <1> SUFFICES ASSUME B2!Init PROVE HeapInv
    OBVIOUS
  <1>1. Given(pages) = {} /\ Cover(taken) = {}
    BY DEF B2!Init, Given, Cover
  <1>2. Parted(pool, {})
    <2>1. pool \in Pools /\ \A sh \in B2!Shift : pool[sh] = {}
      BY DEF B2!Init, Pools
    <2>2. Blk(pool) = {}
      BY <2>1 DEF Blk, Block2
    <2>3. Cover(Blk(pool)) = {}
      BY <2>2 DEF Cover
    <2> QED
      BY <2>1, <2>2, <2>3 DEF Parted
  <1>3. 0 \in B2!Shift
    BY HeapAssumption DEF B2!Shift
  <1>4. cap_size = Cardinality(pages) * PageUnits
    BY FS_EmptySet, HeapAssumption DEF B2!Init
  <1> QED
    BY <1>1, <1>2, <1>3, <1>4 DEF B2!Init, HeapInv

\* An allocation hands out units of the pools.
LEMMA AllocateStep ==
  ASSUME HeapInv, NEW c \in Callers, NEW sh \in B2!Shift, B2!Allocate(c, sh)
  PROVE  HeapInv'
  <1>1. 0 \in B2!Shift /\ call' \in [Callers -> [at : {"idle", "grow", "retry"},
                                                 sh : B2!Shift]]
    <2>1. 0 \in B2!Shift
      BY HeapAssumption DEF B2!Shift
    <2> QED
      BY <2>1 DEF HeapInv, B2!Allocate, B2!At
  <1>2. CASE B2!Splittable(sh) = {}
    BY <1>1, <1>2 DEF HeapInv, B2!Allocate
  <1>3. CASE B2!Splittable(sh) # {}
    <2>1. B2!Splittable(sh) \subseteq Nat
      BY HeapAssumption DEF B2!Splittable, B2!Shift
    <2>2. PICK k : k = CHOOSE k1 \in B2!Splittable(sh) :
                         \A m \in B2!Splittable(sh) : k1 <= m
      OBVIOUS
    <2>3. k \in B2!Splittable(sh)
      BY <1>3, <2>1, <2>2, Least
    <2>4. k \in B2!Shift /\ sh \in 0..k /\ pool[k] # {} /\ pool[k] \subseteq Nat
      BY <2>3, HeapAssumption
         DEF B2!Splittable, B2!Shift, HeapInv, Parted, Pools
    <2>5. PICK a : a = CHOOSE a1 \in pool[k] : \A b \in pool[k] : a1 <= b
      OBVIOUS
    <2>6. a \in pool[k]
      BY <2>4, <2>5, Least
    <2>7. B2!get(sh) = [addr |-> a, pool |-> B2!Split(a, k, sh)]
      BY <2>2, <2>5, Zenon DEF B2!get
    <2>8. PICK x, R : x = <<a, sh>> /\ R = Given(pages) \ Cover(taken)
      OBVIOUS
    <2>9. /\ pool' = B2!Split(a, k, sh) /\ taken' = taken \cup {x}
          /\ UNCHANGED <<cap_size, pages>>
      BY <1>3, <2>7, <2>8 DEF B2!Allocate
    <2>10. Parted(pool, R)
      BY <2>8 DEF HeapInv
    <2>11. /\ Parted(pool', R \ Un(x)) /\ a \in Nat /\ Un(x) \subseteq R
           /\ Aligned(x)
      BY <2>4, <2>6, <2>8, <2>9, <2>10, SplitParts
    <2>12. x \in Block2
      BY <2>8, <2>11 DEF Block2
    <2>13. Cover(taken') = Cover(taken) \cup Un(x)
      BY <2>9 DEF Cover
    <2>14. \A b \in taken : Un(b) \cap Un(x) = {}
      BY <2>8, <2>11 DEF Cover
    <2>15. R \ Un(x) = Given(pages') \ Cover(taken')
      BY <2>8, <2>9, <2>13
    <2>16. /\ taken' \subseteq Block2
           /\ \A b, d \in taken' : b # d => Un(b) \cap Un(d) = {}
           /\ \A b \in taken' : Aligned(b)
      BY <2>9, <2>11, <2>12, <2>14 DEF HeapInv
    <2>17. Cover(taken') \subseteq Given(pages')
      BY <2>8, <2>9, <2>11, <2>13 DEF HeapInv
    <2> QED
      BY <1>1, <2>9, <2>11, <2>15, <2>16, <2>17 DEF HeapInv
  <1> QED
    BY <1>2, <1>3

\* A release puts a block back.
LEMMA ReleaseStep ==
  ASSUME HeapInv, NEW x \in taken, B2!Release(x)
  PROVE  HeapInv'
  <1>1. /\ pool' = B2!put(pool, x[1], x[2]) /\ taken' = taken \ {x}
        /\ UNCHANGED <<cap_size, call, pages>>
    BY DEF B2!Release
  <1>2. x \in Block2 /\ Aligned(x)
    BY DEF HeapInv
  <1>3. x[1] \in Nat /\ x[2] \in B2!Shift /\ x = <<x[1], x[2]>>
    BY <1>2 DEF Block2
  <1>4. PICK R : R = Given(pages) \ Cover(taken)
    OBVIOUS
  <1>5. Parted(pool, R)
    BY <1>4 DEF HeapInv
  <1>6. Un(x) \subseteq Cover(taken) /\ Cover(taken) = Cover(taken') \cup Un(x)
    BY <1>1 DEF Cover
  <1>7. Un(x) \cap Cover(taken') = {}
    BY <1>1 DEF Cover, HeapInv
  <1>8. Un(x) \cap R = {}
    BY <1>4, <1>6
  <1>9. Parted(pool', R \cup Un(x))
    BY <1>1, <1>2, <1>3, <1>5, <1>8, PutAdds
  <1>10. R \cup Un(x) = Given(pages') \ Cover(taken')
    BY <1>1, <1>4, <1>6, <1>7 DEF HeapInv
  <1>11. /\ taken' \subseteq Block2
         /\ \A b, d \in taken' : b # d => Un(b) \cap Un(d) = {}
         /\ \A b \in taken' : Aligned(b)
         /\ Cover(taken') \subseteq Given(pages')
    BY <1>1, <1>6 DEF HeapInv
  <1> QED
    BY <1>1, <1>9, <1>10, <1>11 DEF HeapInv

\* The heap grows by whole pages that it did not have.
LEMMA GrowStep ==
  ASSUME HeapInv, NEW c \in Callers, B2!Grow(c)
  PROVE  HeapInv'
  <1>0. PageUnits \in Nat \ {0} /\ MinGrow \in Nat \ {0} /\ HeapPages \in Nat
    BY HeapAssumption
  <1>1. IsFiniteSet(pages) /\ Cardinality(pages) \in Nat /\ pages \subseteq Nat
    <2>1. IsFiniteSet(0..HeapPages - 1)
      BY <1>0, FS_Interval
    <2>2. IsFiniteSet(pages)
      BY <2>1, FS_Subset DEF HeapInv
    <2> QED
      BY <1>0, <2>2, FS_CardinalityType DEF HeapInv
  <1>2. B2!Wanted \in Nat \ {0}
    <2>1. cap_size \in Nat
      BY <1>0, <1>1 DEF HeapInv
    <2>2. cap_size \div PageUnits \in Nat
      BY <1>0, <2>1
    <2> QED
      BY <1>0, <2>2 DEF B2!Wanted
  <1>3. PICK n \in {B2!Wanted, 1} : \E p \in B2!Room(n) :
          /\ pages' = pages \cup (p..p + n - 1)
          /\ pool' = B2!Expanded(p * PageUnits, n * PageUnits)
          /\ cap_size' = cap_size + n * PageUnits
    BY DEF B2!Grow
  <1>4. PICK p \in B2!Room(n) :
          /\ pages' = pages \cup (p..p + n - 1)
          /\ pool' = B2!Expanded(p * PageUnits, n * PageUnits)
          /\ cap_size' = cap_size + n * PageUnits
    BY <1>3
  <1>5. n \in Nat \ {0}
    BY <1>2
  <1>6. /\ p \in Nat /\ p + n <= HeapPages
        /\ \A q \in p..p + n - 1 : q \notin pages
    BY <1>0, <1>5 DEF B2!Room
  <1>7. PICK new : new = p..p + n - 1
    OBVIOUS
  <1>8. new \subseteq Nat /\ new \cap pages = {} /\ new \subseteq 0..HeapPages - 1
    BY <1>0, <1>5, <1>6, <1>7
  <1>9. PICK R : R = Given(pages) \ Cover(taken)
    OBVIOUS
  <1>10. Given(new) \cap Given(pages) = {}
    <2>1. /\ Given(new) = {u \in Nat : u \div PageUnits \in new}
          /\ Given(pages) = {u \in Nat : u \div PageUnits \in pages}
      BY <1>1, <1>8, GivenForm
    <2> QED
      BY <1>8, <2>1
  <1>11. Given(pages') = Given(pages) \cup Given(new)
    BY <1>4, <1>7 DEF Given
  <1>12. Parted(pool', R \cup Given(new))
    <2>1. PICK most : most = Size(Top - 1)
      OBVIOUS
    <2>2. Top - 1 \in B2!Shift
      BY HeapAssumption DEF B2!Shift
    <2>3. most \in Nat \ {0}
      BY <2>1, <2>2, ShiftFacts
    <2>4. PICK w \in Nat : PageUnits = w * most
      BY <1>0, <2>1, <2>3, Multiple, HeapAssumption
    <2>5. PICK i \in Nat, l \in Nat : i = p * w /\ l = n * w
      BY <1>5, <1>6
    <2>6. PICK a, len : a = p * PageUnits /\ len = n * PageUnits
      OBVIOUS
    <2>7. a = i * most
      <3>1. p * (w * most) = (p * w) * most
        BY ONLY <1>6, <2>3, p \in Nat, w \in Nat
      <3> QED
        BY <2>4, <2>5, <2>6, <3>1
    <2>8. len = l * most
      <3>1. n * (w * most) = (n * w) * most
        BY ONLY <1>5, <2>3, w \in Nat
      <3> QED
        BY <2>4, <2>5, <2>6, <3>1
    <2>9. Given(new) = a..a + len - 1
      BY <1>5, <1>6, <1>7, <2>6, GivenRun
    <2>10. (a..a + len - 1) \cap R = {} /\ Parted(pool, R)
      BY <1>9, <1>10, <2>9 DEF HeapInv
    <2>11. Parted(B2!Expanded(a, len), R \cup (a..a + len - 1))
      BY <2>1, <2>5, <2>7, <2>8, <2>10, ExpandAdds
    <2> QED
      BY <1>4, <2>6, <2>9, <2>11
  <1>13. R \cup Given(new) = Given(pages') \ Cover(taken)
    BY <1>9, <1>10, <1>11 DEF HeapInv
  <1>14. cap_size' = Cardinality(pages') * PageUnits
    <2>1. IsFiniteSet(new) /\ Cardinality(new) = n
      <3>1. p \in Int /\ p + n - 1 \in Int /\ ~(p > p + n - 1)
        BY <1>5, <1>6
      <3>2. IsFiniteSet(new) /\ Cardinality(new) = (p + n - 1) - p + 1
        BY <1>7, <3>1, FS_Interval
      <3> QED
        BY <1>5, <1>6, <3>2
    <2>2. pages \cap new = {} /\ pages' = pages \cup new
      BY <1>4, <1>7, <1>8
    <2>3. Cardinality(pages') =
            Cardinality(pages) + Cardinality(new) - Cardinality(pages \cap new)
      BY <1>1, <2>1, <2>2, FS_Union
    <2>4. Cardinality(pages') = Cardinality(pages) + n
      BY <1>1, <1>5, <2>1, <2>2, <2>3, FS_EmptySet
    <2>5. PICK k \in Nat : k = Cardinality(pages)
      BY <1>1
    <2>6. (k + n) * PageUnits = k * PageUnits + n * PageUnits
      BY <1>0, <1>5
    <2> QED
      BY <1>4, <2>4, <2>5, <2>6 DEF HeapInv
  <1>15. /\ taken' = taken
         /\ call' \in [Callers -> [at : {"idle", "grow", "retry"}, sh : B2!Shift]]
    BY DEF B2!Grow, B2!At, HeapInv
  <1>16. pages' \subseteq 0..HeapPages - 1
    BY <1>4, <1>7, <1>8 DEF HeapInv
  <1>17. Cover(taken) \subseteq Given(pages')
    BY <1>11 DEF HeapInv
  <1> QED
    BY <1>12, <1>13, <1>14, <1>15, <1>16, <1>17 DEF HeapInv

\* Every step of the heap keeps the invariant.
LEMMA NextHeap == HeapInv /\ B2!Next => HeapInv'
  <1> SUFFICES ASSUME HeapInv, B2!Next PROVE HeapInv'
    OBVIOUS
  <1>1. ASSUME NEW c \in Callers, B2!GrowFails(c) PROVE HeapInv'
    <2>1. 0 \in B2!Shift
      BY HeapAssumption DEF B2!Shift
    <2>2. call' \in [Callers -> [at : {"idle", "grow", "retry"}, sh : B2!Shift]]
      BY <1>1, <2>1 DEF B2!GrowFails, B2!At, HeapInv
    <2> QED
      BY <1>1, <2>2 DEF B2!GrowFails, HeapInv
  <1> QED
    BY <1>1, AllocateStep, ReleaseStep, GrowStep DEF B2!Next

\* What the invariant says in the terms of the heap.
LEMMA HeapIsRight == HeapInv => B2!HeapIsPartition /\ B2!BuddiesJoined
  <1> SUFFICES ASSUME HeapInv PROVE B2!HeapIsPartition /\ B2!BuddiesJoined
    OBVIOUS
  <1>1. pool \in Pools /\ Parted(pool, Given(pages) \ Cover(taken))
    BY DEF HeapInv, Parted
  <1>2. B2!Free = Blk(pool)
    BY <1>1 DEF B2!Free, Blk, Block2, Pools
  <1>3. \A b : B2!Units(b) = Un(b)
    BY SameSize DEF B2!Units, Un
  <1>4. /\ \A b \in Blk(pool) : \A d \in taken : Un(b) \cap Un(d) = {}
        /\ Cover(Blk(pool)) = Given(pages) \ Cover(taken)
    <2>1. Cover(Blk(pool)) = Given(pages) \ Cover(taken)
      BY <1>1 DEF Parted
    <2> QED
      BY <2>1 DEF Cover
  <1>5. \A b \in B2!All : b \in Block2 /\ Aligned(b)
    BY <1>1, <1>2 DEF B2!All, HeapInv, Parted, Blk
  <1>6. ASSUME NEW b \in Block2
        PROVE  b[1] \in Nat /\ Size(b[2]) \in Nat \ {0} /\ Un(b) # {}
    <2>1. b[1] \in Nat /\ b[2] \in B2!Shift
      BY DEF Block2
    <2>2. Size(b[2]) \in Nat \ {0}
      BY <2>1, ShiftFacts
    <2>3. b[1] \in Un(b)
      BY <2>1, <2>2 DEF Un
    <2> QED
      BY <2>1, <2>2, <2>3
  <1>7. \A b, d \in B2!All : b # d => B2!Units(b) \cap B2!Units(d) = {}
    <2>1. \A b, d \in B2!All : b # d => Un(b) \cap Un(d) = {}
      BY <1>1, <1>2, <1>4 DEF B2!All, HeapInv, Parted
    <2> QED
      BY <1>3, <2>1
  <1>8. B2!Free \cap taken = {}
    <2>1. ASSUME NEW b \in B2!Free \cap taken PROVE FALSE
      <3>1. b \in Block2 /\ Un(b) \cap Un(b) = {}
        BY <1>2, <1>4 DEF HeapInv
      <3> QED
        BY <1>6, <3>1
    <2> QED
      BY <2>1
  <1>9. UNION {B2!Units(b) : b \in B2!All} = Given(pages)
    <2>1. UNION {B2!Units(b) : b \in B2!All} = Cover(B2!All)
      BY <1>3 DEF Cover
    <2>2. Cover(B2!All) = Cover(Blk(pool)) \cup Cover(taken)
      BY <1>2 DEF Cover, B2!All
    <2> QED
      BY <1>4, <2>1, <2>2 DEF HeapInv
  <1>10. \A b \in B2!All : b[1] % B2!Size(b[2]) = 0
    BY <1>5, <1>6, Multiple, SameSize DEF Aligned
  <1>11. cap_size = B2!Cardinality(pages) * PageUnits
    BY SameCount DEF HeapInv
  <1>12. B2!BuddiesJoined
    <2> SUFFICES ASSUME NEW sh \in B2!Shift, NEW a \in pool[sh]
                 PROVE  B2!Buddy(pool, a, sh) = {}
      BY DEF B2!BuddiesJoined
    <2>1. a \in Nat
      BY <1>1 DEF Pools
    <2>2. B2!Buddy(pool, a, sh) =
            {b \in pool[sh] : Halves(b, a, sh) \/ Halves(a, b, sh)}
      BY <1>1, <2>1, BuddyForm
    <2>3. \A b \in pool[sh] : ~Halves(b, a, sh) /\ ~Halves(a, b, sh)
      BY <1>1 DEF Parted
    <2> QED
      BY <2>2, <2>3
  <1> QED
    BY <1>7, <1>8, <1>9, <1>10, <1>11, <1>12 DEF B2!HeapIsPartition, Given

(***************************************************************************)
(* The allocators together                                                 *)
(***************************************************************************)
AllocInv == IInv /\ HandleInv /\ SpaceInv /\ ViewInv /\ HeapInv

\* Every part starts in a state of its invariant.
LEMMA InitAlloc == AllocInit => AllocInv
  BY InitIInv, InitHandles, InitSpace, InitViews, InitHeap
     DEF AllocInit, AllocInv

\* One of the parts takes a step, and nothing changes in the others.
LEMMA NextAlloc ==
  AllocInv /\ [AllocNext]_<<part, vars, handles, t, space, views, heap>>
    => AllocInv'
  <1> SUFFICES ASSUME AllocInv,
                      [AllocNext]_<<part, vars, handles, t, space, views, heap>>
               PROVE  AllocInv'
    OBVIOUS
  <1>1. IInv'
    <2>1. [Next]_vars
      BY DEF AllocNext
    <2> QED
      BY <2>1, NextIInv DEF AllocInv
  <1>2. HandleInv'
    <2>1. [H!Next]_(H!vars)
      BY DEF AllocNext, handles, H!vars
    <2> QED
      BY <2>1, NextHandles DEF AllocInv
  <1>3. SpaceInv'
    <2>1. CASE V!Next
      BY <2>1, NextSpace DEF AllocInv
    <2>2. CASE UNCHANGED space
      BY <2>2 DEF AllocInv, SpaceInv, space, Own
    <2> QED
      BY <2>1, <2>2 DEF AllocNext
  <1>4. ViewInv'
    <2>1. CASE M!Next
      BY <2>1, NextViews DEF AllocInv
    <2>2. CASE UNCHANGED views
      BY <2>2 DEF AllocInv, ViewInv, Searching, M!TypeOK,
                  M!ViewsAreExclusive, views
    <2> QED
      BY <2>1, <2>2 DEF AllocNext
  <1>5. HeapInv'
    <2>1. CASE B2!Next
      BY <2>1, NextHeap DEF AllocInv
    <2>2. CASE UNCHANGED heap
      BY <2>2 DEF AllocInv, HeapInv, heap
    <2> QED
      BY <2>1, <2>2 DEF AllocNext
  <1> QED
    BY <1>1, <1>2, <1>3, <1>4, <1>5 DEF AllocInv

\* So the invariants of all parts hold all the time.
LEMMA AllocAlways == AllocSpec => []AllocInv
  BY InitAlloc, NextAlloc, PTL DEF AllocSpec

(* The counters that decide about the next allocation are exact: the used  *)
(* pages of PM, count and top of a handle table, and the physical pages of *)
(* an address space, for any number of directories, tables and pages and   *)
(* any memory size, through rollback, failed calls and destruction.        *)
THEOREM CountersStayExact == AllocSpec => []CountersExact
  <1>1. AllocInv => CountersExact
    BY BooksAreRight DEF AllocInv, IInv, HandleInv, CountersExact
  <1> QED
    BY <1>1, AllocAlways, PTL

(* PM stops the machine only when all pages are used, its bisection ends   *)
(* at a free page, and put of a handle table fails only when three         *)
(* quarters of the table are used.                                         *)
THEOREM NobodyGivesUpEarly == AllocSpec => []NoEarlyExhaustion
  <1>1. IInv => BisectFindsFree
    BY BisectIsFirst, FirstIsFree DEF IInv, BisectFindsFree
  <1>2. AllocInv => NoEarlyExhaustion
    BY <1>1, ExhaustedIsFull DEF AllocInv, IInv, NoEarlyExhaustion
  <1> QED
    BY <1>2, AllocAlways, PTL

(* Two threads that race for a slot of the map table never both get it,    *)
(* and a slot that is present belongs to a view: map_view neither shares   *)
(* nor leaks a window.                                                     *)
THEOREM WindowsAreExclusive ==
  AllocSpec => [](M!TypeOK /\ M!ViewsAreExclusive)
  <1>1. AllocInv => M!TypeOK /\ M!ViewsAreExclusive
    BY DEF AllocInv, ViewInv
  <1> QED
    BY <1>1, AllocAlways, PTL

(* Every unit that a heap was given is in exactly one block, free or       *)
(* allocated and aligned to its size, and two free halves of a block are   *)
(* joined: for any number of threads, pages and sizes of blocks, through   *)
(* every order of splits, releases and expansions.  Every window of the    *)
(* map table has one view.                                                 *)
THEOREM EverythingOwnedOnce == AllocSpec => []OwnedOnce
  <1>1. AllocInv => OwnedOnce
    BY HeapIsRight DEF AllocInv, ViewInv, OwnedOnce
  <1> QED
    BY <1>1, AllocAlways, PTL

(* A reserve takes free pages only, exactly those of its answer: with an   *)
(* address that range or nothing, without one a range whose address in 32  *)
(* bits it returns, and besides it only ranges whose address is 0 in 32    *)
(* bits, which the code takes for failures.  It never touches the boot     *)
(* area, a device page or a bypassed table: for any number of directories, *)
(* across tables, through lack of memory and after any rollback.           *)
THEOREM ReserveTakesItsRange == AllocSpec => ReserveIsExact
  <1> DEFINE Exact == ret'.n > 0 /\ ~stuck' => ExactStep
      Bypass ==
        /\ \A b \in V!Pages : s.page[b] = "mapped" => s'.page[b] = "mapped"
        /\ \A b \in V!Pages :
             s.page[b] = "guard" => s'.page[b] \in {"guard", "mapped"}
        /\ \A j \in V!Tables : s.tab[j] = "bypass" /\ s'.used_pages > 0 =>
             s'.tab[j] = "bypass" /\ V!FreeIn(s', j) = V!FreeIn(s, j)
  <1>1. AllocInv /\ [AllocNext]_<<part, vars, handles, t, space, views, heap>>
          => [Exact]_(V!vars) /\ [Bypass]_(V!vars)
    <2> SUFFICES ASSUME AllocInv,
                        [AllocNext]_<<part, vars, handles, t, space, views, heap>>
                 PROVE  [Exact]_(V!vars) /\ [Bypass]_(V!vars)
      OBVIOUS
    <2>1. CASE V!Next
      <3>1. Exact
        BY <2>1, ReserveStep DEF AllocInv
      <3>2. Bypass
        BY <2>1, BypassStep DEF AllocInv
      <3> QED
        BY <3>1, <3>2
    <2>2. CASE UNCHANGED space
      BY <2>2 DEF space, V!vars
    <2> QED
      BY <2>1, <2>2 DEF AllocNext
  <1>2. V!ReserveIsExact <=> [][Exact]_(V!vars)
    BY DEF V!ReserveIsExact, ExactStep
  <1>3. V!BypassIsKept <=> [][Bypass]_(V!vars)
    BY DEF V!BypassIsKept
  <1> QED
    BY <1>1, <1>2, <1>3, AllocAlways, PTL DEF AllocSpec, ReserveIsExact
=============================================================================
