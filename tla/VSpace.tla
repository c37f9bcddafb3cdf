------------------------------- MODULE VSpace -------------------------------
(***************************************************************************)
(* kernel/memory/vm.cpp, user_vspace.cpp and kernel_vspace.cpp: an address *)
(* space.  Directories and page tables are made as they are needed, ranges *)
(* may cross tables, and a request that fails half way is rolled back.     *)
(* Physical memory is the number of pages that PM still has; an address is *)
(* the number of its page.  A table is the set of its free pages (Region). *)
(*                                                                         *)
(* Every call holds the lock of the space with interrupts off, so it is    *)
(* one action.  A behaviour is about one space, of a process or of the     *)
(* kernel.                                                                 *)
(***************************************************************************)
EXTENDS AllocatorConstants

VARIABLES
  kind,     \* "user" or "kernel"
  s,        \* dir, tab: which directories and tables there are; page: the
            \* state of each page; avail: free physical pages; used_pages
  ret,      \* what the last call returned, for reserve an address, and the
            \* size and the address that were asked for
  halt      \* TRUE after a failed assertion

vars == <<kind, s, ret, halt>>

R == INSTANCE Region WITH free <- {}, N <- TabPages, K <- TabK

Index == 0..TabPages - 1

Tables == 0..NP * ND - 1
Pages == 0..NP * ND * TabPages - 1
DirOf(j) == j \div ND
TabOf(a) == a \div TabPages

\* "kept" is preserved, "held" and "readonly" have a physical page, "mapped"
\* is a device page of kernel_vspace::assign, "guard" is preserved for it
PageState == {"free", "kept", "held", "readonly", "mapped", "guard"}
Backed == {"held", "readonly"}

FreeIn(x, j) == {i \in Index : x.page[j * TabPages + i] = "free"}

SetPages(x, a, n, v) ==
  [x EXCEPT !.page = [b \in Pages |-> IF b \in R!Range(a, n) THEN v
                                      ELSE x.page[b]]]

\* PM::allocate and PM::reserve as seen from here
CanAllocate(x) == x.avail > Spare

\* Faulty: no room is left for the callers that must succeed.
CanReserveAll(x, n) == x.avail >= n

CanReserve(x, n) == x.avail > n + Spare
TakePages(x, n) == [x EXCEPT !.avail = @ - n, !.used_pages = @ + n]

\* new_pdt, new_pt
new_pdt(x, j) == TakePages([x EXCEPT !.dir[DirOf(j)] = TRUE], 1)
new_pt(x, j) == TakePages([x EXCEPT !.tab[j] = "present"], 1)

\* what the loops do when they come to table j: make the directory and the
\* table unless they are there, the table is bypassed or memory is short
Visit(x, j) ==
  LET y == IF ~x.dir[DirOf(j)] /\ CanAllocate(x) THEN new_pdt(x, j) ELSE x
  IN IF y.dir[DirOf(j)] /\ y.tab[j] = "absent" /\ CanAllocate(y)
     THEN new_pt(y, j) ELSE y

\* the space after the tables up to j were visited; without a directory the
\* search ends
Visited(x) ==
  LET v[j \in -1..NP * ND - 1] ==
        IF j = -1 THEN x
        ELSE IF \E k \in 0..j - 1 : ~v[k].dir[DirOf(k)] THEN v[j - 1]
        ELSE Visit(v[j - 1], j)
  IN v

\* The address of page i of table j.  The product that gives the base is
\* computed in 32 bits, which hold the addresses of Wrap directories.
Low(a) == a % (Wrap * ND * TabPages)
Address(j, i) == Low(j * TabPages) + i

\* what reserve returns for a request without an address; the kernel space
\* returns HIGHADDR(0) where a user space returns 0
Found(addr, n) == ret' = [ok |-> addr # 0 \/ kind = "kernel", addr |-> addr,
                          n |-> n, asked |-> 0]

\* n pages from the start of each of these tables become preserved
KeepStarts(x, tables, n) ==
  [x EXCEPT !.page = [b \in Pages |->
     IF \E j \in tables : b \in R!Range(j * TabPages, n) THEN "kept" ELSE x.page[b]]]

(***************************************************************************)
(* reserve_any: the first table that can serve the request.  The address 0 *)
(* counts as a failure of the table: where it is the result, the pages are *)
(* taken and the search goes on.                                           *)
(***************************************************************************)
reserve_any(n) ==
  LET v == Visited(s)
      at(j) == R!AnyRange(FreeIn(v[j], j), n)
      serves(j) == v[j].dir[DirOf(j)] /\ v[j].tab[j] = "present" /\ at(j) # {}
  IN \E lost \in SUBSET {j \in Tables : Address(j, 0) = 0 /\ serves(j) /\ 0 \in at(j)} :
     LET first == {j \in Tables \ lost : serves(j) /\ \A k \in 0..j - 1 :
                                                      serves(k) => k \in lost}
     IN \/ \E j \in first : \E i \in at(j) :
             /\ Address(j, i) # 0 /\ lost \subseteq 0..j - 1
             /\ s' = SetPages(KeepStarts(v[j], lost, n), j * TabPages + i, n, "kept")
             /\ Found(Address(j, i), n)
        \/ /\ first = {}
           /\ s' = KeepStarts(v[NP * ND - 1], lost, n)
           /\ Found(0, n)

\* the tables that a range touches, and the part of it in table j
Touched(a, n) == TabOf(a)..TabOf(a + n - 1)
Part(a, n, j) == R!Range(a, n) \cap R!Range(j * TabPages, TabPages)

\* a release from a on looks for the free block before it, whose last page may
\* be a third one
ReleaseStops(x, a) ==
  R!Stops({i \in FreeIn(x, TabOf(a)) : i < a % TabPages}, (a % TabPages) - 1)

\* Faulty: the pages that were taken before the failure stay taken.
reserve_fixed_no_rollback(a, n) ==
  LET good(j) == s.tab[j] # "bypass" /\ \A b \in Part(a, n, j) : s.page[b] = "free"
      bad == {j \in Touched(a, n) : ~good(j)}
      got == UNION {Part(a, n, j) : j \in {j \in Touched(a, n) :
                                             \A k \in bad : j < k}}
      v == Visited(s)[TabOf(a + n - 1)]
  IN /\ s' = [v EXCEPT !.page = [b \in Pages |-> IF b \in got THEN "kept" ELSE s.page[b]]]
     /\ ret' = [ok |-> bad = {}, addr |-> IF bad = {} THEN a ELSE 0, n |-> n, asked |-> a]
     /\ UNCHANGED halt

(***************************************************************************)
(* reserve_fixed: table by table, with rollback of the parts that were     *)
(* taken.  Tables that were made stay.  imp_reserve_fixed asserts that the *)
(* table is not full, and the third page of a block fails an assertion.    *)
(***************************************************************************)
FixedAt(a, n, x, j) ==
  LET y == Visit(x, j) IN
  [x |-> y,
   end |-> CASE ~y.dir[DirOf(j)] \/ y.tab[j] # "present" -> "fail"
             [] /\ y.tab[j] = "present"
                /\ \/ FreeIn(y, j) = {}
                   \/ j = TabOf(a) /\ R!Stops(FreeIn(y, j), a % TabPages) -> "assert"
             [] OTHER -> IF \E b \in Part(a, n, j) : y.page[b] # "free"
                         THEN "fail" ELSE "no"]

Fixed(a, n) ==
  LET v[j \in TabOf(a) - 1..NP * ND - 1] ==
        IF j = TabOf(a) - 1 THEN [x |-> s, end |-> "no"]
        ELSE IF v[j - 1].end # "no" THEN v[j - 1]
        ELSE FixedAt(a, n, v[j - 1].x, j)
  IN v

reserve_fixed(a, n) ==
  LET last == Fixed(a, n)[TabOf(a + n - 1)]
  IN /\ s' = IF last.end = "no" THEN SetPages(last.x, a, n, "kept") ELSE last.x
     /\ ret' = [ok |-> last.end = "no",
                addr |-> IF last.end = "no" THEN a ELSE 0, n |-> n, asked |-> a]
     /\ halt' = \/ last.end = "assert"
                \* the rollback, if the first table had been served
                \/ /\ last.end = "fail" /\ Fixed(a, n)[TabOf(a)].end = "no"
                   /\ ReleaseStops(s, a)

(***************************************************************************)
(* reserve_big: whole tables, in the first directory that has enough of    *)
(* them in a row and for which the missing tables can be reserved.  The    *)
(* address is returned as it is, 0 too.                                    *)
(***************************************************************************)
\* the directories up to p; the search ends where one cannot be made
Directories ==
  LET d[p \in -1..NP - 1] ==
        IF p = -1 THEN s
        ELSE LET x == d[p - 1] IN
             IF (p > 0 /\ ~x.dir[p - 1]) \/ x.dir[p] \/ ~CanAllocate(x)
             THEN x ELSE new_pdt(x, p * ND)
  IN d

reserve_big(n) ==
  LET need == (n + TabPages - 1) \div TabPages
      empty(x, j) == x.tab[j] # "bypass" /\ FreeIn(x, j) = Index
      dirs == Directories
      runs(p) == {d \in 0..ND - need : \A k \in d..d + need - 1 :
                                         empty(dirs[p], p * ND + k)}
      base(p) == p * ND + (CHOOSE d \in runs(p) : \A k \in runs(p) : d <= k)
      missing(p) == {j \in R!Range(base(p), need) : dirs[p].tab[j] = "absent"}
      serves(p) == /\ dirs[p].dir[p] /\ runs(p) # {}
                   /\ CanReserve(dirs[p], Cardinality(missing(p)))
      first == {p \in 0..NP - 1 : serves(p) /\ \A q \in 0..p - 1 : ~serves(q)}
  IN \/ \E p \in first :
          LET x == TakePages(dirs[p], Cardinality(missing(p))) IN
          /\ s' = SetPages([x EXCEPT !.tab = [j \in Tables |->
                       IF j \in missing(p) THEN "present" ELSE x.tab[j]]],
                           base(p) * TabPages, n, "kept")
          /\ Found(Address(base(p), 0), n)
     \/ /\ first = {}
        /\ s' = dirs[NP - 1]
        /\ Found(0, n)

\* common_check, and requests without an address are limited to a directory
InSpace(a, n) == a # 0 /\ n > 0 /\ a + n <= NP * ND * TabPages

\* user_vspace::reserve and kernel_vspace::reserve, vm_reserve
Reserve(a, n) ==
  /\ IF a # 0 THEN InSpace(a, n) /\ reserve_fixed(a, n)
     ELSE /\ 0 < n /\ n <= ND * TabPages
          /\ IF n < TabPages THEN reserve_any(n) ELSE reserve_big(n)
          /\ UNCHANGED halt

\* imp_iterate with a test succeeds on the whole range
All(a, n, states) ==
  /\ InSpace(a, n)
  /\ \A b \in R!Range(a, n) : s.tab[TabOf(b)] = "present" /\ s.page[b] \in states

Returns(ok) == ret' = [ok |-> ok, addr |-> 0, n |-> 0, asked |-> 0] /\ UNCHANGED halt

\* Faulty: the pages are taken without a reservation.
CommitUnreserved(a, n) ==
  /\ All(a, n, {"kept"})
  /\ s' = TakePages(SetPages(s, a, n, "held"), n)
  /\ Returns(TRUE)

\* commit of both spaces, vm_commit
Commit(a, n) ==
  /\ All(a, n, {"kept"})
  /\ CanReserve(s, n)
  /\ kind = "kernel" => n < s.avail
  /\ s' = TakePages(SetPages(s, a, n, "held"), n)
  /\ Returns(TRUE)

\* protect of both spaces, vm_protect
Protect(a, n, writable) ==
  /\ All(a, n, Backed)
  /\ s' = SetPages(s, a, n, IF writable THEN "held" ELSE "readonly")
  /\ Returns(TRUE)

\* Faulty: the physical pages are given back and still counted.
ReleaseKeepsCount(a, n) ==
  /\ All(a, n, {"kept"} \cup Backed)
  /\ LET held == {b \in R!Range(a, n) : s.page[b] \in Backed} IN
     s' = [SetPages(s, a, n, "free") EXCEPT !.avail = @ + Cardinality(held)]
  /\ Returns(TRUE)

\* release of both spaces with safe_release, vm_release
Release(a, n) ==
  /\ All(a, n, {"kept"} \cup Backed)
  /\ IF ReleaseStops(s, a) THEN halt' = TRUE /\ UNCHANGED <<s, ret>>
     ELSE /\ LET held == {b \in R!Range(a, n) : s.page[b] \in Backed} IN
             s' = TakePages(SetPages(s, a, n, "free"), -Cardinality(held))
          /\ Returns(TRUE)

\* kernel_vspace::assign
Assign(a, n) ==
  /\ kind = "kernel"
  /\ All(a, n, {"kept", "guard"})
  /\ s' = SetPages(s, a, n, "mapped")
  /\ Returns(TRUE)

Gone == [dir |-> [p \in 0..NP - 1 |-> FALSE], tab |-> [j \in Tables |-> "absent"],
         page |-> [b \in Pages |-> "free"], avail |-> 0, used_pages |-> 0]

\* ~user_vspace: the pages that are found in the tables, the tables, the
\* directories, pl4te and cr3
Destroy ==
  /\ kind = "user" /\ s.used_pages > 0
  /\ s' = [Gone EXCEPT !.avail =
             s.avail + Cardinality({b \in Pages : s.page[b] \in Backed})
                     + Cardinality({j \in Tables : s.tab[j] = "present"})
                     + Cardinality({p \in 0..NP - 1 : s.dir[p]}) + 2]
  /\ Returns(TRUE)

\* the constructors: a user space bypasses its first table; the kernel has
\* one table with the boot area, a free block and its stack
UserSpace ==
  [Gone EXCEPT !.dir[0] = TRUE, !.tab[0] = "bypass", !.avail = Phys - 3,
               !.used_pages = 3]
KernelSpace ==
  [Gone EXCEPT
     !.dir[0] = TRUE, !.tab[0] = "present", !.avail = Phys - 2,
     !.tab[1] = "bypass", !.used_pages = 2,
     !.page = [b \in Pages |-> CASE b < Boot -> "guard"
                                 [] b \in TabPages - Stk..TabPages - 2 -> "kept"
                                 [] b = TabPages - 1 /\ Stk > 0 -> "guard"
                                 [] OTHER -> "free"]]

Init == /\ \/ kind = "user" /\ s = UserSpace
           \/ kind = "kernel" /\ s = KernelSpace
        /\ ret = [ok |-> TRUE, addr |-> 0, n |-> 0, asked |-> 0]
        /\ halt = FALSE

Next == /\ ~halt /\ s.used_pages > 0
        /\ \/ \E n \in 1..ND * TabPages : \E a \in Pages : \/ Reserve(a, n)
                                                    \/ Commit(a, n)
                                                    \/ Release(a, n)
                                                    \/ Assign(a, n)
                                                    \/ Protect(a, n, FALSE)
                                                    \/ Protect(a, n, TRUE)
           \/ Destroy
        /\ UNCHANGED kind

Spec == Init /\ [][Next]_vars

(***************************************************************************)
(* Properties                                                              *)
(***************************************************************************)
(* Physical pages are conserved: what the space counts as used is what it  *)
(* really holds in directories, tables and pages, and with what PM has     *)
(* left it is all there is, through failed calls, rollback and destruction.*)
PagesConserved ==
  /\ s.avail + s.used_pages = Phys
  /\ kind = "user" /\ s.used_pages > 0 =>
       s.used_pages = 2 + Cardinality({p \in 0..NP - 1 : s.dir[p]})
                        + Cardinality({j \in Tables : s.tab[j] = "present"})
                        + Cardinality({b \in Pages : s.page[b] \in Backed})

(* The space never takes the pages that are set aside for allocations that *)
(* must succeed.                                                           *)
RoomIsLeft == s.avail >= Spare

(* A reserve takes free pages only.  With an address it takes exactly that *)
(* range or nothing.  Without one, what it returns is the address, in 32   *)
(* bits, of a whole range that it has taken; all else that it takes are    *)
(* ranges whose address is 0 in 32 bits, and if it returns 0 it has taken  *)
(* nothing else.  So where all addresses fit into 32 bits and page 0 is    *)
(* not free it takes exactly what it returns.                              *)
ReserveIsExact ==
  [][ret'.n > 0 /\ ~halt' =>
       LET new == {b \in Pages : s'.page[b] # s.page[b]}
           lost == UNION {R!Range(a, ret'.n) : a \in {a \in Pages :
                            Low(a) = 0 /\ R!Range(a, ret'.n) \subseteq new}}
       IN /\ \A b \in new : s.page[b] = "free" /\ s'.page[b] = "kept"
          /\ IF ret'.asked # 0
             THEN new = IF ret'.addr = 0 THEN {} ELSE R!Range(ret'.addr, ret'.n)
             ELSE IF ret'.addr = 0 THEN new = lost
             ELSE \E a \in Pages : /\ Low(a) = ret'.addr
                                   /\ R!Range(a, ret'.n) \subseteq new
                                   /\ new \subseteq R!Range(a, ret'.n) \cup lost
    ]_vars

(* The boot area, guard pages and device mappings are never given out or   *)
(* released, and bypassed tables stay untouched.                           *)
BypassIsKept ==
  [][/\ \A b \in Pages : s.page[b] = "mapped" => s'.page[b] = "mapped"
     /\ \A b \in Pages : s.page[b] = "guard" => s'.page[b] \in {"guard", "mapped"}
     /\ \A j \in Tables : s.tab[j] = "bypass" /\ s'.used_pages > 0 =>
          s'.tab[j] = "bypass" /\ FreeIn(s', j) = FreeIn(s, j)]_vars
=============================================================================
