---------------------------- MODULE HandleTable ----------------------------
(***************************************************************************)
(* handle_table of kernel/process/process.cpp: the open handles of a       *)
(* process, in pages of the kernel heap that are added on demand.  The     *)
(* first avl_base handles are assigned by the constructor of the process   *)
(* (image file and standard streams), put() looks for a free slot in the   *)
(* others.  "top" is one above the highest slot in use, so that a table    *)
(* that is more than three quarters full is not searched from its start.   *)
(* Every operation runs under interrupt_guard(objlock), EXCLUSIVE.         *)
(***************************************************************************)
EXTENDS AllocatorConstants

Index == 0..limit - 1
PageOf(i) == i \div handle_of_page

VARIABLES
  table,     \* the pages that exist
  used,      \* the slots that are not null
  count, top,
  cleared    \* the process has ended and clear() has run

vars == <<table, used, count, top, cleared>>

Init == table = {} /\ used = {} /\ count = 0 /\ top = 0 /\ cleared = FALSE

Max2(a, b) == IF a >= b THEN a ELSE b

\* Faulty: a table that is more than half full is not searched.
StartHalf == IF count * 2 > top THEN Max2(avl_base, top) ELSE avl_base

\* where put() starts to search
Start == IF count * 4 > top * 3 THEN Max2(avl_base, top) ELSE avl_base

\* Faulty: no page is added for a slot in a missing page.
PutNoPage(i) ==
  /\ ~cleared
  /\ i \in Start..limit - 1 /\ i \notin used
  /\ \A j \in Start..i - 1 : j \in used
  /\ used' = used \cup {i}
  /\ count' = count + 1
  /\ top' = Max2(top, i + 1)
  /\ UNCHANGED <<table, cleared>>

\* put() takes the first free slot; a page that is missing is added for it
Put(i) ==
  /\ ~cleared
  /\ i \in Start..limit - 1 /\ i \notin used
  /\ \A j \in Start..i - 1 : j \in used
  /\ table' = table \cup {PageOf(i)}
  /\ used' = used \cup {i}
  /\ count' = count + 1
  /\ top' = Max2(top, i + 1)
  /\ UNCHANGED cleared

\* put() returns 0: no free slot from Start on, or no memory for a page
Exhausted == \A j \in Start..limit - 1 : j \in used

PutFails ==
  /\ ~cleared
  /\ \/ Exhausted
     \/ \E i \in Start..limit - 1 :
          /\ i \notin used /\ PageOf(i) \notin table
          /\ \A j \in Start..i - 1 : j \in used
  /\ UNCHANGED vars

\* Faulty: an object that replaces another one is counted again.
AssignCounts(i) ==
  /\ ~cleared
  /\ i \in 0..avl_base - 1
  /\ table' = table \cup {PageOf(i)}
  /\ used' = used \cup {i}
  /\ count' = count + 1
  /\ UNCHANGED <<top, cleared>>

\* assign() of one of the first handles; it may replace another object
Assign(i) ==
  /\ ~cleared
  /\ i \in 0..avl_base - 1
  /\ table' = table \cup {PageOf(i)}
  /\ used' = used \cup {i}
  /\ count' = IF i \in used THEN count ELSE count + 1
  /\ UNCHANGED <<top, cleared>>

\* Faulty: the loop does not start, the slot below may be free.
StopsAtOnce(i, j) == j = i - 1

\* The loop of close() that looks for the new top, down from slot i - 1: it
\* ends below avl_base, at a slot in use or at a missing page.
StopsAt(i, j) ==
  /\ j \in 0..i - 1
  /\ j < avl_base \/ j \in used \/ PageOf(j) \notin table
  /\ \A m \in j + 1..i - 1 :
       m >= avl_base /\ m \notin used /\ PageOf(m) \in table

\* close(); the service refuses handle 0
Close(i) ==
  /\ ~cleared
  /\ i \in used \ {0}
  /\ count' = count - 1
  /\ used' = used \ {i}
  /\ IF i + 1 >= top THEN \E j \in 0..i - 1 : StopsAt(i, j) /\ top' = j + 1
     ELSE UNCHANGED top
  /\ UNCHANGED <<table, cleared>>

\* clear(), by process::on_exit; top is left as it is
Clear ==
  /\ ~cleared
  /\ used' = {}
  /\ count' = count - Cardinality(used)
  /\ cleared' = TRUE
  /\ UNCHANGED <<table, top>>

Next == \/ \E i \in Index : Put(i) \/ Assign(i) \/ Close(i)
        \/ PutFails \/ Clear

Spec == Init /\ [][Next]_vars

(***************************************************************************)
(* Properties                                                              *)
(***************************************************************************)
\* Slots in use are in pages that exist, and count and top are dwords that
\* never wrap.
TypeOK ==
  /\ used \subseteq Index
  /\ \A i \in used : PageOf(i) \in table
  /\ count \in Nat /\ top \in 0..limit /\ cleared \in BOOLEAN

(* count is exact, so that clear() leaves zero and the destructor does not *)
(* stop the kernel with "deleting non-empty handle_table".                 *)
CountExact == count = Cardinality(used)

(* top is exact whatever is opened and closed in whatever order: no slot   *)
(* in use lies at or above it, the slot below it is in use and the pages   *)
(* that put() skips exist.                                                 *)
TopExact ==
  ~cleared => /\ \A i \in used : i >= avl_base => i < top
              /\ top > avl_base => top - 1 \in used
              /\ \A i \in avl_base..top - 1 : PageOf(i) \in table

(* put() runs out of handles only when the table is more than three        *)
(* quarters full.                                                          *)
NoEarlyExhaustion ==
  ~cleared /\ Exhausted => top = limit /\ count * 4 > limit * 3
=============================================================================
