------------------------------ MODULE MapView ------------------------------
(***************************************************************************)
(* map_view of kernel/memory/vm.cpp: windows through which the kernel      *)
(* looks at physical pages.  The slots of one page table are taken without *)
(* a lock: map() reads a slot and takes it by compare and exchange, so     *)
(* another thread may come between the two.  A view that is mapped again   *)
(* gives up its slot first; the destructor gives it up as well.            *)
(***************************************************************************)
EXTENDS AllocatorConstants

VARIABLES
  slot,    \* the entries of the map table; 0 is a slot that is not present
  at,      \* per view, the slot that it looks through, or -1
  pc,      \* per view: "idle", "read" or "swap" within map()
  index,   \* the slot that map() tries
  frame,   \* the page that map() maps
  halt     \* map_view::map failed, or double free

vars == <<slot, at, pc, index, frame, halt>>

Slot == 0..Slots - 1

Init ==
  /\ slot = [i \in Slot |-> 0]
  /\ at = [v \in Views |-> -1]
  /\ pc = [v \in Views |-> "idle"]
  /\ index = [v \in Views |-> 0]
  /\ frame = [v \in Views |-> 0]
  /\ halt = FALSE

\* Faulty: the view forgets its slot but the slot stays taken.
UnmapLeaks(v) ==
  /\ at' = [at EXCEPT ![v] = -1]
  /\ UNCHANGED <<slot, halt>>

\* unmap()
Unmap(v) ==
  IF at[v] = -1 THEN UNCHANGED <<slot, at, halt>>
  ELSE /\ slot' = [slot EXCEPT ![at[v]] = 0]
       /\ at' = [at EXCEPT ![v] = -1]
       /\ halt' = (slot[at[v]] = 0)

\* map() gives up the old slot and begins its search
Map(v, f) ==
  /\ ~halt /\ pc[v] = "idle"
  /\ Unmap(v)
  /\ pc' = [pc EXCEPT ![v] = "read"]
  /\ index' = [index EXCEPT ![v] = 0]
  /\ frame' = [frame EXCEPT ![v] = f]

\* origin_value = table[index]; a slot that is present is passed over
Read(v) ==
  /\ ~halt /\ pc[v] = "read"
  /\ IF index[v] = Slots
     THEN halt' = TRUE /\ UNCHANGED <<pc, index>>
     ELSE /\ IF slot[index[v]] # 0
             THEN index' = [index EXCEPT ![v] = @ + 1] /\ UNCHANGED pc
             ELSE pc' = [pc EXCEPT ![v] = "swap"] /\ UNCHANGED index
          /\ UNCHANGED halt
  /\ UNCHANGED <<slot, at, frame>>

\* Faulty: the slot is written without a look at what is there now.
SwapBlind(v) ==
  /\ ~halt /\ pc[v] = "swap"
  /\ slot' = [slot EXCEPT ![index[v]] = frame[v]]
  /\ at' = [at EXCEPT ![v] = index[v]]
  /\ pc' = [pc EXCEPT ![v] = "idle"]
  /\ UNCHANGED <<index, frame, halt>>

\* cmpxchg; a slot that was taken meanwhile is passed over
Swap(v) ==
  /\ ~halt /\ pc[v] = "swap"
  /\ IF slot[index[v]] = 0
     THEN /\ slot' = [slot EXCEPT ![index[v]] = frame[v]]
          /\ at' = [at EXCEPT ![v] = index[v]]
          /\ pc' = [pc EXCEPT ![v] = "idle"]
          /\ UNCHANGED index
     ELSE /\ index' = [index EXCEPT ![v] = @ + 1]
          /\ pc' = [pc EXCEPT ![v] = "read"]
          /\ UNCHANGED <<slot, at>>
  /\ UNCHANGED <<frame, halt>>

\* ~map_view
Destroy(v) ==
  /\ ~halt /\ pc[v] = "idle" /\ at[v] # -1
  /\ Unmap(v)
  /\ UNCHANGED <<pc, index, frame>>

Next == \E v \in Views : \/ \E f \in Frames : Map(v, f)
                         \/ Read(v) \/ Swap(v) \/ Destroy(v)

Spec == Init /\ [][Next]_vars

(***************************************************************************)
(* Properties                                                              *)
(***************************************************************************)
TypeOK ==
  /\ slot \in [Slot -> Frames \cup {0}]
  /\ at \in [Views -> Slot \cup {-1}]
  /\ pc \in [Views -> {"idle", "read", "swap"}]
  /\ index \in [Views -> 0..Slots]
  /\ frame \in [Views -> Frames \cup {0}]
  /\ halt \in BOOLEAN

(* Whatever threads come between a read and an exchange, no two views look *)
(* through one slot, each view sees the page that it mapped, and a slot    *)
(* that nobody looks through is free: none leaks.                          *)
ViewsAreExclusive ==
  /\ \A v \in Views : at[v] # -1 => slot[at[v]] = frame[v]
  /\ \A v, w \in Views : v # w /\ at[v] # -1 => at[v] # at[w]
  /\ \A i \in Slot : slot[i] # 0 => \E v \in Views : at[v] = i
=============================================================================
