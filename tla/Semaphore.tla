----------------------------- MODULE Semaphore -----------------------------
(***************************************************************************)
(* kernel/sync/semaphore.cpp.  Every operation, and every round of the     *)
(* loop of wait(), runs under interrupt_guard(objlock) and is one action.  *)
(*                                                                         *)
(* signal() raises the count and wakes one thread, which has to go round   *)
(* the loop of wait() again; another thread may take the count before it   *)
(* runs.  The order of the wait queue is left open: signal wakes any of    *)
(* the waiting threads.                                                    *)
(***************************************************************************)
EXTENDS SyncConstants

VARIABLES
  count,
  waiting,     \* wait_queue
  woken,       \* threads that were notified and have not run again
  lost         \* the notified threads that were killed before they ran

vars == <<count, waiting, woken, lost>>

Init == count = Total /\ waiting = {} /\ woken = {} /\ lost = 0

\* one round of the loop of semaphore::wait, by a new or by a woken thread
Wait(t) ==
  /\ t \notin waiting
  /\ woken' = woken \ {t}
  /\ IF count # 0
     THEN count' = count - 1 /\ UNCHANGED waiting
     ELSE waiting' = waiting \cup {t} /\ UNCHANGED count
  /\ UNCHANGED lost

\* semaphore::check: wait_for with nowait takes the count as well
Check(t) ==
  /\ t \notin waiting \cup woken
  /\ count # 0
  /\ count' = count - 1
  /\ UNCHANGED <<waiting, woken, lost>>

\* Faulty: signal wakes a thread only if the count was used up.
SignalFromZero ==
  /\ count' = IF count < Total THEN count + 1 ELSE Total
  /\ IF waiting = {} \/ count # 0 THEN UNCHANGED <<waiting, woken>>
     ELSE \E t \in waiting : /\ waiting' = waiting \ {t}
                             /\ woken' = woken \cup {t}
  /\ UNCHANGED lost

\* semaphore::signal: a signal above the initial count has no effect
Signal ==
  /\ count' = IF count < Total THEN count + 1 ELSE Total
  /\ IF waiting = {} THEN UNCHANGED <<waiting, woken>>
     ELSE \E t \in waiting : /\ waiting' = waiting \ {t}
                             /\ woken' = woken \cup {t}
  /\ UNCHANGED lost

\* the timeout of a thread that waits
Timeout(t) ==
  /\ t \in waiting
  /\ waiting' = waiting \ {t}
  /\ UNCHANGED <<count, woken, lost>>

\* wait() has left the critical section, so the thread can be killed while
\* it waits, and after it was notified but before it took the count
Kill(t) ==
  /\ t \in waiting \cup woken
  /\ waiting' = waiting \ {t}
  /\ woken' = woken \ {t}
  /\ t \in woken => lost < MaxLost
  /\ lost' = IF t \in woken THEN lost + 1 ELSE lost
  /\ UNCHANGED count

Next == \/ Signal
        \/ \E t \in Thread : Wait(t) \/ Check(t) \/ Timeout(t) \/ Kill(t)

Spec == Init /\ [][Next]_vars

(***************************************************************************)
(* Properties                                                              *)
(***************************************************************************)
\* The count stays between zero and the initial count.
TypeOK ==
  /\ count \in 0..Total
  /\ waiting \subseteq Thread /\ woken \subseteq Thread
  /\ waiting \cap woken = {}
  /\ lost \in Nat

(* No lost wakeup: while threads sleep, there is a woken thread on its way *)
(* for every pass that is left in the count, however many threads take the *)
(* count before the woken ones run.  The only way to lose one is to kill   *)
(* the woken thread: its pass stays in the count and nobody is woken.      *)
NoLostWakeup == waiting # {} => count <= Cardinality(woken) + lost
=============================================================================
