------------------------------- MODULE RWLock -------------------------------
(***************************************************************************)
(* kernel/sync/rwlock.cpp: the blocking lock of the handle tables, address *)
(* spaces and file system objects.  Every operation, and every round of    *)
(* the loop of lock(), runs with IF off and is one action.                 *)
(*                                                                         *)
(* notify() wakes the whole wait queue, so the queue is a set.  A woken    *)
(* thread goes round the loop of lock() once more, and others may take the *)
(* lock before it does.                                                    *)
(***************************************************************************)
EXTENDS SyncConstants

Mode == {"EXCLUSIVE", "SHARED"}

VARIABLES
  owner,        \* the thread that holds the lock EXCLUSIVE
  share_count,
  at,           \* what each thread is doing: see Place
  waiting       \* wait_queue

vars == <<owner, share_count, at, waiting>>

\* out: not using the lock; want: inside lock(mode); hold; dead: killed
Place == {<<"out">>, <<"dead">>} \cup ({"want", "hold"} \X Mode)

Init ==
  /\ owner = NULL
  /\ share_count = 0
  /\ at = [t \in Thread |-> <<"out">>]
  /\ waiting = {}

\* Faulty: a writer does not look at the readers.
CanTakeIgnoresReaders(mode) == owner = NULL

\* the test of lock() and try_lock()
CanTake(mode) ==
  IF mode = "EXCLUSIVE" THEN owner = NULL /\ share_count = 0
  ELSE owner = NULL

TakeLock(t, mode) ==
  /\ IF mode = "EXCLUSIVE"
     THEN owner' = t /\ UNCHANGED share_count
     ELSE share_count' = share_count + 1 /\ UNCHANGED owner
  /\ at' = [at EXCEPT ![t] = <<"hold", mode>>]
  /\ UNCHANGED waiting

\* one round of the loop of lock(mode)
Lock(t, mode) ==
  /\ t \notin waiting
  /\ at[t] = <<"out">> \/ at[t] = <<"want", mode>>
  /\ IF CanTake(mode) THEN TakeLock(t, mode)
     ELSE /\ at' = [at EXCEPT ![t] = <<"want", mode>>]
          /\ waiting' = waiting \cup {t}
          /\ UNCHANGED <<owner, share_count>>

TryLock(t, mode) ==
  /\ at[t] = <<"out">>
  /\ CanTake(mode)
  /\ TakeLock(t, mode)

\* Faulty: only a writer that leaves wakes the others.
UnlockNotifiesWriter(t) ==
  /\ \E mode \in Mode : at[t] = <<"hold", mode>>
  /\ at' = [at EXCEPT ![t] = <<"out">>]
  /\ IF owner # NULL
     THEN owner' = NULL /\ waiting' = {} /\ UNCHANGED share_count
     ELSE share_count' = share_count - 1 /\ UNCHANGED <<owner, waiting>>

\* unlock(); the last holder wakes everybody
Unlock(t) ==
  /\ \E mode \in Mode : at[t] = <<"hold", mode>>
  /\ at' = [at EXCEPT ![t] = <<"out">>]
  /\ IF owner # NULL
     THEN owner' = NULL /\ waiting' = {} /\ UNCHANGED share_count
     ELSE /\ share_count' = share_count - 1
          /\ waiting' = IF share_count = 1 THEN {} ELSE waiting
          /\ UNCHANGED owner

\* Faulty: the readers that wait are not woken.
DowngradeSilent(t) ==
  /\ owner = t
  /\ owner' = NULL
  /\ share_count' = 1
  /\ at' = [at EXCEPT ![t] = <<"hold", "SHARED">>]
  /\ UNCHANGED waiting

Downgrade(t) ==
  /\ owner = t
  /\ owner' = NULL
  /\ share_count' = 1
  /\ at' = [at EXCEPT ![t] = <<"hold", "SHARED">>]
  /\ waiting' = {}

\* A thread that is not in a critical section can be killed while it waits
\* for the lock, or after it was woken and before it ran again.
Kill(t) ==
  /\ \E mode \in Mode : at[t] = <<"want", mode>>
  /\ at' = [at EXCEPT ![t] = <<"dead">>]
  /\ waiting' = waiting \ {t}
  /\ UNCHANGED <<owner, share_count>>

Next ==
  \E t \in Thread :
    \/ \E mode \in Mode : Lock(t, mode) \/ TryLock(t, mode)
    \/ Unlock(t) \/ Downgrade(t) \/ Kill(t)

Spec == Init /\ [][Next]_vars

(* A holder gives the lock back, and a woken thread runs again: the        *)
(* scheduler is round robin and the sections that hold a lock end.         *)
Fairness == \A t \in Thread :
              /\ WF_vars(Unlock(t))
              /\ WF_vars(\E mode \in Mode : at[t] = <<"want", mode>>
                                            /\ Lock(t, mode))

FairSpec == Spec /\ Fairness

(***************************************************************************)
(* Properties                                                              *)
(***************************************************************************)
\* The fields hold values of their types and a waiting thread is in lock().
TypeOK ==
  /\ owner \in Thread \cup {NULL}
  /\ share_count \in Nat
  /\ at \in [Thread -> Place]
  /\ waiting \subseteq Thread
  /\ \A t \in waiting : \E mode \in Mode : at[t] = <<"want", mode>>

Readers == {t \in Thread : at[t] = <<"hold", "SHARED">>}
Writers == {t \in Thread : at[t] = <<"hold", "EXCLUSIVE">>}

(* The lock excludes: a writer is alone, and owner and share_count say who *)
(* holds the lock (an unlock by anybody else would be a bugcheck).         *)
Exclusion ==
  /\ Writers = IF owner = NULL THEN {} ELSE {owner}
  /\ share_count = Cardinality(Readers)
  /\ owner # NULL => share_count = 0

(* No lost wakeup: whoever sleeps on the lock sleeps because somebody holds*)
(* it in a way that keeps him out, although unlock notifies only when the  *)
(* last holder leaves and threads are killed while they wait.              *)
NoLostWakeup ==
  \A t \in waiting :
    /\ at[t] = <<"want", "SHARED">> => owner # NULL
    /\ owner # NULL \/ share_count # 0

(* A reader is not kept asleep for ever as long as writers give the lock   *)
(* back.  (A writer can be: readers may keep overlapping.)                 *)
ReaderIsWoken ==
  \A t \in Thread :
    (t \in waiting /\ at[t] = <<"want", "SHARED">>) ~> t \notin waiting
=============================================================================
