---------------------------- MODULE Sync_proofs ----------------------------
(***************************************************************************)
(* The safety of the components of Sync, side by side as the runs check    *)
(* them: each has its inductive invariant, and a step of one leaves the    *)
(* state of the others alone.                                              *)
(*                                                                         *)
(* The invariants of the pipe and the service calls are those of their own *)
(* modules; the lemmas whose names start with Same say that the instance   *)
(* of Sync and the one that was proved about are the same. Those of the    *)
(* rwlock, which Sync extends, of the semaphore and of the IDE driver are  *)
(* here.                                                                   *)
(***************************************************************************)
EXTENDS Sync, FiniteSetTheorems, TLAPS

PP == INSTANCE Pipe_proofs WITH waiting <- readers_writers, Atomic <- FALSE
AP == INSTANCE Pipe_proofs WITH waiting <- readers_writers, Atomic <- TRUE
VP == INSTANCE Services_proofs WITH Clients <- Writer

(***************************************************************************)
(* The rwlock, for every finite set of threads                             *)
(***************************************************************************)
\* The inductive invariant of the rwlock.
IInv == TypeOK /\ Exclusion /\ NoLostWakeup

\* The places of a thread are told apart by their first component.
LEMMA Places ==
  /\ \A m, n \in Mode : <<"want", m>> # <<"hold", n>>
  /\ \A m \in Mode : <<"out">> # <<"hold", m>> /\ <<"dead">> # <<"hold", m>>
  /\ \A m \in Mode : <<"out">> # <<"want", m>> /\ <<"dead">> # <<"want", m>>
  /\ <<"hold", "SHARED">> # <<"hold", "EXCLUSIVE">>
  /\ <<"want", "SHARED">> # <<"want", "EXCLUSIVE">>
  BY DEF Mode

\* The free lock satisfies the invariant.
LEMMA InitIInv == Init => IInv
  <1> SUFFICES ASSUME Init PROVE IInv
    OBVIOUS
  <1>1. TypeOK
    BY DEF Init, TypeOK, Place
  <1>2. Readers = {} /\ Writers = {}
    BY Places DEF Init, Readers, Writers, Mode
  <1>3. Cardinality(Readers) = 0
    BY <1>2, FS_EmptySet
  <1> QED
    BY <1>1, <1>2, <1>3 DEF Init, IInv, Exclusion, NoLostWakeup

\* The readers are finitely many, so share_count can count them.
LEMMA ReadersFinite ==
  ASSUME TypeOK
  PROVE  IsFiniteSet(Readers) /\ Cardinality(Readers) \in Nat
  BY RWAssumption, FS_Subset, FS_CardinalityType DEF Readers

\* Taking the lock, by lock() or try_lock().
LEMMA TakeIInv ==
  ASSUME IInv, NEW t \in Thread, NEW mode \in Mode, CanTake(mode),
         TakeLock(t, mode), t \notin waiting,
         \A m \in Mode : at[t] # <<"hold", m>>
  PROVE  IInv'
  <1>0. /\ owner = NULL /\ Writers = {}
        /\ share_count \in Nat /\ share_count = Cardinality(Readers)
    BY DEF IInv, TypeOK, Exclusion, CanTake
  <1>1. at' = [at EXCEPT ![t] = <<"hold", mode>>] /\ waiting' = waiting
    BY DEF TakeLock
  <1>2. <<"hold", mode>> \in Place
    BY DEF Place
  <1>3. TypeOK'
    BY <1>0, <1>1, <1>2 DEF TakeLock, IInv, TypeOK
  <1>4. t \notin Readers
    BY DEF Readers, Mode
  <1>5. CASE mode = "EXCLUSIVE"
    <2>1. owner' = t /\ share_count' = share_count /\ share_count = 0
      BY <1>5 DEF TakeLock, CanTake
    <2>2. Readers' = Readers
      BY <1>1, <1>4, <1>5, Places DEF IInv, TypeOK, Readers
    <2>3. Writers' = {t}
      BY <1>0, <1>1, <1>5 DEF IInv, TypeOK, Writers
    <2>4. Exclusion'
      BY <2>1, <2>2, <2>3, <1>0, RWAssumption DEF Exclusion
    <2>5. NoLostWakeup'
      BY <1>1, <2>1, RWAssumption DEF NoLostWakeup
    <2> QED
      BY <1>3, <2>4, <2>5 DEF IInv
  <1>6. CASE mode = "SHARED"
    <2>1. owner' = NULL /\ share_count' = share_count + 1
      BY <1>0, <1>6 DEF TakeLock
    <2>2. Readers' = Readers \cup {t}
      BY <1>1, <1>6 DEF IInv, TypeOK, Readers
    <2>3. Writers' = {}
      BY <1>0, <1>1, <1>6, Places DEF IInv, TypeOK, Writers
    <2>4. Cardinality(Readers') = Cardinality(Readers) + 1
      BY <2>2, <1>4, ReadersFinite, FS_AddElement DEF IInv
    <2>5. Exclusion'
      BY <2>1, <2>3, <2>4, <1>0 DEF Exclusion
    <2>6. NoLostWakeup'
      <3>1. ASSUME NEW u \in waiting
            PROVE  at'[u] # <<"want", "SHARED">> /\ share_count' # 0
        <4>1. u # t /\ at'[u] = at[u]
          BY <1>1 DEF IInv, TypeOK
        <4> QED
          BY <4>1, <1>0, <2>1 DEF IInv, NoLostWakeup
      <3> QED
        BY <3>1, <1>1 DEF NoLostWakeup
    <2> QED
      BY <1>3, <2>5, <2>6 DEF IInv
  <1> QED
    BY <1>5, <1>6 DEF Mode

\* Leaving the lock.
LEMMA UnlockIInv ==
  ASSUME IInv, NEW t \in Thread, Unlock(t)
  PROVE  IInv'
  <1>0. PICK mode \in Mode : at[t] = <<"hold", mode>>
    BY DEF Unlock
  <1>1. at' = [at EXCEPT ![t] = <<"out">>]
    BY DEF Unlock
  <1>2. /\ share_count \in Nat /\ share_count = Cardinality(Readers)
        /\ Writers = IF owner = NULL THEN {} ELSE {owner}
        /\ owner # NULL => share_count = 0
        /\ at \in [Thread -> Place]
    BY DEF IInv, TypeOK, Exclusion
  <1>3. t \notin waiting
    BY <1>0, Places DEF IInv, TypeOK
  <1>4. IsFiniteSet(Readers)
    BY ReadersFinite DEF IInv
  <1>5. /\ Readers' = Readers \ {t} /\ Writers' = Writers \ {t}
    BY <1>1, <1>2, Places DEF Readers, Writers, Mode
  <1>6. at' \in [Thread -> Place]
    BY <1>1, <1>2 DEF Place
  <1>7. CASE owner # NULL
    <2>1. owner' = NULL /\ waiting' = {} /\ share_count' = share_count
      BY <1>7 DEF Unlock
    <2>2. Readers = {}
      BY <1>2, <1>4, <1>7, FS_EmptySet
    <2>3. Readers' = {} /\ t \in Writers
      BY <1>0, <1>5, <2>2 DEF Readers, Writers, Mode
    <2>4. Writers' = {}
      BY <1>2, <1>5, <1>7, <2>3
    <2>5. Cardinality(Readers') = 0
      BY <2>3, FS_EmptySet
    <2> QED
      BY <1>2, <1>6, <1>7, <2>1, <2>4, <2>5
      DEF IInv, TypeOK, Exclusion, NoLostWakeup
  <1>8. CASE owner = NULL
    <2>1. /\ owner' = NULL /\ share_count' = share_count - 1
          /\ waiting' = IF share_count = 1 THEN {} ELSE waiting
      BY <1>8 DEF Unlock
    <2>2. t \in Readers
      BY <1>0, <1>2, <1>8 DEF Readers, Writers, Mode
    <2>3. Cardinality(Readers') = Cardinality(Readers) - 1
      BY <1>4, <1>5, <2>2, FS_RemoveElement
    <2>4. share_count # 0
      BY <1>2, <1>4, <2>2, FS_EmptySet
    <2>5. Exclusion'
      BY <1>2, <1>5, <1>8, <2>1, <2>3 DEF Exclusion
    <2>6. waiting' \subseteq waiting
      BY <2>1
    <2>7. \A u \in waiting : at'[u] = at[u]
      BY <1>1, <1>2, <1>3 DEF IInv, TypeOK
    <2>8. TypeOK'
      <3>1. \A u \in waiting' : \E m \in Mode : at'[u] = <<"want", m>>
        BY <2>6, <2>7, Zenon DEF IInv, TypeOK
      <3> QED
        BY <1>2, <1>6, <2>1, <2>4, <2>6, <3>1 DEF IInv, TypeOK
    <2>9. NoLostWakeup'
      BY <1>2, <1>8, <2>1, <2>4, <2>6, <2>7 DEF IInv, NoLostWakeup
    <2> QED
      BY <2>5, <2>8, <2>9 DEF IInv
  <1> QED
    BY <1>7, <1>8

\* Every operation of rwlock preserves the invariant.
LEMMA NextIInv == IInv /\ [Next]_vars => IInv'
  <1> SUFFICES ASSUME IInv, [Next]_vars PROVE IInv'
    OBVIOUS
  <1>1. CASE UNCHANGED vars
    BY <1>1 DEF vars, IInv, TypeOK, Exclusion, NoLostWakeup, Readers, Writers
  <1>2. ASSUME NEW t \in Thread, NEW mode \in Mode, Lock(t, mode)
        PROVE  IInv'
    <2>0. at[t] # <<"hold", "SHARED">> /\ at[t] # <<"hold", "EXCLUSIVE">>
      BY <1>2, Places DEF Lock, Mode
    <2>1. CASE CanTake(mode)
      BY <1>2, <2>0, <2>1, TakeIInv DEF Lock, Mode
    <2>2. CASE ~CanTake(mode)
      <3>1. /\ at' = [at EXCEPT ![t] = <<"want", mode>>]
            /\ waiting' = waiting \cup {t}
            /\ owner' = owner /\ share_count' = share_count
        BY <1>2, <2>2 DEF Lock
      <3>2. TypeOK'
        BY <3>1 DEF IInv, TypeOK, Place
      <3>3. Readers' = Readers /\ Writers' = Writers
        BY <3>1, <2>0, Places DEF IInv, TypeOK, Readers, Writers, Mode
      <3>4. Exclusion'
        BY <3>1, <3>3 DEF IInv, Exclusion
      <3>5. NoLostWakeup'
        <4> SUFFICES ASSUME NEW u \in waiting'
                     PROVE  /\ at'[u] = <<"want", "SHARED">> => owner # NULL
                            /\ owner # NULL \/ share_count # 0
          BY <3>1 DEF NoLostWakeup
        <4>1. CASE u = t
          BY <4>1, <2>2, <3>1, Places DEF IInv, TypeOK, CanTake, Mode
        <4>2. CASE u # t
          BY <4>2, <3>1 DEF IInv, TypeOK, NoLostWakeup
        <4> QED
          BY <4>1, <4>2
      <3> QED
        BY <3>2, <3>4, <3>5 DEF IInv
    <2> QED
      BY <2>1, <2>2
  <1>3. ASSUME NEW t \in Thread, NEW mode \in Mode, TryLock(t, mode)
        PROVE  IInv'
    <2>0. at[t] # <<"hold", "SHARED">> /\ at[t] # <<"hold", "EXCLUSIVE">>
      BY <1>3, Places DEF TryLock, Mode
    <2>1. t \notin waiting
      BY <1>3, Places DEF TryLock, IInv, TypeOK
    <2> QED
      BY <1>3, <2>0, <2>1, TakeIInv DEF TryLock, Mode
  <1>4. ASSUME NEW t \in Thread, Unlock(t)
        PROVE  IInv'
    BY <1>4, UnlockIInv
  <1>5. ASSUME NEW t \in Thread, Downgrade(t)
        PROVE  IInv'
    <2>0. /\ owner = t /\ owner # NULL /\ Writers = {t} /\ Readers = {}
          /\ at \in [Thread -> Place]
      <3>1. owner = t /\ owner # NULL
        BY <1>5, RWAssumption DEF Downgrade
      <3>2. Cardinality(Readers) = 0 /\ Writers = {t}
        BY <3>1 DEF IInv, Exclusion
      <3> QED
        BY <3>1, <3>2, ReadersFinite, FS_EmptySet DEF IInv, TypeOK
    <2>1. /\ owner' = NULL /\ share_count' = 1 /\ waiting' = {}
          /\ at' = [at EXCEPT ![t] = <<"hold", "SHARED">>]
      BY <1>5 DEF Downgrade
    <2>2. Readers' = {t} /\ Writers' = {}
      BY <2>0, <2>1, Places DEF Readers, Writers
    <2>3. Cardinality(Readers') = 1
      BY <2>2, FS_Singleton
    <2>4. TypeOK'
      BY <2>0, <2>1 DEF TypeOK, Place, Mode
    <2> QED
      BY <2>1, <2>2, <2>3, <2>4 DEF IInv, Exclusion, NoLostWakeup
  <1>6. ASSUME NEW t \in Thread, Kill(t)
        PROVE  IInv'
    <2>1. /\ at' = [at EXCEPT ![t] = <<"dead">>] /\ waiting' = waiting \ {t}
          /\ owner' = owner /\ share_count' = share_count
      BY <1>6 DEF Kill
    <2>2. at[t] # <<"hold", "SHARED">> /\ at[t] # <<"hold", "EXCLUSIVE">>
      BY <1>6, Places DEF Kill, Mode
    <2>3. Readers' = Readers /\ Writers' = Writers
      BY <2>1, <2>2, Places DEF IInv, TypeOK, Readers, Writers, Mode
    <2>4. TypeOK'
      BY <2>1 DEF IInv, TypeOK, Place
    <2>5. NoLostWakeup'
      BY <2>1 DEF IInv, TypeOK, NoLostWakeup
    <2> QED
      BY <2>1, <2>3, <2>4, <2>5 DEF IInv, Exclusion
  <1> QED
    BY <1>1, <1>2, <1>3, <1>4, <1>5, <1>6 DEF Next

(* A writer holds the lock alone, whatever the threads do and whichever of *)
(* them are killed while they wait.                                        *)
THEOREM LockExcludes == Spec => []Exclusion
  <1>1. IInv => Exclusion
    BY DEF IInv
  <1> QED
    BY <1>1, InitIInv, NextIInv, PTL DEF Spec

(* Nobody sleeps on a lock that he could take.                             *)
THEOREM NoSleepOnFreeLock == Spec => []NoLostWakeup
  <1>1. IInv => NoLostWakeup
    BY DEF IInv
  <1> QED
    BY <1>1, InitIInv, NextIInv, PTL DEF Spec

(***************************************************************************)
(* The components in Sync                                                  *)
(***************************************************************************)
\* What a finite set is does not depend on the instance.
LEMMA SameCardinality ==
  /\ \A s : IsFiniteSet(s) = PP!IsFiniteSet(s)
  /\ \A s : IsFiniteSet(s) = AP!IsFiniteSet(s)
  /\ \A s : S!Cardinality(s) = Cardinality(s)
  <1>1. \A s : /\ IsFiniteSet(s) = PP!IsFiniteSet(s)
              /\ IsFiniteSet(s) = AP!IsFiniteSet(s)
              /\ IsFiniteSet(s) = S!IsFiniteSet(s)
    BY DEF S!IsFiniteSet, IsFiniteSet, PP!IsFiniteSet, AP!IsFiniteSet
  <1>2. \A s : S!Cardinality(s) = Cardinality(s)
    BY <1>1 DEF S!Cardinality, Cardinality
  <1> QED
    BY <1>1, <1>2

\* The inductive invariant of the semaphore.
SemInv == S!TypeOK /\ S!NoLostWakeup

\* While threads sleep, a woken or lost thread stands for each unit.
LEMMA WakeupCount ==
  /\ S!NoLostWakeup <=> (waiters # {} => count <= Cardinality(woken) + lost)
  /\ S!NoLostWakeup' <=> (waiters # {} => count <= Cardinality(woken) + lost)'
  BY SameCardinality DEF S!NoLostWakeup

\* The threads that were woken can be counted.
LEMMA WokenFinite ==
  ASSUME S!TypeOK
  PROVE  IsFiniteSet(woken) /\ Cardinality(woken) \in Nat
  BY SemaphoreAssumption, FS_Subset, FS_CardinalityType DEF S!TypeOK

\* The new semaphore satisfies the invariant.
LEMMA SemInit == S!Init => SemInv
  BY SemaphoreAssumption DEF S!Init, SemInv, S!TypeOK, S!NoLostWakeup

\* Every operation of semaphore preserves the invariant.
LEMMA SemStep == SemInv /\ [S!Next]_(S!vars) => SemInv'
  <1> SUFFICES ASSUME SemInv, [S!Next]_(S!vars) PROVE SemInv'
    OBVIOUS
  <1>0. /\ IsFiniteSet(woken) /\ Cardinality(woken) \in Nat
        /\ Total \in Nat \ {0} /\ count \in 0..Total /\ lost \in Nat
    BY WokenFinite, SemaphoreAssumption DEF SemInv, S!TypeOK
  <1>1. CASE UNCHANGED S!vars
    BY <1>1, WakeupCount DEF S!vars, SemInv, S!TypeOK
  <1>2. CASE S!Signal
    <2>1. count' \in 0..Total /\ count' <= count + 1 /\ lost' = lost
      BY <1>0, <1>2 DEF S!Signal
    <2>2. CASE waiters = {}
      BY <1>2, <2>1, <2>2, WakeupCount DEF S!Signal, SemInv, S!TypeOK
    <2>3. CASE waiters # {}
      <3>1. PICK t \in waiters : /\ waiters' = waiters \ {t}
                                 /\ woken' = woken \cup {t}
        BY <1>2, <2>3 DEF S!Signal
      <3>2. t \notin woken
        BY DEF SemInv, S!TypeOK
      <3>3. Cardinality(woken') = Cardinality(woken) + 1
        BY <1>0, <3>1, <3>2, FS_AddElement
      <3>4. S!TypeOK'
        BY <2>1, <3>1, <1>0 DEF SemInv, S!TypeOK
      <3> QED
        BY <1>0, <2>1, <2>3, <3>3, <3>4, WakeupCount DEF SemInv
    <2> QED
      BY <2>2, <2>3
  <1>3. ASSUME NEW t \in Thread, S!Wait(t)
        PROVE  SemInv'
    <2>1. Cardinality(woken') >= Cardinality(woken) - 1
          /\ Cardinality(woken') \in Nat
      <3>1. woken' = woken \ {t}
        BY <1>3 DEF S!Wait
      <3>2. CASE t \in woken
        <4>1. /\ IsFiniteSet(woken')
              /\ Cardinality(woken') = Cardinality(woken) - 1
          BY <1>0, <3>1, <3>2, FS_RemoveElement
        <4>2. Cardinality(woken') \in Nat
          BY <4>1, FS_CardinalityType
        <4> QED
          BY <1>0, <4>1, <4>2
      <3>3. CASE t \notin woken
        <4>1. woken' = woken
          BY <3>1, <3>3
        <4> QED
          BY <1>0, <4>1
      <3> QED
        BY <3>2, <3>3
    <2>2. CASE count # 0
      <3>1. count' = count - 1 /\ waiters' = waiters /\ lost' = lost
        BY <1>3, <2>2 DEF S!Wait
      <3>2. S!TypeOK'
        BY <1>0, <1>3, <2>2, <3>1 DEF S!Wait, SemInv, S!TypeOK
      <3> QED
        BY <1>0, <2>1, <2>2, <3>1, <3>2, WakeupCount DEF SemInv
    <2>3. CASE count = 0
      <3>1. count' = 0 /\ waiters' = waiters \cup {t} /\ lost' = lost
            /\ woken' = woken \ {t}
        BY <1>3, <2>3 DEF S!Wait
      <3>2. S!TypeOK'
        BY <1>0, <1>3, <3>1 DEF S!Wait, SemInv, S!TypeOK, S!Thread, Thread
      <3> QED
        BY <1>0, <2>1, <3>1, <3>2, WakeupCount DEF SemInv
    <2> QED
      BY <2>2, <2>3
  <1>4. ASSUME NEW t \in Thread, S!Check(t)
        PROVE  SemInv'
    <2>1. /\ count' = count - 1 /\ waiters' = waiters /\ woken' = woken
          /\ lost' = lost /\ count # 0
      BY <1>4 DEF S!Check
    <2>2. S!TypeOK'
      BY <1>0, <2>1 DEF SemInv, S!TypeOK
    <2> QED
      BY <1>0, <2>1, <2>2, WakeupCount DEF SemInv
  <1>5. ASSUME NEW t \in Thread, S!Timeout(t)
        PROVE  SemInv'
    BY <1>5, WakeupCount DEF S!Timeout, SemInv, S!TypeOK
  <1>6. ASSUME NEW t \in Thread, S!Kill(t)
        PROVE  SemInv'
    <2>1. /\ waiters' \subseteq waiters /\ woken' = woken \ {t}
          /\ count' = count
          /\ lost' = IF t \in woken THEN lost + 1 ELSE lost
      BY <1>6 DEF S!Kill
    <2>2. S!TypeOK'
      BY <1>0, <2>1 DEF SemInv, S!TypeOK
    <2>3. CASE t \in woken
      <3>1. Cardinality(woken') = Cardinality(woken) - 1
        BY <1>0, <2>1, <2>3, FS_RemoveElement
      <3> QED
        BY <1>0, <2>1, <2>2, <2>3, <3>1, WakeupCount DEF SemInv
    <2>4. CASE t \notin woken
      <3>1. woken' = woken /\ lost' = lost
        BY <2>1, <2>4
      <3> QED
        BY <2>1, <2>2, <3>1, WakeupCount DEF SemInv
    <2> QED
      BY <2>3, <2>4
  <1> QED
    BY <1>1, <1>2, <1>3, <1>4, <1>5, <1>6 DEF S!Next, S!Thread, Thread

(* The wakeups of a semaphore are never fewer than the passes it offers to *)
(* sleeping threads, but for the ones that were given to killed threads.   *)
THEOREM WakeupsSuffice == S!Spec => []S!NoLostWakeup
  <1>1. SemInv => S!NoLostWakeup
    BY DEF SemInv
  <1> QED
    BY <1>1, SemInit, SemStep, PTL DEF S!Spec

\* The steps of the semaphore keep its invariant.
LEMMA SemNext == SemInv /\ S!Next => SemInv'
  BY SemStep

PipeInv == P!TypeOK /\ P!NoLostWakeup

\* The invariant of the pipes holds initially.
LEMMA PipeInit == P!Init => PipeInv
  BY PP!InitIInv, SemaphoreAssumption, PipeAssumption, RWAssumption,
     SameCardinality
     DEF PP!Thread, Thread, P!Thread, PP!IInv, PipeInv, P!TypeOK, PP!TypeOK,
         P!NoLostWakeup, PP!NoLostWakeup, P!Init, PP!Init, P!is_empty,
         PP!is_empty, P!is_full, PP!is_full

\* The instances of Pipe take the same steps.
LEMMA SamePipe == P!Next => PP!Next
  <1>1. ASSUME NEW t, NEW n, P!Read(t, n) PROVE PP!Read(t, n)
    BY <1>1, Zenon
       DEF P!Read, PP!Read, P!Least, PP!Least, P!Used, PP!Used, P!is_full,
           PP!is_full
  <1>2. ASSUME NEW t, NEW msg, P!Write(t, msg) PROVE PP!Write(t, msg)
    BY <1>2, Zenon
       DEF P!Write, PP!Write, P!Least, PP!Least, P!Available, PP!Available,
           P!Stored, PP!Stored, P!is_empty, PP!is_empty
  <1>3. P!Message = PP!Message
    BY Zenon DEF P!Message, PP!Message
  <1>4. ASSUME NEW t
        PROVE  /\ P!Wait(t) => PP!Wait(t)
               /\ P!WrongSide(t) => PP!WrongSide(t)
               /\ P!Cancel(t) => PP!Cancel(t)
    BY Zenon
       DEF P!Wait, PP!Wait, P!check, PP!check, P!is_empty, PP!is_empty,
           P!is_full, PP!is_full, P!WrongSide, PP!WrongSide, P!Cancel,
           PP!Cancel
  <1> QED
    BY <1>1, <1>2, <1>3, <1>4, Zenon DEF P!Next, PP!Next, P!Thread, PP!Thread

\* The instances of Pipe take the same steps.
LEMMA SameAtomicPipe == A!Next => AP!Next
  <1>1. ASSUME NEW t, NEW n, A!Read(t, n) PROVE AP!Read(t, n)
    BY <1>1, Zenon
       DEF A!Read, AP!Read, A!Least, AP!Least, A!Used, AP!Used, A!is_full,
           AP!is_full
  <1>2. ASSUME NEW t, NEW msg, A!Write(t, msg) PROVE AP!Write(t, msg)
    BY <1>2, Zenon
       DEF A!Write, AP!Write, A!Least, AP!Least, A!Available, AP!Available,
           A!Stored, AP!Stored, A!is_empty, AP!is_empty
  <1>3. A!Message = AP!Message
    BY Zenon DEF A!Message, AP!Message
  <1>4. ASSUME NEW t
        PROVE  /\ A!Wait(t) => AP!Wait(t)
               /\ A!WrongSide(t) => AP!WrongSide(t)
               /\ A!Cancel(t) => AP!Cancel(t)
    BY Zenon
       DEF A!Wait, AP!Wait, A!check, AP!check, A!is_empty, AP!is_empty,
           A!is_full, AP!is_full, A!WrongSide, AP!WrongSide, A!Cancel,
           AP!Cancel
  <1> QED
    BY <1>1, <1>2, <1>3, <1>4, Zenon DEF A!Next, AP!Next, A!Thread, AP!Thread

\* The steps of a pipe keep it.
LEMMA PipeNext == PipeInv /\ P!Next => PipeInv'
  BY SamePipe, PP!NextIInv, SemaphoreAssumption, PipeAssumption,
     RWAssumption, SameCardinality
     DEF PP!Thread, Thread, P!Thread, PP!IInv, PipeInv, P!TypeOK, PP!TypeOK,
         P!NoLostWakeup, PP!NoLostWakeup, P!is_empty, PP!is_empty,
         P!is_full, PP!is_full

\* So do those of a pipe with atomic writes.
LEMMA AtomicPipeNext == PipeInv /\ A!Next => PipeInv'
  BY SameAtomicPipe, AP!NextIInv, SemaphoreAssumption, PipeAssumption,
     RWAssumption, SameCardinality
     DEF AP!Thread, Thread, P!Thread, AP!IInv, PipeInv, P!TypeOK, AP!TypeOK,
         P!NoLostWakeup, AP!NoLostWakeup, P!is_empty, AP!is_empty,
         P!is_full, AP!is_full

(***************************************************************************)
(* The IDE driver                                                          *)
(***************************************************************************)
Inside == {"start", "wait", "status"}

\* The semaphore lets one command at a time through.
OneCommand ==
  /\ step \in [Writer -> {"idle", "sync"} \cup Inside]
  /\ sync \in {0, 1}
  /\ \A c \in Writer : step[c] \in Inside => sync = 0
  /\ \A c, d \in Writer : step[c] \in Inside /\ step[d] \in Inside => c = d

\* The flags are those of the command that waits or reads the status, or of a
\* transfer that was given up and has ended since; the drive works for the
\* command that waits, unless its transfer was given up.
FlagsAreOwn ==
  /\ reg \in [dma : BOOLEAN, irq : BOOLEAN, err : BOOLEAN]
  /\ ev \in BOOLEAN /\ drive \in Writer \cup {"idle"}
  /\ given \in BOOLEAN /\ late \in [inside : SUBSET Writer, between : BOOLEAN]
  /\ reg.dma => ~ev /\ \E c \in Writer : step[c] = "wait"
  /\ reg.irq => drive = "idle"
  /\ reg.irq \/ reg.err =>
       late.between \/ \E c \in Writer : step[c] \in {"wait", "status"}
  /\ \A c \in Writer : step[c] = "wait" => reg.dma \/ reg.irq
  /\ drive # "idle" /\ ~given => step[drive] = "wait"

\* The status will tell whether the transfer is complete, or what became of the
\* one that was in its place.
StatusTells ==
  /\ \A c \in Writer : step[c] \in {"wait", "status"} =>
       /\ reg.irq /\ ~reg.err => c \in done \cup late.inside
       /\ c \in done => reg.irq /\ ~reg.err
  /\ \A c \in Writer : step[c] # "idle" => result[c] = "none"
  /\ result \in [Writer -> {"none", "true", "false"}]
  /\ D!AnswerIsTrue

DiskInv == OneCommand /\ FlagsAreOwn /\ StatusTells

\* The invariant of the driver holds initially.
LEMMA DiskInit == D!Init => DiskInv
  <1> SUFFICES ASSUME D!Init PROVE DiskInv
    OBVIOUS
  <1>0. /\ reg \in [dma : BOOLEAN, irq : BOOLEAN, err : BOOLEAN]
        /\ ~reg.dma /\ ~reg.irq /\ ~reg.err
        /\ late \in [inside : SUBSET Writer, between : BOOLEAN]
    BY DEF D!Init
  <1>1. OneCommand
    BY DEF D!Init, OneCommand, Inside
  <1>2. FlagsAreOwn
    BY <1>0 DEF D!Init, FlagsAreOwn
  <1>3. StatusTells
    BY <1>0 DEF D!Init, StatusTells, D!AnswerIsTrue
  <1> QED
    BY <1>1, <1>2, <1>3 DEF DiskInv

\* Every step of a command, of the drive and of the interrupt handler keeps
\* it.
LEMMA DiskNext == DiskInv /\ D!Next => DiskInv'
  <1> SUFFICES ASSUME DiskInv, D!Next PROVE DiskInv'
    OBVIOUS
  <1> DEFINE Reg == [dma : BOOLEAN, irq : BOOLEAN, err : BOOLEAN]
             Late == [inside : SUBSET Writer, between : BOOLEAN]
  <1>0. reg \in Reg /\ late \in Late /\ OneCommand /\ FlagsAreOwn /\ StatusTells
    BY DEF DiskInv, FlagsAreOwn
  <1>1. ASSUME NEW c \in Writer, D!Call(c) PROVE DiskInv'
    <2>1. OneCommand'
      BY <1>0, <1>1 DEF D!Call, OneCommand, Inside
    <2>2. FlagsAreOwn'
      BY <1>0, <1>1 DEF D!Call, FlagsAreOwn, OneCommand
    <2>3. StatusTells'
      BY <1>0, <1>1 DEF D!Call, StatusTells, D!AnswerIsTrue, OneCommand
    <2> QED
      BY <2>1, <2>2, <2>3 DEF DiskInv
  <1>2. ASSUME NEW c \in Writer, D!Acquire(c) PROVE DiskInv'
    <2>1. OneCommand'
      BY <1>0, <1>2 DEF D!Acquire, OneCommand, Inside
    <2>2. FlagsAreOwn'
      BY <1>0, <1>2 DEF D!Acquire, FlagsAreOwn, OneCommand
    <2>3. StatusTells'
      BY <1>0, <1>2 DEF D!Acquire, StatusTells, D!AnswerIsTrue, OneCommand
    <2> QED
      BY <2>1, <2>2, <2>3 DEF DiskInv
  <1>3. ASSUME NEW c \in Writer, D!Start(c) PROVE DiskInv'
    <2>0. step[c] = "start" /\ \A d \in Writer : step[d] \in Inside => d = c
      BY <1>0, <1>3 DEF D!Start, OneCommand, Inside
    <2>1. CASE reg.dma \/ reg.irq \/ reg.err
      <3>1. /\ late.between /\ stop'
            /\ UNCHANGED <<ev, reg, drive, given, done, late, step, sync, result>>
        BY <1>0, <1>3, <2>0, <2>1 DEF D!Start, FlagsAreOwn, Inside
      <3>2. OneCommand' /\ FlagsAreOwn'
        BY <1>0, <3>1 DEF OneCommand, FlagsAreOwn
      <3>3. StatusTells'
        BY <1>0, <3>1 DEF StatusTells, D!AnswerIsTrue
      <3> QED
        BY <3>2, <3>3 DEF DiskInv
    <2>2. CASE ~(reg.dma \/ reg.irq \/ reg.err)
      <3>1. /\ reg' = [reg EXCEPT !.dma = TRUE] /\ ev' = FALSE
            /\ D!Issue(c)
            /\ done' = done \ {c} /\ step' = [step EXCEPT ![c] = "wait"]
            /\ late' = [late EXCEPT !.inside = @ \ {c}]
            /\ UNCHANGED <<sync, result, stop>>
        BY <1>3, <2>2 DEF D!Start
      <3>2. reg' \in Reg /\ reg'.dma /\ ~reg'.irq /\ ~reg'.err
        BY <1>0, <2>2, <3>1
      <3>3. /\ late' \in Late /\ late'.between = late.between
            /\ late'.inside = late.inside \ {c}
        BY <1>0, <3>1
      <3>4. OneCommand'
        BY <1>0, <2>0, <3>1 DEF OneCommand, Inside
      <3>5. step'[c] = "wait"
        BY <1>0, <3>1 DEF OneCommand
      <3>6. \A d \in Writer : d # c =>
              step'[d] \notin Inside /\ step'[d] = step[d]
        BY <1>0, <2>0, <3>1 DEF OneCommand
      <3>7. /\ drive' \in Writer \cup {"idle"} /\ given' \in BOOLEAN
            /\ drive' # "idle" /\ ~given' => step'[drive'] = "wait"
        <4>1. CASE drive' = c /\ given' = FALSE
          BY <4>1, <3>5
        <4>2. CASE drive # "idle" /\ UNCHANGED <<drive, given>>
          <5>1. drive # "idle" /\ ~given => drive = c
            BY <1>0, <2>0 DEF FlagsAreOwn, Inside
          <5> QED
            BY <1>0, <4>2, <5>1, <3>5 DEF FlagsAreOwn
        <4> QED
          BY <3>1, <4>1, <4>2 DEF D!Issue
      <3>8. FlagsAreOwn'
        BY <3>1, <3>2, <3>3, <3>5, <3>7 DEF FlagsAreOwn
      <3>9. result[c] = "none"
        BY <1>0, <2>0 DEF StatusTells
      <3>10. StatusTells'
        BY <1>0, <3>1, <3>2, <3>3, <3>5, <3>6, <3>9
        DEF StatusTells, D!AnswerIsTrue, Inside
      <3> QED
        BY <3>4, <3>8, <3>10 DEF DiskInv
    <2> QED
      BY <2>1, <2>2
  <1>4. ASSUME NEW c \in Writer, D!Woken(c) PROVE DiskInv'
    <2>1. ~reg.dma /\ drive = "idle"
      BY <1>0, <1>4 DEF D!Woken, FlagsAreOwn
    <2>2. OneCommand'
      BY <1>0, <1>4 DEF D!Woken, OneCommand, Inside
    <2>3. FlagsAreOwn'
      BY <1>0, <1>4, <2>1 DEF D!Woken, FlagsAreOwn, OneCommand
    <2>4. StatusTells'
      BY <1>0, <1>4 DEF D!Woken, StatusTells, D!AnswerIsTrue, OneCommand
    <2> QED
      BY <2>2, <2>3, <2>4 DEF DiskInv
  <1>5. ASSUME NEW c \in Writer, D!Timeout(c) PROVE DiskInv'
    <2>1. /\ reg' \in Reg /\ ~reg'.dma
          /\ reg'.irq = reg.irq /\ reg'.err = reg.err
      BY <1>0, <1>5 DEF D!Timeout
    <2>2. OneCommand'
      BY <1>0, <1>5 DEF D!Timeout, OneCommand, Inside
    <2>3. \A d \in Writer : step'[d] # "wait"
      BY <1>0, <1>5 DEF D!Timeout, OneCommand, Inside
    <2>4. step'[c] = "status" /\ given' = (drive # "idle")
          /\ UNCHANGED <<ev, drive, late>>
      BY <1>0, <1>5 DEF D!Timeout, OneCommand
    <2>5. FlagsAreOwn'
      BY <1>0, <2>1, <2>3, <2>4 DEF FlagsAreOwn
    <2>6. StatusTells'
      BY <1>0, <1>5, <2>1
         DEF D!Timeout, StatusTells, D!AnswerIsTrue, OneCommand
    <2> QED
      BY <2>2, <2>5, <2>6 DEF DiskInv
  <1>6. ASSUME NEW c \in Writer, D!Status(c) PROVE DiskInv'
    <2>0. step[c] = "status" /\ \A d \in Writer : step[d] \in Inside => d = c
      BY <1>0, <1>6 DEF D!Status, OneCommand, Inside
    <2>1. ~reg.dma /\ \A d \in Writer : step[d] # "wait"
      BY <1>0, <2>0 DEF FlagsAreOwn, Inside
    <2>2. /\ reg' \in Reg /\ ~reg'.dma /\ ~reg'.irq /\ ~reg'.err
      BY <1>0, <1>6, <2>1 DEF D!Status
    <2>3. OneCommand'
      BY <1>0, <1>6, <2>0 DEF D!Status, OneCommand, Inside
    <2>4. /\ step' = [step EXCEPT ![c] = "idle"]
          /\ UNCHANGED <<ev, drive, given, done, late, stop>>
          /\ result' = [result EXCEPT ![c] =
                          IF reg.irq /\ ~reg.err THEN "true" ELSE "false"]
      BY <1>6 DEF D!Status
    <2>5. /\ result'[c] \in {"true", "false"}
          /\ result'[c] = "true" => c \in done \cup late.inside
          /\ result'[c] = "false" => c \notin done
      BY <1>0, <2>0, <2>4 DEF StatusTells
    <2>6. \A d \in Writer : d # c =>
            step'[d] \notin Inside /\ step'[d] = step[d]
      BY <1>0, <2>0, <2>4 DEF OneCommand
    <2>7. step'[c] = "idle"
      BY <1>0, <2>4 DEF OneCommand
    <2>8. drive # "idle" => given
      BY <1>0, <2>1 DEF FlagsAreOwn
    <2>9. FlagsAreOwn'
      BY <1>0, <2>2, <2>4, <2>6, <2>7, <2>8 DEF FlagsAreOwn, Inside
    <2>10. StatusTells'
      BY <1>0, <2>4, <2>5, <2>6, <2>7 DEF StatusTells, D!AnswerIsTrue, Inside
    <2> QED
      BY <2>3, <2>9, <2>10 DEF DiskInv
  <1>7. ASSUME NEW err \in BOOLEAN, D!Complete(err) PROVE DiskInv'
    <2>0. /\ drive # "idle" /\ drive \in Writer /\ (reg.dma \/ (given /\ err))
          /\ drive' = "idle" /\ given' = FALSE
          /\ UNCHANGED <<sync, ev, step, result, stop>>
      BY <1>0, <1>7 DEF D!Complete, FlagsAreOwn
    <2>1. /\ reg' \in Reg /\ reg'.dma = reg.dma /\ reg'.irq /\ reg'.err = err
      BY <1>0, <1>7 DEF D!Complete
    <2>2. OneCommand'
      BY <1>0, <2>0 DEF OneCommand
    <2>3. \A c \in Writer : step[c] \in {"wait", "status"} => c \notin done
      BY <1>0, <2>0 DEF FlagsAreOwn, StatusTells
    <2>4. CASE given
      <3>1. /\ done' = done
            /\ late' = [inside |-> late.inside \cup {c \in Writer : step[c] = "wait"},
                        between |-> \/ late.between
                                    \/ \A c \in Writer : step[c] \notin {"wait", "status"}]
        BY <1>7, <2>4 DEF D!Complete
      <3>2. /\ late' \in Late
            /\ late'.inside = late.inside \cup {c \in Writer : step[c] = "wait"}
            /\ late'.between <=> \/ late.between
                                 \/ \A c \in Writer : step[c] \notin {"wait", "status"}
        BY <1>0, <3>1
      <3>3. FlagsAreOwn'
        BY <1>0, <2>0, <2>1, <3>2 DEF FlagsAreOwn
      <3>4. \A c \in Writer : step[c] \in {"wait", "status"} /\ ~err =>
              c \in late'.inside
        <4> SUFFICES ASSUME NEW c \in Writer, step[c] \in {"wait", "status"}, ~err
                     PROVE  c \in late'.inside
          OBVIOUS
        <4>1. PICK d \in Writer : step[d] = "wait"
          BY <1>0, <2>0 DEF FlagsAreOwn
        <4>2. c = d
          BY <1>0, <4>1 DEF OneCommand, Inside
        <4> QED
          BY <3>2, <4>1, <4>2
      <3>5. StatusTells'
        BY <1>0, <2>0, <2>1, <2>3, <3>1, <3>2, <3>4
        DEF StatusTells, D!AnswerIsTrue
      <3> QED
        BY <2>2, <3>3, <3>5 DEF DiskInv
    <2>5. CASE ~given
      <3>1. /\ done' = (IF err THEN done ELSE done \cup {drive})
            /\ late' = late /\ step[drive] = "wait"
        BY <1>0, <1>7, <2>0, <2>5 DEF D!Complete, FlagsAreOwn
      <3>2. \A c \in Writer : step[c] \in Inside => c = drive
        BY <1>0, <2>0, <3>1 DEF OneCommand, Inside
      <3>3. FlagsAreOwn'
        BY <1>0, <2>0, <2>1, <3>1 DEF FlagsAreOwn
      <3>4. result[drive] = "none"
        BY <1>0, <2>0, <3>1 DEF StatusTells
      <3>5. StatusTells'
        BY <1>0, <2>0, <2>1, <2>3, <3>1, <3>2, <3>4
        DEF StatusTells, D!AnswerIsTrue, Inside
      <3> QED
        BY <2>2, <3>3, <3>5 DEF DiskInv
    <2> QED
      BY <2>4, <2>5
  <1>8. ASSUME D!OnIrq PROVE DiskInv'
    <2>1. /\ reg' \in Reg /\ reg'.irq = reg.irq /\ reg'.err = reg.err
          /\ reg'.dma => reg.dma /\ ev' = ev
          /\ reg'.dma \/ reg'.irq <=> reg.dma \/ reg.irq
          /\ ev' \in BOOLEAN /\ UNCHANGED <<drive, given, late, step>>
      BY <1>0, <1>8 DEF D!OnIrq, FlagsAreOwn
    <2>2. OneCommand'
      BY <1>0, <1>8 DEF D!OnIrq, OneCommand
    <2>3. FlagsAreOwn'
      BY <1>0, <2>1 DEF FlagsAreOwn
    <2>4. StatusTells'
      BY <1>0, <1>8, <2>1 DEF D!OnIrq, StatusTells, D!AnswerIsTrue
    <2> QED
      BY <2>2, <2>3, <2>4 DEF DiskInv
  <1> QED
    BY <1>1, <1>2, <1>3, <1>4, <1>5, <1>6, <1>7, <1>8 DEF D!Next, D!Step

(***************************************************************************)
(* The service calls                                                       *)
(***************************************************************************)
\* The two instances of Services have the same scripts.
LEMMA SameCalls == V!Calls = VP!Calls /\ V!Requests = VP!Requests
  <1>1. V!GetWorkDir = VP!GetWorkDir
    BY Zenon DEF V!GetWorkDir, VP!GetWorkDir
  <1>2. V!Opening = VP!Opening
    BY <1>1, Zenon DEF V!Opening, VP!Opening
  <1>3. V!Spawned = VP!Spawned
    BY <1>1, <1>2 DEF V!Spawned, VP!Spawned
  <1>4. V!create_process = VP!create_process
    BY <1>3, Zenon DEF V!create_process, VP!create_process
  <1>5. /\ V!file_open = VP!file_open /\ V!get_work_dir = VP!get_work_dir
    BY <1>1, <1>2, Zenon
       DEF V!file_open, VP!file_open, V!get_work_dir, VP!get_work_dir
  <1>6. V!Requests = VP!Requests
    BY Zenon DEF V!Requests, VP!Requests
  <1> QED
    BY <1>4, <1>5, <1>6, Zenon
       DEF V!Calls, VP!Calls, V!osctl, VP!osctl, V!os_info, VP!os_info,
           V!display_draw, VP!display_draw, V!get_thread, VP!get_thread,
           V!thread_id, VP!thread_id, V!get_priority, VP!get_priority,
           V!kill_thread, VP!kill_thread, V!set_priority, VP!set_priority,
           V!create_thread, VP!create_thread, V!wait_for, VP!wait_for,
           V!signal, VP!signal, V!get_process, VP!get_process,
           V!process_id, VP!process_id, V!process_info, VP!process_info,
           V!get_command, VP!get_command, V!kill_process, VP!kill_process,
           V!process_result, VP!process_result, V!open_process,
           VP!open_process, V!set_work_dir, VP!set_work_dir, V!handle_type,
           VP!handle_type, V!open_handle, VP!open_handle, V!close_handle,
           VP!close_handle, V!create_object, VP!create_object,
           V!vm_protect, VP!vm_protect, V!vm_reserve, VP!vm_reserve,
           V!vm_commit, VP!vm_commit, V!vm_release, VP!vm_release,
           V!stream_state, VP!stream_state, V!stream_read, VP!stream_read,
           V!stream_write, VP!stream_write, V!file_tell, VP!file_tell,
           V!file_seek, VP!file_seek, V!file_path, VP!file_path

\* They take the same steps.
LEMMA SameServices == V!Next => VP!Next
  <1>1. V!Actor = VP!Actor
    BY Zenon DEF V!Actor, VP!Actor, V!Worker, VP!Worker
  <1>2. V!Object = VP!Object
    BY Zenon DEF V!Object, VP!Object
  <1>3. \A s : V!Lock(s) = VP!Lock(s)
    BY Zenon DEF V!Lock, VP!Lock
  <1>4. \A t : V!Keeps(t) = VP!Keeps(t)
    BY <1>3, Zenon DEF V!Keeps, VP!Keeps, V!Kept, VP!Kept
  <1>5. \A t : V!Wants(t) = VP!Wants(t)
    BY <1>3, Zenon DEF V!Wants, VP!Wants
  <1>6. \A t, l : V!Conflict(t, l) = VP!Conflict(t, l)
    BY <1>5, Zenon DEF V!Conflict, VP!Conflict
  <1>7. \A t : V!HeldOff(t) = VP!HeldOff(t)
    BY <1>1, <1>6, Zenon DEF V!HeldOff, VP!HeldOff
  <1>8. \A t, u : V!WaitsFor(t, u) = VP!WaitsFor(t, u)
    BY <1>6, Zenon DEF V!WaitsFor, VP!WaitsFor, V!NeedsWorker,
       VP!NeedsWorker, V!Worker, VP!Worker
  <1>9. \A t : V!CanStep(t) = VP!CanStep(t)
    BY <1>1, <1>8, Zenon DEF V!CanStep, VP!CanStep
  <1>10. \A t, o : V!Go(t, o) = VP!Go(t, o)
    BY <1>4, <1>9, Zenon DEF V!Go, VP!Go
  <1>11. \A t, s : V!At(t, s) = VP!At(t, s) /\ V!Then(t, s) = VP!Then(t, s)
    BY Zenon DEF V!At, VP!At, V!Then, VP!Then
  <1>12. \A o : V!Sleepers(o) = VP!Sleepers(o)
    BY <1>11, Zenon DEF V!Sleepers, VP!Sleepers
  <1>13. \A s, o : V!Woken(s, o) = VP!Woken(s, o)
    BY <1>1, Zenon DEF V!Woken, VP!Woken
  <1>14. \A t : V!Begin(t) => VP!Begin(t)
    BY <1>1, <1>11, SameCalls, Zenon
       DEF V!Begin, VP!Begin, V!Worker, VP!Worker
  <1>15. \A t : V!Plain(t) => VP!Plain(t)
    BY <1>10, <1>11, Zenon DEF V!Plain, VP!Plain
  <1>16. \A t : V!Fail(t) => VP!Fail(t)
    BY <1>10, <1>11, Zenon DEF V!Fail, VP!Fail, V!MayFail, VP!MayFail
  <1>17. \A t : V!Get(t) => VP!Get(t)
    BY <1>10, <1>11, Zenon DEF V!Get, VP!Get
  <1>18. \A t : V!Commit(t) => VP!Commit(t)
    BY <1>10, <1>11, Zenon DEF V!Commit, VP!Commit
  <1>19. \A t : V!Leave(t) => VP!Leave(t)
    BY <1>10, <1>11, Zenon DEF V!Leave, VP!Leave
  <1>20. \A t : V!Create(t) => VP!Create(t)
    <2>1. \A s : V!IsFiniteSet(s) = VP!IsFiniteSet(s)
      BY Zenon DEF V!IsFiniteSet, VP!IsFiniteSet
    <2>2. \A s : V!Cardinality(s) = VP!Cardinality(s)
      BY <2>1, Zenon DEF V!Cardinality, VP!Cardinality
    <2> QED
      BY <1>2, <1>10, <1>11, <2>2, Zenon DEF V!Create, VP!Create
  <1>21. \A t : V!Expose(t) => VP!Expose(t)
    BY <1>10, <1>11, Zenon DEF V!Expose, VP!Expose
  <1>22. \A t : V!Close(t) => VP!Close(t)
    BY <1>10, <1>11, Zenon DEF V!Close, VP!Close
  <1>23. \A t : V!Relax(t) => VP!Relax(t)
    BY <1>1, <1>9, <1>11, <1>12, Zenon DEF V!Relax, VP!Relax
  <1>24. \A t : V!Wait(t) => VP!Wait(t)
    BY <1>10, <1>11, Zenon DEF V!Wait, VP!Wait
  <1>25. \A t : V!Signal(t) => VP!Signal(t)
    BY <1>1, <1>9, <1>11, <1>12, <1>13, Zenon DEF V!Signal, VP!Signal
  <1>26. \A t : V!Again(t) => VP!Again(t)
    BY <1>10, <1>11, Zenon DEF V!Again, VP!Again
  <1>27. \A t : V!Timeout(t) => VP!Timeout(t)
    BY <1>10, <1>11, Zenon DEF V!Timeout, VP!Timeout
  <1>28. \A t : V!Spin(t) => VP!Spin(t)
    BY <1>1, <1>7, <1>11, Zenon DEF V!Spin, VP!Spin
  <1>29. ASSUME NEW t, \/ V!Begin(t) \/ V!Plain(t) \/ V!Fail(t) \/ V!Get(t)
                        \/ V!Commit(t) \/ V!Leave(t) \/ V!Create(t)
                        \/ V!Expose(t) \/ V!Close(t) \/ V!Relax(t)
                        \/ V!Wait(t) \/ V!Signal(t) \/ V!Again(t)
                        \/ V!Timeout(t) \/ V!Spin(t)
         PROVE  \/ VP!Begin(t) \/ VP!Plain(t) \/ VP!Fail(t) \/ VP!Get(t)
                \/ VP!Commit(t) \/ VP!Leave(t) \/ VP!Create(t)
                \/ VP!Expose(t) \/ VP!Close(t) \/ VP!Relax(t)
                \/ VP!Wait(t) \/ VP!Signal(t) \/ VP!Again(t)
                \/ VP!Timeout(t) \/ VP!Spin(t)
    BY <1>14, <1>15, <1>16, <1>17, <1>18, <1>19, <1>20, <1>21, <1>22, <1>23,
       <1>24, <1>25, <1>26, <1>27, <1>28, <1>29, Zenon
  <1> QED
    BY <1>1, <1>29, Zenon DEF V!Next, VP!Next

\* What Services_proofs assumes of the constants.
LEMMA ServDistinct == VP!Distinct
  BY ServicesAssumption, Zenon
     DEF VP!Distinct, VP!Worker, V!Worker, VP!Object, V!Object

\* The invariant of the service calls holds initially.
LEMMA ServInit == V!Init => VP!IInv
  <1>1. V!Init => VP!Init
    BY Zenon DEF V!Init, VP!Init, V!Actor, VP!Actor, V!Worker, VP!Worker
  <1> QED
    BY <1>1, ServDistinct, VP!InitIInv, Zenon

\* The steps of the calls keep it.
LEMMA ServNext == VP!IInv /\ V!Next => VP!IInv'
  BY ServDistinct, SameServices, VP!NextIInv, Zenon

\* So do those of the other components.
LEMMA ServKept == VP!IInv /\ UNCHANGED services => VP!IInv'
  <1>1. UNCHANGED services => UNCHANGED VP!vars
    BY DEF services, VP!vars
  <1> QED
    BY <1>1, ServDistinct, VP!NextIInv, Zenon

\* It implies what is claimed of the calls.
LEMMA ServSafe == VP!IInv => CallsAreSafe
  <1> SUFFICES ASSUME VP!IInv PROVE V!NoCircle /\ V!UsedIsAlive
    BY DEF CallsAreSafe
  <1>1. VP!NoCircle
    BY ServDistinct, VP!NobodyInCircle, Zenon
  <1>2. VP!UsedIsAlive
    BY ServDistinct, VP!NothingIsLost, Zenon
  <1>3. V!UsedIsAlive
    BY <1>2, Zenon DEF V!UsedIsAlive, VP!UsedIsAlive, V!At, VP!At, V!Actor,
       VP!Actor, V!Worker, VP!Worker
  <1>4. V!NoCircle
    <2>1. V!Actor = VP!Actor
      BY Zenon DEF V!Actor, VP!Actor, V!Worker, VP!Worker
    <2>2. \A s : V!Lock(s) = VP!Lock(s)
      BY Zenon DEF V!Lock, VP!Lock
    <2>3. \A t : V!Wants(t) = VP!Wants(t)
      BY <2>2, Zenon DEF V!Wants, VP!Wants
    <2>4. \A t, l : V!Conflict(t, l) = VP!Conflict(t, l)
      BY <2>3, Zenon DEF V!Conflict, VP!Conflict
    <2>5. \A t, u : V!WaitsFor(t, u) = VP!WaitsFor(t, u)
      BY <2>4, Zenon DEF V!WaitsFor, VP!WaitsFor, V!NeedsWorker,
         VP!NeedsWorker, V!Worker, VP!Worker
    <2> QED
      BY <1>1, <2>1, <2>5, Zenon DEF V!NoCircle, VP!NoCircle
  <1> QED
    BY <1>3, <1>4

(***************************************************************************)
(* The components side by side                                             *)
(***************************************************************************)
SyncInv == PipeInv /\ IInv /\ SemInv /\ DiskInv /\ VP!IInv

\* All the invariants hold initially.
LEMMA SyncStart == SyncInit => SyncInv
  BY PipeInit, InitIInv, SemInit, DiskInit, ServInit DEF SyncInit, SyncInv

\* The steps of the other components keep the invariant of each.
LEMMA PipeKept == PipeInv /\ UNCHANGED pipe => PipeInv'
  BY DEF pipe, PipeInv, P!TypeOK, P!NoLostWakeup, P!is_empty, P!is_full,
         P!Thread

\* The same of the rwlock.
LEMMA LockKept == IInv /\ UNCHANGED vars => IInv'
  BY NextIInv

\* The same of the semaphore.
LEMMA SemKept == SemInv /\ UNCHANGED semaphore => SemInv'
  BY DEF semaphore, SemInv, S!TypeOK, S!NoLostWakeup, S!Thread

\* The same of the driver.
LEMMA DiskKept == DiskInv /\ UNCHANGED disk => DiskInv'
  BY DEF disk, DiskInv, OneCommand, FlagsAreOwn, StatusTells, D!AnswerIsTrue

\* A step is one of one component.
LEMMA SyncStep ==
  SyncInv /\ [SyncNext]_<<part, pipe, vars, semaphore, disk, services>>
    => SyncInv'
  <1> SUFFICES ASSUME SyncInv,
                 [SyncNext]_<<part, pipe, vars, semaphore, disk, services>>
               PROVE  SyncInv'
    OBVIOUS
  <1>1. /\ UNCHANGED pipe \/ P!Next \/ A!Next
        /\ UNCHANGED vars \/ Next
        /\ UNCHANGED semaphore \/ S!Next
        /\ UNCHANGED disk \/ D!Next
        /\ UNCHANGED services \/ V!Next
    BY DEF SyncNext
  <1>2. PipeInv'
    BY <1>1, PipeNext, AtomicPipeNext, PipeKept DEF SyncInv
  <1>3. IInv'
    BY <1>1, NextIInv DEF SyncInv
  <1>4. SemInv'
    BY <1>1, SemNext, SemKept DEF SyncInv
  <1>5. DiskInv'
    BY <1>1, DiskNext, DiskKept DEF SyncInv
  <1>6. VP!IInv'
    BY <1>1, ServNext, ServKept DEF SyncInv
  <1> QED
    BY <1>2, <1>3, <1>4, <1>5, <1>6 DEF SyncInv

\* So the invariants always hold.
LEMMA SyncAlways == SyncSpec => []SyncInv
  BY SyncStart, SyncStep, PTL DEF SyncSpec

(* No primitive of kernel/sync loses a wakeup, for any number of threads,  *)
(* any size of a pipe and any count of a semaphore: nobody sleeps on a     *)
(* pipe that has data or room for him, on an rwlock that he could take, or *)
(* on a semaphore with units that no woken thread is coming for.           *)
THEOREM NoWakeupIsLost == SyncSpec => []WakeupsArrive
  <1>1. SyncInv => WakeupsArrive
    BY DEF SyncInv, PipeInv, IInv, SemInv, WakeupsArrive
  <1> QED
    BY <1>1, SyncAlways, PTL

(* What ide::command reports is about the transfer of that command, unless *)
(* one that an earlier command gave up at its timeout has ended in its     *)
(* place; and the driver stops the machine only if such a transfer ends    *)
(* between two commands.  For any number of threads that share the driver, *)
(* whichever interrupts are lost or late and whatever the drive does with  *)
(* a command that it gets while it is busy.                                *)
THEOREM CommandsAnswerTruly == SyncSpec => []AnswerIsTrue
  <1>1. SyncInv => AnswerIsTrue
    BY DEF SyncInv, DiskInv, StatusTells, AnswerIsTrue
  <1> QED
    BY <1>1, SyncAlways, PTL

(* A thread that holds the rwlock EXCLUSIVE is the only one that holds it, *)
(* whoever is killed while it waits.                                       *)
THEOREM LockStaysExclusive == SyncSpec => []Exclusion
  <1>1. SyncInv => Exclusion
    BY DEF SyncInv, IInv
  <1> QED
    BY <1>1, SyncAlways, PTL

(* Service calls never wait for each other in a circle, although they take *)
(* the handle table and the address space in different orders and keep     *)
(* them over put, file::open and the wait for a worker; and what get()     *)
(* returned exists while it is used. For any number of threads and         *)
(* objects.                                                                *)
THEOREM CallsNeverLock == SyncSpec => []CallsAreSafe
  <1>1. SyncInv => CallsAreSafe
    BY ServSafe DEF SyncInv
  <1> QED
    BY <1>1, SyncAlways, PTL

(***************************************************************************)
(* The pipes are channels                                                  *)
(***************************************************************************)
LEMMA SameContent ==
  /\ P!Content = PP!Content /\ P!Content = AP!Content
  /\ P!Content' = PP!Content' /\ P!Content' = AP!Content'
  BY Zenon DEF P!Content, PP!Content, AP!Content, P!Used, PP!Used, AP!Used

\* A step of the pipe is a step of the channel, or none.
LEMMA PipeIsChannel ==
  PipeInv /\ P!Next => P!Channel!Next \/ UNCHANGED <<P!Content, out>>
  <1> SUFFICES ASSUME PipeInv, P!Next
               PROVE  P!Channel!Next \/ UNCHANGED <<P!Content, out>>
    OBVIOUS
  <1>1. PP!IInv
    BY DEF PipeInv, PP!IInv, P!TypeOK, PP!TypeOK, P!NoLostWakeup,
       PP!NoLostWakeup, P!is_empty, PP!is_empty, P!is_full, PP!is_full,
       P!Thread, PP!Thread
  <1>2. PP!Channel!Next \/ UNCHANGED <<PP!Content, out>>
    BY <1>1, SamePipe, PP!RingStep, SemaphoreAssumption, PipeAssumption,
       RWAssumption, SameCardinality DEF PP!Thread, Thread
  <1> QED
    BY <1>2, SameContent, Zenon
       DEF P!Channel!Next, PP!Channel!Next, P!Channel!Get, PP!Channel!Get,
           P!Channel!Put, PP!Channel!Put

\* The same of the pipe with atomic writes.
LEMMA AtomicPipeIsChannel ==
  PipeInv /\ A!Next => P!Channel!Next \/ UNCHANGED <<P!Content, out>>
  <1> SUFFICES ASSUME PipeInv, A!Next
               PROVE  P!Channel!Next \/ UNCHANGED <<P!Content, out>>
    OBVIOUS
  <1>1. AP!IInv
    BY DEF PipeInv, AP!IInv, P!TypeOK, AP!TypeOK, P!NoLostWakeup,
       AP!NoLostWakeup, P!is_empty, AP!is_empty, P!is_full, AP!is_full,
       P!Thread, AP!Thread
  <1>2. AP!Channel!Next \/ UNCHANGED <<AP!Content, out>>
    BY <1>1, SameAtomicPipe, AP!RingStep, SemaphoreAssumption, PipeAssumption,
       RWAssumption, SameCardinality DEF AP!Thread, Thread
  <1> QED
    BY <1>2, SameContent, Zenon
       DEF P!Channel!Next, AP!Channel!Next, P!Channel!Get, AP!Channel!Get,
           P!Channel!Put, AP!Channel!Put

\* Its writes store the whole message or nothing.
LEMMA AtomicPipeStep == PipeInv => A!AtomicStep
  <1> SUFFICES ASSUME PipeInv PROVE A!AtomicStep
    OBVIOUS
  <1>1. AP!IInv
    BY DEF PipeInv, AP!IInv, P!TypeOK, AP!TypeOK, P!NoLostWakeup,
       AP!NoLostWakeup, P!is_empty, AP!is_empty, P!is_full, AP!is_full,
       P!Thread, AP!Thread
  <1>2. AP!AtomicStep
    BY <1>1, AP!AllOrNothing, SemaphoreAssumption, PipeAssumption,
       RWAssumption, SameCardinality DEF AP!Thread, Thread
  <1>3. ASSUME NEW t, NEW msg, A!Write(t, msg) PROVE AP!Write(t, msg)
    BY <1>3, Zenon
       DEF A!Write, AP!Write, A!Least, AP!Least, A!Available, AP!Available,
           A!Stored, AP!Stored, A!is_empty, AP!is_empty
  <1> QED
    BY <1>2, <1>3, Zenon
       DEF A!AtomicStep, AP!AtomicStep, A!Used, AP!Used, A!Message, AP!Message

(* The ring buffer of pipe::read and pipe::write implements a bounded byte *)
(* channel, whatever its size, the bytes and the threads, and with         *)
(* atomic_write a write stores its whole message or nothing.               *)
THEOREM PipesAreChannels == SyncSpec => ImplementsChannel
  <1>1. SyncInit => P!Channel!Init
    <2> SUFFICES ASSUME P!Init PROVE P!Channel!Init
      BY DEF SyncInit
    <2>1. PP!Init
      BY DEF P!Init, PP!Init
    <2>2. PP!Channel!Init
      BY <2>1, PP!RingStart, SemaphoreAssumption, PipeAssumption,
         RWAssumption, SameCardinality DEF PP!Thread, Thread
    <2> QED
      BY <2>2, SameContent, Zenon DEF P!Channel!Init, PP!Channel!Init
  <1>2. SyncInv /\ [SyncNext]_<<part, pipe, vars, semaphore, disk, services>>
          => [P!Channel!Next]_<<P!Content, out>>
    <2> SUFFICES ASSUME SyncInv,
                   [SyncNext]_<<part, pipe, vars, semaphore, disk, services>>
                 PROVE  P!Channel!Next \/ UNCHANGED <<P!Content, out>>
      OBVIOUS
    <2>1. CASE P!Next
      BY <2>1, PipeIsChannel DEF SyncInv
    <2>2. CASE A!Next
      BY <2>2, AtomicPipeIsChannel DEF SyncInv
    <2>3. CASE UNCHANGED pipe
      BY <2>3 DEF pipe, P!Content, P!Used
    <2> QED
      BY <2>1, <2>2, <2>3 DEF SyncNext
  <1>3. SyncInv => (part = "atomic pipe" => A!AtomicStep)
    BY AtomicPipeStep DEF SyncInv
  <1> QED
    BY <1>1, <1>2, <1>3, SyncAlways, PTL
       DEF SyncSpec, ImplementsChannel, P!ImplementsChannel, P!Channel!Spec
====
