--------------------------- MODULE Process_proofs ---------------------------
(***************************************************************************)
(* The references of a process, its threads and its handles, for every     *)
(* finite set of threads and every set of calls.                           *)
(*                                                                         *)
(* RefsExact is not inductive. That a thread in the list is one with       *)
(* references, that gc takes only threads that have stopped and each once, *)
(* and that no thread is active while the handles are cleared is needed    *)
(* with it: so the thread whose last reference goes has been collected,    *)
(* and the process that goes has neither threads nor handles.              *)
(*                                                                         *)
(* The lemmas up to LastReference say what a move of one reference does to *)
(* the counts, each for any data r that is sound; those named after an     *)
(* action apply them.                                                      *)
(***************************************************************************)
EXTENDS Process, FiniteSetTheorems, TLAPS

\* The states of a thread, where a service call can be, the stages of on_gc
Life == {"none", "live", "stopped"}
Place == {"user", "service", "leave", "put", "relax", "spawn", "got", "exit",
          "exit_process"}
Stage == {"on_exit", "clear", "relax"}

\* The data of a process that no bugcheck has stopped
ProcessData ==
  [state : {"RUNNING", "STOPPED"}, exists : BOOLEAN, halt : {"no"},
   threads : SUBSET Thread, active_count : Nat, ref_count : [Object -> Nat],
   handles : [Object -> Nat], others : Nat, life : [Thread -> Life],
   critical : SUBSET Thread, kill : SUBSET Thread, hold : SUBSET Thread,
   collected : SUBSET Thread]

\* What the threads hold between two sections, and what gc has
Hands == [Thread -> Object \cup {NULL}]
Collecting == {<<>>} \cup (Thread \X Stage)

\* The threads that hold o in their hands
Carriers(a, o) == {t \in Thread : a[t] = o}

\* gc has taken the thread, and on_exit has seen it off
Taken(g, t) == g # <<>> /\ g[1] = t
Left(g, t) == g \in {<<t, "clear">>, <<t, "relax">>}

\* The reference of manage() is still there
Belongs(r, g, t) == r.life[t] # "none" /\ (t \in r.collected => Taken(g, t))

\* The threads that active_count counts
Active(r, g) == {t \in Thread : Belongs(r, g, t) /\ ~Left(g, t)}

\* Every reference has its holder, and active_count is exact.
Counted(r, a, g) ==
  /\ \A t \in Thread :
       r.ref_count[t] = (IF Belongs(r, g, t) THEN 1 ELSE 0) + r.handles[t]
                        + Cardinality(Carriers(a, t))
  /\ r.ref_count[PS] = (IF r.threads # {} THEN 1 ELSE 0) + r.handles[PS]
                       + Cardinality(Carriers(a, PS)) + r.others
  /\ r.active_count = Cardinality(Active(r, g))

\* The list has just the threads with a reference; who is collected has
\* stopped; nobody is active while the handles are cleared.
Listed(r, g) ==
  /\ \A t \in Thread : t \in r.threads <=> r.ref_count[t] # 0
  /\ \A t \in Thread : r.life[t] = "none" => r.ref_count[t] = 0
  /\ \A t \in r.collected : r.life[t] = "stopped"
  /\ \A t \in Thread : Taken(g, t) => t \in r.collected
  /\ g # <<>> /\ g[2] = "clear" => r.active_count = 0

\* The invariant of the data r, the hands a and the collector g
Sound(r, a, g) ==
  /\ r \in ProcessData /\ a \in Hands /\ g \in Collecting
  /\ Counted(r, a, g) /\ Listed(r, g)

\* A thread holds a reference just before it puts or relaxes it.
Placed ==
  /\ at \in [Thread -> Place]
  /\ \A t \in Thread : arg[t] # NULL <=> at[t] \in {"put", "relax"}

Good == p.halt = "no" /\ Sound(p, arg, gc) /\ Placed

\* The inductive invariant
IInv == Good \/ p.halt = "null thread"

\* What gc has taken and whom it has seen off, for each of its stages.
LEMMA GcForms ==
  /\ \A u \in Thread : ~Taken(<<>>, u) /\ ~Left(<<>>, u)
  /\ \A t, u \in Thread, w \in Stage :
       /\ Taken(<<t, w>>, u) <=> u = t
       /\ Left(<<t, w>>, u) <=> u = t /\ w # "on_exit"
       /\ <<t, w>> \in Collecting /\ <<t, w>> # <<>>
       /\ <<t, w>>[1] = t /\ <<t, w>>[2] = w
  BY DEF Taken, Left, Stage, Collecting

\* The hands that hold an object are finitely many.
LEMMA CarriersFinite ==
  ASSUME NEW a, NEW o
  PROVE  /\ IsFiniteSet(Carriers(a, o))
         /\ Cardinality(Carriers(a, o)) \in Nat
  BY ProcessAssumption, FS_Subset, FS_CardinalityType DEF Carriers

\* A thread takes a reference into its hand.
LEMMA TakeInHand ==
  ASSUME NEW a \in Hands, NEW t \in Thread, a[t] = NULL, NEW o \in Object
  PROVE  LET b == [a EXCEPT ![t] = o] IN
         /\ b \in Hands
         /\ Cardinality(Carriers(b, o)) = Cardinality(Carriers(a, o)) + 1
         /\ \A u \in Object \ {o} : Carriers(b, u) = Carriers(a, u)
  <1> DEFINE b == [a EXCEPT ![t] = o]
  <1>1. b \in Hands
    BY DEF Hands
  <1>2. o # NULL
    BY ProcessAssumption
  <1>3. Carriers(b, o) = Carriers(a, o) \cup {t} /\ t \notin Carriers(a, o)
    BY <1>2 DEF Carriers, Hands
  <1>4. \A u \in Object \ {o} : Carriers(b, u) = Carriers(a, u)
    BY ProcessAssumption DEF Carriers, Hands
  <1>5. Cardinality(Carriers(b, o)) = Cardinality(Carriers(a, o)) + 1
    BY <1>3, CarriersFinite, FS_AddElement
  <1> QED
    BY <1>1, <1>4, <1>5

\* A thread has no reference in its hand any more.
LEMMA EmptyHand ==
  ASSUME NEW a \in Hands, NEW t \in Thread, NEW o \in Object, a[t] = o
  PROVE  LET b == [a EXCEPT ![t] = NULL] IN
         /\ b \in Hands
         /\ Cardinality(Carriers(b, o)) = Cardinality(Carriers(a, o)) - 1
         /\ Cardinality(Carriers(a, o)) >= 1
         /\ \A u \in Object \ {o} : Carriers(b, u) = Carriers(a, u)
  <1> DEFINE b == [a EXCEPT ![t] = NULL]
  <1>1. b \in Hands
    BY DEF Hands
  <1>2. o # NULL
    BY ProcessAssumption
  <1>3. Carriers(b, o) = Carriers(a, o) \ {t} /\ t \in Carriers(a, o)
    BY <1>2 DEF Carriers, Hands
  <1>4. \A u \in Object \ {o} : Carriers(b, u) = Carriers(a, u)
    BY ProcessAssumption DEF Carriers, Hands
  <1>5. Cardinality(Carriers(b, o)) = Cardinality(Carriers(a, o)) - 1
    BY <1>3, CarriersFinite, FS_RemoveElement
  <1>6. /\ Cardinality(Carriers(b, o)) \in Nat
        /\ Cardinality(Carriers(a, o)) \in Nat
    BY CarriersFinite
  <1>7. Cardinality(Carriers(a, o)) >= 1
    <2> HIDE DEF b
    <2> QED
      BY <1>5, <1>6
  <1> QED
    BY <1>1, <1>4, <1>5, <1>7

\* A thread that counts is in the list, and the counted ones are no more.
LEMMA ActiveListed ==
  ASSUME NEW r, NEW a, NEW g, Sound(r, a, g)
  PROVE  /\ IsFiniteSet(r.threads) /\ Cardinality(r.threads) \in Nat
         /\ IsFiniteSet(Active(r, g)) /\ Cardinality(Active(r, g)) \in Nat
         /\ Active(r, g) \subseteq r.threads
         /\ Cardinality(Active(r, g)) <= Cardinality(r.threads)
         /\ \A t \in Thread : Belongs(r, g, t) => t \in r.threads
         /\ \A o \in Object : r.ref_count[o] \in Nat /\ r.handles[o] \in Nat
         /\ r.threads \subseteq Thread
  <1>1. /\ r.threads \subseteq Thread
        /\ \A o \in Object : r.ref_count[o] \in Nat /\ r.handles[o] \in Nat
    BY DEF Sound, ProcessData
  <1>2. ASSUME NEW t \in Thread, Belongs(r, g, t) PROVE t \in r.threads
    <2>1. Cardinality(Carriers(a, t)) \in Nat
      BY CarriersFinite
    <2>2. r.ref_count[t] = 1 + r.handles[t] + Cardinality(Carriers(a, t))
      BY <1>2 DEF Sound, Counted
    <2> QED
      BY <1>1, <2>1, <2>2 DEF Sound, Listed, Object
  <1>3. IsFiniteSet(r.threads) /\ Cardinality(r.threads) \in Nat
    BY <1>1, ProcessAssumption, FS_Subset, FS_CardinalityType
  <1>4. Active(r, g) \subseteq r.threads
    BY <1>2 DEF Active
  <1>5. /\ IsFiniteSet(Active(r, g))
        /\ Cardinality(Active(r, g)) <= Cardinality(r.threads)
    BY <1>3, <1>4, FS_Subset
  <1>6. Cardinality(Active(r, g)) \in Nat
    BY <1>5, FS_CardinalityType
  <1> QED
    BY <1>1, <1>2, <1>3, <1>4, <1>5, <1>6

\* A step that leaves references and lists alone.
LEMMA QuietStep ==
  ASSUME NEW r, NEW a, NEW g, Sound(r, a, g), NEW q \in ProcessData,
         q.threads = r.threads, q.active_count = r.active_count,
         q.ref_count = r.ref_count, q.handles = r.handles,
         q.others = r.others, q.collected = r.collected,
         \A t \in Thread : /\ q.life[t] = "none" <=> r.life[t] = "none"
                           /\ r.life[t] = "stopped" => q.life[t] = "stopped"
  PROVE  Sound(q, a, g)
  <1>1. \A t \in Thread : Belongs(q, g, t) <=> Belongs(r, g, t)
    BY DEF Belongs
  <1>2. Active(q, g) = Active(r, g)
    BY <1>1 DEF Active
  <1>3. Counted(q, a, g)
    BY <1>1, <1>2 DEF Sound, Counted
  <1>4. Listed(q, g)
    BY DEF Sound, Listed, ProcessData
  <1> QED
    BY <1>3, <1>4 DEF Sound

\* A thread that lives has the reference that manage() took for it.
LEMMA LiveBelongs ==
  ASSUME NEW r, NEW a, NEW g, Sound(r, a, g), NEW t \in Thread,
         r.life[t] = "live"
  PROVE  Belongs(r, g, t) /\ t \in r.threads /\ r.ref_count[t] # 0
  <1>1. Belongs(r, g, t)
    BY DEF Sound, Listed, Belongs
  <1> QED
    BY <1>1, ActiveListed DEF Sound, Listed

\* A reference to one object comes, goes or changes hands.
LEMMA MoveStep ==
  ASSUME NEW r, NEW a, NEW g, Sound(r, a, g),
         NEW q \in ProcessData, NEW b \in Hands, NEW o \in Object,
         q.threads = r.threads, q.active_count = r.active_count,
         q.life = r.life, q.collected = r.collected,
         \A u \in Object \ {o} : /\ q.ref_count[u] = r.ref_count[u]
                                 /\ q.handles[u] = r.handles[u]
                                 /\ Carriers(b, u) = Carriers(a, u),
         o # PS => /\ q.ref_count[o] # 0 /\ r.ref_count[o] # 0
                   /\ q.others = r.others,
         q.ref_count[o] - r.ref_count[o] =
           (q.handles[o] - r.handles[o]) + (q.others - r.others)
           + (Cardinality(Carriers(b, o)) - Cardinality(Carriers(a, o)))
  PROVE  Sound(q, b, g)
  <1>1. \A t \in Thread : Belongs(q, g, t) <=> Belongs(r, g, t)
    BY DEF Belongs
  <1>2. Active(q, g) = Active(r, g)
    BY <1>1 DEF Active
  <1>3. /\ r \in ProcessData /\ r.others \in Nat /\ q.others \in Nat
        /\ \A u \in Object : /\ r.ref_count[u] \in Nat /\ r.handles[u] \in Nat
                             /\ q.ref_count[u] \in Nat /\ q.handles[u] \in Nat
        /\ Cardinality(Carriers(a, o)) \in Nat
        /\ Cardinality(Carriers(b, o)) \in Nat
    BY CarriersFinite DEF Sound, ProcessData
  <1>4. ASSUME o = PS PROVE q.ref_count[PS] =
          (IF q.threads # {} THEN 1 ELSE 0) + q.handles[PS]
          + Cardinality(Carriers(b, PS)) + q.others
    <2>1. r.ref_count[PS] = (IF r.threads # {} THEN 1 ELSE 0) + r.handles[PS]
                            + Cardinality(Carriers(a, PS)) + r.others
      BY DEF Sound, Counted
    <2> QED
      BY <1>3, <1>4, <2>1
  <1>5. ASSUME o # PS PROVE q.ref_count[PS] =
          (IF q.threads # {} THEN 1 ELSE 0) + q.handles[PS]
          + Cardinality(Carriers(b, PS)) + q.others
    <2>1. PS \in Object \ {o}
      BY <1>5 DEF Object
    <2>2. r.ref_count[PS] = (IF r.threads # {} THEN 1 ELSE 0) + r.handles[PS]
                            + Cardinality(Carriers(a, PS)) + r.others
      BY DEF Sound, Counted
    <2> QED
      BY <1>5, <2>1, <2>2
  <1>6. ASSUME NEW t \in Thread
        PROVE  q.ref_count[t] = (IF Belongs(q, g, t) THEN 1 ELSE 0)
                 + q.handles[t] + Cardinality(Carriers(b, t))
    <2>1. t \in Object /\ t # PS
      BY ProcessAssumption DEF Object
    <2>2. r.ref_count[t] = (IF Belongs(r, g, t) THEN 1 ELSE 0)
            + r.handles[t] + Cardinality(Carriers(a, t))
      BY DEF Sound, Counted
    <2>3. CASE t = o
      BY <1>1, <1>3, <2>1, <2>2, <2>3
    <2>4. CASE t # o
      BY <1>1, <2>1, <2>2, <2>4
    <2> QED
      BY <2>3, <2>4
  <1>7. q.active_count = Cardinality(Active(q, g))
    BY <1>2 DEF Sound, Counted
  <1>8. Counted(q, b, g)
    BY <1>4, <1>5, <1>6, <1>7 DEF Counted
  <1>9. Listed(q, g)
    <2>1. \A t \in Thread : t \in Object /\ t # PS
      BY ProcessAssumption DEF Object
    <2>2. \A t \in Thread : q.ref_count[t] # 0 <=> r.ref_count[t] # 0
      BY <2>1
    <2>3. \A t \in Thread : q.ref_count[t] = 0 <=> r.ref_count[t] = 0
      BY <2>2
    <2> QED
      BY <2>2, <2>3 DEF Sound, Listed
  <1> QED
    BY <1>8, <1>9 DEF Sound

\* A thread without further references leaves the list.
LEMMA EraseStep ==
  ASSUME NEW r, NEW a, NEW g, Sound(r, a, g), NEW o \in Thread,
         NEW q \in ProcessData, NEW b \in Hands, NEW h \in Collecting,
         q.threads = r.threads \ {o}, q.active_count = r.active_count,
         q.life = r.life, q.collected = r.collected, q.handles = r.handles,
         q.others = r.others, o \in r.threads,
         q.ref_count[o] = 0, ~Belongs(r, h, o), r.handles[o] = 0,
         Carriers(b, o) = {},
         \A u \in Thread \ {o} : q.ref_count[u] = r.ref_count[u],
         \A u \in Object \ {o} : Carriers(b, u) = Carriers(a, u),
         q.ref_count[PS] = r.ref_count[PS] - (IF q.threads = {} THEN 1 ELSE 0),
         \A t \in Thread : /\ Belongs(r, h, t) /\ ~Left(h, t)
                             <=> Belongs(r, g, t) /\ ~Left(g, t)
                           /\ Taken(h, t) => Taken(g, t),
         \A t \in Thread \ {o} : Belongs(r, h, t) <=> Belongs(r, g, t),
         h # <<>> /\ h[2] = "clear" => r.active_count = 0
  PROVE  Sound(q, b, h)
  <1>1. \A t \in Thread : Belongs(q, h, t) <=> Belongs(r, h, t)
    BY DEF Belongs
  <1>2. Active(q, h) = Active(r, g)
    BY <1>1 DEF Active
  <1>3. /\ PS \in Object \ {o} /\ Thread \subseteq Object
        /\ \A u \in Object : r.ref_count[u] \in Nat /\ r.handles[u] \in Nat
        /\ r.others \in Nat
        /\ \A u \in Object : Cardinality(Carriers(a, u)) \in Nat
    BY ProcessAssumption, CarriersFinite DEF Sound, ProcessData, Object
  <1>4. q.ref_count[PS] =
          (IF q.threads # {} THEN 1 ELSE 0) + q.handles[PS]
          + Cardinality(Carriers(b, PS)) + q.others
    <2>1. r.ref_count[PS] = (IF r.threads # {} THEN 1 ELSE 0) + r.handles[PS]
                            + Cardinality(Carriers(a, PS)) + r.others
      BY DEF Sound, Counted
    <2>2. r.threads # {} /\ Carriers(b, PS) = Carriers(a, PS)
      BY <1>3
    <2>3. CASE q.threads = {}
      BY <1>3, <2>1, <2>2, <2>3
    <2>4. CASE q.threads # {}
      BY <1>3, <2>1, <2>2, <2>4
    <2> QED
      BY <2>3, <2>4
  <1>5. ASSUME NEW t \in Thread
        PROVE  q.ref_count[t] = (IF Belongs(q, h, t) THEN 1 ELSE 0)
                 + q.handles[t] + Cardinality(Carriers(b, t))
    <2>1. CASE t = o
      <3>1. Cardinality(Carriers(b, t)) = 0
        BY <2>1, FS_EmptySet
      <3>2. ~Belongs(q, h, t) /\ q.handles[t] = 0 /\ q.ref_count[t] = 0
        BY <1>1, <2>1
      <3> QED
        BY <3>1, <3>2
    <2>2. CASE t # o
      <3>1. r.ref_count[t] = (IF Belongs(r, g, t) THEN 1 ELSE 0)
              + r.handles[t] + Cardinality(Carriers(a, t))
        BY DEF Sound, Counted
      <3>2. Carriers(b, t) = Carriers(a, t) /\ q.ref_count[t] = r.ref_count[t]
        BY <2>2, <1>3
      <3> QED
        BY <1>1, <2>2, <3>1, <3>2
    <2> QED
      BY <2>1, <2>2
  <1>6. q.active_count = Cardinality(Active(q, h))
    BY <1>2 DEF Sound, Counted
  <1>7. Counted(q, b, h)
    BY <1>4, <1>5, <1>6 DEF Counted
  <1>8. Listed(q, h)
    <2>1. \A t \in Thread : t \in q.threads <=> q.ref_count[t] # 0
      BY DEF Sound, Listed
    <2>2. \A t \in Thread : q.life[t] = "none" => q.ref_count[t] = 0
      BY DEF Sound, Listed
    <2>3. /\ \A t \in q.collected : q.life[t] = "stopped"
          /\ \A t \in Thread : Taken(h, t) => t \in q.collected
          /\ h # <<>> /\ h[2] = "clear" => q.active_count = 0
      BY DEF Sound, Listed
    <2> QED
      BY <2>1, <2>2, <2>3 DEF Listed
  <1> QED
    BY <1>7, <1>8 DEF Sound

\* A thread goes to a place where it has nothing in its hand.
LEMMA GoesOn ==
  ASSUME Good, NEW t \in Thread, arg[t] = NULL, NEW place \in Place,
         place \notin {"put", "relax"}, NEW q, Sound(q, arg, gc),
         Exec(t, q, place, NULL)
  PROVE  Good'
  <1>1. arg' = arg /\ gc' = gc /\ p' = q /\ at' = [at EXCEPT ![t] = place]
    BY DEF Exec, Good, Sound, Hands
  <1>2. Sound(p, arg, gc)'
    <2>1. Sound(p', arg', gc')
      BY <1>1
    <2> QED
      BY <2>1 DEF Sound, Counted, Listed, Active, Belongs
  <1>3. Placed'
    BY <1>1 DEF Good, Placed
  <1>4. p'.halt = "no"
    BY <1>1 DEF Sound, ProcessData
  <1> QED
    BY <1>2, <1>3, <1>4 DEF Good

\* thread::kill stops threads and changes nothing else that counts.
LEMMA KilledSound ==
  ASSUME NEW r, NEW a, NEW g, Sound(r, a, g), NEW S \in SUBSET Thread
  PROVE  Sound(Killed(r, S), a, g)
  <1> DEFINE life == [t \in Thread |->
                 IF t \in S \ r.critical /\ r.life[t] = "live" THEN "stopped"
                 ELSE r.life[t]]
             kill == r.kill \cup (S \cap r.critical)
             q == [r EXCEPT !.kill = kill, !.life = life]
  <1>1. Killed(r, S) = q
    BY DEF Killed
  <1>2. /\ r \in ProcessData /\ life \in [Thread -> Life]
        /\ kill \in SUBSET Thread
    BY DEF Sound, ProcessData, Life
  <1> HIDE DEF life, kill
  <1>3. /\ q \in ProcessData /\ q.life = life
        /\ q.threads = r.threads /\ q.active_count = r.active_count
        /\ q.ref_count = r.ref_count /\ q.handles = r.handles
        /\ q.others = r.others /\ q.collected = r.collected
    BY <1>2 DEF ProcessData
  <1>4. \A t \in Thread : /\ life[t] = "none" <=> r.life[t] = "none"
                          /\ r.life[t] = "stopped" => life[t] = "stopped"
    BY DEF life
  <1> HIDE DEF q
  <1> QED
    BY <1>1, <1>3, <1>4, QuietStep

\* thread::drop may stop the thread and changes nothing else that counts.
LEMMA DroppedSound ==
  ASSUME NEW r, NEW a, NEW g, Sound(r, a, g), NEW t \in Thread,
         r.life[t] = "live"
  PROVE  Sound(Dropped(r, t), a, g)
  <1> DEFINE life == [r.life EXCEPT ![t] = IF t \in r.kill THEN "stopped"
                                           ELSE @]
             critical == r.critical \ {t}
             q == [r EXCEPT !.critical = critical, !.life = life]
  <1>1. Dropped(r, t) = q
    BY DEF Dropped
  <1>2. /\ r \in ProcessData /\ life \in [Thread -> Life]
        /\ critical \in SUBSET Thread /\ r.life \in [Thread -> Life]
    BY DEF Sound, ProcessData, Life
  <1>3. \A u \in Thread : /\ life[u] = "none" <=> r.life[u] = "none"
                          /\ r.life[u] = "stopped" => life[u] = "stopped"
    BY <1>2
  <1> HIDE DEF life, critical
  <1>4. /\ q \in ProcessData /\ q.life = life
        /\ q.threads = r.threads /\ q.active_count = r.active_count
        /\ q.ref_count = r.ref_count /\ q.handles = r.handles
        /\ q.others = r.others /\ q.collected = r.collected
    BY <1>2 DEF ProcessData
  <1> HIDE DEF q
  <1> QED
    BY <1>1, <1>3, <1>4, QuietStep

\* The sets of threads in a service call and of those that lock the table
LEMMA MarksSound ==
  ASSUME NEW r, NEW a, NEW g, Sound(r, a, g), NEW S \in SUBSET Thread
  PROVE  /\ Sound([r EXCEPT !.critical = S], a, g)
         /\ Sound([r EXCEPT !.hold = S], a, g)
         /\ Sound([r EXCEPT !.state = "STOPPED"], a, g)
  <1>0. r \in ProcessData
    BY DEF Sound
  <1>1. Sound([r EXCEPT !.critical = S], a, g)
    <2> DEFINE q == [r EXCEPT !.critical = S]
    <2>1. /\ q \in ProcessData /\ q.life = r.life
          /\ q.threads = r.threads /\ q.active_count = r.active_count
          /\ q.ref_count = r.ref_count /\ q.handles = r.handles
          /\ q.others = r.others /\ q.collected = r.collected
      BY <1>0 DEF ProcessData
    <2> HIDE DEF q
    <2> QED
      BY <2>1, QuietStep DEF q
  <1>2. Sound([r EXCEPT !.hold = S], a, g)
    <2> DEFINE q == [r EXCEPT !.hold = S]
    <2>1. /\ q \in ProcessData /\ q.life = r.life
          /\ q.threads = r.threads /\ q.active_count = r.active_count
          /\ q.ref_count = r.ref_count /\ q.handles = r.handles
          /\ q.others = r.others /\ q.collected = r.collected
      BY <1>0 DEF ProcessData
    <2> HIDE DEF q
    <2> QED
      BY <2>1, QuietStep DEF q
  <1>3. Sound([r EXCEPT !.state = "STOPPED"], a, g)
    <2> DEFINE q == [r EXCEPT !.state = "STOPPED"]
    <2>1. /\ q \in ProcessData /\ q.life = r.life
          /\ q.threads = r.threads /\ q.active_count = r.active_count
          /\ q.ref_count = r.ref_count /\ q.handles = r.handles
          /\ q.others = r.others /\ q.collected = r.collected
      BY <1>0 DEF ProcessData
    <2> HIDE DEF q
    <2> QED
      BY <2>1, QuietStep DEF q
  <1> QED
    BY <1>1, <1>2, <1>3

\* process::kill keeps every reference and every count.
LEMMA KillAllSound ==
  ASSUME NEW r, NEW a, NEW g, Sound(r, a, g), NEW self
  PROVE  Sound(KillAll(r, self), a, g)
  <1>1. r.threads \ {self} \in SUBSET Thread
    BY DEF Sound, ProcessData
  <1>2. Sound([r EXCEPT !.state = "STOPPED"], a, g)
    BY <1>1, MarksSound
  <1> QED
    BY <1>1, <1>2, KilledSound DEF KillAll

\* The sections of a service call that move no reference.
LEMMA QuietCalls ==
  ASSUME Good, NEW t \in Thread, NEW o \in Object, NEW u \in Thread,
         \/ Enter(t) \/ Leave(t) \/ Get(t) \/ BadHandle(t) \/ ExitThread(t)
         \/ ExitProcess(t) \/ ExitAll(t) \/ Exit(t)
         \/ KillSelf(t, o) \/ KillThread(t, u)
  PROVE  Good'
  <1>1. /\ Sound(p, arg, gc) /\ p \in ProcessData /\ p.life[t] = "live"
        /\ at[t] \notin {"put", "relax"}
    BY DEF Good, Sound, Enter, Leave, Get, BadHandle, ExitThread, ExitProcess,
           ExitAll, Exit, KillSelf, KillThread, Running
  <1>2. arg[t] = NULL
    BY <1>1 DEF Good, Placed
  <1>3. Sound(Dropped(p, t), arg, gc)
    BY <1>1, DroppedSound
  <1>4. {"user", "service", "leave", "exit", "exit_process", "got"}
          \subseteq Place \ {"put", "relax"}
    BY DEF Place
  <1>5. ASSUME Enter(t) PROVE Good'
    <2>1. p.critical \cup {t} \in SUBSET Thread
      BY <1>1 DEF ProcessData
    <2>2. Sound([p EXCEPT !.critical = p.critical \cup {t}], arg, gc)
      BY <1>1, <2>1, MarksSound
    <2> QED
      BY <1>2, <1>4, <1>5, <2>2, GoesOn DEF Enter
  <1>6. ASSUME Leave(t) PROVE Good'
    <2> DEFINE q == [p EXCEPT !.hold = p.hold \ {t}]
    <2>1. p.hold \ {t} \in SUBSET Thread
      BY <1>1 DEF ProcessData
    <2>2. Sound(q, arg, gc)
      BY <1>1, <2>1, MarksSound
    <2>3. q.life[t] = "live"
      BY <1>1 DEF ProcessData
    <2>4. Sound(Dropped(q, t), arg, gc)
      <3> HIDE DEF q
      <3> QED
        BY <2>2, <2>3, DroppedSound
    <2> QED
      BY <1>2, <1>4, <1>6, <2>4, GoesOn DEF Leave
  <1>7. ASSUME Get(t) PROVE Good'
    <2>1. p.hold \cup {t} \in SUBSET Thread
      BY <1>1 DEF ProcessData
    <2>2. Sound([p EXCEPT !.hold = p.hold \cup {t}], arg, gc)
      BY <1>1, <2>1, MarksSound
    <2> QED
      BY <1>2, <1>4, <1>7, <2>2, GoesOn DEF Get
  <1>8. ASSUME BadHandle(t) PROVE Good'
    BY <1>1, <1>2, <1>4, <1>8, GoesOn DEF BadHandle
  <1>9. ASSUME ExitThread(t) \/ ExitProcess(t) \/ KillSelf(t, o) PROVE Good'
    BY <1>2, <1>3, <1>4, <1>9, GoesOn DEF ExitThread, ExitProcess, KillSelf
  <1>10. ASSUME ExitAll(t) PROVE Good'
    BY <1>1, <1>2, <1>4, <1>10, KillAllSound, GoesOn DEF ExitAll
  <1>11. ASSUME Exit(t) PROVE Good'
    <2> DEFINE q == [p EXCEPT !.life[t] = "stopped"]
    <2>1. /\ q \in ProcessData /\ q.life = [p.life EXCEPT ![t] = "stopped"]
          /\ q.threads = p.threads /\ q.active_count = p.active_count
          /\ q.ref_count = p.ref_count /\ q.handles = p.handles
          /\ q.others = p.others /\ q.collected = p.collected
          /\ p.life \in [Thread -> Life]
      BY <1>1 DEF ProcessData, Life
    <2>2. \A v \in Thread : /\ q.life[v] = "none" <=> p.life[v] = "none"
                            /\ p.life[v] = "stopped" => q.life[v] = "stopped"
      <3> HIDE DEF q
      <3> QED
        BY <1>1, <2>1
    <2>3. Sound(q, arg, gc)
      <3> HIDE DEF q
      <3> QED
        BY <1>1, <2>1, <2>2, QuietStep
    <2> QED
      BY <1>2, <1>4, <1>11, <2>3, GoesOn DEF Exit
  <1>12. ASSUME KillThread(t, u) PROVE Good'
    <2>1. Sound(Killed(p, {u}), arg, gc)
      BY <1>1, KilledSound
    <2> QED
      BY <1>2, <1>4, <1>12, <2>1, GoesOn DEF KillThread
  <1> QED
    BY <1>5, <1>6, <1>7, <1>8, <1>9, <1>10, <1>11, <1>12

\* A thread takes something into its hand, or lays it down.
LEMMA HandMoves ==
  ASSUME Good, NEW t \in Thread, NEW q, NEW place \in Place,
         NEW o \in Object \cup {NULL}, o # NULL <=> place \in {"put", "relax"},
         Sound(q, [arg EXCEPT ![t] = o], gc), Exec(t, q, place, o)
  PROVE  Good'
  <1>1. /\ arg' = [arg EXCEPT ![t] = o] /\ gc' = gc /\ p' = q
        /\ at' = [at EXCEPT ![t] = place]
    BY DEF Exec
  <1>2. Sound(p, arg, gc)'
    <2>1. Sound(p', arg', gc')
      BY <1>1
    <2> QED
      BY <2>1 DEF Sound, Counted, Listed, Active, Belongs
  <1>3. Placed'
    BY <1>1 DEF Good, Placed, Sound, Hands
  <1>4. p'.halt = "no"
    BY <1>1 DEF Sound, ProcessData
  <1> QED
    BY <1>2, <1>3, <1>4 DEF Good

\* The references to the process while it has a thread
LEMMA ProcessReferred ==
  ASSUME NEW r, NEW a, NEW g, Sound(r, a, g), r.threads # {}
  PROVE  r.ref_count[PS] >= 1 + Cardinality(Carriers(a, PS)) + r.others
  <1>1. /\ r.ref_count[PS] \in Nat /\ r.handles[PS] \in Nat
        /\ r.others \in Nat /\ Cardinality(Carriers(a, PS)) \in Nat
    BY CarriersFinite DEF Sound, ProcessData, Object
  <1>2. r.ref_count[PS] = 1 + r.handles[PS]
                          + Cardinality(Carriers(a, PS)) + r.others
    BY DEF Sound, Counted
  <1> QED
    BY <1>1, <1>2

\* get_thread and get_process take a reference into the hand.
LEMMA AcquireStep ==
  ASSUME Good, NEW t \in Thread, NEW o \in Object, Acquire(t, o)
  PROVE  Good'
  <1> DEFINE q == [p EXCEPT !.ref_count[o] = @ + 1]
             b == [arg EXCEPT ![t] = o]
  <1>1. /\ Sound(p, arg, gc) /\ p \in ProcessData /\ p.life[t] = "live"
        /\ at[t] = "service" /\ o \in {t, PS} /\ arg \in Hands
        /\ Exec(t, q, "put", o)
    BY DEF Good, Sound, Acquire, Running
  <1>2. arg[t] = NULL
    BY <1>1 DEF Good, Placed
  <1>3. /\ b \in Hands
        /\ Cardinality(Carriers(b, o)) = Cardinality(Carriers(arg, o)) + 1
        /\ \A u \in Object \ {o} : Carriers(b, u) = Carriers(arg, u)
    BY <1>1, <1>2, TakeInHand
  <1>4. /\ q \in ProcessData
        /\ q.ref_count = [p.ref_count EXCEPT ![o] = @ + 1]
        /\ q.threads = p.threads /\ q.active_count = p.active_count
        /\ q.life = p.life /\ q.collected = p.collected
        /\ q.handles = p.handles /\ q.others = p.others
        /\ p.ref_count \in [Object -> Nat] /\ p.handles \in [Object -> Nat]
        /\ p.others \in Nat
    BY <1>1 DEF ProcessData
  <1>5. o # PS => p.ref_count[o] # 0
    BY <1>1, LiveBelongs
  <1>6. /\ Cardinality(Carriers(arg, o)) \in Nat
        /\ Cardinality(Carriers(b, o)) \in Nat
    BY CarriersFinite
  <1> HIDE DEF q, b
  <1>7. /\ q.ref_count[o] = p.ref_count[o] + 1
        /\ \A u \in Object \ {o} : q.ref_count[u] = p.ref_count[u]
    BY <1>4
  <1>8. q.ref_count[o] - p.ref_count[o] =
           (q.handles[o] - p.handles[o]) + (q.others - p.others)
           + (Cardinality(Carriers(b, o)) - Cardinality(Carriers(arg, o)))
    BY <1>3, <1>4, <1>6, <1>7
  <1>9. o # PS => /\ q.ref_count[o] # 0 /\ p.ref_count[o] # 0
                  /\ q.others = p.others
    BY <1>4, <1>5, <1>7
  <1>10. Sound(q, b, gc)
    BY <1>1, <1>3, <1>4, <1>7, <1>8, <1>9, MoveStep
  <1>11. o # NULL /\ "put" \in Place
    BY ProcessAssumption DEF Place
  <1> QED
    BY <1>1, <1>10, <1>11, HandMoves DEF b

\* handles.put moves it into the table, or it goes on to be relaxed.
LEMMA PutStep ==
  ASSUME Good, NEW t \in Thread, Put(t)
  PROVE  Good'
  <1>1. /\ Sound(p, arg, gc) /\ p \in ProcessData
        /\ at[t] = "put" /\ arg \in Hands
    BY DEF Good, Sound, Put, Running
  <1>0. PICK o \in Object : o = arg[t] /\ o # NULL
    BY <1>1, ProcessAssumption DEF Good, Placed, Hands
  <1>2. CASE FoldFunction(+, 0, p.handles) < Limit
    <2> DEFINE q == [p EXCEPT !.handles[o] = @ + 1]
               b == [arg EXCEPT ![t] = NULL]
    <2>1. Exec(t, q, "leave", NULL)
      BY <1>0, <1>2 DEF Put
    <2>2. /\ b \in Hands
          /\ Cardinality(Carriers(b, o)) = Cardinality(Carriers(arg, o)) - 1
          /\ \A u \in Object \ {o} : Carriers(b, u) = Carriers(arg, u)
          /\ Cardinality(Carriers(arg, o)) >= 1
      BY <1>0, <1>1, EmptyHand
    <2>3. /\ q \in ProcessData
          /\ q.handles = [p.handles EXCEPT ![o] = @ + 1]
          /\ q.threads = p.threads /\ q.active_count = p.active_count
          /\ q.life = p.life /\ q.collected = p.collected
          /\ q.ref_count = p.ref_count /\ q.others = p.others
          /\ p.ref_count \in [Object -> Nat] /\ p.handles \in [Object -> Nat]
          /\ p.others \in Nat
      BY <1>1 DEF ProcessData
    <2>4. /\ Cardinality(Carriers(arg, o)) \in Nat
          /\ Cardinality(Carriers(b, o)) \in Nat
      BY CarriersFinite
    <2> HIDE DEF q, b
    <2>5. o # PS => p.ref_count[o] # 0
      <3>1. ASSUME o # PS PROVE p.ref_count[o] # 0
        <4>1. o \in Thread
          BY <3>1 DEF Object
        <4>2. p.ref_count[o] = (IF Belongs(p, gc, o) THEN 1 ELSE 0)
                + p.handles[o] + Cardinality(Carriers(arg, o))
          BY <1>1, <4>1 DEF Sound, Counted
        <4> QED
          BY <2>2, <2>3, <2>4, <4>2
      <3> QED
        BY <3>1
    <2>6. /\ q.handles[o] = p.handles[o] + 1
          /\ \A u \in Object \ {o} : q.handles[u] = p.handles[u]
      BY <2>3
    <2>7. q.ref_count[o] - p.ref_count[o] =
            (q.handles[o] - p.handles[o]) + (q.others - p.others)
            + (Cardinality(Carriers(b, o)) - Cardinality(Carriers(arg, o)))
      BY <2>2, <2>3, <2>4, <2>6
    <2>8. Sound(q, b, gc)
      BY <1>1, <2>2, <2>3, <2>5, <2>6, <2>7, MoveStep
    <2>9. "leave" \in Place
      BY DEF Place
    <2> QED
      BY <2>1, <2>8, <2>9, HandMoves DEF b
  <1>3. CASE ~(FoldFunction(+, 0, p.handles) < Limit)
    <2>1. Exec(t, p, "relax", o)
      BY <1>0, <1>3 DEF Put
    <2>2. [arg EXCEPT ![t] = o] = arg
      BY <1>0, <1>1 DEF Hands
    <2>3. "relax" \in Place
      BY DEF Place
    <2> QED
      BY <1>0, <1>1, <2>1, <2>2, <2>3, HandMoves
  <1> QED
    BY <1>2, <1>3

\* close_handle takes a reference out of the table, into the hand.
LEMMA CloseStep ==
  ASSUME Good, NEW t \in Thread, NEW o \in Object, Close(t, o)
  PROVE  Good'
  <1> DEFINE q == [p EXCEPT !.handles[o] = @ - 1]
             b == [arg EXCEPT ![t] = o]
  <1>1. /\ Sound(p, arg, gc) /\ p \in ProcessData
        /\ at[t] = "service" /\ arg \in Hands /\ p.handles[o] # 0
        /\ Exec(t, q, "relax", o)
    BY DEF Good, Sound, Close, Running
  <1>2. arg[t] = NULL
    BY <1>1 DEF Good, Placed
  <1>3. /\ b \in Hands
        /\ Cardinality(Carriers(b, o)) = Cardinality(Carriers(arg, o)) + 1
        /\ \A u \in Object \ {o} : Carriers(b, u) = Carriers(arg, u)
    BY <1>1, <1>2, TakeInHand
  <1>4. /\ p.ref_count \in [Object -> Nat] /\ p.handles \in [Object -> Nat]
        /\ p.others \in Nat
        /\ [p.handles EXCEPT ![o] = @ - 1] \in [Object -> Nat]
    BY <1>1 DEF ProcessData
  <1>5. /\ q \in ProcessData
        /\ q.handles = [p.handles EXCEPT ![o] = @ - 1]
        /\ q.threads = p.threads /\ q.active_count = p.active_count
        /\ q.life = p.life /\ q.collected = p.collected
        /\ q.ref_count = p.ref_count /\ q.others = p.others
    BY <1>1, <1>4 DEF ProcessData
  <1>6. /\ Cardinality(Carriers(arg, o)) \in Nat
        /\ Cardinality(Carriers(b, o)) \in Nat
    BY CarriersFinite
  <1> HIDE DEF q, b
  <1>7. o # PS => p.ref_count[o] # 0
    <2>1. ASSUME o # PS PROVE p.ref_count[o] # 0
      <3>1. o \in Thread
        BY <2>1 DEF Object
      <3>2. p.ref_count[o] = (IF Belongs(p, gc, o) THEN 1 ELSE 0)
              + p.handles[o] + Cardinality(Carriers(arg, o))
        BY <1>1, <3>1 DEF Sound, Counted
      <3> QED
        BY <1>1, <1>4, <1>6, <3>2
    <2> QED
      BY <2>1
  <1>8. /\ q.handles[o] = p.handles[o] - 1
        /\ \A u \in Object \ {o} : q.handles[u] = p.handles[u]
    BY <1>4, <1>5
  <1>9. q.ref_count[o] - p.ref_count[o] =
          (q.handles[o] - p.handles[o]) + (q.others - p.others)
          + (Cardinality(Carriers(b, o)) - Cardinality(Carriers(arg, o)))
    BY <1>3, <1>4, <1>5, <1>6, <1>8
  <1>0. /\ \A u \in Object \ {o} : q.ref_count[u] = p.ref_count[u]
        /\ o # PS => /\ q.ref_count[o] # 0 /\ p.ref_count[o] # 0
                     /\ q.others = p.others
    BY <1>5, <1>7
  <1>12. \A u \in Object \ {o} : /\ q.ref_count[u] = p.ref_count[u]
                                 /\ q.handles[u] = p.handles[u]
                                 /\ Carriers(b, u) = Carriers(arg, u)
    BY <1>0, <1>3, <1>8
  <1>13. b \in Hands
    BY <1>3
  <1>14. o # PS => /\ q.ref_count[o] # 0 /\ p.ref_count[o] # 0
                   /\ q.others = p.others
    BY <1>0
  <1>15. /\ Sound(p, arg, gc) /\ q \in ProcessData
         /\ q.threads = p.threads /\ q.active_count = p.active_count
         /\ q.life = p.life /\ q.collected = p.collected
    BY <1>1, <1>5
  <1>10. Sound(q, b, gc)
    BY <1>9, <1>12, <1>13, <1>14, <1>15, MoveStep
  <1>11. o # NULL /\ "relax" \in Place
    BY ProcessAssumption DEF Place
  <1> QED
    BY <1>1, <1>10, <1>11, HandMoves DEF b

\* process::relax of one reference, with nothing left when it is the last
LEMMA RelaxProcessGives ==
  ASSUME NEW r \in ProcessData, r.ref_count[PS] >= 1,
         r.ref_count[PS] = 1 => /\ r.threads = {} /\ r.active_count = 0
                                /\ \A o \in Object : r.handles[o] = 0
  PROVE  LET q == RelaxProcess(r, 1) IN
         /\ q \in ProcessData /\ q.threads = r.threads
         /\ q.active_count = r.active_count /\ q.life = r.life
         /\ q.collected = r.collected /\ q.handles = r.handles
         /\ q.others = r.others
         /\ q.ref_count = [r.ref_count EXCEPT ![PS] = @ - 1]
  <1>1. /\ r.ref_count \in [Object -> Nat] /\ PS \in Object
        /\ [r.ref_count EXCEPT ![PS] = @ - 1] \in [Object -> Nat]
    BY DEF ProcessData, Object
  <1>2. CASE r.ref_count[PS] = 1
    <2> DEFINE q0 == [r EXCEPT !.ref_count[PS] = 0]
               q1 == [q0 EXCEPT !.exists = FALSE]
    <2>1. RelaxProcess(r, 1) = Delete(q0)
      BY <1>2 DEF RelaxProcess
    <2>2. /\ q0 \in ProcessData /\ q0.threads = r.threads
          /\ q0.active_count = r.active_count /\ q0.life = r.life
          /\ q0.collected = r.collected /\ q0.handles = r.handles
          /\ q0.others = r.others
          /\ q0.ref_count = [r.ref_count EXCEPT ![PS] = @ - 1]
      BY <1>1, <1>2 DEF ProcessData
    <2> HIDE DEF q0
    <2>3. Delete(q0) = q1
      BY <1>2, <2>2 DEF Delete
    <2>4. /\ q1 \in ProcessData /\ q1.threads = r.threads
          /\ q1.active_count = r.active_count /\ q1.life = r.life
          /\ q1.collected = r.collected /\ q1.handles = r.handles
          /\ q1.others = r.others
          /\ q1.ref_count = [r.ref_count EXCEPT ![PS] = @ - 1]
      BY <2>2 DEF ProcessData
    <2> HIDE DEF q1
    <2> QED
      BY <2>1, <2>3, <2>4
  <1>3. CASE r.ref_count[PS] # 1
    <2> DEFINE q1 == [r EXCEPT !.ref_count[PS] = @ - 1]
    <2>0. ~(r.ref_count[PS] < 1)
      BY <1>1
    <2>1. RelaxProcess(r, 1) = q1
      BY <1>3, <2>0 DEF RelaxProcess
    <2>2. /\ q1 \in ProcessData /\ q1.threads = r.threads
          /\ q1.active_count = r.active_count /\ q1.life = r.life
          /\ q1.collected = r.collected /\ q1.handles = r.handles
          /\ q1.others = r.others
          /\ q1.ref_count = [r.ref_count EXCEPT ![PS] = @ - 1]
      BY <1>1 DEF ProcessData
    <2> HIDE DEF q1
    <2> QED
      BY <2>1, <2>2
  <1> QED
    BY <1>2, <1>3

\* thread::relax of the last reference
LEMMA RelaxErases ==
  ASSUME NEW r \in ProcessData, NEW o \in Thread, r.ref_count[o] = 1,
         o \in r.threads, r.life[o] = "stopped",
         r.active_count <= Cardinality(r.threads),
         Cardinality(r.threads) \in Nat,
         r.threads = {o} => /\ r.active_count = 0 /\ r.ref_count[PS] >= 1
                            /\ r.ref_count[PS] = 1 =>
                                 \A u \in Object : r.handles[u] = 0
  PROVE  LET q == Relax(r, o, 1) IN
         /\ q \in ProcessData /\ q.threads = r.threads \ {o}
         /\ q.active_count = r.active_count /\ q.life = r.life
         /\ q.collected = r.collected /\ q.handles = r.handles
         /\ q.others = r.others /\ q.ref_count[o] = 0
         /\ \A u \in Thread \ {o} : q.ref_count[u] = r.ref_count[u]
         /\ q.ref_count[PS] =
              r.ref_count[PS] - (IF r.threads = {o} THEN 1 ELSE 0)
  <1> DEFINE q0 == [r EXCEPT !.ref_count[o] = 0]
             q1 == [q0 EXCEPT !.threads = r.threads \ {o}]
  <1>1. o # PS /\ o \in Object /\ PS \in Object /\ Thread \subseteq Object
    BY ProcessAssumption DEF Object
  <1>2. Relax(r, o, 1) = Erase(q0, o)
    BY <1>1 DEF Relax
  <1>3. /\ q0 \in ProcessData /\ q0.threads = r.threads
        /\ q0.active_count = r.active_count /\ q0.life = r.life
        /\ q0.collected = r.collected /\ q0.handles = r.handles
        /\ q0.others = r.others
        /\ q0.ref_count = [r.ref_count EXCEPT ![o] = 0]
        /\ r.ref_count \in [Object -> Nat] /\ r.threads \in SUBSET Thread
        /\ r.active_count \in Nat
    BY DEF ProcessData
  <1> HIDE DEF q0
  <1>4. /\ q1 \in ProcessData /\ q1.threads = r.threads \ {o}
        /\ q1.active_count = r.active_count /\ q1.life = r.life
        /\ q1.collected = r.collected /\ q1.handles = r.handles
        /\ q1.others = r.others /\ q1.ref_count = q0.ref_count
    BY <1>3 DEF ProcessData
  <1>5. [q0 EXCEPT !.threads = @ \ {o}] = q1
    BY <1>3
  <1> HIDE DEF q1
  <1>6. Erase(q0, o) = IF q1.threads # {} THEN q1
                       ELSE IF q1.active_count # 0 THEN Bugcheck(q1, "assert")
                       ELSE RelaxProcess(q1, 1)
    <2>1. ~(q0.active_count > Cardinality(q0.threads))
      BY <1>3
    <2>2. o \in q0.threads /\ q0.life[o] = "stopped"
      BY <1>3
    <2> QED
      BY <2>1, <2>2, <1>5 DEF Erase
  <1>7. /\ q1.ref_count[o] = 0 /\ q1.ref_count[PS] = r.ref_count[PS]
        /\ \A u \in Thread \ {o} : q1.ref_count[u] = r.ref_count[u]
        /\ q1.ref_count \in [Object -> Nat]
    BY <1>1, <1>3, <1>4
  <1>8. CASE r.threads # {o}
    <2>0. q1.threads # {}
      BY <1>4, <1>8
    <2>1. Relax(r, o, 1) = q1
      BY <1>2, <1>6, <2>0
    <2>2. q1.ref_count[PS] =
            r.ref_count[PS] - (IF r.threads = {o} THEN 1 ELSE 0)
      BY <1>1, <1>3, <1>7, <1>8
    <2> QED
      BY <1>4, <1>7, <2>1, <2>2
  <1>9. CASE r.threads = {o}
    <2> DEFINE q == RelaxProcess(q1, 1)
    <2>1. Relax(r, o, 1) = q /\ q1.threads = {}
      BY <1>2, <1>4, <1>6, <1>9
    <2>2. /\ q \in ProcessData /\ q.threads = q1.threads
          /\ q.active_count = q1.active_count /\ q.life = q1.life
          /\ q.collected = q1.collected /\ q.handles = q1.handles
          /\ q.others = q1.others
          /\ q.ref_count = [q1.ref_count EXCEPT ![PS] = @ - 1]
      BY <1>4, <1>7, <1>9, <2>1, RelaxProcessGives
    <2> HIDE DEF q
    <2>3. /\ q.ref_count[o] = 0
          /\ \A u \in Thread \ {o} : q.ref_count[u] = r.ref_count[u]
          /\ q.ref_count[PS] = r.ref_count[PS] - 1
      BY <1>1, <1>7, <2>2, ProcessAssumption
    <2> QED
      BY <1>4, <1>9, <2>1, <2>2, <2>3
  <1> QED
    BY <1>8, <1>9

\* Only the thread in the hands of gc has been seen off.
LEMMA LeftIsTaken ==
  ASSUME NEW g \in Collecting, NEW t \in Thread, Left(g, t)
  PROVE  Taken(g, t)
  <1>1. PICK w \in Stage : g = <<t, w>>
    BY DEF Left, Stage
  <1> QED
    BY <1>1, GcForms

\* While a thread runs, gc does not clear the handles.
LEMMA LiveIsActive ==
  ASSUME NEW r, NEW a, NEW g, Sound(r, a, g), NEW t \in Thread,
         r.life[t] = "live"
  PROVE  t \in Active(r, g) /\ r.active_count # 0
  <1>1. Belongs(r, g, t) /\ ~Taken(g, t)
    BY LiveBelongs DEF Sound, Listed
  <1>2. t \in Active(r, g)
    BY <1>1, LeftIsTaken DEF Active, Sound
  <1>3. Cardinality(Active(r, g)) # 0
    BY <1>2, ActiveListed, FS_EmptySet
  <1> QED
    BY <1>2, <1>3 DEF Sound, Counted

\* process::spawn of a stopped process ends in the null pointer; else the
\* call goes on.
LEMMA SpawnCheckStep ==
  ASSUME Good, NEW t \in Thread, SpawnCheck(t)
  PROVE  Good' \/ p'.halt = "null thread"
  <1>1. at[t] = "service" /\ Sound(p, arg, gc) /\ p \in ProcessData
    BY DEF SpawnCheck, Running, Good, Sound
  <1>2. arg[t] = NULL
    BY <1>1 DEF Good, Placed
  <1>3. CASE p.state = "STOPPED"
    <2>1. p' = [p EXCEPT !.halt = "null thread"]
      BY <1>3 DEF SpawnCheck, Exec, Bugcheck, Good
    <2>2. p'.halt = "null thread"
      BY <1>1, <2>1 DEF ProcessData
    <2> QED
      BY <2>2
  <1>4. CASE p.state # "STOPPED"
    <2>1. Exec(t, p, "spawn", NULL) /\ "spawn" \in Place
      BY <1>4 DEF SpawnCheck, Place
    <2> QED
      BY <1>1, <1>2, <2>1, GoesOn
  <1> QED
    BY <1>3, <1>4

\* A thread that has never lived enters the list, with the reference that it
\* keeps on itself and the one in the hand of its creator.
LEMMA EnterList ==
  ASSUME NEW r, NEW a, NEW g, Sound(r, a, g), NEW u \in Thread,
         r.life[u] = "none", r.threads # {}, r.active_count # 0,
         NEW q \in ProcessData, NEW b \in Hands,
         q.threads = r.threads \cup {u}, q.active_count = r.active_count + 1,
         q.life[u] = "live", q.ref_count[u] = 2, q.collected = r.collected,
         q.handles = r.handles, q.others = r.others,
         \A v \in Thread \ {u} : q.life[v] = r.life[v],
         \A v \in Object \ {u} : /\ q.ref_count[v] = r.ref_count[v]
                                 /\ Carriers(b, v) = Carriers(a, v),
         Cardinality(Carriers(b, u)) = Cardinality(Carriers(a, u)) + 1
  PROVE  Sound(q, b, g)
  <1>1. /\ PS \in Object \ {u} /\ Thread \subseteq Object
        /\ \A v \in Object : r.ref_count[v] \in Nat /\ r.handles[v] \in Nat
        /\ r.others \in Nat
        /\ \A v \in Object : Cardinality(Carriers(a, v)) \in Nat
        /\ r.active_count \in Nat
    BY ProcessAssumption, CarriersFinite DEF Sound, ProcessData, Object
  <1>2. r.ref_count[u] = 0 /\ u \notin r.threads /\ u \notin r.collected
    BY DEF Sound, Listed, ProcessData
  <1>3. ~Taken(g, u) /\ ~Left(g, u)
    BY <1>2, LeftIsTaken DEF Sound, Listed
  <1>4. ~Belongs(r, g, u) /\ Belongs(q, g, u)
    BY <1>2 DEF Belongs
  <1>5. \A v \in Thread \ {u} : Belongs(q, g, v) <=> Belongs(r, g, v)
    BY DEF Belongs
  <1>6. Active(q, g) = Active(r, g) \cup {u} /\ u \notin Active(r, g)
    BY <1>3, <1>4, <1>5 DEF Active
  <1>7. Cardinality(Active(q, g)) = Cardinality(Active(r, g)) + 1
    <2>1. IsFiniteSet(Active(r, g))
      BY ActiveListed
    <2> QED
      BY <1>6, <2>1, FS_AddElement
  <1>8. q.active_count = Cardinality(Active(q, g))
    BY <1>7 DEF Sound, Counted
  <1>9. r.handles[u] = 0 /\ Cardinality(Carriers(a, u)) = 0
    <2>1. r.ref_count[u] = (IF Belongs(r, g, u) THEN 1 ELSE 0)
            + r.handles[u] + Cardinality(Carriers(a, u))
      BY DEF Sound, Counted
    <2> QED
      BY <1>1, <1>2, <1>4, <2>1
  <1>10. ASSUME NEW v \in Thread
         PROVE  q.ref_count[v] = (IF Belongs(q, g, v) THEN 1 ELSE 0)
                  + q.handles[v] + Cardinality(Carriers(b, v))
    <2>1. CASE v = u
      BY <1>4, <1>9, <2>1
    <2>2. CASE v # u
      <3>1. r.ref_count[v] = (IF Belongs(r, g, v) THEN 1 ELSE 0)
              + r.handles[v] + Cardinality(Carriers(a, v))
        BY DEF Sound, Counted
      <3>2. v \in Object \ {u}
        BY <1>1, <2>2
      <3> QED
        BY <1>5, <2>2, <3>1, <3>2
    <2> QED
      BY <2>1, <2>2
  <1>11. q.ref_count[PS] =
           (IF q.threads # {} THEN 1 ELSE 0) + q.handles[PS]
           + Cardinality(Carriers(b, PS)) + q.others
    <2>1. r.ref_count[PS] = (IF r.threads # {} THEN 1 ELSE 0) + r.handles[PS]
                            + Cardinality(Carriers(a, PS)) + r.others
      BY DEF Sound, Counted
    <2>2. q.threads # {}
      OBVIOUS
    <2> QED
      BY <1>1, <2>1, <2>2
  <1>12. Counted(q, b, g)
    BY <1>8, <1>10, <1>11 DEF Counted
  <1>13. \A v \in Thread : v \in q.threads <=> q.ref_count[v] # 0
    BY <1>1 DEF Sound, Listed
  <1>14. /\ \A v \in Thread : q.life[v] = "none" => q.ref_count[v] = 0
         /\ \A v \in q.collected : q.life[v] = "stopped"
         /\ \A v \in Thread : Taken(g, v) => v \in q.collected
    <2>1. \A v \in Thread : q.life[v] = "none" => q.ref_count[v] = 0
      <3>1. \A v \in Thread : r.life[v] = "none" => r.ref_count[v] = 0
        BY DEF Sound, Listed
      <3> QED
        BY <1>1, <3>1
    <2>2. \A v \in q.collected : q.life[v] = "stopped"
      <3>1. \A v \in r.collected : v \in Thread /\ r.life[v] = "stopped"
        BY DEF Sound, Listed, ProcessData
      <3> QED
        BY <1>2, <3>1
    <2>3. \A v \in Thread : Taken(g, v) => v \in q.collected
      BY DEF Sound, Listed
    <2> QED
      BY <2>1, <2>2, <2>3
  <1>15. ~(g # <<>> /\ g[2] = "clear")
    BY DEF Sound, Listed
  <1>16. Listed(q, g)
    BY <1>13, <1>14, <1>15 DEF Listed
  <1> QED
    BY <1>12, <1>16 DEF Sound

\* process::spawn makes a thread and holds a reference to it.
LEMMA SpawnStep ==
  ASSUME Good, NEW t \in Thread, NEW u \in Thread, Spawn(t, u)
  PROVE  Good'
  <1> DEFINE q == [p EXCEPT !.life[u] = "live", !.ref_count[u] = 2,
                            !.threads = @ \cup {u}, !.active_count = @ + 1]
             b == [arg EXCEPT ![t] = u]
  <1>1. /\ Sound(p, arg, gc) /\ p \in ProcessData /\ p.life[u] = "none"
        /\ at[t] = "spawn" /\ arg \in Hands /\ p.life[t] = "live"
        /\ Exec(t, q, "put", u)
    BY DEF Good, Sound, Spawn, Running
  <1>2. arg[t] = NULL
    BY <1>1 DEF Good, Placed
  <1>3. u \in Object /\ PS \in Object /\ u # PS /\ u # NULL /\ "put" \in Place
    BY ProcessAssumption DEF Object, Place
  <1>4. /\ b \in Hands
        /\ Cardinality(Carriers(b, u)) = Cardinality(Carriers(arg, u)) + 1
        /\ \A v \in Object \ {u} : Carriers(b, v) = Carriers(arg, v)
    BY <1>1, <1>2, <1>3, TakeInHand
  <1>5. p.threads # {} /\ p.active_count # 0
    BY <1>1, LiveBelongs, LiveIsActive
  <1>6. /\ p.ref_count \in [Object -> Nat] /\ p.life \in [Thread -> Life]
        /\ [p.ref_count EXCEPT ![u] = 2] \in [Object -> Nat]
        /\ [p.life EXCEPT ![u] = "live"] \in [Thread -> Life]
        /\ p.threads \cup {u} \in SUBSET Thread /\ p.active_count + 1 \in Nat
    <2>1. /\ p.ref_count \in [Object -> Nat] /\ p.life \in [Thread -> Life]
          /\ p.threads \in SUBSET Thread /\ p.active_count \in Nat
      BY <1>1 DEF ProcessData
    <2>2. [p.ref_count EXCEPT ![u] = 2] \in [Object -> Nat]
      BY <2>1
    <2>3. [p.life EXCEPT ![u] = "live"] \in [Thread -> Life]
      BY <2>1 DEF Life
    <2>4. p.threads \cup {u} \in SUBSET Thread /\ p.active_count + 1 \in Nat
      BY <2>1
    <2> QED
      BY <2>1, <2>2, <2>3, <2>4
  <1>7. /\ q \in ProcessData
        /\ q.life = [p.life EXCEPT ![u] = "live"]
        /\ q.ref_count = [p.ref_count EXCEPT ![u] = 2]
        /\ q.threads = p.threads \cup {u}
        /\ q.active_count = p.active_count + 1
        /\ q.handles = p.handles /\ q.others = p.others
        /\ q.collected = p.collected
    BY <1>1, <1>6 DEF ProcessData
  <1> HIDE DEF q, b
  <1>8. /\ q.life[u] = "live" /\ q.ref_count[u] = 2
        /\ \A v \in Thread \ {u} : q.life[v] = p.life[v]
        /\ \A v \in Object \ {u} : q.ref_count[v] = p.ref_count[v]
    BY <1>3, <1>6, <1>7
  <1>9. \A v \in Object \ {u} : /\ q.ref_count[v] = p.ref_count[v]
                                /\ Carriers(b, v) = Carriers(arg, v)
    BY <1>4, <1>8
  <1>10. Sound(q, b, gc)
    <2>1. Sound(p, arg, gc) /\ p.life[u] = "none"
      BY <1>1
    <2>2. /\ b \in Hands
          /\ Cardinality(Carriers(b, u)) = Cardinality(Carriers(arg, u)) + 1
      BY <1>4
    <2>3. /\ q \in ProcessData /\ q.threads = p.threads \cup {u}
          /\ q.active_count = p.active_count + 1
          /\ q.handles = p.handles /\ q.others = p.others
          /\ q.collected = p.collected
      BY <1>7
    <2>4. /\ q.life[u] = "live" /\ q.ref_count[u] = 2
          /\ \A v \in Thread \ {u} : q.life[v] = p.life[v]
      BY <1>8
    <2> QED
      BY <1>5, <1>9, <2>1, <2>2, <2>3, <2>4, EnterList
  <1> QED
    BY <1>1, <1>3, <1>10, HandMoves DEF b

\* The last reference to a thread is in a hand: gc has collected the thread.
LEMMA LastReference ==
  ASSUME NEW r, NEW a, NEW g, Sound(r, a, g), NEW o \in Thread,
         r.ref_count[o] = 1, Cardinality(Carriers(a, o)) >= 1
  PROVE  /\ ~Belongs(r, g, o) /\ r.handles[o] = 0 /\ r.life[o] = "stopped"
         /\ Cardinality(Carriers(a, o)) = 1 /\ o \in r.threads
  <1>1. /\ r.ref_count[o] \in Nat /\ r.handles[o] \in Nat
        /\ Cardinality(Carriers(a, o)) \in Nat
    BY CarriersFinite DEF Sound, ProcessData, Object
  <1>2. r.ref_count[o] = (IF Belongs(r, g, o) THEN 1 ELSE 0)
          + r.handles[o] + Cardinality(Carriers(a, o))
    BY DEF Sound, Counted
  <1>3. /\ ~Belongs(r, g, o) /\ r.handles[o] = 0
        /\ Cardinality(Carriers(a, o)) = 1
    BY <1>1, <1>2
  <1>4. o \in r.threads /\ r.life[o] # "none"
    BY DEF Sound, Listed
  <1>5. r.life[o] = "stopped"
    BY <1>3, <1>4 DEF Sound, Listed, Belongs
  <1> QED
    BY <1>3, <1>4, <1>5

\* A call relaxes what it holds. The caller is still in the list, so that
\* neither its process is deleted nor the list is emptied.
LEMMA RelaxObjectStep ==
  ASSUME Good, NEW t \in Thread, RelaxObject(t)
  PROVE  Good'
  <1>1. /\ Sound(p, arg, gc) /\ p \in ProcessData /\ p.life[t] = "live"
        /\ at[t] = "relax" /\ arg \in Hands /\ gc \in Collecting
    BY DEF Good, Sound, RelaxObject, Running
  <1>0. PICK o \in Object : o = arg[t] /\ o # NULL
    BY <1>1, ProcessAssumption DEF Good, Placed, Hands
  <1> DEFINE q == Relax(p, o, 1)
             b == [arg EXCEPT ![t] = NULL]
  <1>2. Exec(t, q, "leave", NULL) /\ "leave" \in Place
    BY <1>0 DEF RelaxObject, Place
  <1>3. /\ b \in Hands
        /\ Cardinality(Carriers(b, o)) = Cardinality(Carriers(arg, o)) - 1
        /\ \A u \in Object \ {o} : Carriers(b, u) = Carriers(arg, u)
        /\ Cardinality(Carriers(arg, o)) >= 1
    BY <1>0, <1>1, EmptyHand
  <1>4. /\ p.threads # {} /\ t \in p.threads /\ p.active_count # 0
        /\ Belongs(p, gc, t)
    BY <1>1, LiveBelongs, LiveIsActive
  <1>5. /\ p.ref_count \in [Object -> Nat] /\ p.handles \in [Object -> Nat]
        /\ p.others \in Nat /\ PS \in Object /\ Thread \subseteq Object
        /\ Cardinality(Carriers(arg, o)) \in Nat
        /\ Cardinality(Carriers(b, o)) \in Nat
    BY <1>1, CarriersFinite DEF ProcessData, Object
  <1> HIDE DEF b
  <1>6. CASE o = PS
    <2>1. p.ref_count[PS] >= 2
      BY <1>1, <1>3, <1>4, <1>5, <1>6, ProcessReferred
    <2>2. q = RelaxProcess(p, 1)
      BY <1>6 DEF Relax
    <2> HIDE DEF q
    <2>3. /\ q \in ProcessData /\ q.threads = p.threads
          /\ q.active_count = p.active_count /\ q.life = p.life
          /\ q.collected = p.collected /\ q.handles = p.handles
          /\ q.others = p.others
          /\ q.ref_count = [p.ref_count EXCEPT ![PS] = @ - 1]
      <3>1. p.ref_count[PS] >= 1 /\ p.ref_count[PS] # 1
        BY <1>5, <2>1
      <3> QED
        BY <1>1, <2>2, <3>1, RelaxProcessGives
    <2>4. /\ q.ref_count[o] = p.ref_count[o] - 1
          /\ \A u \in Object \ {o} : q.ref_count[u] = p.ref_count[u]
      BY <1>5, <1>6, <2>3
    <2>5. \A u \in Object \ {o} : /\ q.ref_count[u] = p.ref_count[u]
                                  /\ q.handles[u] = p.handles[u]
                                  /\ Carriers(b, u) = Carriers(arg, u)
      BY <1>3, <2>3, <2>4
    <2>6. q.ref_count[o] - p.ref_count[o] =
            (q.handles[o] - p.handles[o]) + (q.others - p.others)
            + (Cardinality(Carriers(b, o)) - Cardinality(Carriers(arg, o)))
      BY <1>3, <1>5, <2>3, <2>4
    <2>7. Sound(q, b, gc)
      <3>1. b \in Hands
        BY <1>3
      <3>2. /\ Sound(p, arg, gc) /\ q \in ProcessData
            /\ q.threads = p.threads /\ q.active_count = p.active_count
            /\ q.life = p.life /\ q.collected = p.collected
        BY <1>1, <2>3
      <3>3. o # PS => /\ q.ref_count[o] # 0 /\ p.ref_count[o] # 0
                      /\ q.others = p.others
        BY <1>6
      <3> QED
        BY <2>5, <2>6, <3>1, <3>2, <3>3, MoveStep
    <2> QED
      BY <1>2, <2>7, HandMoves DEF q, b
  <1>7. CASE o # PS /\ p.ref_count[o] # 1
    <2>1. o \in Thread
      BY <1>7 DEF Object
    <2>2. p.ref_count[o] >= 2
      <3>1. p.ref_count[o] = (IF Belongs(p, gc, o) THEN 1 ELSE 0)
              + p.handles[o] + Cardinality(Carriers(arg, o))
        BY <1>1, <2>1 DEF Sound, Counted
      <3> QED
        BY <1>3, <1>5, <1>7, <3>1
    <2>3. q = [p EXCEPT !.ref_count[o] = @ - 1]
      <3>1. ~(p.ref_count[o] < 1)
        BY <1>5, <2>2
      <3> QED
        BY <1>7, <3>1 DEF Relax
    <2>4. [p.ref_count EXCEPT ![o] = @ - 1] \in [Object -> Nat]
      BY <1>5, <2>2
    <2> HIDE DEF q
    <2>5. /\ q \in ProcessData /\ q.threads = p.threads
          /\ q.active_count = p.active_count /\ q.life = p.life
          /\ q.collected = p.collected /\ q.handles = p.handles
          /\ q.others = p.others
          /\ q.ref_count = [p.ref_count EXCEPT ![o] = @ - 1]
      BY <1>1, <2>3, <2>4 DEF ProcessData
    <2>6. /\ q.ref_count[o] = p.ref_count[o] - 1
          /\ \A u \in Object \ {o} : q.ref_count[u] = p.ref_count[u]
      BY <1>5, <2>5
    <2>7. \A u \in Object \ {o} : /\ q.ref_count[u] = p.ref_count[u]
                                  /\ q.handles[u] = p.handles[u]
                                  /\ Carriers(b, u) = Carriers(arg, u)
      BY <1>3, <2>5, <2>6
    <2>8. q.ref_count[o] - p.ref_count[o] =
            (q.handles[o] - p.handles[o]) + (q.others - p.others)
            + (Cardinality(Carriers(b, o)) - Cardinality(Carriers(arg, o)))
      BY <1>3, <1>5, <2>5, <2>6
    <2>9. /\ q.ref_count[o] # 0 /\ p.ref_count[o] # 0
          /\ q.others = p.others /\ b \in Hands
      BY <1>3, <1>5, <2>2, <2>5, <2>6
    <2>10. Sound(q, b, gc)
      <3>1. /\ Sound(p, arg, gc) /\ q \in ProcessData
            /\ q.threads = p.threads /\ q.active_count = p.active_count
            /\ q.life = p.life /\ q.collected = p.collected
        BY <1>1, <2>5
      <3> QED
        BY <2>7, <2>8, <2>9, <3>1, MoveStep
    <2> QED
      BY <1>2, <2>10, HandMoves DEF q, b
  <1>8. CASE o # PS /\ p.ref_count[o] = 1
    <2>1. o \in Thread
      BY <1>8 DEF Object
    <2>2. /\ ~Belongs(p, gc, o) /\ p.handles[o] = 0 /\ p.life[o] = "stopped"
          /\ Cardinality(Carriers(arg, o)) = 1 /\ o \in p.threads
      BY <1>1, <1>3, <1>8, <2>1, LastReference
    <2>3. p.threads # {o}
      BY <1>1, <1>4, <2>2
    <2>4. /\ p.active_count <= Cardinality(p.threads)
          /\ Cardinality(p.threads) \in Nat
      BY <1>1, ActiveListed DEF Sound, Counted
    <2>5. /\ q \in ProcessData /\ q.threads = p.threads \ {o}
          /\ q.active_count = p.active_count /\ q.life = p.life
          /\ q.collected = p.collected /\ q.handles = p.handles
          /\ q.others = p.others /\ q.ref_count[o] = 0
          /\ \A u \in Thread \ {o} : q.ref_count[u] = p.ref_count[u]
          /\ q.ref_count[PS] =
               p.ref_count[PS] - (IF p.threads = {o} THEN 1 ELSE 0)
      BY <1>1, <1>8, <2>1, <2>2, <2>3, <2>4, RelaxErases
    <2> HIDE DEF q
    <2>6. Carriers(b, o) = {}
      <3>1. Cardinality(Carriers(b, o)) = 0
        BY <1>3, <2>2
      <3> QED
        BY <3>1, CarriersFinite, FS_EmptySet
    <2>7. q.ref_count[PS] =
            p.ref_count[PS] - (IF q.threads = {} THEN 1 ELSE 0)
      BY <1>4, <2>2, <2>3, <2>5
    <2>8. gc # <<>> /\ gc[2] = "clear" => p.active_count = 0
      BY <1>1 DEF Sound, Listed
    <2>9. /\ b \in Hands
          /\ \A u \in Object \ {o} : Carriers(b, u) = Carriers(arg, u)
      BY <1>3
    <2>10. Sound(q, b, gc)
      <3>1. /\ q \in ProcessData /\ q.threads = p.threads \ {o}
            /\ q.active_count = p.active_count /\ q.life = p.life
            /\ q.collected = p.collected /\ q.handles = p.handles
            /\ q.others = p.others /\ q.ref_count[o] = 0
            /\ \A u \in Thread \ {o} : q.ref_count[u] = p.ref_count[u]
        BY <2>5
      <3>2. Sound(p, arg, gc) /\ gc \in Collecting
        BY <1>1
      <3>3. ~Belongs(p, gc, o) /\ p.handles[o] = 0 /\ o \in p.threads
        BY <2>2
      <3> QED
        BY <2>1, <2>6, <2>7, <2>8, <2>9, <3>1, <3>2, <3>3, EraseStep
    <2> QED
      BY <1>2, <2>10, HandMoves DEF q, b
  <1> QED
    BY <1>6, <1>7, <1>8

\* A step of the gc thread or of another process.
LEMMA OthersMove ==
  ASSUME Good, NEW q, NEW g, Sound(q, arg, g), p' = q, gc' = g,
         UNCHANGED <<at, arg>>
  PROVE  Good'
  <1>1. arg' = arg /\ at' = at
    OBVIOUS
  <1>2. Sound(p, arg, gc)'
    <2>1. Sound(p', arg', gc')
      BY <1>1
    <2> QED
      BY <2>1 DEF Sound, Counted, Listed, Active, Belongs
  <1>3. Placed'
    BY <1>1 DEF Good, Placed
  <1>4. p'.halt = "no"
    BY DEF Sound, ProcessData
  <1> QED
    BY <1>2, <1>3, <1>4 DEF Good

\* gc takes a thread; the reference of manage() goes with it.
LEMMA GcTakeStep ==
  ASSUME Good, NEW t \in Thread, GcTake(t)
  PROVE  Good'
  <1> DEFINE q == [p EXCEPT !.collected = @ \cup {t}]
             g == <<t, "on_exit">>
  <1>1. /\ Sound(p, arg, <<>>) /\ p \in ProcessData /\ arg \in Hands
        /\ p.life[t] = "stopped" /\ t \notin p.collected
    BY DEF GcTake, Good, Sound
  <1>2. /\ p' = q /\ gc' = g /\ UNCHANGED <<at, arg>>
    BY DEF GcTake
  <1>3. /\ q \in ProcessData /\ q.collected = p.collected \cup {t}
        /\ q.life = p.life /\ q.threads = p.threads
        /\ q.ref_count = p.ref_count /\ q.handles = p.handles
        /\ q.others = p.others /\ q.active_count = p.active_count
    BY <1>1 DEF ProcessData
  <1>4. /\ g \in Collecting /\ g[2] = "on_exit"
        /\ \A u \in Thread : (Taken(g, u) <=> u = t) /\ ~Left(g, u)
        /\ \A u \in Thread : ~Taken(<<>>, u) /\ ~Left(<<>>, u)
    BY GcForms DEF Stage
  <1> HIDE DEF q, g
  <1>5. \A u \in Thread : Belongs(q, g, u) <=> Belongs(p, <<>>, u)
    BY <1>1, <1>3, <1>4 DEF Belongs
  <1>6. Active(q, g) = Active(p, <<>>)
    BY <1>4, <1>5 DEF Active
  <1>7. Counted(q, arg, g)
    BY <1>1, <1>3, <1>5, <1>6 DEF Sound, Counted
  <1>8. Listed(q, g)
    <2>1. /\ \A u \in q.collected : q.life[u] = "stopped"
          /\ \A u \in Thread : Taken(g, u) => u \in q.collected
      BY <1>1, <1>3, <1>4 DEF Sound, Listed
    <2>2. /\ \A u \in Thread : u \in q.threads <=> q.ref_count[u] # 0
          /\ \A u \in Thread : q.life[u] = "none" => q.ref_count[u] = 0
      BY <1>1, <1>3 DEF Sound, Listed
    <2> QED
      BY <1>4, <2>1, <2>2 DEF Listed
  <1>9. Sound(q, arg, g)
    BY <1>1, <1>3, <1>4, <1>7, <1>8 DEF Sound
  <1> QED
    BY <1>2, <1>9, OthersMove

\* Where gc is, the thread that it has taken, and that it has stopped
LEMMA GcHas ==
  ASSUME NEW r, NEW a, NEW g, Sound(r, a, g), g # <<>>
  PROVE  \E t \in Thread, w \in Stage :
           /\ g = <<t, w>> /\ g[1] = t /\ g[2] = w
           /\ Belongs(r, g, t) /\ t \in r.threads
           /\ t \in r.collected /\ r.life[t] = "stopped"
  <1>1. PICK t \in Thread, w \in Stage : g = <<t, w>>
    BY DEF Sound, Collecting
  <1>2. g[1] = t /\ g[2] = w /\ Taken(g, t)
    BY <1>1, GcForms
  <1>3. t \in r.collected /\ r.life[t] = "stopped"
    BY <1>2 DEF Sound, Listed
  <1>4. Belongs(r, g, t)
    BY <1>2, <1>3 DEF Belongs
  <1>5. t \in r.threads
    BY <1>4, ActiveListed
  <1> QED
    BY <1>1, <1>2, <1>3, <1>4, <1>5

\* process::on_exit of the thread that gc has taken: the assertion holds,
\* and the handles are cleared after the last one.
LEMMA GcExitStep ==
  ASSUME Good, GcExit
  PROVE  Good'
  <1>1. /\ Sound(p, arg, gc) /\ p \in ProcessData /\ arg \in Hands
        /\ gc # <<>> /\ gc[2] = "on_exit" /\ p.active_count \in Nat
    BY DEF GcExit, Good, Sound, ProcessData
  <1>2. PICK t \in Thread : /\ gc = <<t, "on_exit">> /\ gc[1] = t
                            /\ Belongs(p, gc, t) /\ t \in p.collected
                            /\ p.life[t] = "stopped"
    BY <1>1, GcHas
  <1>3. \A u \in Thread : (Taken(gc, u) <=> u = t) /\ ~Left(gc, u)
    BY <1>2, GcForms DEF Stage
  <1>4. t \in Active(p, gc)
    BY <1>2, <1>3 DEF Active
  <1>5. /\ IsFiniteSet(Active(p, gc))
        /\ p.active_count = Cardinality(Active(p, gc))
        /\ Cardinality(Active(p, gc)) <= Cardinality(p.threads)
        /\ Cardinality(p.threads) \in Nat
    BY <1>1, ActiveListed DEF Sound, Counted
  <1>6. p.active_count # 0
    BY <1>4, <1>5, FS_EmptySet
  <1>7. p.active_count \in 1..Cardinality(p.threads)
    BY <1>1, <1>5, <1>6
  <1>8. PICK w \in {"clear", "relax"} :
          /\ w = (IF p.active_count = 1 THEN "clear" ELSE "relax")
    OBVIOUS
  <1>9. PICK s \in {"RUNNING", "STOPPED"} :
          s = IF p.active_count = 1 THEN "STOPPED" ELSE p.state
    BY <1>1 DEF ProcessData
  <1> DEFINE q == [p EXCEPT !.active_count = @ - 1, !.state = s]
             g == <<t, w>>
  <1>10. p' = q /\ gc' = g /\ UNCHANGED <<at, arg>>
    BY <1>2, <1>7, <1>8, <1>9 DEF GcExit
  <1>11. p.active_count - 1 \in Nat
    BY <1>1, <1>6
  <1>12. /\ q \in ProcessData /\ q.active_count = p.active_count - 1
         /\ q.collected = p.collected
         /\ q.life = p.life /\ q.threads = p.threads
         /\ q.ref_count = p.ref_count /\ q.handles = p.handles
         /\ q.others = p.others
    BY <1>1, <1>11 DEF ProcessData
  <1>13. /\ g \in Collecting /\ g[2] = w
         /\ \A u \in Thread : (Taken(g, u) <=> u = t) /\ (Left(g, u) <=> u = t)
    BY GcForms DEF Stage
  <1> HIDE DEF q, g
  <1>14. \A u \in Thread : Belongs(q, g, u) <=> Belongs(p, gc, u)
    BY <1>3, <1>12, <1>13 DEF Belongs
  <1>15. Active(q, g) = Active(p, gc) \ {t}
    BY <1>3, <1>13, <1>14 DEF Active
  <1>16. Cardinality(Active(q, g)) = Cardinality(Active(p, gc)) - 1
    BY <1>4, <1>5, <1>15, FS_RemoveElement
  <1>17. Counted(q, arg, g)
    BY <1>1, <1>5, <1>12, <1>14, <1>16 DEF Sound, Counted
  <1>18. Listed(q, g)
    <2>1. g[2] = "clear" => q.active_count = 0
      BY <1>8, <1>12, <1>13
    <2>2. /\ \A u \in q.collected : q.life[u] = "stopped"
          /\ \A u \in Thread : Taken(g, u) => u \in q.collected
          /\ \A u \in Thread : u \in q.threads <=> q.ref_count[u] # 0
          /\ \A u \in Thread : q.life[u] = "none" => q.ref_count[u] = 0
      BY <1>1, <1>2, <1>12, <1>13 DEF Sound, Listed
    <2> QED
      BY <2>1, <2>2 DEF Listed
  <1>19. Sound(q, arg, g)
    BY <1>1, <1>12, <1>13, <1>17, <1>18 DEF Sound
  <1> QED
    BY <1>10, <1>19, OthersMove

\* open_process: one handle and one reference more.
LEMMA OpenStep ==
  ASSUME Good, OpenProcess
  PROVE  Good'
  <1> DEFINE q == [p EXCEPT !.others = @ + 1, !.ref_count[PS] = @ + 1]
  <1>1. /\ Sound(p, arg, gc) /\ p \in ProcessData /\ arg \in Hands
        /\ p' = q /\ gc' = gc /\ UNCHANGED <<at, arg>>
    BY DEF OpenProcess, Good, Sound
  <1>2. /\ p.ref_count \in [Object -> Nat] /\ p.others \in Nat
        /\ p.handles \in [Object -> Nat] /\ PS \in Object
        /\ Cardinality(Carriers(arg, PS)) \in Nat
    BY <1>1, CarriersFinite DEF ProcessData, Object
  <1>3. /\ [p.ref_count EXCEPT ![PS] = @ + 1] \in [Object -> Nat]
        /\ p.others + 1 \in Nat
    BY <1>2
  <1>4. /\ q \in ProcessData /\ q.threads = p.threads
        /\ q.active_count = p.active_count
        /\ q.life = p.life /\ q.collected = p.collected
        /\ q.handles = p.handles /\ q.others = p.others + 1
        /\ q.ref_count = [p.ref_count EXCEPT ![PS] = @ + 1]
    BY <1>1, <1>3 DEF ProcessData
  <1> HIDE DEF q
  <1>5. /\ q.ref_count[PS] = p.ref_count[PS] + 1
        /\ \A u \in Object \ {PS} : /\ q.ref_count[u] = p.ref_count[u]
                                    /\ q.handles[u] = p.handles[u]
                                    /\ Carriers(arg, u) = Carriers(arg, u)
    BY <1>2, <1>4
  <1>6. q.ref_count[PS] - p.ref_count[PS] =
          (q.handles[PS] - p.handles[PS]) + (q.others - p.others)
          + (Cardinality(Carriers(arg, PS)) - Cardinality(Carriers(arg, PS)))
    BY <1>2, <1>4, <1>5
  <1>7. /\ Sound(p, arg, gc) /\ q \in ProcessData /\ arg \in Hands
        /\ PS \in Object
        /\ q.threads = p.threads /\ q.active_count = p.active_count
        /\ q.life = p.life /\ q.collected = p.collected
    BY <1>1, <1>2, <1>4
  <1>8. Sound(q, arg, gc)
    BY <1>5, <1>6, <1>7, MoveStep
  <1> QED
    BY <1>1, <1>8, OthersMove

\* Once the threads are gone nothing counts and no thread has a handle.
LEMMA NothingLeft ==
  ASSUME NEW r, NEW a, NEW g, Sound(r, a, g), r.threads = {}
  PROVE  /\ r.active_count = 0
         /\ \A o \in Thread : r.handles[o] = 0
  <1>1. Active(r, g) = {}
    BY ActiveListed
  <1>2. r.active_count = 0
    BY <1>1, FS_EmptySet DEF Sound, Counted
  <1>3. ASSUME NEW o \in Thread PROVE r.handles[o] = 0
    <2>1. /\ r.ref_count[o] \in Nat /\ r.handles[o] \in Nat
          /\ Cardinality(Carriers(a, o)) \in Nat
      BY CarriersFinite DEF Sound, ProcessData, Object
    <2>2. r.ref_count[o] = 0
      BY DEF Sound, Listed
    <2>3. r.ref_count[o] = (IF Belongs(r, g, o) THEN 1 ELSE 0)
            + r.handles[o] + Cardinality(Carriers(a, o))
      BY DEF Sound, Counted
    <2> QED
      BY <2>1, <2>2, <2>3
  <1> QED
    BY <1>2, <1>3

\* The handle of another process is closed; with the last reference the
\* process has neither threads nor handles.
LEMMA CloseProcessStep ==
  ASSUME Good, CloseProcess
  PROVE  Good'
  <1> DEFINE r == [p EXCEPT !.others = @ - 1]
             q == RelaxProcess(r, 1)
  <1>1. /\ Sound(p, arg, gc) /\ p \in ProcessData /\ arg \in Hands
        /\ p.others # 0
    BY DEF CloseProcess, Good, Sound
  <1>2. p' = q /\ gc' = gc /\ UNCHANGED <<at, arg>>
    BY DEF CloseProcess, Relax
  <1>3. /\ p.ref_count \in [Object -> Nat] /\ p.others \in Nat
        /\ p.handles \in [Object -> Nat] /\ PS \in Object
        /\ Cardinality(Carriers(arg, PS)) \in Nat
    BY <1>1, CarriersFinite DEF ProcessData, Object
  <1>4. p.others - 1 \in Nat
    BY <1>1, <1>3
  <1>5. /\ r \in ProcessData /\ r.threads = p.threads
        /\ r.active_count = p.active_count
        /\ r.life = p.life /\ r.collected = p.collected
        /\ r.handles = p.handles /\ r.others = p.others - 1
        /\ r.ref_count = p.ref_count
    BY <1>1, <1>4 DEF ProcessData
  <1> HIDE DEF r
  <1>6. p.ref_count[PS] = (IF p.threads # {} THEN 1 ELSE 0) + p.handles[PS]
                          + Cardinality(Carriers(arg, PS)) + p.others
    BY <1>1 DEF Sound, Counted
  <1>7. p.ref_count[PS] >= 1
    BY <1>1, <1>3, <1>6
  <1>8. ASSUME p.ref_count[PS] = 1
        PROVE  /\ p.threads = {} /\ p.active_count = 0
               /\ \A o \in Object : p.handles[o] = 0
    <2>1. p.threads = {} /\ p.handles[PS] = 0
      BY <1>1, <1>3, <1>6, <1>8
    <2> QED
      BY <1>1, <2>1, NothingLeft DEF Object
  <1>9. /\ q \in ProcessData /\ q.threads = r.threads
        /\ q.active_count = r.active_count /\ q.life = r.life
        /\ q.collected = r.collected /\ q.handles = r.handles
        /\ q.others = r.others
        /\ q.ref_count = [r.ref_count EXCEPT ![PS] = @ - 1]
    BY <1>5, <1>7, <1>8, RelaxProcessGives
  <1> HIDE DEF q
  <1>10. /\ q.ref_count[PS] = p.ref_count[PS] - 1
         /\ \A u \in Object \ {PS} : /\ q.ref_count[u] = p.ref_count[u]
                                     /\ q.handles[u] = p.handles[u]
                                     /\ Carriers(arg, u) = Carriers(arg, u)
    BY <1>3, <1>5, <1>9
  <1>11. q.ref_count[PS] - p.ref_count[PS] =
           (q.handles[PS] - p.handles[PS]) + (q.others - p.others)
           + (Cardinality(Carriers(arg, PS)) - Cardinality(Carriers(arg, PS)))
    BY <1>3, <1>5, <1>9, <1>10
  <1>12. /\ Sound(p, arg, gc) /\ q \in ProcessData /\ arg \in Hands
         /\ PS \in Object
         /\ q.threads = p.threads /\ q.active_count = p.active_count
         /\ q.life = p.life /\ q.collected = p.collected
    BY <1>1, <1>3, <1>5, <1>9
  <1>13. Sound(q, arg, gc)
    BY <1>10, <1>11, <1>12, MoveStep
  <1> QED
    BY <1>2, <1>13, OthersMove

\* The gc thread gives back a thread that has further references.
LEMMA ReleaseStep ==
  ASSUME NEW r, NEW a, NEW t \in Thread, Sound(r, a, <<t, "relax">>),
         NEW q \in ProcessData, t \in r.collected,
         q.threads = r.threads, q.active_count = r.active_count,
         q.life = r.life, q.collected = r.collected, q.handles = r.handles,
         q.others = r.others, q.ref_count[t] = r.ref_count[t] - 1,
         q.ref_count[t] # 0, r.ref_count[t] # 0,
         \A u \in Object \ {t} : q.ref_count[u] = r.ref_count[u]
  PROVE  Sound(q, a, <<>>)
  <1> DEFINE g == <<t, "relax">>
  <1>1. /\ \A u \in Thread : (Taken(g, u) <=> u = t) /\ (Left(g, u) <=> u = t)
        /\ \A u \in Thread : ~Taken(<<>>, u) /\ ~Left(<<>>, u)
        /\ <<>> \in Collecting
    BY GcForms DEF Stage, Collecting
  <1>2. Sound(r, a, g)
    OBVIOUS
  <1> HIDE DEF g
  <1>3. \A u \in Thread \ {t} : Belongs(q, <<>>, u) <=> Belongs(r, g, u)
    BY <1>1 DEF Belongs
  <1>4. ~Belongs(q, <<>>, t)
    BY <1>1 DEF Belongs
  <1>5. Belongs(r, g, t)
    BY <1>1, <1>2 DEF Belongs, Sound, Listed
  <1>6. Active(q, <<>>) = Active(r, g)
    BY <1>1, <1>3, <1>4 DEF Active
  <1>7. /\ PS \in Object \ {t} /\ Thread \subseteq Object
        /\ \A u \in Object : r.ref_count[u] \in Nat /\ r.handles[u] \in Nat
        /\ \A u \in Object : Cardinality(Carriers(a, u)) \in Nat
    BY <1>2, ProcessAssumption, CarriersFinite DEF Sound, ProcessData, Object
  <1>8. ASSUME NEW u \in Thread
        PROVE  q.ref_count[u] = (IF Belongs(q, <<>>, u) THEN 1 ELSE 0)
                 + q.handles[u] + Cardinality(Carriers(a, u))
    <2>1. r.ref_count[u] = (IF Belongs(r, g, u) THEN 1 ELSE 0)
            + r.handles[u] + Cardinality(Carriers(a, u))
      BY <1>2 DEF Sound, Counted
    <2>2. u \in Object
      BY <1>7
    <2>3. CASE u = t
      BY <1>4, <1>5, <1>7, <2>1, <2>2, <2>3
    <2>4. CASE u # t
      BY <1>3, <2>1, <2>2, <2>4
    <2> QED
      BY <2>3, <2>4
  <1>9. Counted(q, a, <<>>)
    <2>1. q.ref_count[PS] =
            (IF q.threads # {} THEN 1 ELSE 0) + q.handles[PS]
            + Cardinality(Carriers(a, PS)) + q.others
      BY <1>2, <1>7 DEF Sound, Counted
    <2>2. q.active_count = Cardinality(Active(q, <<>>))
      BY <1>2, <1>6 DEF Sound, Counted
    <2> QED
      BY <1>8, <2>1, <2>2 DEF Counted
  <1>10. Listed(q, <<>>)
    <2>1. /\ \A u \in Thread : u \in q.threads <=> q.ref_count[u] # 0
          /\ \A u \in Thread : q.life[u] = "none" => q.ref_count[u] = 0
          /\ \A u \in q.collected : q.life[u] = "stopped"
      BY <1>2, <1>7 DEF Sound, Listed
    <2> QED
      BY <1>1, <2>1 DEF Listed
  <1> QED
    BY <1>1, <1>2, <1>9, <1>10 DEF Sound

\* gc gives back the thread. The last one of the list gives back the
\* process, which has no handles left if it is deleted.
LEMMA GcRelaxStep ==
  ASSUME Good, GcRelax
  PROVE  Good'
  <1>1. /\ Sound(p, arg, gc) /\ p \in ProcessData /\ arg \in Hands
        /\ gc # <<>> /\ gc[2] = "relax"
    BY DEF GcRelax, Good, Sound
  <1>2. PICK t \in Thread : /\ gc = <<t, "relax">> /\ gc[1] = t
                            /\ Belongs(p, gc, t) /\ t \in p.collected
                            /\ p.life[t] = "stopped" /\ t \in p.threads
    BY <1>1, GcHas
  <1> DEFINE q == Relax(p, t, 1)
  <1>3. p' = q /\ gc' = <<>> /\ UNCHANGED <<at, arg>>
    BY <1>2 DEF GcRelax
  <1>4. /\ p.ref_count \in [Object -> Nat] /\ p.handles \in [Object -> Nat]
        /\ p.others \in Nat /\ t \in Object /\ t # PS /\ PS \in Object
        /\ Cardinality(Carriers(arg, t)) \in Nat
        /\ Cardinality(Carriers(arg, PS)) \in Nat
    BY <1>1, CarriersFinite, ProcessAssumption DEF ProcessData, Object
  <1>5. p.ref_count[t] = 1 + p.handles[t] + Cardinality(Carriers(arg, t))
    BY <1>1, <1>2 DEF Sound, Counted
  <1>6. CASE p.ref_count[t] # 1
    <2>1. p.ref_count[t] >= 2 /\ ~(p.ref_count[t] < 1)
      BY <1>4, <1>5, <1>6
    <2>2. q = [p EXCEPT !.ref_count[t] = @ - 1]
      BY <1>4, <1>6, <2>1 DEF Relax
    <2>3. [p.ref_count EXCEPT ![t] = @ - 1] \in [Object -> Nat]
      BY <1>4, <2>1
    <2> HIDE DEF q
    <2>4. /\ q \in ProcessData /\ q.threads = p.threads
          /\ q.active_count = p.active_count /\ q.life = p.life
          /\ q.collected = p.collected /\ q.handles = p.handles
          /\ q.others = p.others
          /\ q.ref_count = [p.ref_count EXCEPT ![t] = @ - 1]
      BY <1>1, <2>2, <2>3 DEF ProcessData
    <2>5. /\ q.ref_count[t] = p.ref_count[t] - 1
          /\ q.ref_count[t] # 0 /\ p.ref_count[t] # 0
          /\ \A u \in Object \ {t} : q.ref_count[u] = p.ref_count[u]
      BY <1>4, <2>1, <2>4
    <2>6. /\ q \in ProcessData /\ q.threads = p.threads
          /\ q.active_count = p.active_count /\ q.life = p.life
          /\ q.collected = p.collected /\ q.handles = p.handles
          /\ q.others = p.others
      BY <2>4
    <2>7. Sound(p, arg, <<t, "relax">>) /\ t \in p.collected
      BY <1>1, <1>2
    <2>8. Sound(q, arg, <<>>)
      BY <2>5, <2>6, <2>7, ReleaseStep
    <2> QED
      BY <1>3, <2>8, OthersMove DEF q
  <1>7. CASE p.ref_count[t] = 1
    <2>1. p.handles[t] = 0 /\ Cardinality(Carriers(arg, t)) = 0
      BY <1>4, <1>5, <1>7
    <2>2. Carriers(arg, t) = {}
      BY <2>1, CarriersFinite, FS_EmptySet
    <2>3. /\ p.active_count = Cardinality(Active(p, gc))
          /\ p.active_count <= Cardinality(p.threads)
          /\ Cardinality(p.threads) \in Nat
          /\ Active(p, gc) \subseteq p.threads
      BY <1>1, ActiveListed DEF Sound, Counted
    <2>4. Left(gc, t) /\ \A u \in Thread : Left(gc, u) <=> u = t
      BY <1>2, GcForms DEF Stage
    <2>5. ASSUME p.threads = {t}
          PROVE  /\ p.active_count = 0 /\ p.ref_count[PS] >= 1
                 /\ p.ref_count[PS] = 1 => \A u \in Object : p.handles[u] = 0
      <3>1. Active(p, gc) = {}
        BY <2>3, <2>4, <2>5 DEF Active
      <3>2. p.active_count = 0
        BY <2>3, <3>1, FS_EmptySet
      <3>3. p.ref_count[PS] = 1 + p.handles[PS]
                              + Cardinality(Carriers(arg, PS)) + p.others
        BY <1>1, <2>5 DEF Sound, Counted
      <3>4. p.ref_count[PS] >= 1 /\ (p.ref_count[PS] = 1 => p.handles[PS] = 0)
        BY <1>4, <3>3
      <3>5. ASSUME NEW u \in Thread PROVE p.handles[u] = 0
        <4>1. CASE u = t
          BY <2>1, <4>1
        <4>2. CASE u # t
          <5>1. p.ref_count[u] = 0
            BY <1>1, <2>5, <4>2 DEF Sound, Listed
          <5>2. p.ref_count[u] = (IF Belongs(p, gc, u) THEN 1 ELSE 0)
                  + p.handles[u] + Cardinality(Carriers(arg, u))
            BY <1>1 DEF Sound, Counted
          <5>3. p.handles[u] \in Nat /\ Cardinality(Carriers(arg, u)) \in Nat
            BY <1>4, CarriersFinite DEF Object
          <5> QED
            BY <5>1, <5>2, <5>3
        <4> QED
          BY <4>1, <4>2
      <3> QED
        BY <3>2, <3>4, <3>5 DEF Object
    <2>6. /\ q \in ProcessData /\ q.threads = p.threads \ {t}
          /\ q.active_count = p.active_count /\ q.life = p.life
          /\ q.collected = p.collected /\ q.handles = p.handles
          /\ q.others = p.others /\ q.ref_count[t] = 0
          /\ \A u \in Thread \ {t} : q.ref_count[u] = p.ref_count[u]
          /\ q.ref_count[PS] =
               p.ref_count[PS] - (IF p.threads = {t} THEN 1 ELSE 0)
      BY <1>1, <1>2, <1>7, <2>3, <2>5, RelaxErases
    <2> HIDE DEF q
    <2>7. q.ref_count[PS] =
            p.ref_count[PS] - (IF q.threads = {} THEN 1 ELSE 0)
      <3>1. p.threads = {t} <=> q.threads = {}
        BY <1>2, <2>6
      <3> QED
        BY <2>6, <3>1
    <2>8. /\ <<>> \in Collecting
          /\ \A u \in Thread : ~Taken(<<>>, u) /\ ~Left(<<>>, u)
          /\ \A u \in Thread : Taken(gc, u) <=> u = t
      BY <1>2, GcForms DEF Collecting, Stage
    <2>9. /\ ~Belongs(p, <<>>, t)
          /\ \A u \in Thread \ {t} : Belongs(p, <<>>, u) <=> Belongs(p, gc, u)
      BY <1>2, <2>8 DEF Belongs
    <2>10. \A u \in Thread : /\ Belongs(p, <<>>, u) /\ ~Left(<<>>, u)
                                <=> Belongs(p, gc, u) /\ ~Left(gc, u)
                             /\ Taken(<<>>, u) => Taken(gc, u)
      BY <2>4, <2>8, <2>9
    <2>11. Sound(q, arg, <<>>)
      <3>1. /\ q \in ProcessData /\ q.threads = p.threads \ {t}
            /\ q.active_count = p.active_count /\ q.life = p.life
            /\ q.collected = p.collected /\ q.handles = p.handles
            /\ q.others = p.others /\ q.ref_count[t] = 0
            /\ \A u \in Thread \ {t} : q.ref_count[u] = p.ref_count[u]
        BY <2>6
      <3>2. Sound(p, arg, gc) /\ <<>> \in Collecting /\ arg \in Hands
        BY <1>1, <2>8
      <3>3. t \in p.threads /\ p.handles[t] = 0 /\ ~Belongs(p, <<>>, t)
        BY <1>2, <2>1, <2>9
      <3>4. \A u \in Thread \ {t} : Belongs(p, <<>>, u) <=> Belongs(p, gc, u)
        BY <2>9
      <3>5. \A u \in Object \ {t} : Carriers(arg, u) = Carriers(arg, u)
        OBVIOUS
      <3> QED
        BY <2>2, <2>7, <2>10, <3>1, <3>2, <3>3, <3>4, <3>5, EraseStep
    <2> QED
      BY <1>3, <2>11, OthersMove DEF q
  <1> QED
    BY <1>6, <1>7

\* handle_table::clear after the last thread: the threads that it erases
\* have been collected, the one in the hands of gc stays in the list and
\* keeps the process.
LEMMA GcClearStep ==
  ASSUME Good, GcClear
  PROVE  Good'
  <1>1. /\ Sound(p, arg, gc) /\ p \in ProcessData /\ arg \in Hands
        /\ gc # <<>> /\ gc[2] = "clear" /\ p.active_count = 0
    BY DEF GcClear, Good, Sound, Listed
  <1>2. PICK t \in Thread : /\ gc = <<t, "clear">> /\ gc[1] = t
                            /\ Belongs(p, gc, t) /\ t \in p.collected
                            /\ p.life[t] = "stopped" /\ t \in p.threads
    BY <1>1, GcHas
  <1>3. PICK g \in Collecting : g = <<t, "relax">>
    BY GcForms DEF Stage
  <1>4. /\ g # <<>> /\ g[2] = "relax"
        /\ \A u \in Thread : /\ Taken(gc, u) <=> u = t
                             /\ Left(gc, u) <=> u = t
                             /\ Taken(g, u) <=> u = t
                             /\ Left(g, u) <=> u = t
    BY <1>2, <1>3, GcForms DEF Stage
  <1>5. Active(p, gc) = {}
    <2>1. /\ IsFiniteSet(Active(p, gc))
          /\ p.active_count = Cardinality(Active(p, gc))
      BY <1>1, ActiveListed DEF Sound, Counted
    <2> QED
      BY <1>1, <2>1, FS_EmptySet
  <1>6. \A u \in Thread \ {t} : ~Belongs(p, gc, u)
    BY <1>4, <1>5 DEF Active
  <1>7. /\ p.ref_count \in [Object -> Nat] /\ p.handles \in [Object -> Nat]
        /\ p.others \in Nat /\ PS \in Object /\ Thread \subseteq Object
        /\ PS \notin Thread /\ p.threads \subseteq Thread
        /\ \A o \in Object : Cardinality(Carriers(arg, o)) \in Nat
        /\ \A o \in Object : p.ref_count[o] \in Nat /\ p.handles[o] \in Nat
    BY <1>1, CarriersFinite, ProcessAssumption DEF ProcessData, Object
  <1>8. /\ \A u \in Thread : p.ref_count[u] =
             (IF Belongs(p, gc, u) THEN 1 ELSE 0) + p.handles[u]
             + Cardinality(Carriers(arg, u))
        /\ p.ref_count[PS] = 1 + p.handles[PS]
             + Cardinality(Carriers(arg, PS)) + p.others
    BY <1>1, <1>2 DEF Sound, Counted
  <1> DEFINE erased == {u \in Thread : /\ p.handles[u] # 0
                                       /\ p.ref_count[u] = p.handles[u]}
             threads == p.threads \ erased
             refs == [o \in Object |-> p.ref_count[o] - p.handles[o]]
             none == [o \in Object |-> 0]
             q == [p EXCEPT !.ref_count = refs, !.threads = threads,
                            !.handles = none]
  <1>9. \A o \in Object : /\ refs[o] = p.ref_count[o] - p.handles[o]
                          /\ refs[o] \in Nat
    <2>1. ASSUME NEW o \in Object
          PROVE  p.ref_count[o] - p.handles[o] \in Nat
      <3>1. CASE o = PS
        BY <1>7, <1>8, <3>1
      <3>2. CASE o # PS
        <4>1. o \in Thread
          BY <3>2 DEF Object
        <4> QED
          BY <1>7, <1>8, <4>1
      <3> QED
        BY <3>1, <3>2
    <2> QED
      BY <2>1
  <1>10. t \notin erased /\ t \in threads
    <2>1. p.ref_count[t] # p.handles[t]
      BY <1>2, <1>7, <1>8
    <2> QED
      BY <1>2, <2>1
  <1>11. erased \subseteq p.threads /\ \A u \in erased : p.life[u] = "stopped"
    <2>1. ASSUME NEW u \in erased
          PROVE  u \in p.threads /\ p.life[u] = "stopped"
      <3>1. u \in Thread /\ u # t /\ p.ref_count[u] # 0
        BY <1>10
      <3>2. u \in p.threads /\ p.life[u] # "none"
        BY <1>1, <3>1 DEF Sound, Listed
      <3>3. u \in p.collected
        BY <1>6, <3>1, <3>2 DEF Belongs
      <3> QED
        BY <1>1, <3>2, <3>3 DEF Sound, Listed
    <2> QED
      BY <2>1
  <1>12. refs[PS] = 1 + Cardinality(Carriers(arg, PS)) + p.others
    <2>1. /\ refs[PS] = p.ref_count[PS] - p.handles[PS]
          /\ p.handles[PS] \in Nat /\ p.others \in Nat
          /\ Cardinality(Carriers(arg, PS)) \in Nat
      BY <1>7, <1>9
    <2> HIDE DEF refs
    <2> QED
      BY <1>8, <2>1
  <1>13. refs[PS] # 0
    BY <1>7, <1>12
  <1>14. IsFiniteSet(threads) /\ Cardinality(threads) \in Nat
    BY <1>7, ProcessAssumption, FS_Subset, FS_CardinalityType
  <1>15. refs = [o \in Object |-> p.ref_count[o] - p.handles[o]
                   - (IF (erased # {} /\ threads = {}) /\ o = PS
                      THEN 1 ELSE 0)]
    BY <1>7, <1>10
  <1>16. p' = q
    <2>1. ~(\E o \in Object : refs[o] < 0)
      BY <1>9
    <2>2. ~(erased # {} /\ p.active_count >
            Cardinality(threads)
              + (IF erased # {} /\ threads = {} THEN 0 ELSE 1))
      BY <1>1, <1>14
    <2>3. ~(\E u \in erased : p.life[u] # "stopped")
      BY <1>11
    <2>4. Clear(p) = q
      <3> HIDE DEF refs, erased
      <3> QED
        BY <1>11, <1>13, <1>15, <2>1, <2>2, <2>3 DEF Clear, erased
    <2> QED
      BY <2>4 DEF GcClear
  <1>17. refs \in [Object -> Nat] /\ none \in [Object -> Nat]
    BY <1>9
  <1>18. /\ q \in ProcessData /\ q.ref_count = refs /\ q.threads = threads
         /\ q.handles = none /\ q.active_count = p.active_count
         /\ q.life = p.life /\ q.collected = p.collected
         /\ q.others = p.others
    <2>1. threads \in SUBSET Thread
      BY <1>7
    <2> HIDE DEF refs, none, threads
    <2> QED
      BY <1>1, <1>17, <2>1 DEF ProcessData
  <1>19. \A o \in Object : q.handles[o] = 0
    BY <1>18
  <1>20. \A u \in Thread : u \in q.threads <=> q.ref_count[u] # 0
    <2>1. ASSUME NEW u \in Thread
          PROVE  u \in threads <=> refs[u] # 0
      <3>1. u \in p.threads <=> p.ref_count[u] # 0
        BY <1>1 DEF Sound, Listed
      <3>2. /\ refs[u] = p.ref_count[u] - p.handles[u] /\ refs[u] \in Nat
            /\ p.ref_count[u] \in Nat /\ p.handles[u] \in Nat
        BY <1>7, <1>9
      <3>3. u \in erased <=> p.handles[u] # 0 /\ p.ref_count[u] = p.handles[u]
        OBVIOUS
      <3> HIDE DEF refs, erased
      <3> QED
        BY <3>1, <3>2, <3>3
    <2> QED
      BY <1>18, <2>1
  <1>21. /\ q.threads # {}
         /\ \A o \in Object : q.ref_count[o] = p.ref_count[o] - p.handles[o]
    BY <1>9, <1>10, <1>18
  <1> HIDE DEF q, refs, threads, erased, none
  <1>22. \A u \in Thread : Belongs(q, g, u) <=> Belongs(p, gc, u)
    BY <1>4, <1>18 DEF Belongs
  <1>23. Active(q, g) = {}
    BY <1>4, <1>6, <1>22 DEF Active
  <1>24. q.active_count = Cardinality(Active(q, g))
    BY <1>1, <1>18, <1>23, FS_EmptySet
  <1>25. ASSUME NEW u \in Thread
         PROVE  q.ref_count[u] = (IF Belongs(q, g, u) THEN 1 ELSE 0)
                  + q.handles[u] + Cardinality(Carriers(arg, u))
    <2>1. /\ p.ref_count[u] = (IF Belongs(p, gc, u) THEN 1 ELSE 0)
               + p.handles[u] + Cardinality(Carriers(arg, u))
          /\ p.handles[u] \in Nat /\ Cardinality(Carriers(arg, u)) \in Nat
          /\ q.ref_count[u] = p.ref_count[u] - p.handles[u]
          /\ q.handles[u] = 0
      BY <1>7, <1>8, <1>19, <1>21
    <2> QED
      BY <1>22, <2>1
  <1>26. q.ref_count[PS] =
           (IF q.threads # {} THEN 1 ELSE 0) + q.handles[PS]
           + Cardinality(Carriers(arg, PS)) + q.others
    BY <1>7, <1>12, <1>18, <1>19, <1>21
  <1>27. Counted(q, arg, g)
    BY <1>24, <1>25, <1>26 DEF Counted
  <1>28. Listed(q, g)
    <2>1. \A u \in Thread : q.life[u] = "none" => q.ref_count[u] = 0
      <3>1. ASSUME NEW u \in Thread, q.life[u] = "none"
            PROVE  q.ref_count[u] = 0
        <4>1. p.ref_count[u] = 0
          BY <1>1, <1>18, <3>1 DEF Sound, Listed
        <4>2. /\ q.ref_count[u] = p.ref_count[u] - p.handles[u]
              /\ q.ref_count[u] \in Nat /\ p.handles[u] \in Nat
          BY <1>7, <1>9, <1>18
        <4> QED
          BY <4>1, <4>2
      <3> QED
        BY <3>1
    <2>2. /\ \A u \in q.collected : q.life[u] = "stopped"
          /\ \A u \in Thread : Taken(g, u) => u \in q.collected
      BY <1>1, <1>2, <1>4, <1>18 DEF Sound, Listed
    <2> QED
      BY <1>4, <1>20, <2>1, <2>2 DEF Listed
  <1>29. Sound(q, arg, g)
    BY <1>1, <1>18, <1>27, <1>28 DEF Sound
  <1>30. gc' = g /\ UNCHANGED <<at, arg>>
    BY <1>2, <1>3 DEF GcClear
  <1> QED
    BY <1>16, <1>29, <1>30, OthersMove

\* kill_process by another process.
LEMMA KillProcessStep ==
  ASSUME Good, KillProcess
  PROVE  Good'
  <1>1. Sound(KillAll(p, NULL), arg, gc)
    BY KillAllSound DEF Good
  <1>2. p' = KillAll(p, NULL) /\ gc' = gc /\ UNCHANGED <<at, arg>>
    BY DEF KillProcess
  <1> QED
    BY <1>1, <1>2, OthersMove

\* process_manager::spawn makes a sound process.
LEMMA InitGood ==
  ASSUME Init
  PROVE  Good
  <1>1. /\ Initial \subseteq Thread /\ Main \in Initial /\ PS \notin Thread
        /\ NULL \notin Object /\ IsFiniteSet(Initial)
        /\ Thread \subseteq Object /\ PS \in Object
    BY ProcessAssumption, FS_Subset DEF Object
  <1>2. Cardinality(Initial) \in Nat
    BY <1>1, FS_CardinalityType
  <1>3. /\ p.state = "RUNNING" /\ p.exists = TRUE /\ p.halt = "no"
        /\ p.threads = Initial /\ p.active_count = Cardinality(Initial)
        /\ p.ref_count = [o \in Object |->
                            CASE o = Main -> 1
                              [] o \in {PS} \cup (Initial \ {Main}) -> 2
                              [] OTHER -> 0]
        /\ p.handles =
             [o \in Object |-> IF o \in Initial \ {Main} THEN 1 ELSE 0]
        /\ p.others = 1 /\ p.collected = {}
        /\ p.life = [t \in Thread |-> IF t \in Initial THEN "live" ELSE "none"]
        /\ at = [t \in Thread |-> "user"] /\ arg = [t \in Thread |-> NULL]
        /\ gc = <<>>
    BY DEF Init
  <1>4. p \in ProcessData
    <2>1. p.ref_count \in [Object -> Nat]
      <3>1. \A o \in Object : p.ref_count[o] \in {0, 1, 2}
        BY <1>1, <1>3
      <3> QED
        BY <1>3, <3>1
    <2>2. p.handles \in [Object -> Nat] /\ p.life \in [Thread -> Life]
      BY <1>3 DEF Life
    <2> QED
      BY <1>1, <1>2, <1>3, <2>1, <2>2 DEF Init, ProcessData
  <1>5. arg \in Hands /\ gc \in Collecting
    BY <1>3 DEF Hands, Collecting
  <1>6. \A o \in Object : Carriers(arg, o) = {}
    BY <1>1, <1>3 DEF Carriers
  <1>7. \A u \in Thread : ~Taken(gc, u) /\ ~Left(gc, u)
    BY <1>3, GcForms
  <1>8. \A u \in Thread : Belongs(p, gc, u) <=> u \in Initial
    BY <1>3 DEF Belongs
  <1>9. Active(p, gc) = Initial
    BY <1>1, <1>7, <1>8 DEF Active
  <1>10. \A o \in Object : Cardinality(Carriers(arg, o)) = 0
    BY <1>6, FS_EmptySet
  <1>11. /\ p.ref_count[PS] = 2 /\ p.handles[PS] = 0
         /\ p.ref_count[Main] = 1 /\ p.handles[Main] = 0
         /\ \A u \in Initial \ {Main} : p.ref_count[u] = 2 /\ p.handles[u] = 1
         /\ \A u \in Thread \ Initial : p.ref_count[u] = 0 /\ p.handles[u] = 0
    <2>1. PS # Main /\ PS \notin Initial
      BY <1>1
    <2> QED
      BY <1>1, <1>3, <2>1
  <1>12. Counted(p, arg, gc)
    <2>1. p.ref_count[PS] = (IF p.threads # {} THEN 1 ELSE 0) + p.handles[PS]
                            + Cardinality(Carriers(arg, PS)) + p.others
      BY <1>1, <1>3, <1>10, <1>11
    <2>2. ASSUME NEW u \in Thread
          PROVE  p.ref_count[u] = (IF Belongs(p, gc, u) THEN 1 ELSE 0)
                   + p.handles[u] + Cardinality(Carriers(arg, u))
      BY <1>1, <1>8, <1>10, <1>11
    <2> QED
      BY <1>3, <1>9, <2>1, <2>2 DEF Counted
  <1>13. Listed(p, gc)
    BY <1>1, <1>3, <1>7, <1>11 DEF Listed
  <1>14. Placed
    BY <1>3 DEF Placed, Place
  <1> QED
    BY <1>3, <1>4, <1>5, <1>12, <1>13, <1>14 DEF Good, Sound

\* Every step keeps the invariant, or is the one that met the null pointer.
LEMMA NextGood ==
  ASSUME Good, Next
  PROVE  Good' \/ p'.halt = "null thread"
  <1>1. ASSUME NEW t \in Thread, Enter(t) \/ InKernel(t)
        PROVE  Good' \/ p'.halt = "null thread"
    <2>1. CASE SpawnCheck(t)
      BY <2>1, SpawnCheckStep
    <2>2. CASE Put(t)
      BY <2>2, PutStep
    <2>3. CASE RelaxObject(t)
      BY <2>3, RelaxObjectStep
    <2>4. ASSUME NEW o \in Object, Acquire(t, o) \/ Close(t, o)
          PROVE  Good'
      BY <2>4, AcquireStep, CloseStep
    <2>5. ASSUME NEW u \in Thread, Spawn(t, u) PROVE Good'
      BY <2>5, SpawnStep
    <2>6. CASE \/ Enter(t) \/ Leave(t) \/ Get(t) \/ BadHandle(t)
               \/ ExitThread(t) \/ ExitProcess(t) \/ ExitAll(t) \/ Exit(t)
      <3>1. t \in Object
        BY DEF Object
      <3> QED
        BY <2>6, <3>1, QuietCalls
    <2>7. ASSUME NEW o \in Object, KillSelf(t, o) PROVE Good'
      BY <2>7, QuietCalls
    <2>8. ASSUME NEW u \in Thread, KillThread(t, u) PROVE Good'
      <3>1. t \in Object
        BY DEF Object
      <3> QED
        BY <2>8, <3>1, QuietCalls
    <2> QED
      BY <1>1, <2>1, <2>2, <2>3, <2>4, <2>5, <2>6, <2>7, <2>8 DEF InKernel
  <1>2. CASE Collector
    BY <1>2, GcTakeStep, GcExitStep, GcClearStep, GcRelaxStep DEF Collector
  <1> QED
    BY <1>1, <1>2, OpenStep, CloseProcessStep, KillProcessStep DEF Next

\* Nothing happens after a bugcheck.
LEMMA HaltStops ==
  ASSUME p.halt = "null thread", Next
  PROVE  FALSE
  <1>1. p.halt # "no"
    OBVIOUS
  <1> QED
    BY <1>1 DEF Next, InKernel, Collector, Enter, Leave, SpawnCheck, Put,
       RelaxObject, Get, BadHandle, ExitThread, ExitProcess, ExitAll, Exit,
       Acquire, Close, KillSelf, Spawn, KillThread, GcTake, GcExit, GcClear,
       GcRelax, OpenProcess, CloseProcess, KillProcess, Running

\* What the invariant says of the references is what the property says.
LEMMA GoodIsSound ==
  ASSUME Good
  PROVE  TeardownSound
  <1>1. \A t \in Thread : Attached(t) <=> Belongs(p, gc, t)
    BY DEF Attached, Belongs, Taken
  <1>2. \A o \in Object : InHand(o) = Cardinality(Carriers(arg, o))
    BY DEF InHand, Carriers
  <1>3. Active(p, gc) = {t \in Thread :
           Attached(t) /\ gc \notin {<<t, "clear">>, <<t, "relax">>}}
    BY <1>1 DEF Active, Left
  <1>4. \A t \in Thread : p.ref_count[t] =
          (IF Attached(t) THEN 1 ELSE 0) + p.handles[t] + InHand(t)
    BY <1>1, <1>2 DEF Good, Sound, Counted, Object
  <1>5. p.ref_count[PS] = (IF p.threads # {} THEN 1 ELSE 0) + p.handles[PS]
                          + InHand(PS) + p.others
    BY <1>2 DEF Good, Sound, Counted, Object
  <1>6. p.active_count =
         Cardinality({t \in Thread :
           Attached(t) /\ gc \notin {<<t, "clear">>, <<t, "relax">>}})
    BY <1>3 DEF Good, Sound, Counted
  <1>7. RefsExact
    BY <1>4, <1>5, <1>6 DEF RefsExact
  <1> QED
    BY <1>7 DEF TeardownSound, LifecycleSound, Good

(* Every reference to a process and its threads has its holder, and every  *)
(* holder its reference; active_count is the number of threads that gc has *)
(* not seen off; and no assertion and no bugcheck of process, thread and   *)
(* handle table is met but the null pointer of create_thread. For any      *)
(* finite set of threads, any of the calls, any number of handles and any  *)
(* order of the threads, of killers from outside and of gc.                *)
THEOREM TeardownIsSound == Spec => []TeardownSound
  <1>1. Init => IInv
    BY InitGood DEF IInv, Good
  <1>2. IInv /\ [Next]_vars => IInv'
    <2> SUFFICES ASSUME IInv, [Next]_vars PROVE IInv'
      OBVIOUS
    <2>1. CASE Good /\ Next
      BY <2>1, NextGood DEF IInv, Good
    <2>2. CASE p.halt = "null thread" /\ Next
      BY <2>2, HaltStops
    <2>3. CASE UNCHANGED vars
      <3>1. p' = p /\ at' = at /\ arg' = arg /\ gc' = gc
        BY <2>3 DEF vars
      <3>2. CASE Good
        BY <3>1, <3>2, OthersMove DEF IInv, Good
      <3>3. CASE p.halt = "null thread"
        BY <3>1, <3>3 DEF IInv
      <3> QED
        BY <3>2, <3>3 DEF IInv, Good
    <2> QED
      BY <2>1, <2>2, <2>3 DEF IInv, Good
  <1>3. IInv => TeardownSound
    <2>1. ASSUME p.halt = "null thread" PROVE TeardownSound
      BY <2>1 DEF TeardownSound, RefsExact, LifecycleSound
    <2> QED
      BY <2>1, GoodIsSound DEF IInv, Good
  <1> QED
    BY <1>1, <1>2, <1>3, PTL DEF Spec
====
