------------------------------ MODULE Process ------------------------------
(***************************************************************************)
(* The life of a process (kernel/process/process.cpp) and of its threads,  *)
(* from process_manager::spawn to the destructor: who holds references,    *)
(* how process::kill and the service calls of its own threads interleave,  *)
(* and what the gc thread does with threads that have stopped.             *)
(*                                                                         *)
(* One process and its handle table are modelled; "others" is the number   *)
(* of handles that other processes have on it.  An IF-off section is one   *)
(* action.  The way of a stopped thread to the gc thread is the subject of *)
(* ThreadCore; here gc may take it as soon as it has stopped.              *)
(***************************************************************************)
EXTENDS Integers, FiniteSets, Functions

CONSTANTS
  Thread,       \* the threads that the process can have
  Main,         \* its first thread, made by the constructor
  Initial,      \* the threads at the start; Main has made the others
  PS,           \* the process as an object
  NULL,
  Calls,        \* the service calls that this instance issues
  Limit,        \* bound: handles of the process
  MaxOthers     \* bound: handles that others have on it

Object == Thread \cup {PS}
AllCalls == {"create_thread", "get_thread", "get_process", "close_handle",
             "kill_thread", "kill_self", "exit_thread", "exit_process"}

ASSUME ProcessAssumption ==
  /\ IsFiniteSet(Thread) /\ Main \in Initial /\ Initial \subseteq Thread
  /\ PS \notin Thread /\ NULL \notin Object
  /\ Calls \subseteq AllCalls
  /\ Limit \in Nat /\ MaxOthers \in Nat \ {0}

VARIABLES
  p,      \* the data of the process, its threads and handles
  at,     \* where each thread is between two IF-off sections
  arg,    \* the object that a thread has acquired, or is about to relax
  gc      \* the thread that gc collects and where it is in on_gc

vars == <<p, at, arg, gc>>

Bugcheck(r, why) == IF r.halt = "no" THEN [r EXCEPT !.halt = why] ELSE r

(***************************************************************************)
(* References.                                                             *)
(***************************************************************************)
\* process_manager::erase and the destructors of process and handle_table
Delete(r) ==
  CASE r.threads # {} \/ r.active_count # 0 ->
         Bugcheck(r, "deleting non-stop process")
    [] \E o \in Object : r.handles[o] # 0 ->
         Bugcheck(r, "deleting non-empty handle_table")
    [] OTHER -> [r EXCEPT !.exists = FALSE]

\* process::relax, n times
RelaxProcess(r, n) ==
  CASE r.ref_count[PS] < n -> Bugcheck(r, "relaxing without reference")
    [] r.ref_count[PS] = n -> Delete([r EXCEPT !.ref_count[PS] = 0])
    [] OTHER -> [r EXCEPT !.ref_count[PS] = @ - n]

\* Faulty: every thread that is erased gives back the process.
EraseRelaxes(r, t) == RelaxProcess([r EXCEPT !.threads = @ \ {t}], 1)

\* Faulty: the last thread does not give back the process.
EraseKeepsProcess(r, t) == [r EXCEPT !.threads = @ \ {t}]

\* process::erase of a thread without references, and its destructor
Erase(r, t) ==
  LET r1 == [r EXCEPT !.threads = @ \ {t}] IN
  CASE r.active_count > Cardinality(r.threads) -> Bugcheck(r, "assert")
    [] t \notin r.threads -> Bugcheck(r, "cannot find thread")
    [] r.life[t] # "stopped" -> Bugcheck(r, "deleting non-stop thread")
    [] OTHER -> IF r1.threads # {} THEN r1
                ELSE IF r1.active_count # 0 THEN Bugcheck(r1, "assert")
                ELSE RelaxProcess(r1, 1)

\* thread::relax or process::relax, n times; n may be zero
Relax(r, o, n) ==
  CASE n = 0 -> r
    [] n # 0 /\ o = PS -> RelaxProcess(r, n)
    [] n # 0 /\ o # PS /\ r.ref_count[o] < n ->
         Bugcheck(r, "relaxing without reference")
    [] n # 0 /\ o # PS /\ r.ref_count[o] = n ->
         Erase([r EXCEPT !.ref_count[o] = 0], o)
    [] OTHER -> [r EXCEPT !.ref_count[o] = @ - n]

\* handle_table::clear: every object is relaxed once for each of its handles,
\* before the entry is emptied.  erased are the threads that lose their last
\* reference; after the last of all threads the process loses one, too.
Clear(r) ==
  LET erased == {t \in Thread : /\ r.handles[t] # 0
                                /\ r.ref_count[t] = r.handles[t]}
      threads == r.threads \ erased
      last == erased # {} /\ threads = {}
      refs == [o \in Object |-> r.ref_count[o] - r.handles[o]
                                 - (IF last /\ o = PS THEN 1 ELSE 0)]
  IN CASE \E o \in Object : refs[o] < 0 ->
            Bugcheck(r, "relaxing without reference")
       [] ~(erased \subseteq r.threads) -> Bugcheck(r, "cannot find thread")
       [] \E t \in erased : r.life[t] # "stopped" ->
            Bugcheck(r, "deleting non-stop thread")
       [] erased # {} /\ r.active_count >
            Cardinality(threads) + (IF last THEN 0 ELSE 1) ->
            Bugcheck(r, "assert")
       [] refs[PS] = 0 /\ r.ref_count[PS] # 0 ->
            Bugcheck(r, "deleting non-empty handle_table")
       [] OTHER -> [r EXCEPT !.ref_count = refs, !.threads = threads,
                             !.handles = [o \in Object |-> 0]]

\* thread::kill of the threads in S, none of them the running one
Killed(r, S) ==
  [r EXCEPT
     !.kill = @ \cup (S \cap r.critical),
     !.life = [t \in Thread |->
                 IF t \in S \ r.critical /\ @[t] = "live" THEN "stopped"
                 ELSE @[t]]]

\* process::kill up to the kill of the running thread
KillAll(r, self) == Killed([r EXCEPT !.state = "STOPPED"], r.threads \ {self})

\* Faulty: a kill that came during the critical section is forgotten.
DroppedForgets(r, t) == [r EXCEPT !.critical = @ \ {t}]

\* thread::drop
Dropped(r, t) ==
  [r EXCEPT !.critical = @ \ {t},
            !.life[t] = IF t \in r.kill THEN "stopped" ELSE @]

(***************************************************************************)
(* Sections of the threads of the process.  hold is the set of threads     *)
(* that hold the handle table SHARED; put, close and clear lock it         *)
(* EXCLUSIVE.                                                              *)
(***************************************************************************)
Running(t, place) == p.halt = "no" /\ p.life[t] = "live" /\ at[t] = place

Exec(t, r, place, o) ==
  /\ p' = r
  /\ at' = [at EXCEPT ![t] = place]
  /\ arg' = [arg EXCEPT ![t] = o]
  /\ UNCHANGED gc

\* service_provider::service_provider
Enter(t) ==
  /\ Running(t, "user")
  /\ Exec(t, [p EXCEPT !.critical = @ \cup {t}], "service", NULL)

\* service_provider::~service_provider
Leave(t) ==
  /\ Running(t, "leave")
  /\ Exec(t, Dropped([p EXCEPT !.hold = @ \ {t}], t), "user", NULL)

\* get_thread, get_process: acquire, and put in a section of its own
Acquire(t, o) ==
  /\ \/ o = t /\ "get_thread" \in Calls
     \/ o = PS /\ "get_process" \in Calls
  /\ Running(t, "service")
  /\ Exec(t, [p EXCEPT !.ref_count[o] = @ + 1], "put", o)

\* process::spawn looks at the state before it takes the objlock.  The
\* caller does not expect a null pointer.
SpawnCheck(t) ==
  /\ "create_thread" \in Calls
  /\ Running(t, "service")
  /\ Exec(t, IF p.state = "STOPPED" THEN Bugcheck(p, "null thread") ELSE p,
          "spawn", NULL)

Spawn(t, u) ==
  /\ Running(t, "spawn")
  /\ p.life[u] = "none"
  /\ Exec(t, [p EXCEPT !.life[u] = "live", !.ref_count[u] = 2,
                       !.threads = @ \cup {u},
                       !.active_count = @ + 1], "put", u)

\* Faulty: the reference is kept when the table is full.
PutLeaks(t) ==
  /\ Running(t, "put")
  /\ p.hold = {}
  /\ IF FoldFunction(+, 0, p.handles) < Limit
     THEN Exec(t, [p EXCEPT !.handles[arg[t]] = @ + 1], "leave", NULL)
     ELSE Exec(t, p, "leave", NULL)

\* handles.put; the reference is given back when the table is full
Put(t) ==
  /\ Running(t, "put")
  /\ p.hold = {}
  /\ IF FoldFunction(+, 0, p.handles) < Limit
     THEN Exec(t, [p EXCEPT !.handles[arg[t]] = @ + 1], "leave", NULL)
     ELSE Exec(t, p, "relax", arg[t])

\* close_handle takes the object out of the table, and relaxes it later
Close(t, o) ==
  /\ "close_handle" \in Calls
  /\ Running(t, "service")
  /\ p.hold = {} /\ p.handles[o] # 0
  /\ Exec(t, [p EXCEPT !.handles[o] = @ - 1], "relax", o)

\* Faulty: the object is relaxed by close() and once more.
RelaxTwice(t) ==
  /\ Running(t, "relax")
  /\ Exec(t, [p EXCEPT !.ref_count[arg[t]] = @ - 2], "leave", NULL)

RelaxObject(t) ==
  /\ Running(t, "relax")
  /\ Exec(t, Relax(p, arg[t], 1), "leave", NULL)

\* service_provider::get of kill_thread and kill_process
Get(t) ==
  /\ Calls \cap {"kill_thread", "kill_self"} # {}
  /\ Running(t, "service")
  /\ Exec(t, [p EXCEPT !.hold = @ \cup {t}], "got", NULL)

KillThread(t, u) ==
  /\ Running(t, "got")
  /\ "kill_thread" \in Calls
  /\ u # t /\ p.handles[u] # 0
  /\ Exec(t, Killed(p, {u}), "leave", NULL)

BadHandle(t) == Running(t, "got") /\ Exec(t, p, "leave", NULL)

\* kill_thread and kill_process on the caller itself continue in exit_thread
\* and exit_process.  The handle table stays locked.
KillSelf(t, o) ==
  /\ Running(t, "got")
  /\ "kill_self" \in Calls
  /\ o \in {t, PS} /\ p.handles[o] # 0
  /\ Exec(t, Dropped(p, t), IF o = PS THEN "exit_process" ELSE "exit", NULL)

ExitThread(t) ==
  /\ "exit_thread" \in Calls
  /\ Running(t, "service")
  /\ Exec(t, Dropped(p, t), "exit", NULL)

ExitProcess(t) ==
  /\ "exit_process" \in Calls
  /\ Running(t, "service")
  /\ Exec(t, Dropped(p, t), "exit_process", NULL)

\* process::kill by a thread of the process: the others, then itself
ExitAll(t) ==
  /\ Running(t, "exit_process")
  /\ Exec(t, KillAll(p, t), "exit", NULL)

\* thread::kill(this_thread)
Exit(t) ==
  /\ Running(t, "exit")
  /\ Exec(t, [p EXCEPT !.life[t] = "stopped"], "exit", NULL)

(***************************************************************************)
(* The gc thread: thread::on_gc                                            *)
(***************************************************************************)
GcTake(t) ==
  /\ p.halt = "no" /\ gc = <<>>
  /\ p.life[t] = "stopped" /\ t \notin p.collected
  /\ gc' = <<t, "on_exit">>
  /\ p' = [p EXCEPT !.collected = @ \cup {t}]
  /\ UNCHANGED <<at, arg>>

\* Faulty: the last thread is missed, the handles are not cleared.
GcExitMissesLast ==
  /\ p.halt = "no" /\ gc # <<>> /\ gc[2] = "on_exit"
  /\ p' = [p EXCEPT !.active_count = @ - 1]
  /\ gc' = <<gc[1], IF p.active_count = 0 THEN "clear" ELSE "relax">>
  /\ UNCHANGED <<at, arg>>

\* process::on_exit; the last thread stops the process
GcExit ==
  LET last == p.active_count = 1 IN
  /\ p.halt = "no" /\ gc # <<>> /\ gc[2] = "on_exit"
  /\ p' = IF p.active_count \notin 1..Cardinality(p.threads)
          THEN Bugcheck(p, "assert")
          ELSE [p EXCEPT !.active_count = @ - 1,
                         !.state = IF last THEN "STOPPED" ELSE @]
  /\ gc' = <<gc[1], IF last THEN "clear" ELSE "relax">>
  /\ UNCHANGED <<at, arg>>

GcClear ==
  /\ p.halt = "no" /\ gc # <<>> /\ gc[2] = "clear"
  /\ p.hold = {}
  /\ p' = Clear(p)
  /\ gc' = <<gc[1], "relax">>
  /\ UNCHANGED <<at, arg>>

GcRelax ==
  /\ p.halt = "no" /\ gc # <<>> /\ gc[2] = "relax"
  /\ p' = Relax(p, gc[1], 1)
  /\ gc' = <<>>
  /\ UNCHANGED <<at, arg>>

(***************************************************************************)
(* Other processes                                                         *)
(***************************************************************************)
\* open_process: process_manager::find acquires under the lock of the table
OpenProcess ==
  /\ p.halt = "no" /\ p.exists /\ p.others < MaxOthers
  /\ p.ref_count[PS] # 0
  /\ p' = [p EXCEPT !.others = @ + 1, !.ref_count[PS] = @ + 1]
  /\ UNCHANGED <<at, arg, gc>>

CloseProcess ==
  /\ p.halt = "no" /\ p.others # 0
  /\ p' = Relax([p EXCEPT !.others = @ - 1], PS, 1)
  /\ UNCHANGED <<at, arg, gc>>

KillProcess ==
  /\ p.halt = "no" /\ p.others # 0
  /\ p' = KillAll(p, NULL)
  /\ UNCHANGED <<at, arg, gc>>

\* process_manager::spawn: one reference for the creator, one for the threads
Init ==
  /\ p = [state |-> "RUNNING", exists |-> TRUE, halt |-> "no",
          threads |-> Initial, active_count |-> Cardinality(Initial),
          ref_count |-> [o \in Object |->
                           CASE o = Main -> 1
                             [] o \in {PS} \cup (Initial \ {Main}) -> 2
                             [] OTHER -> 0],
          handles |-> [o \in Object |-> IF o \in Initial \ {Main} THEN 1 ELSE 0],
          others |-> 1,
          life |-> [t \in Thread |-> IF t \in Initial THEN "live" ELSE "none"],
          critical |-> {}, kill |-> {}, hold |-> {}, collected |-> {}]
  /\ at = [t \in Thread |-> "user"]
  /\ arg = [t \in Thread |-> NULL]
  /\ gc = <<>>

InKernel(t) ==
  \/ Leave(t) \/ SpawnCheck(t) \/ Put(t) \/ RelaxObject(t) \/ Get(t)
  \/ BadHandle(t) \/ ExitThread(t) \/ ExitProcess(t) \/ ExitAll(t) \/ Exit(t)
  \/ \E o \in Object : Acquire(t, o) \/ Close(t, o) \/ KillSelf(t, o)
  \/ \E u \in Thread : Spawn(t, u) \/ KillThread(t, u)

Collector == (\E t \in Thread : GcTake(t)) \/ GcExit \/ GcClear \/ GcRelax

Next ==
  \/ \E t \in Thread : Enter(t) \/ InKernel(t)
  \/ Collector
  \/ OpenProcess \/ CloseProcess \/ KillProcess

Spec == Init /\ [][Next]_vars

(* A thread in the kernel and the gc thread get the core again and again   *)
(* (ThreadCore); a thread in user mode need not call any service.          *)
FairSpec ==
  /\ Spec
  /\ WF_vars(Collector)
  /\ \A t \in Thread : WF_vars(InKernel(t))

(***************************************************************************)
(* Properties                                                              *)
(***************************************************************************)
\* The counters never go below zero.
TypeOK ==
  /\ p.state \in {"RUNNING", "STOPPED"} /\ p.exists \in BOOLEAN
  /\ p.threads \subseteq Thread /\ p.hold \subseteq Thread
  /\ p.active_count \in Nat /\ p.others \in Nat
  /\ p.ref_count \in [Object -> Nat] /\ p.handles \in [Object -> Nat]
  /\ p.life \in [Thread -> {"none", "live", "stopped"}]
  /\ arg \in [Thread -> Object \cup {NULL}]

\* references that threads hold between two sections
InHand(o) == Cardinality({t \in Thread : arg[t] = o})

\* gc has not yet relaxed the thread: the reference of manage() is there
Attached(t) ==
  p.life[t] # "none" /\ (t \in p.collected => gc # <<>> /\ gc[1] = t)

(* Every reference has a holder and every holder a reference, whatever is  *)
(* opened, closed, spawned and killed: handles in the table, references    *)
(* in the hands of a service call, and the one that an object keeps on     *)
(* itself until its last thread is collected.  active_count is the number  *)
(* of threads that gc has not seen off, so that the handles are cleared    *)
(* after the last one, and once.                                           *)
RefsExact ==
  p.halt = "no" =>
    /\ \A t \in Thread :
         p.ref_count[t] = (IF Attached(t) THEN 1 ELSE 0) + p.handles[t] + InHand(t)
    /\ p.ref_count[PS] = (IF p.threads # {} THEN 1 ELSE 0) + p.handles[PS]
                         + InHand(PS) + p.others
    /\ p.active_count =
         Cardinality({t \in Thread :
           Attached(t) /\ gc \notin {<<t, "clear">>, <<t, "relax">>}})

(* No assertion and no bugcheck of process, thread and handle table is     *)
(* ever met, apart from the null pointer in create_thread (see README).    *)
LifecycleSound == p.halt \in {"no", "null thread"}

(* Creation and teardown are sound: every reference has its holder, and no *)
(* assertion is met, however the calls of the threads, a killer from       *)
(* outside and the gc thread interleave.                                   *)
TeardownSound == RefsExact /\ LifecycleSound

(* kill_process and exit_process end the process: all its threads leave.   *)
KilledProcessEnds ==
  p.state = "STOPPED" ~> p.active_count = 0 \/ p.halt # "no"

(* All resources are released when the last thread has gone.               *)
ResourcesReleased ==
  p.active_count = 0 ~> (\A o \in Object : p.handles[o] = 0) \/ p.halt # "no"

(* A process that has ended is deleted unless somebody has a handle on it. *)
EndedIsDeleted ==
  p.active_count = 0 ~> ~p.exists \/ p.others # 0 \/ p.halt # "no"
=============================================================================
