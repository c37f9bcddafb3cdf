------------------------------ MODULE Services ------------------------------
(***************************************************************************)
(* kernel/interface/service.cpp: the service calls of the threads of one   *)
(* process, as the sequence of places where a call locks, waits or uses an *)
(* object that it found through a handle.  The steps between two of them   *)
(* are private to the thread.  What a call answers is left out, but not    *)
(* that it may answer early: check, get, and the calls into the file       *)
(* system and the address space can fail, and then the call returns.       *)
(*                                                                         *)
(* Four locks are shared: handle_table::objlock and user_vspace::objlock,  *)
(* which a call takes SHARED in get and check and keeps until the          *)
(* destructor of the service_provider; the rwlock of a file_instance; and  *)
(* the spin lock process::objlock.  A worker of the file system takes the  *)
(* instance and then the address space of its client.                      *)
(*                                                                         *)
(* The calls of a thread about itself (exit, kill_thread and kill_process  *)
(* on the caller) are the subject of Process.  named_obj is empty, as      *)
(* nothing calls object_manager::put.                                      *)
(***************************************************************************)
EXTENDS Naturals, FiniteSets, Sequences

CONSTANTS
  Clients,    \* the threads of the process
  Semaphores, Events, \* the objects that the handles of the process may name
  MaxObjects, \* bound: the objects that exist at a time
  NULL

VARIABLES
  rest,       \* the steps that a thread has before it
  held,       \* the locks that it holds, with their modes
  using,      \* the object that it found through a handle
  handles,    \* the objects that have a handle
  alive       \* the objects that exist

vars == <<rest, held, using, handles, alive>>

Worker == "worker"
Actor == Clients \cup {Worker}
Object == Semaphores \cup Events

(***************************************************************************)
(* The service calls.                                                      *)
(***************************************************************************)
osctl == {<<"leave">>, <<"check", "leave">>}
os_info == {<<"check", "leave">>}
display_draw == {<<"check", "leave">>}
get_thread == {<<"put", "leave">>}
thread_id == {<<"get", "leave">>}
get_priority == {<<"get", "leave">>}
kill_thread == {<<"get", "leave">>}
set_priority == {<<"get", "leave">>}
create_thread == {<<"change", "commit", "spin", "put", "leave">>}
wait_for == {<<"get", "leave">>, <<"get", "wait">>, <<"get", "spin", "wait">>}
signal == {<<"get", "signal", "leave">>}
get_process == {<<"put", "leave">>}
process_id == {<<"get", "leave">>}
process_info == {<<"get", "check", "leave">>}
get_command == {<<"get", "check", "leave">>}
kill_process == {<<"get", "spin", "leave">>}
process_result == {<<"get", "leave">>}
open_process == {<<"put", "leave">>}
handle_type == {<<"get", "leave">>}
open_handle == {<<"check", "leave">>}
close_handle == {<<"close", "relax", "leave">>}
create_object == {<<"create", "expose", "leave">>, <<"create", "relax", "leave">>}
vm_protect == {<<"change", "leave">>}
vm_reserve == {<<"change", "leave">>}
vm_commit == {<<"change", "leave">>}
vm_release == {<<"change", "leave">>}
stream_state == {<<"get", "leave">>}
stream_read == {<<"get", "check", "leave">>}
stream_write == {<<"get", "check", "leave">>}
file_tell == {<<"get", "check", "size", "leave">>}
file_seek == {<<"get", "leave">>}
file_path == {<<"check", "get", "size", "leave">>}

\* process::get_work_dir: acquire, which may wait for the rwlock of the
\* folder, is called with the spin lock held
GetWorkDir == <<"enter", "open", "exit">>

get_work_dir == {<<"check">> \o GetWorkDir \o <<"size", "open", "leave">>}

\* process::set_work_dir opens the folder, and gives back the old one, with
\* the spin lock held
set_work_dir == {<<"check", "enter", "open", "open", "exit", "leave">>}

\* the way to a file starts at the root or at the working folder
Opening == {<<"open">>, GetWorkDir \o <<"open">>}

file_open == {<<"check">> \o o \o <<"put", "leave">> : o \in Opening}

\* process_manager::spawn opens the image, has its first sector read, and
\* finds the working folder of the new process
Spawned == {o \o <<"load">> \o w \o <<"size">> :
              o \in Opening, w \in {GetWorkDir, <<"open">>}}

\* Faulty: the handle table is still locked when put is called.
create_process_locked ==
  {<<"check">> \o s \o <<"put", "leave">> : s \in Spawned}
    \cup {<<"check", "get">> \o s \o <<"put", "leave">> : s \in Spawned}

\* the standard streams are looked up in the handle table
create_process ==
  {<<"check">> \o s \o <<"unlock", "put", "leave">> : s \in Spawned}
    \cup {<<"check", "get">> \o s \o <<"unlock", "put", "leave">> :
            s \in Spawned}

Calls ==
  osctl \cup os_info \cup display_draw \cup get_thread \cup thread_id
    \cup get_priority \cup kill_thread \cup set_priority \cup create_thread
    \cup wait_for \cup signal \cup get_process \cup process_id
    \cup process_info \cup get_command \cup kill_process
    \cup process_result \cup create_process \cup open_process
    \cup get_work_dir \cup set_work_dir \cup handle_type \cup open_handle
    \cup close_handle \cup create_object \cup vm_protect \cup vm_reserve
    \cup vm_commit \cup vm_release \cup stream_state \cup stream_read
    \cup stream_write \cup file_open \cup file_tell \cup file_seek
    \cup file_path

\* exfat::worker_read, worker_list and worker_write
Requests == {<<"share", "transfer", "leave">>, <<"modify", "transfer", "leave">>}

(***************************************************************************)
(* What a step locks: SHARED or EXCLUSIVE, for the step alone, or until it *)
(* is given back.                                                          *)
(***************************************************************************)
Lock(step) ==
  CASE step \in {"check", "transfer"} -> <<"vspace", "SHARED">>
    [] step \in {"change", "commit"} -> <<"vspace", "EXCLUSIVE">>
    [] step = "get" -> <<"handles", "SHARED">>
    [] step \in {"put", "expose", "close"} -> <<"handles", "EXCLUSIVE">>
    [] step \in {"size", "share"} -> <<"instance", "SHARED">>
    [] step \in {"open", "modify"} -> <<"instance", "EXCLUSIVE">>
    [] step \in {"enter", "spin"} -> <<"process", "EXCLUSIVE">>
    [] OTHER -> NULL

\* Faulty: get unlocks the table before it returns.
KeptNotGet == {"check", "share", "modify", "enter"}

Kept == {"check", "get", "share", "modify", "enter"}

\* the locks that t still has after its next step
Keeps(t) ==
  LET step == Head(rest[t]) IN
  CASE step \in Kept -> held[t] \cup {Lock(step)}
    [] step = "exit" -> held[t] \ {<<"process", "EXCLUSIVE">>}
    [] step \in {"unlock", "wait"} -> held[t] \ {<<"handles", "SHARED">>}
    [] step = "leave" -> {}
    [] OTHER -> held[t]

(***************************************************************************)
(* Who keeps whom waiting.  A reader of an rwlock waits for the owner, but *)
(* never for a writer that waits: rwlock.cpp:38.  hold_handle and          *)
(* hold_memory keep a call from locking what it has locked.  The image is  *)
(* read by the worker, once it is done with what it does.                  *)
(***************************************************************************)
Wants(t) == IF rest[t] = <<>> THEN NULL ELSE Lock(Head(rest[t]))

Conflict(t, lock) ==
  /\ Wants(t) # NULL /\ Wants(t) \notin held[t]
  /\ Wants(t)[1] = lock[1]
  /\ "EXCLUSIVE" \in {Wants(t)[2], lock[2]}

HeldOff(t) == \E u \in Actor : \E lock \in held[u] : Conflict(t, lock)

\* the worker reads the image of a new process
NeedsWorker(t) == rest[t] # <<>> /\ Head(rest[t]) = "load"

\* Faulty: a reader waits for the writers that wait.
WaitsForFair(t, u) ==
  \/ \E lock \in held[u] : Conflict(t, lock)
  \/ NeedsWorker(t) /\ u = Worker /\ rest[u] # <<>>
  \/ u # t /\ HeldOff(u) /\ Wants(u)[2] = "EXCLUSIVE" /\ Conflict(t, Wants(u))

WaitsFor(t, u) ==
  \/ \E lock \in held[u] : Conflict(t, lock)
  \/ NeedsWorker(t) /\ u = Worker /\ rest[u] # <<>>

CanStep(t) ==
  /\ rest[t] # <<>> /\ \A u \in Actor : ~WaitsFor(t, u)
  /\ \A u \in Actor : rest[u] # <<"halted">>

(***************************************************************************)
(* Steps.  One of MayFail may be the last before the return.               *)
(***************************************************************************)
MayFail == {"check", "get", "change", "open", "load", "close"}

\* t makes its next step; the object that it uses is then o
Go(t, o) ==
  /\ CanStep(t)
  /\ held' = [held EXCEPT ![t] = Keeps(t)]
  /\ using' = [using EXCEPT ![t] = o]

Then(t, steps) == rest' = [rest EXCEPT ![t] = steps]

At(t, steps) == rest[t] # <<>> /\ Head(rest[t]) \in steps

\* service_provider::service_provider
Begin(t) ==
  /\ rest[t] = <<>> /\ \A u \in Actor : rest[u] # <<"halted">>
  /\ \E c \in IF t = Worker THEN Requests ELSE Calls : Then(t, c)
  /\ UNCHANGED <<held, using, handles, alive>>

\* the steps that touch neither objects nor handles
Plain(t) ==
  /\ At(t, {"check", "change", "open", "size", "share", "modify", "transfer",
            "enter", "exit", "spin", "load", "put", "unlock"})
  /\ Go(t, IF Head(rest[t]) = "unlock" THEN NULL ELSE using[t])
  /\ Then(t, Tail(rest[t]))
  /\ UNCHANGED <<handles, alive>>

\* an error is returned; what is locked is given back by the destructor,
\* process::objlock by its guard
Fail(t) ==
  /\ At(t, MayFail)
  /\ Go(t, NULL)
  /\ Then(t, <<"leave">>)
  /\ UNCHANGED <<handles, alive>>

\* interrupt_guard<spin_lock>: nobody gets the core from a thread that spins
\* with interrupts disabled, until "spinlock timeout" stops the system
Spin(t) ==
  /\ At(t, {"spin"})
  /\ HeldOff(t) /\ \A u \in Actor : rest[u] # <<"halted">>
  /\ Then(t, <<"halted">>)
  /\ UNCHANGED <<held, using, handles, alive>>

\* service_provider::get
Get(t) ==
  /\ At(t, {"get"})
  /\ \E o \in handles : Go(t, o)
  /\ Then(t, Tail(rest[t]))
  /\ UNCHANGED <<handles, alive>>

\* create_thread: the reservation is given back when commit fails
Commit(t) ==
  /\ At(t, {"commit"})
  /\ Go(t, NULL)
  /\ Then(t, Tail(rest[t])) \/ Then(t, <<"change", "leave">>)
  /\ UNCHANGED <<handles, alive>>

\* service_provider::~service_provider
Leave(t) ==
  /\ At(t, {"leave"})
  /\ Go(t, NULL)
  /\ Then(t, <<>>)
  /\ UNCHANGED <<handles, alive>>

\* create_object
Create(t) ==
  /\ At(t, {"create"}) /\ Cardinality(alive) < MaxObjects
  /\ \E o \in Object \ alive : Go(t, o) /\ alive' = alive \cup {o}
  /\ Then(t, Tail(rest[t]))
  /\ UNCHANGED handles

\* handle_table::put of the new object
Expose(t) ==
  /\ At(t, {"expose"})
  /\ Go(t, NULL)
  /\ handles' = handles \cup {using[t]}
  /\ Then(t, Tail(rest[t]))
  /\ UNCHANGED alive

\* handle_table::close
Close(t) ==
  /\ At(t, {"close"})
  /\ \E o \in handles : Go(t, o) /\ handles' = handles \ {o}
  /\ Then(t, Tail(rest[t]))
  /\ UNCHANGED alive

Sleepers(o) == {t \in Clients : using[t] = o /\ At(t, {"asleep"})}

\* Faulty: the destructor leaves the threads that wait to themselves.
RelaxSilent(t) ==
  /\ At(t, {"relax"})
  /\ Go(t, NULL)
  /\ alive' = alive \ {using[t]}
  /\ Then(t, Tail(rest[t]))
  /\ UNCHANGED handles

\* relax of the last reference: the destructors of event, semaphore and
\* pipe notify(ABANDON), and wait() returns without a look at the object
Relax(t) ==
  /\ At(t, {"relax"})
  /\ CanStep(t)
  /\ alive' = alive \ {using[t]}
  /\ rest' = [u \in Actor |-> IF u = t THEN Tail(rest[t])
                              ELSE IF u \in Sleepers(using[t]) THEN <<"leave">>
                              ELSE rest[u]]
  /\ using' = [u \in Actor |-> IF u \in Sleepers(using[t]) \cup {t} THEN NULL
                               ELSE using[u]]
  /\ UNCHANGED <<held, handles>>

\* wait_for: the callback gives up the handle table with the objlock of the
\* object held, and the call returns at once or the thread sleeps
Wait(t) ==
  /\ At(t, {"wait"})
  /\ \/ Go(t, using[t]) /\ Then(t, <<"asleep">>)
     \/ Go(t, NULL) /\ Then(t, <<"leave">>)
  /\ UNCHANGED <<handles, alive>>

\* the threads of S are woken by o: only semaphore::wait comes back to it
Woken(S, o) ==
  [t \in Actor |->
     IF t \notin S THEN rest[t]
     ELSE IF o \in Semaphores THEN <<"again">> ELSE <<"leave">>]

\* service_provider::signal
Signal(t) ==
  /\ At(t, {"signal"})
  /\ CanStep(t)
  /\ LET o == using[t] IN
     \E S \in IF Sleepers(o) = {} THEN {{}}
              ELSE {{u} : u \in Sleepers(o)}
                     \cup (IF o \in Events THEN {Sleepers(o)} ELSE {}) :
       /\ rest' = [Woken(S, o) EXCEPT ![t] = Tail(@)]
       /\ using' = [u \in Actor |-> IF u \in S \ {t} /\ o \in Events
                                    THEN NULL ELSE using[u]]
  /\ UNCHANGED <<held, handles, alive>>

\* the loop of semaphore::wait, when the semaphore is still there
Again(t) ==
  /\ At(t, {"again"}) /\ using[t] \in alive
  /\ \/ Go(t, using[t]) /\ Then(t, <<"asleep">>)
     \/ Go(t, NULL) /\ Then(t, <<"leave">>)
  /\ UNCHANGED <<handles, alive>>

\* the wait times out, or the thread is killed and another takes its place
Timeout(t) ==
  /\ At(t, {"asleep"})
  /\ Go(t, NULL)
  /\ Then(t, <<"leave">>)
  /\ UNCHANGED <<handles, alive>>

Init ==
  /\ rest = [t \in Actor |-> <<>>]
  /\ held = [t \in Actor |-> {}]
  /\ using = [t \in Actor |-> NULL]
  /\ handles = {} /\ alive = {}

Next == \E t \in Actor :
  \/ Begin(t) \/ Plain(t) \/ Fail(t) \/ Get(t) \/ Commit(t) \/ Leave(t)
  \/ Create(t) \/ Expose(t) \/ Close(t) \/ Relax(t) \/ Wait(t) \/ Signal(t)
  \/ Again(t) \/ Timeout(t) \/ Spin(t)

Spec == Init /\ [][Next]_vars

(***************************************************************************)
(* Properties                                                              *)
(***************************************************************************)
(* Nobody waits for ever: there are no threads that wait for each other in *)
(* a circle, or for themselves.  Calls lock the handle table and the       *)
(* address space in different orders (file_path and file_tell) and keep    *)
(* them over put, file::open and the wait for a worker; that is safe       *)
(* because a reader never waits for a writer that waits, and because       *)
(* create_process unlocks the table before it calls put.                   *)
NoCircle ==
  \A D \in (SUBSET Actor) \ {{}} : \E t \in D : \A u \in D : ~WaitsFor(t, u)

(* What get() returned exists as long as the call uses it, whichever       *)
(* thread closes the handle in the meantime, and nobody sleeps on an       *)
(* object that was destroyed, although wait_for has given up the handle    *)
(* table and has no reference.  Only a thread that a semaphore has woken   *)
(* is not protected: the loop of semaphore::wait comes back to an object   *)
(* that may have been closed.                                              *)
UsedIsAlive ==
  \A t \in Actor : using[t] # NULL /\ ~At(t, {"again"}) => using[t] \in alive
=============================================================================
