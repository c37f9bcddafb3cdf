---------------------------- MODULE FileRequests ----------------------------
(***************************************************************************)
(* Requests to the file system: file::read, write, wait and relax of       *)
(* kernel/filesystem/file.cpp, exfat::task, set_rw and stop of exfat.cpp,  *)
(* and thread_pool and thread_worker of worker.cpp.                        *)
(*                                                                         *)
(* A request is a command left in the file object; the object waits in     *)
(* request_list for a worker, which clears the command when it is done and *)
(* wakes the threads that wait for the file.  The workers sleep on the     *)
(* event barrier, whose signal_one is lost when nobody sleeps.             *)
(*                                                                         *)
(* What a worker does to the file, and the other failures it reports, are  *)
(* in FileIO.                                                              *)
(***************************************************************************)
EXTENDS FileConstants

VARIABLES
  command,       \* per file: None, "read", "write" or "list"
  iostate,       \* per file, the failures reported
  open,          \* the files whose handle is open
  refs,          \* per file, its references; 0 when it is deleted
  waiters,       \* per file, the threads in its wait queue
  th,            \* per thread: what it does (at), for which file, the command
  list,          \* request_list
  barrier,       \* the sleepers of the event barrier
  worker,        \* per worker: at "look", "gap", "asleep",
                 \* "work", "finish", "gone"; and its file
  worker_count,
  stopping,
  flags,         \* of the volume: a subset of {"rw", "stop"}
  stop,          \* the stopper: "none", "signal", "sleep", "wait", "awake", "done"
  calls,         \* calls of read and write so far
  missed         \* ghost: a signal was lost between a look and a sleep

vars == <<command, iostate, open, refs, waiters, th, list, barrier, worker, worker_count, stopping,
          flags, stop, calls, missed>>

pool == <<list, barrier, worker, worker_count, stopping, missed>>
volume == <<flags, stop>>

Idle == [at |-> "user", file |-> None]

Init ==
  /\ command = [f \in Handles |-> None]
  /\ iostate = [f \in Handles |-> {}]
  /\ open = Handles /\ refs = [f \in Handles |-> 1]
  /\ waiters = [f \in Handles |-> {}]
  /\ th = [t \in Threads |-> Idle]
  /\ list = <<>> /\ barrier = <<>>
  /\ worker = [w \in Workers |-> [at |-> "look", file |-> None]]
  /\ worker_count = Cardinality(Workers) /\ stopping = FALSE
  /\ flags = {} /\ stop = "none"
  /\ calls = 0 /\ missed = FALSE

(***************************************************************************)
(* The event barrier                                                       *)
(***************************************************************************)
\* a sleeper returns from barrier.wait()
Wakes(x, ws) == IF x \in Workers THEN [ws EXCEPT ![x].at = "look"] ELSE ws
StopperWakes(x, s) == IF x = Stopper /\ s = "wait" THEN "awake" ELSE s

\* signal_one, by a thread that leaves the workers as ws and the stopper as s
SignalOne(ws, s) ==
  IF barrier = <<>>
  THEN /\ worker' = ws /\ stop' = s
       /\ missed' = (missed \/ \E w \in Workers : ws[w].at = "gap")
       /\ UNCHANGED barrier
  ELSE /\ worker' = Wakes(Head(barrier), ws)
       /\ stop' = StopperWakes(Head(barrier), s)
       /\ barrier' = Tail(barrier)
       /\ UNCHANGED missed

(***************************************************************************)
(* Threads of the process                                                  *)
(***************************************************************************)
InCall == {t \in Threads : th[t].at \in {"task", "put", "signal"}}

\* read and write of a file; the handle table is locked SHARED meanwhile.
\* A second call during a request fails, in the state of the file
Call(t, f, cmd) ==
  /\ th[t].at = "user" /\ f \in open /\ calls < MaxCalls
  /\ (cmd = "list") = (f \in Folders)
  /\ calls' = calls + 1
  /\ IF command[f] # None
     THEN /\ iostate' = [iostate EXCEPT ![f] = @ \cup {"OP"}]
          /\ UNCHANGED <<command, th>>
     ELSE /\ command' = [command EXCEPT ![f] = cmd]
          /\ iostate' = [iostate EXCEPT ![f] = {}]
          /\ th' = [th EXCEPT ![t] = [at |-> "task", file |-> f]]
  /\ UNCHANGED <<open, refs, waiters, pool, volume>>

\* a write to a folder fails without becoming a request
WriteFolder(t, f) ==
  /\ th[t].at = "user" /\ f \in open /\ f \in Folders /\ calls < MaxCalls
  /\ calls' = calls + 1
  /\ iostate' = [iostate EXCEPT ![f] = @ \cup {"OP"}]
  /\ UNCHANGED <<open, command, refs, waiters, th, pool, volume>>

\* the command is cleared under the lock of the file and the waiters wake
Cleared(f, ths) == [t \in Threads |-> IF t \in waiters[f] THEN Idle ELSE ths[t]]

\* Faulty: the queue holds no reference to the file.
TaskUnreferenced(t) ==
  /\ th[t].at = "task"
  /\ "stop" \notin flags /\ (command[th[t].file] # "write" \/ "rw" \in flags)
  /\ th' = [th EXCEPT ![t].at = "put"]
  /\ UNCHANGED <<open, command, iostate, refs, waiters, pool, volume, calls>>

\* exfat::task: the file system is stopped or read only, or put() begins
Task(t) ==
  /\ th[t].at = "task"
  /\ LET f == th[t].file
     IN IF "stop" \notin flags /\ (command[f] # "write" \/ "rw" \in flags)
        THEN /\ th' = [th EXCEPT ![t].at = "put"]
             /\ refs' = [refs EXCEPT ![f] = @ + 1]
             /\ UNCHANGED <<command, iostate, waiters>>
        ELSE /\ iostate' = [iostate EXCEPT ![f] = @ \cup {"OP"}]
             /\ command' = [command EXCEPT ![f] = None]
             /\ waiters' = [waiters EXCEPT ![f] = {}]
             /\ th' = Cleared(f, [th EXCEPT ![t] = Idle])
             /\ UNCHANGED refs
  /\ UNCHANGED <<open, pool, volume, calls>>

\* thread_pool::put: the request is appended ...
Put(t) ==
  /\ th[t].at = "put"
  /\ list' = Append(list, th[t].file)
  /\ th' = [th EXCEPT ![t].at = "signal"]
  /\ UNCHANGED <<open, command, iostate, refs, waiters, barrier, worker, worker_count, stopping,
                 missed, volume, calls>>

\* Faulty: a worker is woken only for the first request of the list.
SignalFirst(t) ==
  /\ th[t].at = "signal"
  /\ IF Len(list) = 1 THEN SignalOne(worker, stop)
     ELSE UNCHANGED <<worker, stop, missed, barrier>>
  /\ th' = [th EXCEPT ![t] = Idle]
  /\ UNCHANGED <<open, command, iostate, refs, waiters, list, worker_count, stopping,
                 flags, calls>>

\* ... and a worker is signaled, if one sleeps
Signal(t) ==
  /\ th[t].at = "signal"
  /\ SignalOne(worker, stop)
  /\ th' = [th EXCEPT ![t] = Idle]
  /\ UNCHANGED <<open, command, iostate, refs, waiters, list, worker_count, stopping,
                 flags, calls>>

\* file::wait passes when there is no command
Wait(t, f) ==
  /\ th[t].at = "user" /\ f \in open /\ command[f] # None
  /\ waiters' = [waiters EXCEPT ![f] = @ \cup {t}]
  /\ th' = [th EXCEPT ![t] = [at |-> "wait", file |-> f]]
  /\ UNCHANGED <<open, command, iostate, refs, pool, volume, calls>>

\* the handle is closed: not while a call holds the handle table
Close(f) ==
  /\ InCall = {} /\ f \in open
  /\ open' = open \ {f}
  /\ refs' = [refs EXCEPT ![f] = @ - 1]
  /\ UNCHANGED <<command, iostate, waiters, th, pool, volume, calls>>

(***************************************************************************)
(* Workers: thread_pool::get and thread_worker                             *)
(***************************************************************************)
\* one round of get: leave when stopping, else take the head of the list
Look(w) ==
  /\ worker[w].at = "look"
  /\ IF stopping
     THEN /\ worker_count' = worker_count - 1
          /\ SignalOne([worker EXCEPT ![w].at = "gone"], stop)
          /\ UNCHANGED list
     ELSE /\ IF list # <<>>
             THEN /\ worker' = [worker EXCEPT ![w] = [at |-> "work", file |-> Head(list)]]
                  /\ list' = Tail(list)
             ELSE /\ worker' = [worker EXCEPT ![w].at = "gap"]
                  /\ UNCHANGED list
          /\ UNCHANGED <<worker_count, barrier, missed, stop>>
  /\ UNCHANGED <<open, command, iostate, refs, waiters, th, stopping, flags, calls>>

\* barrier.wait()
Sleep(w) ==
  /\ worker[w].at = "gap"
  /\ worker' = [worker EXCEPT ![w].at = "asleep"]
  /\ barrier' = Append(barrier, w)
  /\ UNCHANGED <<open, command, iostate, refs, waiters, th, list, worker_count, stopping, missed,
                 volume, calls>>

\* worker_read, worker_write or worker_list; the case for worker_list has
\* no break and goes on to that of an unknown command
Work(w) ==
  /\ worker[w].at = "work"
  /\ LET f == worker[w].file
     IN iostate' = IF command[f] = "list" THEN [iostate EXCEPT ![f] = @ \cup {"OP"}] ELSE iostate
  /\ worker' = [worker EXCEPT ![w].at = "finish"]
  /\ UNCHANGED <<open, command, refs, waiters, th, list, barrier, worker_count, stopping, missed, volume, calls>>

\* the command is cleared, the waiters wake, the reference is given back
Finish(w) ==
  /\ worker[w].at = "finish"
  /\ LET f == worker[w].file
     IN /\ command' = [command EXCEPT ![f] = None]
        /\ waiters' = [waiters EXCEPT ![f] = {}]
        /\ th' = Cleared(f, th)
        /\ refs' = [refs EXCEPT ![f] = @ - 1]
  /\ worker' = [worker EXCEPT ![w] = [at |-> "look", file |-> None]]
  /\ UNCHANGED <<open, iostate, list, barrier, worker_count, stopping, missed, volume, calls>>

(***************************************************************************)
(* The volume                                                              *)
(***************************************************************************)
\* exfat::set_rw; what it does to the mark on the disk is in Mount
SetRW ==
  /\ flags = {}
  /\ flags' = {"rw"}
  /\ UNCHANGED <<open, command, iostate, refs, waiters, th, pool, stop, calls>>

\* exfat::stop
Stop ==
  /\ flags = {"rw"} /\ stop = "none"
  /\ flags' = {"rw", "stop"} /\ stopping' = TRUE /\ stop' = "signal"
  /\ UNCHANGED <<open, command, iostate, refs, waiters, th, list, barrier, worker, worker_count, missed,
                 calls>>

\* thread_pool::stop signals a worker, sleeps on the barrier itself ...
StopSignal ==
  /\ stop = "signal" \/ (stop = "awake" /\ worker_count > 0)
  /\ SignalOne(worker, "sleep")
  /\ UNCHANGED <<open, command, iostate, refs, waiters, th, list, worker_count, stopping,
                 flags, calls>>

StopSleep ==
  /\ stop = "sleep"
  /\ stop' = "wait" /\ barrier' = Append(barrier, Stopper)
  /\ UNCHANGED <<open, command, iostate, refs, waiters, th, list, worker, worker_count, stopping,
                 missed, flags, calls>>

\* Faulty: the stopper waits without a timeout.
StopNoTimeout == FALSE /\ UNCHANGED vars

\* ... for a second at most ...
StopTimeout ==
  /\ stop = "wait"
  /\ stop' = "awake"
  /\ \E k \in DOMAIN barrier :
       /\ barrier[k] = Stopper
       /\ barrier' = SubSeq(barrier, 1, k - 1) \o SubSeq(barrier, k + 1, Len(barrier))
  /\ UNCHANGED <<open, command, iostate, refs, waiters, th, list, worker, worker_count, stopping,
                 missed, flags, calls>>

\* Faulty: thread_pool::stop does not look at worker_count.
StopLeavesAtOnce ==
  /\ stop = "awake"
  /\ stop' = "done"
  /\ UNCHANGED <<open, command, iostate, refs, waiters, th, pool, flags, calls>>

\* ... until all are gone; then the cache is flushed
StopLeaves ==
  /\ stop = "awake" /\ worker_count = 0
  /\ stop' = "done"
  /\ UNCHANGED <<open, command, iostate, refs, waiters, th, pool, flags, calls>>

WorkerStep(w) == Look(w) \/ Sleep(w) \/ Work(w) \/ Finish(w)
ThreadStep(t) == Task(t) \/ Put(t) \/ Signal(t)
StopStep == StopSignal \/ StopSleep \/ StopTimeout \/ StopLeaves

Next ==
  \/ \E t \in Threads, f \in Handles : \/ \E cmd \in {"read", "write", "list"} : Call(t, f, cmd)
                                       \/ WriteFolder(t, f) \/ Wait(t, f)
  \/ \E t \in Threads : ThreadStep(t)
  \/ \E f \in Handles : Close(f)
  \/ \E w \in Workers : WorkerStep(w)
  \/ SetRW \/ Stop \/ StopStep

(***************************************************************************)
(* Threads, workers and the stopper get the core again and again; nobody   *)
(* has to call.                                                            *)
(***************************************************************************)
Fairness == /\ \A t \in Threads : WF_vars(ThreadStep(t))
            /\ \A w \in Workers : WF_vars(WorkerStep(w))
            /\ WF_vars(StopStep)

Spec == Init /\ [][Next]_vars /\ Fairness

(***************************************************************************)
(* Properties                                                              *)
(***************************************************************************)
Places(f) == Cardinality({t \in InCall : th[t].file = f /\ th[t].at # "signal"})
             + Cardinality({k \in DOMAIN list : list[k] = f})
             + Cardinality({w \in Workers : worker[w].file = f})

(* A file with a command is in exactly one place: with the thread that     *)
(* posts it, in the list, or with one worker; it is not deleted before the *)
(* request ends although its handle is closed; threads wait only for files *)
(* that have a command; and a worker that has left was counted.            *)
RequestsConserved ==
  /\ \A f \in Handles : /\ Places(f) = (IF command[f] # None THEN 1 ELSE 0)
                        /\ command[f] # None \/ f \in open => refs[f] > 0
                        /\ waiters[f] # {} => command[f] # None
  /\ worker_count = Cardinality({w \in Workers : worker[w].at # "gone"})

(* exfat::stop flushes the cache and marks the volume clean only after the *)
(* last worker has left.                                                   *)
CleanAfterWork ==
  (stop = "done") => \A w \in Workers : worker[w].at = "gone"

(* A request ends, unless the file system is stopped meanwhile or a signal *)
(* fell into the gap between a worker's look at the list and its sleep.    *)
RequestEnds ==
  \A f \in Handles : command[f] # None ~> (command[f] = None \/ stopping \/ missed)

(* The workers leave when the file system is stopped, whichever of them    *)
(* sleep, work or are about to sleep at that moment.                       *)
PoolStops == stop = "signal" ~> stop = "done"
=============================================================================
