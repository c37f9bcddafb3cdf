---------------------------- MODULE ThreadCore ----------------------------
(***************************************************************************)
(* The thread core of the kernel: kernel/process/thread.cpp, waitable.cpp  *)
(* and core_state.cpp, with kernel/sync/event.cpp as the waitable object.  *)
(*                                                                         *)
(* The kernel runs on one core (core_manager::size returns 1).  A section  *)
(* of code that runs with IF off (an interrupt_guard or an IRQ handler) is *)
(* one action; a thread can be preempted between two actions.              *)
(*                                                                         *)
(* The handlers are compositions of a few functions (set_state, the ready  *)
(* queue, gc.signal, switch_to).  Each is an operator from the record k of *)
(* the kernel's thread data to the record it leaves, so that a handler     *)
(* reads as the sequence of calls its code makes.                          *)
(***************************************************************************)
EXTENDS Integers, Sequences, FiniteSets

CONSTANTS
  User,       \* user threads; each runs in user mode or in a service call
  GC,         \* the thread of gc_service (th_gc)
  Idle,       \* the initial thread, once it has become the idle thread
  Event,      \* event objects
  GcEv,       \* gc_service::ev
  NULL,
  Born,       \* the user threads that exist initially; the others are spawned
  Ops         \* the service calls the user threads of this instance issue

Thread == User \cup {GC, Idle}
Waitable == Event \cup Thread \cup {GcEv}
AllOps == {"signal", "reset", "wait_event", "wait_thread", "sleep", "yield",
           "kill", "exit", "spawn", "priority"}

ASSUME ThreadAssumption ==
  /\ GC # Idle /\ {GC, Idle} \cap User = {}
  /\ NULL \notin Waitable /\ GcEv \notin Event \cup Thread
  /\ Event \cap Thread = {}
  /\ IsFiniteSet(User) /\ Born \subseteq User /\ Ops \subseteq AllOps

(* The sixteen priorities of the code are represented by the ones that can *)
(* be told apart: 0 the services, 1 and 2 user threads, 3 idle.            *)
Level == 0..3
ServicePriority == 0
ShellPriority == 1
UserPriority == 2
IdlePriority == 3

VARIABLES
  k,    \* the data of scheduler, core_state, gc_service, threads and events
  pc,   \* where each thread is between two IF-off sections
  obj   \* the object or thread a thread is about to wait for or to collect

vars == <<k, pc, obj>>

(***************************************************************************)
(* thread_queue, scheduler                                                 *)
(***************************************************************************)
Elems(q) == {q[i] : i \in DOMAIN q}
Empty == <<>>
Put(q, t) == Append(q, t)

\* what thread_queue::get takes, as a list, and what it leaves
Taken(q) == <<Head(q)>>
Left(q) == Tail(q)

Joined(q, list) == q \o list

\* the threads of q that are in S, in their order: the n-th one is the one
\* that has n of them up to it
Only(q, S) ==
  LET kept == {i \in DOMAIN q : q[i] \in S}
      upto(i) == {j \in kept : j <= i} IN
  [n \in 1..Cardinality(kept) |->
     q[CHOOSE i \in kept : Cardinality(upto(i)) = n]]

\* waitable::cancel unlinks one thread wherever it is in the queue
Unlink(q, t) == Only(q, Thread \ {t})

\* wait_for->cancel(t), for a thread that waits for an object
Cancel(r, t) ==
  IF r.wait_for[t] = NULL THEN r.wq
  ELSE [r.wq EXCEPT ![r.wait_for[t]] = Unlink(@, t)]

Bugcheck(r, why) == IF r.halt = "no" THEN [r EXCEPT !.halt = why] ELSE r

\* scheduler::put asserts that the thread is READY
ReadyPut(r, t) ==
  IF r.state[t] = "READY"
  THEN [r EXCEPT !.ready[r.priority[t]] = Put(@, t)]
  ELSE Bugcheck(r, "put: thread not READY")

\* Faulty: a timeout leaves the thread in the wait queue.
SetReadyKeepsQueue(r, t, reason) ==
  [r EXCEPT !.state[t] = "READY", !.wait_for[t] = NULL, !.ticket[t] = FALSE,
            !.armed = IF reason = "NOTIFY" THEN @ \ {t} ELSE @]

(***************************************************************************)
(* thread::set_state(READY, reason).  Only called for a thread that is not *)
(* STOPPED; wait_for and timer_ticket are cleared whatever the reason.     *)
(***************************************************************************)
SetReady(r, t, reason) ==
  [r EXCEPT
     !.state[t] = "READY",
     !.wait_for[t] = NULL,
     !.ticket[t] = FALSE,
     !.armed = IF reason = "NOTIFY" /\ r.ticket[t] THEN @ \ {t} ELSE @,
     !.wq = IF reason = "TIMEOUT" THEN Cancel(r, t) ELSE @]

\* thread::on_stop: the STOPPED thread is put into gc_service::queue
OnStop(r, ts) == [r EXCEPT !.gcq = @ \cup ts]

\* Faulty: the timer of a notified thread is not cancelled.
ImpNotifyKeepsTimer(r, list) ==
  LET woken == Elems(list) IN
  [r EXCEPT
     !.state = [t \in Thread |-> IF t \in woken THEN "READY" ELSE @[t]],
     !.wait_for = [t \in Thread |-> IF t \in woken THEN NULL ELSE @[t]],
     !.ticket = [t \in Thread |-> IF t \in woken THEN FALSE ELSE @[t]],
     !.ready = [p \in Level |->
                  Joined(@[p], Only(list, {t \in woken : r.priority[t] = p}))]]

\* waitable::imp_notify on a detached list of waiting threads
ImpNotify(r, list) ==
  LET woken == Elems(list) IN
  [r EXCEPT
     !.state = [t \in Thread |-> IF t \in woken THEN "READY" ELSE @[t]],
     !.wait_for = [t \in Thread |-> IF t \in woken THEN NULL ELSE @[t]],
     !.ticket = [t \in Thread |-> IF t \in woken THEN FALSE ELSE @[t]],
     !.armed = @ \ woken,
     !.ready = [p \in Level |->
                  Joined(@[p], Only(list, {t \in woken : r.priority[t] = p}))]]

\* waitable::notify: the whole wait queue is detached and woken
Notify(r, o) == ImpNotify([r EXCEPT !.wq[o] = Empty], r.wq[o])

\* event::signal_one: the head of the wait queue is woken, if there is one
SignalOne(r, o) ==
  IF r.wq[o] = Empty THEN r
  ELSE ImpNotify([r EXCEPT !.wq[o] = Left(@)], Taken(r.wq[o]))

(***************************************************************************)
(* gc_service::signal(target).  held is the set of objlocks the caller     *)
(* holds: locking one of them again spins until the spinlock timeout.      *)
(***************************************************************************)
GcSignal(r, target, held) ==
  IF target = GC THEN r
  ELSE IF GcEv \in held THEN Bugcheck(r, "spinlock timeout")
  ELSE SignalOne(r, GcEv)

(***************************************************************************)
(* The loop that takes the next thread out of the ready queues, up to      *)
(* (excluding) level lim.  A popped thread that was STOPPED while it was   *)
(* READY is handed to gc; in imp_wait the thread that is waited for is set *)
(* aside (put_back).                                                       *)
(***************************************************************************)
Slots(r, lim) == UNION {{p} \X DOMAIN r.ready[p] : p \in 0..lim - 1}
At(r, s) == r.ready[s[1]][s[2]]
Earlier(s, u) == s[1] < u[1] \/ (s[1] = u[1] /\ s[2] < u[2])

\* Faulty: set_state(RUNNING) is not refused for a STOPPED thread.
RunnableStopped(r, lim, aside) ==
  {s \in Slots(r, lim) : At(r, s) # aside}

Runnable(r, lim, aside) ==
  {s \in Slots(r, lim) : At(r, s) # aside /\ r.state[At(r, s)] # "STOPPED"}

\* the threads the loop pops when it ends: none runnable pops all of them
Popped(r, lim, aside) ==
  LET run == Runnable(r, lim, aside) IN
  {s \in Slots(r, lim) : \A u \in run : u = s \/ Earlier(s, u)}

NextThread(r, lim, aside) ==
  LET run == Runnable(r, lim, aside) IN
  IF run = {} THEN NULL
  ELSE At(r, CHOOSE s \in run : \A u \in run : u = s \/ Earlier(s, u))

Reaped(r, lim, aside) ==
  LET next == NextThread(r, lim, aside) IN
  {At(r, s) : s \in Popped(r, lim, aside)} \ {next, aside}

PutBack(r, lim, aside) ==
  aside # NULL /\ \E s \in Popped(r, lim, aside) : At(r, s) = aside

\* what the loop leaves: next is RUNNING, gc has the reaped threads
Take(r, lim, aside) ==
  LET next == NextThread(r, lim, aside)
      gone == {At(r, s) : s \in Popped(r, lim, aside)} IN
  OnStop([r EXCEPT
            !.ready = [p \in Level |-> Only(@[p], Thread \ gone)],
            !.state = IF next = NULL THEN @
                      ELSE [@ EXCEPT ![next] = "RUNNING"]],
         Reaped(r, lim, aside))

GcSignalIf(r, cond, target, held) ==
  IF cond THEN GcSignal(r, target, held) ELSE r

\* Faulty: gc_ptr is overwritten before it was handed to gc.
SwitchToOverwrites(r, target) ==
  LET old == r.gc_ptr
      keep == r.state[r.cur] = "STOPPED"
      r1 == [r EXCEPT
               !.gcq = IF old # NULL /\ ~keep THEN @ \cup {old} ELSE @,
               !.gc_ptr = IF keep THEN r.cur ELSE NULL]
      r2 == GcSignalIf(r1, old # NULL, target, {})
  IN [r2 EXCEPT !.cur = target]

(***************************************************************************)
(* this_core::switch_to / irq_switch_to.  A thread that leaves the core    *)
(* STOPPED is kept in gc_ptr, since the switch still runs on its stack; it *)
(* is handed to gc by the following switch.                                *)
(***************************************************************************)
SwitchTo(r, target) ==
  LET old == r.gc_ptr
      r1 == [r EXCEPT
               !.gcq = IF old # NULL THEN @ \cup {old} ELSE @,
               !.gc_ptr = IF r.state[r.cur] = "STOPPED" THEN r.cur ELSE NULL]
      r2 == GcSignalIf(r1, old # NULL, target, {})
  IN [r2 EXCEPT !.cur = target]

\* Faulty: the preempted thread is queued but stays RUNNING.
PreemptKeepsRunning(r, lower) ==
  LET me == r.cur
      lim == r.priority[me] + (IF lower THEN 1 ELSE 0)
      next == NextThread(r, lim, NULL)
  IN IF next = NULL THEN r
     ELSE SwitchTo([Take(r, lim, NULL) EXCEPT
                      !.ready[r.priority[me]] = Put(@, me)], next)

\* Faulty: a preempted user thread is READY but in no queue.
PreemptForgets(r, lower) ==
  LET me == r.cur
      lim == r.priority[me] + (IF lower THEN 1 ELSE 0)
      next == NextThread(r, lim, NULL)
      r1 == Take(r, lim, NULL)
      r2 == [r1 EXCEPT !.state[me] = "READY"]
      all == 1 + IdlePriority
      next2 == NextThread(r1, all, NULL)
  IN CASE next # NULL /\ r1.state[me] = "STOPPED" -> SwitchTo(r1, next)
       [] next # NULL /\ r1.state[me] # "STOPPED" ->
            SwitchTo(IF me \in User THEN r2 ELSE ReadyPut(r2, me), next)
       [] next = NULL /\ r1.state[me] # "STOPPED" -> r1
       [] next = NULL /\ r1.state[me] = "STOPPED" /\ next2 = NULL ->
            Bugcheck(r1, "no ready thread")
       [] OTHER -> SwitchTo(Take(r1, all, NULL), next2)

(***************************************************************************)
(* core_manager::preempt(lower)                                            *)
(***************************************************************************)
Preempt(r, lower) ==
  LET me == r.cur
      lim == r.priority[me] + (IF lower THEN 1 ELSE 0)
      next == NextThread(r, lim, NULL)
      r1 == GcSignalIf(Take(r, lim, NULL), Reaped(r, lim, NULL) # {}, next, {})
      r2 == IF r1.state[me] = "STOPPED" THEN r1
            ELSE ReadyPut([r1 EXCEPT !.state[me] = "READY"], me)
      all == 1 + IdlePriority
      next2 == NextThread(r1, all, NULL)
      r3 == GcSignalIf(Take(r1, all, NULL),
                       Reaped(r1, all, NULL) # {}, next2, {})
  IN CASE next # NULL -> SwitchTo(r2, next)
       [] next = NULL /\ r1.state[me] # "STOPPED" -> r1
       [] next = NULL /\ r1.state[me] = "STOPPED" /\ next2 = NULL ->
            Bugcheck(r1, "no ready thread")
       [] OTHER -> SwitchTo(r3, next2)

\* Faulty: the ticket is recorded but no timer is armed.
ImpWaitUnarmed(r, o, timed) ==
  LET me == r.cur
      all == 1 + IdlePriority
      next == NextThread(r, all, o)
      r1 == GcSignalIf(Take(r, all, o), Reaped(r, all, o) # {}, next, {})
      r2 == [r1 EXCEPT !.state[me] = "WAITING", !.wait_for[me] = o,
                       !.ticket[me] = timed, !.wq[o] = Put(@, me)]
      r3 == IF PutBack(r, all, o) THEN ReadyPut(r2, o) ELSE r2
  IN SwitchTo(r3, next)

(***************************************************************************)
(* waitable::imp_wait on object o, entered with o's objlock held.          *)
(***************************************************************************)
ImpWait(r, o, timed) ==
  LET me == r.cur
      all == 1 + IdlePriority
      next == NextThread(r, all, o)
      r1 == GcSignalIf(Take(r, all, o), Reaped(r, all, o) # {}, next, {o})
      r2 == [r1 EXCEPT
               !.armed = IF timed THEN @ \cup {me} ELSE @,
               !.state[me] = "WAITING",
               !.wait_for[me] = o,
               !.ticket[me] = timed,
               !.wq[o] = Put(@, me)]
      r3 == IF PutBack(r, all, o) THEN ReadyPut(r2, o) ELSE r2
  IN IF next = NULL THEN Bugcheck(r, "no ready thread")
     ELSE IF r3.halt # "no" THEN [r EXCEPT !.halt = r3.halt]
     ELSE SwitchTo(r3, next)

(***************************************************************************)
(* thread::sleep(us) with us # 0                                           *)
(***************************************************************************)
Sleep(r) ==
  LET me == r.cur
      all == 1 + IdlePriority
      next == NextThread(r, all, NULL)
      r1 == GcSignalIf(Take(r, all, NULL), Reaped(r, all, NULL) # {}, NULL, {})
      r2 == [r1 EXCEPT !.armed = @ \cup {me},
                       !.state[me] = "WAITING",
                       !.ticket[me] = TRUE]
  IN IF next = NULL THEN Bugcheck(r, "no ready thread")
     ELSE SwitchTo(r2, next)

\* Faulty: the killed thread is not taken out of the queue it waits in.
KillKeepsQueue(r, t) ==
  CASE "CRITICAL" \in r.critical[t] ->
         [r EXCEPT !.critical[t] = @ \cup {"KILL"}]
    [] "CRITICAL" \notin r.critical[t] /\ r.state[t] = "WAITING" ->
         GcSignal(OnStop([r EXCEPT !.state[t] = "STOPPED",
                                   !.wait_for[t] = NULL,
                                   !.armed = @ \ {t},
                                   !.ticket[t] = FALSE], {t}), NULL, {})
    [] OTHER -> [r EXCEPT !.state[t] = "STOPPED"]

\* Faulty: kill does not respect the critical section of a READY thread.
KillIgnoresHold(r, t) ==
  IF r.state[t] = "WAITING"
  THEN [r EXCEPT !.critical[t] = @ \cup {"KILL"}]
  ELSE [r EXCEPT !.state[t] = "STOPPED"]

(***************************************************************************)
(* thread::kill(t) of another thread                                       *)
(***************************************************************************)
Kill(r, t) ==
  CASE "CRITICAL" \in r.critical[t] ->
         [r EXCEPT !.critical[t] = @ \cup {"KILL"}]
    [] "CRITICAL" \notin r.critical[t] /\ r.state[t] = "WAITING" ->
         GcSignal(OnStop([r EXCEPT
                            !.state[t] = "STOPPED",
                            !.wq = Cancel(r, t),
                            !.wait_for[t] = NULL,
                            !.armed = IF r.ticket[t] THEN @ \ {t} ELSE @,
                            !.ticket[t] = FALSE], {t}),
                  NULL, {})
    [] OTHER -> [r EXCEPT !.state[t] = "STOPPED"]

\* thread::kill of the running thread: it is STOPPED and gives up the core
KillSelf(r) == Preempt([r EXCEPT !.state[r.cur] = "STOPPED"], TRUE)

(***************************************************************************)
(* Actions.  Exec(t, S, r, at, o) is an IF-off section of the running      *)
(* thread t: it locks the objects in S, leaves the kernel data r and       *)
(* continues at the place at with object o.  Locking an object whose       *)
(* objlock was never released spins until the timeout; after a bugcheck    *)
(* the machine has halted where it was.                                    *)
(***************************************************************************)
Running(t, at) == k.halt = "no" /\ k.cur = t /\ pc[t] = at

Locking(S, r) ==
  IF S \cap k.locked = {} THEN r ELSE Bugcheck(k, "spinlock timeout")

Exec(t, S, r, at, o) ==
  /\ k' = Locking(S, r)
  /\ pc' = IF k'.halt = "no" THEN [pc EXCEPT ![t] = at] ELSE pc
  /\ obj' = IF k'.halt = "no" THEN [obj EXCEPT ![t] = o] ELSE obj

\* service_provider::service_provider: hold() opens the critical section
Hold(t) ==
  /\ Running(t, "user")
  /\ Exec(t, {t}, [k EXCEPT !.critical[t] = {"CRITICAL"}], "service", NULL)

\* Faulty: drop() does not look at KILL.
DroppedForgetsKill(r, t) == [r EXCEPT !.critical[t] = @ \ {"CRITICAL"}]

\* thread::drop, as far as its first section goes
Dropped(r, t) ==
  IF "KILL" \in r.critical[t]
  THEN [r EXCEPT !.critical[t] = {"KILL"}, !.state[t] = "STOPPED"]
  ELSE [r EXCEPT !.critical[t] = {}]

\* service_provider::~service_provider: drop() closes the critical section
Drop(t) ==
  /\ Running(t, "leave")
  /\ Exec(t, {t}, Dropped(k, t),
          IF "KILL" \in k.critical[t] THEN "escape" ELSE "user", NULL)

\* the rest of drop() for a thread that was killed: preempt(true)
Escape(t) ==
  /\ Running(t, "escape")
  /\ Exec(t, {}, Preempt(k, TRUE), "escape", NULL)

\* exit_thread: drop(), then (IF was on in between) kill(this_thread)
ExitThread(t) ==
  /\ "exit" \in Ops
  /\ Running(t, "service")
  /\ Exec(t, {t}, Dropped(k, t),
          IF "KILL" \in k.critical[t] THEN "escape" ELSE "exit", NULL)

ExitKill(t) ==
  /\ Running(t, "exit")
  /\ Exec(t, {t}, KillSelf(k), "exit", NULL)

KillThread(t, u) ==
  /\ "kill" \in Ops
  /\ Running(t, "service")
  /\ u # t /\ k.state[u] # "FREE"
  /\ Exec(t, {u}, Kill(k, u), "leave", NULL)

SignalEvent(t, e, mode) ==
  /\ "signal" \in Ops
  /\ Running(t, "service")
  /\ Exec(t, {e}, IF mode = "one" THEN SignalOne(k, e)
                  ELSE Notify([k EXCEPT !.signaled = @ \cup {e}], e),
          "leave", NULL)

ResetEvent(t, e) ==
  /\ "reset" \in Ops
  /\ Running(t, "service")
  /\ Exec(t, {e}, [k EXCEPT !.signaled = @ \ {e}], "leave", NULL)

(***************************************************************************)
(* service wait_for, first half: event::wait and thread::wait look at the  *)
(* object's state before they take its objlock.  When it is signaled the   *)
(* callback (drop) runs and the wait has PASSED.                           *)
(***************************************************************************)
IsSignaled(o) == IF o \in Event THEN o \in k.signaled
                 ELSE k.state[o] = "STOPPED"

WaitCheck(t, o) ==
  /\ IF o \in Event THEN "wait_event" \in Ops ELSE "wait_thread" \in Ops
  /\ Running(t, "service")
  /\ o # t /\ (o \in User => k.state[o] # "FREE")
  /\ IF IsSignaled(o) THEN Exec(t, {}, k, "leave", NULL)
     ELSE Exec(t, {}, k, "wait", o)

(***************************************************************************)
(* Second half, waitable::wait: the objlock is taken, the callback runs    *)
(* drop() and imp_wait follows.  A pending KILL ends the thread inside     *)
(* drop(), with the objlock still held.                                    *)
(***************************************************************************)
WaitBlock(t, timed) ==
  LET o == obj[t]
      r == Dropped(k, t) IN
  /\ Running(t, "wait")
  /\ Exec(t, {t, o}, IF "KILL" \in k.critical[t]
                     THEN Preempt([r EXCEPT !.locked = @ \cup {o}], TRUE)
                     ELSE ImpWait(r, o, timed),
          "user", NULL)

SleepFor(t) ==
  /\ "sleep" \in Ops
  /\ Running(t, "service")
  /\ Exec(t, {}, Sleep(k), "leave", NULL)

Yield(t) ==
  /\ "yield" \in Ops
  /\ Running(t, "service")
  /\ Exec(t, {}, Preempt(k, TRUE), "leave", NULL)

\* process::spawn and the constructor of thread
Spawn(t, u) ==
  /\ "spawn" \in Ops
  /\ Running(t, "service")
  /\ u \in User /\ k.state[u] = "FREE"
  /\ Exec(t, {}, ReadyPut([k EXCEPT !.state[u] = "READY",
                                    !.priority[u] = k.priority[t]], u),
          "leave", NULL)

\* a READY thread stays in the queue it was put into
SetPriority(t, u, p) ==
  /\ "priority" \in Ops
  /\ Running(t, "service")
  /\ u \in User /\ k.state[u] # "FREE"
  /\ Exec(t, {}, [k EXCEPT !.priority[u] = p], "leave", NULL)

(***************************************************************************)
(* gc_service::thread_gc                                                   *)
(***************************************************************************)
GcWait ==
  /\ Running(GC, "wait")
  /\ Exec(GC, {GcEv}, ImpWait(k, GcEv, FALSE), "get", NULL)

GcGet ==
  /\ Running(GC, "get")
  /\ IF k.gcq = {} THEN Exec(GC, {}, k, "wait", NULL)
     ELSE \E t \in k.gcq :
            Exec(GC, {}, [k EXCEPT !.gcq = @ \ {t}], "collect", t)

\* thread::on_gc: the waiters are woken, the thread leaves its process
GcCollect ==
  LET t == obj[GC] IN
  /\ Running(GC, "collect")
  /\ Exec(GC, {t}, Notify([k EXCEPT !.dead = @ \cup {t}], t), "get", NULL)

(***************************************************************************)
(* Interrupts                                                              *)
(***************************************************************************)
\* core_manager::on_timer; the slice that is left decides on lower
OnSlice(lower) ==
  /\ k.halt = "no"
  /\ k.state[k.cur] = "STOPPED" => lower
  /\ k' = Preempt(k, lower)
  /\ UNCHANGED <<pc, obj>>

\* waitable::on_timer: the wait or the sleep of t has timed out
OnTimeout(t) ==
  LET me == k.cur
      r1 == SetReady(k, t, "TIMEOUT")
      r2 == [r1 EXCEPT !.armed = @ \ {t}, !.state[t] = "RUNNING"]
      r3 == IF r2.state[me] = "STOPPED" THEN r2
            ELSE ReadyPut([r2 EXCEPT !.state[me] = "READY"], me)
      objs == {t} \cup ({k.wait_for[t]} \ {NULL})
  IN /\ k.halt = "no"
     /\ t \in k.armed
     /\ k' = Locking(objs,
               IF k.priority[t] < k.priority[me] THEN SwitchTo(r3, t)
               ELSE ReadyPut([r1 EXCEPT !.armed = @ \ {t}], t))
     /\ UNCHANGED <<pc, obj>>

(***************************************************************************)
(* Init: the kernel has booted, the initial thread runs as the idle thread *)
(***************************************************************************)
BornOrder == CHOOSE s \in [1..Cardinality(Born) -> Born] :
               \A i, j \in DOMAIN s : s[i] = s[j] => i = j

Init ==
  /\ k = [state |-> [t \in Thread |->
                       IF t = Idle THEN "RUNNING"
                       ELSE IF t \in Born \cup {GC} THEN "READY" ELSE "FREE"],
          priority |-> [t \in Thread |->
                          IF t = Idle THEN IdlePriority
                          ELSE IF t = GC THEN ServicePriority
                          ELSE UserPriority],
          critical |-> [t \in Thread |-> {}],
          wait_for |-> [t \in Thread |-> NULL],
          ticket |-> [t \in Thread |-> FALSE],
          armed |-> {},
          ready |-> [p \in Level |->
                       IF p = ServicePriority THEN Put(Empty, GC)
                       ELSE IF p = UserPriority THEN BornOrder ELSE Empty],
          wq |-> [o \in Waitable |-> Empty],
          signaled |-> {},
          gcq |-> {}, gc_ptr |-> NULL, dead |-> {},
          cur |-> Idle,
          locked |-> {},
          halt |-> "no"]
  /\ pc = [t \in Thread |-> IF t = GC THEN "wait" ELSE "user"]
  /\ obj = [t \in Thread |-> NULL]

InKernel(t) ==
  \/ Drop(t) \/ Escape(t) \/ ExitThread(t) \/ ExitKill(t)
  \/ \E u \in User : KillThread(t, u) \/ Spawn(t, u)
  \/ \E u \in User, p \in {ShellPriority, UserPriority} : SetPriority(t, u, p)
  \/ \E e \in Event, mode \in {"one", "all"} : SignalEvent(t, e, mode)
  \/ \E e \in Event : ResetEvent(t, e)
  \/ \E o \in Event \cup User : WaitCheck(t, o)
  \/ \E timed \in BOOLEAN : WaitBlock(t, timed)
  \/ SleepFor(t) \/ Yield(t)

Collector == GcWait \/ GcGet \/ GcCollect

Next ==
  \/ \E t \in User : Hold(t) \/ InKernel(t)
  \/ Collector
  \/ \E lower \in BOOLEAN : OnSlice(lower)
  \/ \E t \in Thread : OnTimeout(t)

Spec == Init /\ [][Next]_vars

(***************************************************************************)
(* Properties                                                              *)
(***************************************************************************)
States == {"FREE", "READY", "RUNNING", "WAITING", "STOPPED"}
Halts == {"no", "spinlock timeout", "no ready thread",
          "put: thread not READY"}
Places == {"user", "service", "leave", "escape", "exit", "wait", "get",
           "collect"}

\* Every field of the thread core holds a value of its C++ type.
TypeOK ==
  /\ k.state \in [Thread -> States]
  /\ k.priority \in [Thread -> Level]
  /\ k.critical \in [Thread -> SUBSET {"CRITICAL", "KILL"}]
  /\ k.wait_for \in [Thread -> Waitable \cup {NULL}]
  /\ k.ticket \in [Thread -> BOOLEAN]
  /\ k.armed \subseteq Thread
  /\ DOMAIN k.ready = Level
  /\ \A p \in Level : Elems(k.ready[p]) \subseteq Thread
  /\ DOMAIN k.wq = Waitable
  /\ \A o \in Waitable : Elems(k.wq[o]) \subseteq Thread
  /\ k.signaled \subseteq Event
  /\ k.gcq \subseteq Thread /\ k.dead \subseteq Thread
  /\ k.gc_ptr \in Thread \cup {NULL} /\ k.cur \in Thread
  /\ k.locked \subseteq Waitable /\ k.halt \in Halts
  /\ pc \in [Thread -> Places] /\ obj \in [Thread -> Waitable \cup {NULL}]

Times(q, t) == Cardinality({i \in DOMAIN q : q[i] = t})
InReady(t) == {p \in Level : t \in Elems(k.ready[p])}
InWait(t) == {o \in Waitable : t \in Elems(k.wq[o])}

(* The intrusive link thread::next serves the ready queues, the wait       *)
(* queues and the gc queue, so a thread may be linked into one of them at  *)
(* most, and once: a READY thread into one ready queue, a WAITING thread   *)
(* into the wait queue of the object in wait_for, a RUNNING thread into    *)
(* none.                                                                   *)
QueueMatchesState ==
  \A t \in Thread :
    /\ \A p \in Level : Times(k.ready[p], t) <= 1
    /\ \A o \in Waitable : Times(k.wq[o], t) <= 1
    /\ Cardinality(InReady(t)) + Cardinality(InWait(t))
         + (IF t \in k.gcq THEN 1 ELSE 0) <= 1
    /\ k.state[t] = "READY" => InReady(t) # {}
    /\ InWait(t) = IF k.wait_for[t] = NULL THEN {} ELSE {k.wait_for[t]}
    /\ k.wait_for[t] # NULL => k.state[t] = "WAITING"
    /\ k.state[t] \in {"RUNNING", "FREE"} => InReady(t) = {} /\ t \notin k.gcq

(* The core runs the one RUNNING thread, and a STOPPED thread only on its  *)
(* way out (after drop() stopped it, until the next switch); a thread that *)
(* gives up the core always finds a next one, since idle never blocks.     *)
OneRunning ==
  k.halt # "no ready thread" /\ \A t \in Thread :
    /\ k.state[t] = "RUNNING" => t = k.cur
    /\ t = k.cur /\ k.halt = "no" =>
         \/ k.state[t] = "RUNNING"
         \/ k.state[t] = "STOPPED" /\ pc[t] = "escape"

(* A timer is armed exactly for the threads that wait with a ticket, and a *)
(* waiting thread has something that can still wake it: an object or a     *)
(* timer.  An entry left in the timer would call back on a freed thread.   *)
TimerMatchesTicket ==
  \A t \in Thread :
    /\ t \in k.armed <=> k.ticket[t]
    /\ k.ticket[t] => k.state[t] = "WAITING"
    /\ k.state[t] = "WAITING" => k.ticket[t] \/ k.wait_for[t] # NULL

(* A thread that was STOPPED is in exactly one place on its way to         *)
(* gc_service: still in the ready queue it was killed in, still on the     *)
(* core, in gc_ptr, in the gc queue, in the hands of the gc thread, or     *)
(* collected.  None is lost and none is collected twice.                   *)
StoppedIsKept ==
  \A t \in User :
    Cardinality({w \in {"ready", "core", "gc_ptr", "gcq", "gc", "dead"} :
        CASE w = "ready" -> InReady(t) # {} /\ k.state[t] = "STOPPED"
          [] w = "core" -> k.cur = t /\ k.state[t] = "STOPPED"
          [] w = "gc_ptr" -> k.gc_ptr = t
          [] w = "gcq" -> t \in k.gcq
          [] w = "gc" -> pc[GC] = "collect" /\ obj[GC] = t
          [] OTHER -> t \in k.dead})
      = IF k.state[t] = "STOPPED" THEN 1 ELSE 0

(* hold() protects: a thread inside a critical section is not STOPPED, so  *)
(* it never disappears with the handle table or the address space locked.  *)
CriticalNotStopped ==
  \A t \in Thread : "CRITICAL" \in k.critical[t] => k.state[t] # "STOPPED"

(* The links of every thread agree with its state: what can wake it, run   *)
(* it or collect it is where set_state, imp_wait and notify look for it.   *)
LinksSound == QueueMatchesState /\ TimerMatchesTicket

(* A thread stops in order: outside critical sections only, and on one way *)
(* to gc_service, on which it is neither lost nor taken twice.             *)
StopIsOrderly == StoppedIsKept /\ CriticalNotStopped

(* STOPPED is final: a stopped thread never becomes READY or RUNNING again *)
(* and is never switched to, and a collected one is not collected again.   *)
StoppedIsFinal ==
  [][\A t \in Thread :
       k.state[t] = "STOPPED" =>
         /\ k'.state[t] = "STOPPED"
         /\ k'.cur = t => k.cur = t
         /\ t \in k.dead => t \notin k'.gcq]_vars

(* Whatever wakes a waiting thread (a signal, its timeout, a kill, the end *)
(* of the thread it waits for) withdraws it from all the others: its timer *)
(* is disarmed and it is in no wait queue, so it is not woken twice.       *)
WakeIsComplete ==
  [][\A t \in Thread :
       k.state[t] = "WAITING" /\ k'.state[t] # "WAITING" =>
         /\ t \notin k'.armed /\ ~k'.ticket[t] /\ k'.wait_for[t] = NULL
         /\ \A o \in Waitable : t \notin Elems(k'.wq[o])]_vars

(***************************************************************************)
(* Liveness.  The periodic timer keeps interrupting, so a slice runs out   *)
(* again and again and armed timers fire; a thread that gets the core      *)
(* again and again executes (strong fairness: it may lose the core before  *)
(* it took the step).  A thread in user mode need not call any service.    *)
(***************************************************************************)
(* Every handler is total, so a section is enabled exactly when its thread *)
(* is at it: the fairness conditions name that state instead of ENABLED.   *)
CanRotate ==
  /\ k.halt = "no"
  /\ \/ k.state[k.cur] = "STOPPED"
     \/ \E p \in 0..k.priority[k.cur] : k.ready[p] # Empty
CanTimeout(t) == k.halt = "no" /\ t \in k.armed
CanStep(t) == k.halt = "no" /\ k.cur = t /\ pc[t] # "user"

Fairness ==
  /\ []<>~CanRotate \/ []<><<OnSlice(TRUE)>>_vars
  /\ \A t \in User : []<>~CanTimeout(t) \/ []<><<OnTimeout(t)>>_vars
  /\ <>[]~CanStep(GC) \/ []<><<Collector>>_vars
  /\ \A t \in User : <>[]~CanStep(t) \/ []<><<InKernel(t)>>_vars

FairSpec == Spec /\ Fairness

Halted == k.halt # "no"

\* a thread of a higher priority than the common one may keep the core
Ranked == \E u \in User : k.priority[u] # UserPriority

(* A kill that finds its target in a critical section is not lost: the     *)
(* target is STOPPED when it leaves the section, however it leaves it,     *)
(* unless a thread of a higher priority keeps the core.                    *)
KillTakesEffect ==
  \A t \in User :
    "KILL" \in k.critical[t] ~> k.state[t] = "STOPPED" \/ Halted \/ Ranked

(* Round robin: while the user threads are of one priority, none stays     *)
(* READY for ever behind the others, however they wait, sleep, spawn, die  *)
(* and are collected.                                                      *)
ReadyGetsCore ==
  \A t \in User :
    k.state[t] = "READY" ~> k.state[t] # "READY" \/ Halted \/ Ranked

(* A thread that waits or sleeps with a timeout does not wait for ever.    *)
TimedWaitEnds ==
  \A t \in User : k.ticket[t] ~> ~k.ticket[t] \/ Halted

(***************************************************************************)
(* What the code states and does not keep                                  *)
(***************************************************************************)
(* An object that is signaled lets every wait pass: nobody waits for a     *)
(* signaled event or for a thread that has ended and been collected.       *)
SignaledHasNoWaiters ==
  /\ \A e \in k.signaled : k.wq[e] = Empty
  /\ \A t \in k.dead : k.wq[t] = Empty
=============================================================================
