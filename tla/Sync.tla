-------------------------------- MODULE Sync --------------------------------
(***************************************************************************)
(* Where threads block, side by side: the primitives of kernel/sync (a     *)
(* pipe, a pipe with atomic writes, an rwlock, a semaphore), the commands  *)
(* of the IDE driver, and the service calls.  They share no state, so a    *)
(* behaviour exercises one of them, which is chosen initially.             *)
(***************************************************************************)
EXTENDS RWLock, Sequences

CONSTANTS Semaphores, Events, MaxObjects     \* of the service calls

VARIABLES
  part,
  head, tail, buffer, iostate, readers_writers, out,   \* Pipe
  count, waiters, woken, lost,                         \* Semaphore
  sync, ev, reg, drive, given, line, done, late, step, result, stop, \* IDE
  rest, held, using, handles, alive                    \* Services

pipe == <<head, tail, buffer, iostate, readers_writers, out>>
semaphore == <<count, waiters, woken, lost>>
disk == <<sync, ev, reg, drive, given, line, done, late, step, result, stop>>

services == <<rest, held, using, handles, alive>>

P == INSTANCE Pipe WITH waiting <- readers_writers, Atomic <- FALSE
A == INSTANCE Pipe WITH waiting <- readers_writers, Atomic <- TRUE
S == INSTANCE Semaphore WITH waiting <- waiters
D == INSTANCE IDE WITH Clients <- Writer, at <- step
V == INSTANCE Services WITH Clients <- Writer

\* The worker is no thread of the process; NULL is no object and no lock.
ASSUME ServicesAssumption ==
  /\ V!Worker \notin Writer /\ NULL \notin V!Object
  /\ NULL # <<"handles", "EXCLUSIVE">>

SyncInit ==
  /\ part \in {"pipe", "atomic pipe", "rwlock", "semaphore", "disk",
               "services"}
  /\ P!Init /\ Init /\ S!Init /\ D!Init /\ V!Init
  \* what an unused pipe contains does not matter
  /\ part \notin {"pipe", "atomic pipe"} =>
       buffer = [i \in DOMAIN buffer |-> CHOOSE b \in Byte : TRUE]

SyncNext ==
  /\ \/ /\ part = "pipe" /\ P!Next
        /\ UNCHANGED <<vars, semaphore, disk, services>>
     \/ /\ part = "atomic pipe" /\ A!Next
        /\ UNCHANGED <<vars, semaphore, disk, services>>
     \/ /\ part = "rwlock" /\ Next
        /\ UNCHANGED <<pipe, semaphore, disk, services>>
     \/ /\ part = "semaphore" /\ S!Next
        /\ UNCHANGED <<pipe, vars, disk, services>>
     \/ /\ part = "disk" /\ D!Next
        /\ UNCHANGED <<pipe, vars, semaphore, services>>
     \/ /\ part = "services" /\ V!Next
        /\ UNCHANGED <<pipe, vars, semaphore, disk>>
  /\ UNCHANGED part

SyncSpec ==
  /\ SyncInit
  /\ [][SyncNext]_<<part, pipe, vars, semaphore, disk, services>>
  /\ Fairness /\ D!Fairness

(***************************************************************************)
(* Properties: Exclusion of RWLock, and those of the other components,     *)
(* stated together where they say the same of each.                        *)
(***************************************************************************)
(* No primitive loses a wakeup: nobody sleeps on a pipe that has data or   *)
(* room for him, on a lock that he could take, or on a semaphore with      *)
(* units that no woken thread is coming for.                               *)
WakeupsArrive == P!NoLostWakeup /\ NoLostWakeup /\ S!NoLostWakeup

(* The ring buffer of pipe::read and pipe::write is a bounded byte         *)
(* channel, and with atomic_write a write stores its whole message or      *)
(* nothing.                                                                *)
ImplementsChannel ==
  P!ImplementsChannel /\ [][part = "atomic pipe" => A!AtomicStep]_pipe

(* What a command of the IDE driver reports is about its own transfer,     *)
(* whichever interrupts are lost or late, unless one that was given up at  *)
(* a timeout ends in its place.                                            *)
AnswerIsTrue == D!AnswerIsTrue

(* Nobody waits for ever on a lock that is given back or on a drive: a     *)
(* reader of the rwlock is woken, and every command of the IDE driver      *)
(* returns, whatever the drive does, that is not overtaken at the          *)
(* semaphore for ever.                                                     *)
WaitsEnd == ReaderIsWoken /\ D!CommandReturns

(* Service calls do not wait for each other in a circle, and what one      *)
(* found through a handle exists while it uses it or sleeps on it,         *)
(* whichever handles the other threads close meanwhile.                    *)
CallsAreSafe == V!NoCircle /\ V!UsedIsAlive
=============================================================================
