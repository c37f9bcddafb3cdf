--------------------------- MODULE SyncConstants ---------------------------
(***************************************************************************)
(* The parameters of the blocking primitives of kernel/sync (Pipe, RWLock, *)
(* Semaphore) and what is assumed of them.                                 *)
(***************************************************************************)
EXTENDS Integers, FiniteSets

CONSTANTS
  Writer,      \* threads for which pipe::is_owner() = (mode & owner_write)
  Reader,      \* the other threads
  NULL,        \* no thread
  Byte,        \* what a pipe transports
  Limit,       \* pipe::limit; the service creates pipes of 0x10 and more
  MaxLength,   \* bound: the longest request to a pipe
  Total,       \* the count a semaphore is created with
  MaxLost      \* bound: the woken waiters of a semaphore that are killed

Thread == Writer \cup Reader

ASSUME PipeAssumption ==
  /\ Limit \in Nat /\ Limit >= 2
  /\ MaxLength \in Nat
  /\ Writer \cap Reader = {}

ASSUME RWAssumption == IsFiniteSet(Thread) /\ NULL \notin Thread

ASSUME SemaphoreAssumption ==
  /\ IsFiniteSet(Thread) /\ Total \in Nat \ {0} /\ MaxLost \in Nat
=============================================================================
