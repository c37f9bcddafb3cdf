# TLA+ models of the COFUOS kernel

COFUOS is a small x86-64 operating system kernel (`src/kernel`, C++ with some
assembly) with preemptive threads, processes, blocking synchronisation, paged
memory, a disk cache, an exFAT file system and a system call interface. This
directory holds TLA+ modules that model it, TLC configurations that check them
on small instances, and TLAPS proofs that establish central invariants for every
value of the parameters.

The kernel drives one core (`core_manager` starts the boot processor only), so
code that runs with interrupts off is atomic and **an IF-off section is one
action** everywhere below; between two sections any other thread, an interrupt
or a kill may come. Assertions are compiled in and stop the machine
(`bugcheck`): where a handler can run into one, the models have a `halt` or
`stop` field, and nothing happens after it is set.

## 1. Inventory

| part | state | operations | what is hard about it |
|---|---|---|---|
| thread core: `process/waitable.cpp`, `thread.cpp`, `core_state.cpp` | thread states, ready queues, wait queues, critical flags, timer tickets, `gc_ptr`, gc queue | wait, notify, sleep, kill, hold/drop, preempt, switch_to, gc | one intrusive link shared by all queues; kills, signals and timeouts meet in any order; a stopped thread must outlive the switch that leaves its stack |
| event, semaphore, rwlock, pipe: `sync/` | counters, owner, ring buffer, wait queue | wait, signal, reset, lock, unlock, downgrade, read, write | wakeups given only at edges, woken threads that are overtaken or killed |
| process, handle table: `process/process.cpp` | threads, active count, references, handles | spawn, kill, on_exit, erase, put, assign, close, clear | teardown while service calls of other threads are under way; handles on oneself |
| service calls: `interface/service.cpp`, `bridge.cpp` | per-call locks and critical section | about 60 calls | locks kept to the end of the call, in different orders; objects used without a reference; paths that never return |
| physical memory: `memory/pm.cpp` | two bits per page, used, reserved | allocate (three modes), reserve, release | binary search over bits that every operation must keep exact |
| virtual memory: `memory/vm.cpp`, `kernel_vspace.cpp`, `user_vspace.cpp` | page tables with a free list threaded through them, views | reserve, commit, release, protect, map, unmap | free list in unused page table entries, roll back of a request that fails half way, slots taken without a lock |
| heap: `util/include/buddy_heap.hpp` | free lists per size | get, put, expand | halves split and joined, growth between two critical sections |
| timer, RTC: `dev/timer.cpp`, `rtc.cpp` | delta queue, record of tickets, time | wait, cancel, step, on_second, update | differences instead of deadlines, lost interrupts |
| PS/2: `dev/ps_2.cpp` | a ring and a thread per channel | set-up, probe, reset, decoding | late answers, resends, unplugging, two threads at one controller |
| disk cache, IDE: `dev/disk_interface.cpp`, `ide.cpp` | slots, dirty bits, one command | get, upgrade, relax, load, store, flush, command | a look without a lock, failing transfers, late and lost interrupts |
| file system: `filesystem/` | workers, request list, cluster bitmap, FAT, chain caches, tree of instances, records | open, read, write, list, set_rw, stop, mount | requests handed between threads, locks taken up and down the tree, records that cross sectors, transfers cut into chunks |
| named objects: `interface/object.cpp` | names | put, get, erase | nothing calls put |
| exceptions, kdb, APIC, ACPI, PCI, display, boot, applications | | | mostly I/O; see section 7 |

Interaction: service calls enter a critical section (`hold`), look up handles
under the handle table's rwlock, check buffers under the rwlock of the address
space, and call into the object. Objects block through `waitable::imp_wait`,
which takes the next thread from the ready queues, arms the timer and switches;
they wake through `notify`. Timer callbacks and the time slice preempt. A stopped
thread goes through `gc_ptr` and the gc queue to the gc thread, which tells the
process (`on_exit`) and gives back its reference; the last thread clears the
handles and the last reference deletes the process. A file request is posted to
the workers, which walk the cluster chain, go through the disk cache to the IDE
driver and copy from or to the address space of the client.

## 2. Modules

| module | models | run by |
|---|---|---|
| `ThreadCore` | thread core, event, the gc thread, hold/drop of service calls | `MCThreadCore` |
| `Process` | life and references of a process, its threads and its handles; abstracts ThreadCore's way of a stopped thread to gc | `MCProcess` |
| `Pipe`, `RWLock`, `Semaphore` (parameters: `SyncConstants`) | `sync/` | `Sync` |
| `ByteChannel` | what a pipe promises; refined by `Pipe` | `Sync` |
| `IDE` | the command of the IDE driver against an external drive | `Sync` |
| `Services` | the service calls: locks, objects found through handles, waiting | `Sync` |
| `PM`, `HandleTable` (`AllocatorConstants`) | page allocator, handle table | `Allocators` |
| `PageTable`, `VSpace`, `MapView`, `BuddyHeap` (`AllocatorConstants`) | free list of a page table, address space, windows on physical pages, heap | `Allocators` |
| `Region` | a table as the set of its free pages; refined by `PageTable`, used by `VSpace` | `Allocators` |
| `Timer`, `RTC`, `PS2` (`DeviceConstants`) | `basic_timer`, `RTC::update`, the PS/2 driver | `Devices` |
| `Deadlines` | what the timer promises; refined by `Timer` | `Devices` |
| `DiskCache`, `ClusterChain`, `Instances` (`StorageConstants`) | disk cache; FAT, bitmap and chain caches; tree of open files | `Storage` |
| `FileRequests`, `FolderRecords`, `FileIO`, `Mount` (`FileConstants`) | worker pool, records of a folder, transfers, mounting | `FileSystem` |
| `*_proofs` | theorems on `ThreadCore`, `Process`, `Sync` (with the rwlock, the semaphore and the IDE driver), `Pipe`, `Services`, `Allocators` (PM, handle table, address space, views, heap), `Storage` (the disk cache and the tree of open files) and `FileSystem` (requests, transfers, mounting) | |

`Sync`, `Allocators`, `Devices`, `Storage` and `FileSystem` are benches: their
components share no state (each contains what it needs of the others), so a
behaviour chooses a component initially and exercises only that one. TLC explores
the sum and not the product of their state spaces, and nothing is lost. Operators
whose comment begins with "Faulty" are deliberately wrong variants of a
definition; replacing the definition by one of them must make TLC find a
violation, which shows that the property depends on the code.

### ThreadCore

`k` is a record of all kernel data of the thread core: `state`, `priority`,
`critical`, `wait_for`, `ticket` of each thread, `armed` (entries of the timer),
`ready` (one queue per level), `wq` (a queue per waitable), `signaled`, `gcq`,
`gc_ptr`, `cur`, `dead`, `locked` (objlocks that nobody will release) and `halt`.
`pc` says at which place between two IF-off sections a thread is, `obj` what it
carries over. The functions that several handlers call are operators from record
to record with the names of the code (`SetReady` for `set_state(READY)`,
`ImpNotify`, `SwitchTo`, `Preempt`, `ImpWait`, `Sleep`, `Kill`), and a handler is
their composition. The loop that pops the ready queues until it finds a thread
that is not STOPPED is described by what it leaves: `Popped`, `NextThread`,
`Reaped`, `Take`. The sixteen priorities are reduced to the four that matter
(services, shell, user, idle). An event and the threads themselves are the
waitable objects. The slice counter is abstracted: the slice interrupt may or
may not be the one that ends the slice.

### Process

`p` is a record of the process: `state`, `threads`, `active_count`, `ref_count`
of the process and of each thread, `handles` (how many handles of the table hold
each object), `others` (handles in other processes), `life`, `critical`, `kill`
of the threads, `hold` (who has the handle table locked SHARED). `at`, `arg`
and `gc` are the places of threads and of the gc thread between sections.

### Sync

`Pipe` keeps the ring buffer byte for byte; `RWLock` and `Semaphore` keep the
retry loops of `lock` and `wait`, one round per action, so that a woken thread
can be overtaken, time out or be killed before it runs. `IDE` keeps the event,
the semaphore and the registers; the drive makes progress, fails, and its
interrupt comes late or never. A wait that times out stops the DMA engine and
nothing else: the drive may go on with the transfer that was given up
(`given`), and end it during a later command, whose buffer it then uses, or
between two commands.

In `Services` a call is the sequence of its steps that lock, wait or use an
object; `Lock` says what a step takes, `Kept` what stays locked, and a step of
`MayFail` can be the last. Two threads of a process issue any call, a worker of
the file system serves a request on their memory at any time. `GetWorkDir` and
`set_work_dir` hold the spin lock of the process while they wait for a folder;
another thread that needs that lock with interrupts disabled then spins until
"spinlock timeout" stops the machine (`Spin`), and the model stops as well.

### Allocators

`PM` keeps both bits of every page and the binary search; `HandleTable` keeps
pages, `count` and `top`. `PageTable` keeps the entries: a free block has its
links, size and offsets in its own entries, and every operation of the list is
translated as it edits them; `Region` is the set of free pages that results.
The assertion of `BLOCK::get` on the third entry of a block (`vm.cpp:74`) fails
for every block that has not four pages (section 6): `stop` in `PageTable`,
`Stops` in `Region` and `VSpace`. `VSpace` has directories and tables that are made on demand, with the physical
pages that PM still has as a number, and the roll back of `reserve` and `commit`.
`MapView` separates the look at a slot from the compare and exchange.
`BuddyHeap` has one action per critical section.

### Devices

`Timer` keeps the delta queue with its lazy cancel. `RTC` keeps the two-bit
comparison and the calendar arithmetic; the clock chip (external) is modelled
from the registers that the handler reads, with hours of four seconds. `PS2` has
the rings, the plan of commands for each device, resends, timeouts, the probe
after a second without input, and decoding. Keyboard, mouse and controller are
external: they answer or not, are plugged and unplugged.

### Storage and FileSystem

`DiskCache` follows `get` from its unlocked look to the locked slot, with load,
store, take over and failing transfers; what is written into a sector names the
sector, so that contents of other pages would show. `ClusterChain` has the FAT,
the bitmap with `bmp_lock`, the cache lines of a chain, the FAT sectors that
workers have locked and the pages in slots that failed transfers left locked
(`stuck`); a read that fails returns 0 and the write goes on into `expand`. `Instances` has the tree with references and rwlocks, walked by openers
along paths with `.` and `..`, and locked from below by writers, `get_path` and
the end of an instance. `FileRequests` has the list, the event that the workers
sleep on, `set_rw` and `stop`. `FolderRecords` runs the reader of a folder over
record sets, with updates, checksums and a slot that is reused. `FileIO` cuts a
request into chunks as the workers do, with the source of every unit as its
value, and with a cache that writes back only the sectors that were marked.
`Mount` runs over small disks, sound and unsound, with dwords and qwords of few
bits; `set_rw` and `stop` are cut where another thread can come between.

## 3. Runs

| run | module, config | checks |
|---|---|---|
| `thread_core` | MCThreadCore, ThreadCore.cfg | `LinksSound`: each thread is in the queue and the timer entry that its state says and in no other; `StopIsOrderly`: stopped threads are in exactly one place on the way to gc, critical sections are respected; exactly one RUNNING thread; STOPPED is final; a wakeup withdraws the thread from every other source of wakeups; postponed kills, round robin, timed waits (liveness) |
| `process` | MCProcess, Process.cfg | `TeardownSound`: references and active_count exact; no assertion of the teardown |
| `process_live` | MCProcess, ProcessLive.cfg | a killed process ends, its handles are released, it is deleted (liveness) |
| `sync` | Sync, Sync.cfg | no lost wakeups; exclusion; the channel refinement with atomic writes; IDE commands answer for their own transfer, or for one that was given up and ends in its place; `CallsAreSafe`: no circle of service calls that wait for each other, no use of a destroyed object; `WaitsEnd`: sleeping readers are woken, commands return (liveness) |
| `allocators` | Allocators, Allocators.cfg | exact counters and bits; reservations backed; no early exhaustion; nothing given out twice by heap and views; the free list and its refinement of `Region`; what `reserve` takes is what it returns, up to addresses that are 0 in 32 bits |
| `devices` | Devices, Devices.cfg | the deadlines refinement; clocks agree in spite of lost interrupts; keys are decoded as typed; a PS/2 device is used only after its set-up |
| `storage` | Storage, Storage.cfg | the cache is transparent but for sectors that were in two slots, a sector has only contents of its own, the one assertion that fails is the known one; chains are disjoint and their caches true; references in the tree are exact; deadlocks only in the known ways |
| `file_system` | FileSystem, FileSystem.cfg | requests are in one place and end; the pool stops; files stay found after updates; transfers are exact and survive evictions, but for a torn last sector; look-ups in a mounted volume stay in its parts unless its numbers wrap, dirty marks are kept |
| `thread_lost_wakeup`, `process_self_kill`, `rtc_leap_year`, `storage_dot` | | violations, section 6 |

Bounds and why they are enough:

* threads: two user threads, gc and idle, in one run for safety and liveness.
  The queue properties concern a thread, the object or thread it waits for, and
  one that kills or signals; the timer, the slice and gc act besides. The proofs
  remove the bound for the safety properties.
* one event: a thread waits for one object at a time, and threads and gc's own
  event are further objects.
* process: three threads, two handles in the table and two outside, so that the
  table can be full, hold the process itself twice, and lose its last handle in
  any order. `process_live` starts with two threads.
* pipe: four slots, messages up to four bytes (longer than the buffer holds),
  two threads on each side; rwlock four threads; semaphore of three units, four
  threads, two killed after a wakeup. The proofs remove these bounds for the
  invariants. IDE: two clients, so that a late interrupt, or the late end of
  a transfer that was given up, meets the next command.
* services: two threads and a worker, a semaphore and an event of which one
  exists at a time (`MaxObjects`): the properties relate one object to its users.
  The same invariants hold with three threads and both objects (4.7 million
  states up to symmetry, too long to be kept as a run).
* PM: three blocks of four pages, so the search wraps around and a block has
  first, middle and last pages; HandleTable: eleven handles in three pages, two
  reserved. The proofs remove these bounds.
* page table: eight entries, so that blocks of one, two, three and more pages
  exist next to each other, and calls meet the third page of blocks of three,
  four and more; address space: two directories of two tables of two pages, nine
  physical pages, so that they run out at every point of a request, and
  addresses that wrap after the first directory (`Wrap = 1`; the code has 512
  directories and wraps after four), so that ranges are reserved on both sides
  of it. Its tables are too small for a third page: the stops at `vm.cpp:74` are
  reached in the page table's instance, and the proofs of `VSpace` cover tables
  of any size. Views: three views on three slots; heap: blocks of up to four
  units (`Top = 3`), two callers, growth by two pages.
* timer: three tickets, waits of one to three beats with and without repeat,
  seven beats, seconds of three beats. RTC: a day and a bit from the last day of
  each month, so each month, year and century boundary is crossed, with up to
  two interrupts lost between reloads. PS/2: rings of four bytes, two keys with
  prefixes, two failures of set-up, one unplugging or lost answer.
* disk cache: two slots, two pages of two sectors, two clients and the flusher,
  one failing transfer, four calls of `get` (`MaxCalls`): two that miss the same
  page, one that writes it in one slot and one that finds it in the other.
  Nothing is cut off: behaviours go on after a page has come into two slots.
  Chains: a file of two clusters, an empty one and a linear one of one cluster
  on five clusters, two FAT sectors, two cache lines, one failing operation; the
  first is asked for indices up to 3, the others up to 1 (`AskedFor`), so that
  lines are replaced, the volume fills up and the linear file is asked past its
  end. Tree: a folder in the root and a file in it, two openers, six paths.
  Clients, pages and openers are symmetric.
* requests: two threads, two workers, a file and a folder, two calls each;
  transfers: files of six units of which two make a sector, clusters of three
  sectors and pages of two, requests of up to seven units at each offset, so
  each chunk border meets each other one, and any page is evicted at any time.
* volumes: dwords of four bits and qwords of eight, so that each product and sum
  of `parse_header` wraps for some disk and not for others; folders of up to two
  clusters.

`CHECK_DEADLOCK FALSE` is set where the system may stop: after a bugcheck, when
all threads have ended, or at the bound of a clock or of a number of calls.

### Fairness

* `ThreadCore`: the periodic timer keeps interrupting, so the end of a slice and
  armed timeouts come again and again; a thread that gets the core again and
  again in kernel mode takes its next step (strong fairness, since it can lose
  the core before it does). No fairness for threads in user mode, which need not
  call anything. Round robin holds for threads of one priority; threads of lower
  priority may starve by design, so the properties except a thread that one of
  higher priority keeps from the core (`Ranked`).
* `Process`: what `ThreadCore` shows, weak fairness of threads in the kernel and
  of the gc thread.
* `RWLock`: a holder unlocks (the sections that hold a lock end) and a woken
  thread runs again. Writers have no such guarantee: overlapping readers keep
  them out, and the code promises nothing else.
* `IDE`: a command that has started goes on, by the interrupt or the timeout, and
  a client gets the semaphore if it stays free (weak). `semaphore::signal` leaves
  the unit to whoever comes first, the signaller too, so a client can be
  overtaken for ever, and `CommandReturns` excepts this case. No fairness for the
  drive.
* `FileRequests`: threads in a call, workers and the thread that stops the file
  system run (weak).

## 4. Proofs

TLAPS proves, for every number of threads, size of buffer, table, cache and
memory:

| module | theorem | inductive invariant |
|---|---|---|
| `ThreadCore_proofs` | `InvariantHolds`, `TypesHold`, `ThreadsAreLinkedOnce`, `ThreadsStopInOrder`, `OneThreadRuns`, `NoThreadReturns`, `WakingWithdraws` | `IInv`, see below |
| `Pipe_proofs` | `TypeCorrect`, `NoWakeupIsLost`, `SidesNeverDeadlock`, `RingIsChannel`, `AtomicWrites` | types and `NoLostWakeup`, which is inductive together with the arithmetic of head and tail: a read of a buffer that is not full leaves sleeping readers only if it was empty. For the channel: the bytes between tail and head, which a write extends at the end and a read shortens at the front, around the end of the ring too |
| `Process_proofs` | `TeardownIsSound` | `IInv`, see below |
| `Services_proofs` | the lemmas for `CallsNeverLock` | what each call has locked at each of its steps; a call only waits for a lock of a higher rank than those it keeps, and an object that is used has a reference |
| `Sync_proofs` | `LockExcludes`, `NoSleepOnFreeLock`, `WakeupsSuffice`, `NoWakeupIsLost`, `CommandsAnswerTruly`, `LockStaysExclusive`, `CallsNeverLock`, `PipesAreChannels` | for the rwlock types, `Exclusion` (share_count is a cardinality, so the set of readers must be finite) and `NoLostWakeup`; for the semaphore the count below the number of woken threads plus those killed after their wakeup; for the IDE driver that one command is under way at a time (`OneCommand`), that flags are set between commands only after the late end of a transfer that was given up (`FlagsAreOwn`), and what the status register tells about the command of the owner of the semaphore (`StatusTells`); together with the invariants of `Pipe_proofs` and `Services_proofs`, and each step leaves the other components alone |
| `Allocators_proofs` | `TypeCorrect`, `BitmapIsExact`, `ReservationIsKept`, `OnlyExhaustionStops`, `BisectionIsRight`, `HandleTypes`, `HandleCounters`, `HandlesUpToThreeQuarters`, `WindowsAreExclusive`, `CountersStayExact`, `NobodyGivesUpEarly`, `EverythingOwnedOnce`, `ReserveTakesItsRange` | `AllocInv`: the invariants of the five components, see below |
| `Storage_proofs` | `CacheIsTransparent`, `TreeStaysSound`, `ChainsStaySound`, `WorkersBlockAtFatOnly` | `CacheInv`, `TreeInv` and `ChainInv`, see below |
| `FileSystem_proofs` | `RequestsStayConserved`, `TransfersAreExact`, `VolumeStaysSound` | `RequestInv`, `TransferInv`, `VolumeInv`, see below |

**The thread core.** The properties of `ThreadCore` are not inductive: a handler
is a composition of `SetReady`, `Cancel`, `Preempt`, `ImpWait`, ... and in its
middle a thread is in no queue, or the one that runs is no longer RUNNING. The
invariant is therefore stated for the record `k` and what the handler has in its
hands: `Sound(r, h, x, c)` says that with the thread `x` in transit, `h` in the
hand of the gc thread and `c` on the core, every other thread is linked exactly
where its state says (`Linked`: one ready queue of its own priority, one wait
queue, the gc queue, or none), and that what is stopped is on its way to gc or
dead (`Ended`). Each operator has a lemma from one `Sound` to the next, and the
lemma of a handler follows the order of its calls. `RunsOne` adds that exactly
the current thread is RUNNING, and `PlacesFine` what each thread carries from one
section to the next. Two stops of the code are unreachable as a consequence: the
bugcheck "no ready thread" (idle is always there), and "wait_queue corrupted" of
`waitable.cpp:201` when the wait of a thread is cancelled (abandoned objects
apart, section 6). The action properties
`NoThreadReturns` and `WakingWithdraws` follow from the same invariant.

**The process.** `TeardownSound` is not inductive: that the references are exact
does not say that the thread whose last reference goes has stopped, or that the
process that is deleted has no handles. `IInv` adds that the list of threads has
just those with a reference, that gc takes only threads that have stopped and
each of them once, that nobody is active while the handles are cleared, and that
a thread has an object in its hand exactly between acquire and put or between
close and relax. Then a call cannot delete its own process, since the caller is
in the list; the thread in the hand of gc keeps the process while
`handle_table::clear` empties the table; and the last `relax` of the process
finds neither threads nor handles. The lemmas about one reference that moves
(`MoveStep`, `EraseStep`, `EnterList`, `ReleaseStep`) hold for any sound data,
and each action is an application of one of them. `Clear` is written as what the
loop over the table leaves behind: how many references each object loses and
which threads lose their last one.

**The disk cache.** `CacheInv` says for each sector where the truth is: in a slot
that holds it (unless its owner has just zeroed it), and on the disk too unless
the sector is dirty; otherwise on the disk. It says so for every sector that is
not in `twice`, the ghost of those that have not been written since two misses at
once brought their page into two slots. It needs that a slot belongs to at most
one client (`Owned`) and that dirty sectors are valid. For all sectors it says
that what they hold was written into them (`ContentsAreOwn`). The assertion of
`slot::load` that fails (section 6) is part of the theorem: it fails only where a
reader meets a partly valid page that has been written back.

**The allocators.** For `PM` the invariant has the solid bits, the used counter
as a cardinality, and the first solid page of a block as the result of the
search; `BisectionIsRight` shows that the search, evaluated as the code does,
ends there. For the handle table the counters are cardinalities, `top` is the
highest used slot, and there is a page behind each used slot. For the address
space (`SpaceInv`) every directory and table that is made, and every page that
is committed, is backed by one physical page, so the pages taken are their
number, also after a `reserve` or `commit` that was rolled back half way; a
table belongs to a directory that is present and an absent one has no pages in
use. `ReserveTakesItsRange` has no hypothesis on the number of directories: it
says what `reserve` takes and returns where the addresses wrap in 32 bits
(section 6), and up to the assertions that stop the machine. For the views
(`ViewInv`) a thread that has found a slot free but not yet exchanged it owns
nothing. For the heap (`HeapInv`) the free blocks, the allocated ones and those
in the hands of a thread between two critical sections are aligned to their
size, do not overlap, together make up exactly what the heap was given, and no
two free ones are the halves of a block; that `put` joins and `get` splits over
any number of sizes is shown by following the recursive function that the loop
is written as.

**The tree of open files.** `TreeInv` gives each instance the list of those who
count for it: the open files, the threads on their way over it and the children
that are alive; `ref_count` is their number. The hypothesis `NoDotAtEnd` (no
path ends in `.`) is the boundary of the finding of the run `storage_dot`: with
such a path the count is wrong and the assertion in `relax` fails.

**Cluster chains.** A chain is stored nowhere as such: it is what the FAT tells
from the first cluster on. `ChainInv` therefore says that there are, for each
file `f`, `n[f]` clusters `c[f][0]`, `c[f][1]`, ... such that the FAT leads from
each to the next (`Connected`), they are marked and in one place of one file
(`Placed`), every cached line is one of them and the lines and the order of
their use are about the same indices (`LinesFine`). `WorkFine` is what a worker
knows between two sections: that its position is on the path while it reads the
FAT without a lock on the bitmap, that it is at the tail when it asks for a new
cluster, and that the new one is marked and in no file until the entry of the
tail is written, which is the step at which the chain grows. `BitmapOwned` says
that the worker that allocates has `bmp_lock`. `Behind` says that the bits
before `bmp_last_index` in its sector are set; this is why a search that goes
around once and finds nothing has seen a full volume. The operator `Chain`,
which the model defines along the FAT, is shown to be the path of the witness by
a least counterexample, and by a pigeonhole argument a path is no longer than
the volume. A read that fails is the same as the end of the chain for `get`, so
`expand` may be called for an index that the chain has: `WorkFine` does not say
otherwise until the search for the tail has ended (`follow`), and then the index
is not in the chain. `AnswerFine` says nothing of a linear file past its end,
where `get` does not check (section 6). `WorkersBlockAtFatOnly` follows from the
same invariant: a worker waits only for `bmp_lock`, whose owner is at work, or
for a slot, which a worker or a failed `dm.get` has locked.

**Requests.** That a request is in one place is not inductive by itself.
`RequestInv` adds that a worker has a file exactly while it works, that the
sleepers of the barrier that are workers sleep and are in it once (otherwise a
signal would send a working worker back to the list), that the threads that
post a request have its handle open, and the exact reference count: one for an
open handle and one for whoever has the request from `put` on.

**Transfers.** `Loc`, which maps the units of the file to the disk, is injective
and goes up by one within a cluster; a chunk is not empty and stays within its
cluster; and sectors that are overwritten as a whole are exactly those of the
chunk. These three lemmas hold for all sizes of sectors, pages and clusters.
`TransferInv` then says that everything before `offset` has been moved and
nothing else touched, that zeroes are left only after a failure of the user's
memory, and that a sector that is not marked is on the disk as the cache shows
it, except for the units of a torn sector (section 6). That only the first chunk
can begin within a sector, so that only a request of one chunk is torn, is part
of the invariant.

**Volumes.** `VolumeInv` carries what `parse_header` has checked, in the
arithmetic of dwords and qwords, over the checksum and the walk through the root
folder, the record that the bitmap came from, and what the flags, `set_rw` and
`stop` know of the mark. `MountAssumption` says only which fields a disk has and
how wide they are. That the look-ups stay inside follows where the product or
sum in question does not wrap (`FatWraps`, `CountWraps`, `HeapWraps`).

The assumptions are those named in the modules of the constants: `SyncConstants`
and `AllocatorConstants` (finite sets of threads, sizes that are natural numbers
and at least as large as the code's smallest; `Phys >= Spare + 3`, since the
kernel is loaded with its first directory and table present; a page of the heap
is a multiple of the largest block), `ThreadAssumption` (finitely many user
threads, names that differ), `ProcessAssumption` (finitely many threads, names
that differ, known calls), `ServicesAssumption`, `StorageAssumption` (sizes at
least one), `TreeAssumption` (a finite tree, paths of
names, `.` and `..`), `ChainAssumption` (a layout in which each cluster is in one
place of one file, 0 no name of a file) and those of `FileConstants` (finitely many workers, names
that differ, sizes at least one, fields of disks). TLC evaluates them in each
run. In each module the argument is: `Init => IInv`,
`IInv /\ [Next]_vars => IInv'` with one step per action, and `IInv => Inv`. Each
inductive invariant was checked by TLC on the instance of its run first.

Facts about sequences (what the ends of a concatenation are, what is left when an
element is taken out) are lemmas of their own, so that the steps about handlers
do not depend on how the provers treat `Len` and `\o`. The induction theorems of
the library take an operator as a parameter, which the provers cannot
instantiate. Where an argument needs induction it is made with sets: the natural
numbers are well founded (`Least`, `LeastNumber`), a property that is inherited
upwards holds for an interval (`IntervalInduct`), and a recursive function is
followed along the interval that it runs over.

Only model-checked:

* liveness: out of the prover's reach;
* `ListIntegrity` and the refinement of `Region`: what the links of a page table
  reach is a path of any length through its entries, and each operation edits
  several lists at once;
* the refinement of `Deadlines`: sums of differences over a queue;
* `ClocksAgree`: it holds for the years of the instance only, as the tests for
  leap years are wrong (section 6); `InputIsTrue` and `ReadyIsSetUp` of `PS2`
  are about plans and codes of particular devices, which the instance has;
* `KnownDeadlocks` for the tree: an argument on circles of waiting threads of any
  length. The half for the chains is `WorkersBlockAtFatOnly`;
* `FilesStayFound`: what the reader collects from any sequence of records.

## 5. Hazards

`PROJECT.json` lists the places in the code that are hard to test, each with the
properties that cover it or the reason why none does. Three have no property:
stops of the machine that the models reach (or, for `process.cpp:226`, would
reach) and that are described in the next section; the passing properties hold
up to them.

## 6. Where the code differs from what it says

Four violation runs show the following; the properties of the passing runs
hold up to these points, and the passing instances leave out only the calls that
are named here.

* `thread_lost_wakeup`: `event::wait` and `thread::wait` look at the signaled
  state before they lock. A signal in between is missed.
* `process_self_kill`: `kill_thread` and `kill_process` on the caller leave by
  `exit_thread` or `exit_process` without the destructor of `service_provider`,
  so the handle table stays locked SHARED, and the gc thread blocks for ever in
  `clear`. `process_live` therefore leaves `kill_self` out.
* `rtc_leap_year`: the tests for leap years are exchanged; from March on a leap
  year is taken for an ordinary one.
* `storage_dot`: `open` of a path that ends in `.` gives back a reference that it
  has not taken (`file.cpp:132`), so `assert(ref_count)` in `relax` can fail.

Seen while modelling and not given runs of their own:

Threads and processes

* `imp_wait` signals gc with the objlock of the awaited object held. If that is
  gc's own event, the gc thread spins on it (`halt = "spinlock timeout"`).
* `imp_wait` puts the awaited thread back into the ready queue unchecked; if it
  was killed while READY, the assertion in `scheduler::put` fails
  (`halt = "put: thread not READY"`).
* `waitable::wait` runs the callback of `wait_for` under the objlock, and
  `thread::drop()` in it ends a thread whose kill was postponed: the objlock is
  never released (`waitable.cpp:139`; the check in `thread.cpp:55` is commented
  out).
* A thread put into the gc queue between gc's last look and its wait is collected
  only after the next signal.
* `process::kill` cancels a thread that waits for its own process under the lock
  that the cancel needs.
* `process::spawn` looks at the state before it locks: a thread created while
  its process is killed survives the kill; when the process was killed earlier,
  `create_thread` relaxes a null pointer (`service.cpp:261`). `process_live`
  therefore leaves `create_thread` out.
* `set_work_dir` and `get_work_dir` hold the spin lock of the process while they
  wait for the locks of folders (`process.cpp:309-333`); `Spin` of `Services`.
  `process_manager::spawn` does the same with the lock of the list of processes
  (`process.cpp:165-173`, `410-413`), which is not in the model.
* A thread woken from a semaphore that is then closed goes round the loop of
  `semaphore::wait` on the freed object (`service.cpp:279`). `Services` ends the
  wait with ABANDON; the loop itself is in `Semaphore`, which has no end of life.
* `notify(ABANDON)` while a wait is cancelled runs into the bugcheck of
  `waitable.cpp:201`; `file::check` answers the opposite of what
  `waitable.hpp:41` says.

Memory

* `BLOCK::put` stores `size - 1` in the third entry of a free block and
  `BLOCK::get` asserts that it is 3 (`vm.cpp:74`, `vm.cpp:147`): a release behind
  a free block of three pages, or a `reserve` with the address of the third page
  of a free block that has not four, stops the machine. `stop` of `PageTable`;
  the passing properties hold up to it.
* The base address of a table is computed from its index in 32 bits, so it wraps
  around beyond the directories of the first 4 GB (`Wrap` of `VSpace`,
  `vm.cpp:678`, `vm.cpp:787`). `reserve` then returns an address below them that
  it has not taken; where the address in 32 bits is 0 `reserve_any` takes it for
  a failure and goes on, and the pages that it took are lost. `ReserveIsExact`
  says how far this goes. `reserve_fixed` on a full table fails an assertion
  instead of the call; `kernel_vspace::reserve` returns `HIGHADDR(0)` when it
  fails; the answer NO_RESOURCE of `vm_commit` is inverted (`service.cpp:552`).
* `buddy_heap` reports its largest block from the wrong index.

Disk and file system

* `IDE`: a timeout stops the DMA engine and does not reset the drive, and a
  command is issued without a look at BSY (`ide.cpp:109-135`). A transfer that
  was given up can end in the middle of the next command, which then reports a
  success that is not its own; if it ends between two, the next command finds
  flags set in the controller and stops the machine ("invalid IDE state").
* `DiskCache`: two threads that miss at the same time load a page into two slots
  (`disk_interface.cpp:141-166`), and a write to one of them can be undone by the
  other. `assert(dirty)` of `slot::load` (`disk_interface.cpp:79`) fails when a
  page that was stored in part has been written back, by the flusher or by
  `relax`, before it is read (`StopIsKnown`). After a transfer that failed the
  slot stays locked (`disk_interface.cpp:150`, `165`); if the write back failed
  it still holds its page, and whoever needs the page waits for ever.
* `ClusterChain`: a worker that extends a chain waits for a FAT sector with
  `bmp_lock` held while another holds the sector and wants the lock. `Instances`:
  an opener locks downwards while writers, `get_path` and the end of an instance
  lock upwards. These are the deadlocks that `KnownDeadlocks` admits, besides
  the wait for a slot that a failed transfer left locked. `x/../y` locks a folder
  twice. A linear file that is asked past its end answers with the clusters that
  follow, whoever has them (`exfat.cpp:438-441`).
* `FolderRecords`: `list.size() < count` reads one record too few, so names of
  more than 15 characters are not found; the test for a record that crosses a
  sector is always true and the second sector is not marked dirty
  (`instance.cpp:359`).
* `FileIO`: the number of sectors that a chunk marks is computed from its length
  alone (`worker.cpp:257-266`): a write that begins within a sector and ends in
  one more than its length needs leaves that last one unmarked, and what it
  wrote there is lost with the slot (`Torn`). The zero branch of `worker_read`
  advances neither offset nor destination; a write beyond `valid_size` leaves old contents in the gap; a
  linear file may be read past its end (`instance.cpp:44`); an empty file written
  at an index above zero fails an assertion (`exfat.cpp:44`).
* `FileRequests`: COMMAND_LIST has no `break` and always ends as a failure; a
  second request on a file in use marks the first one failed; requests queued
  at `stop` never end; a signal between a worker's look and its sleep is lost.
* `Mount`: `parse_header` computes in dwords: `fat_length * fat_count`
  (`exfat.cpp:218`), `2 + cluster_count` (216, and 141 in `lba_of_fat`) and the
  offset of a cluster wrap, and the shift of 220 is taken modulo the width, so
  that volumes with overlapping parts are accepted. A root cluster with its
  highest bit set is taken for the flag of the second FAT (224). `set_rw` allows
  writes before the mark is set, leaves them allowed when it fails, and does not
  look whether the mark was written (88-101); a `stop` that comes between clears
  the mark of a volume that was found marked. Only the first sector of each root
  cluster is read; an active second FAT counts `fat_length` twice.

Devices

* In 12 hour mode (`Mode24 = FALSE`) 12 AM is read as noon and 12 PM as midnight.
* PS/2: after a probe `device_mouse` does not wait but reads the ring at once;
  unless the answer is already there the ring is empty, which is a bugcheck
  (`ps_2.cpp:409-419`); a keyboard
  plugged in fast has its 0xAA consumed as an answer, and the mouse takes one for
  packet data; the reset of `restart` writes two bytes without the lock.
* `object_manager::put` refuses every new name; it has no caller.

## 7. Not modelled

* Boot loader, assembly, APIC, ACPI, PCI, display: register access and tables
  that are filled once.
* Exception dispatch and the serial debugger (`exception/`): registers and stacks
  of a handler of the program; interactive I/O with the machine stopped.
* Applications, C library, shell: the models let user threads issue any call in
  any order. The heap of the C library is the kernel's `buddy_heap`.
* Named objects: nothing can be put into the table.
* Image loading, case folding and character conversion of names, contents of
  files: data.
* Containers (`util/include`): represented by sets, sequences and functions.
* Build tools: programs of the host.

Coarser than the code, in models that are otherwise complete:

* `Services`: the lock of `process_manager` while `spawn` duplicates files (see
  above), so one more "spinlock timeout" is missing.
* `ThreadCore`: `KillThread` looks only at the lock of its victim, not at that of
  the object it waits for, and `SwitchTo` not at the lock of the next thread. The
  model goes on where the code might stop at "spinlock timeout", so it has more
  behaviours and not fewer.
* `PS2`: a command to the second channel is two actions (`Aim`, `Write`) although
  interrupts are off between them; also more behaviours.
* `BuddyHeap`: the unlocked read of `cap_size`, the call back and `expand` are
  one action (`Grow`); another thread in between could only change the size that
  is asked for.
* `Process`: `Leave` joins the unlocking of the handle table and `drop`, between
  which the thread changes nothing.
* `Instances`: `CloseInstance` gives up the lock of a deleted child before its
  parent is relaxed, the code after it (`instance.cpp:25-26`). Nobody can wait
  for this lock: the child has no references and is out of the table.

## 8. What could come next

1. A proof of `KnownDeadlocks` for the tree of open files (the lock that is
   furthest down a circle).
2. The timer's order invariant and the links of a page table.
3. Waits on processes in `Process`, with the objlock held by `kill`.
4. `ClusterChain` with several FAT sectors in one page of the disk cache.
