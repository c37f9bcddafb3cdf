---------------------------- MODULE ClusterChain ----------------------------
(***************************************************************************)
(* The cluster chains of kernel/filesystem: fat_reader, exfat::allocator   *)
(* and cluster_chain of exfat.cpp under file_instance::get_lba of          *)
(* instance.cpp.                                                           *)
(*                                                                         *)
(* The lock of a chain is held during get and during expand, so per file   *)
(* one worker is enough.  Workers of different files meet at the slots of  *)
(* the disk cache that hold the FAT, which are locked exclusively from     *)
(* dm.get to dm.relax, and at bmp_lock.  The FAT is modelled with one      *)
(* sector to a slot.  The bitmap is used under bmp_lock only and counts as *)
(* one slot.                                                               *)
(*                                                                         *)
(* A dm.get that fails returns nullptr and leaves locked the slot it was   *)
(* to use.  If the read failed, that slot holds no page and others find    *)
(* one elsewhere; if the page that was in it could not be written back, it *)
(* still holds this page, and nobody gets to the page any more.            *)
(***************************************************************************)
EXTENDS StorageConstants, SequencesExt

VARIABLES
  fat,         \* the entries of the FAT: a cluster, EndMark, or 0
  taken,       \* the clusters whose bit is set in the allocation bitmap
  last,        \* bmp_last_index
  bmp_lock,    \* the file whose worker holds it, or None
  first,       \* first_cluster of each chain, 0 for an empty file
  recorded,    \* first_cluster in the directory record (update_chain)
  cache_line,  \* lines [index, cluster] of each chain, by decreasing index
  lru_queue,   \* their indices, the most recent first
  w,           \* the worker of each file
  stuck,       \* sectors in slots that a failed dm.get left locked
  faults,      \* operations of the disk that failed so far
  halt         \* an assertion failed

vars == <<fat, taken, last, bmp_lock, first, recorded, cache_line, lru_queue, w,
          stuck, faults, halt>>

None == 0
EndMark == -1        \* 0xFFFFFFF8 and above
Sector(c) == c \div PerSector
NoSector == -1
Bitmap == -2         \* the allocation bitmap, among the sectors

(***************************************************************************)
(* w[f]: what the worker is about to do (pc), the index it wants, whether  *)
(* it may expand, the line it has reached (at), the cluster it has         *)
(* allocated (new), the sector of the FAT whose slot it holds, and, when   *)
(* it is idle, the answer of get_lba: the cluster, 0 for a failure.        *)
(***************************************************************************)
Worker0 == [pc |-> "idle", index |-> 0, expand |-> FALSE, at |-> [index |-> 0, cluster |-> 0],
            new |-> None, sector |-> NoSector, ans |-> None]
At(stage, i, x) == [Worker0 EXCEPT !.pc = stage, !.index = i, !.expand = x]

Init ==
  /\ fat = [c \in Cluster |->
       IF \E f \in Files \ Linear, i \in 1..Clusters : i <= Len(Layout[f]) /\ Layout[f][i] = c
       THEN LET f == CHOOSE g \in Files : c \in Laid(g)
                i == CHOOSE j \in 1..Len(Layout[f]) : Layout[f][j] = c
            IN IF i = Len(Layout[f]) THEN EndMark ELSE Layout[f][i + 1]
       ELSE 0]
  /\ taken = UNION {Laid(f) : f \in Files}
  /\ last = 0 /\ bmp_lock = None
  /\ first = [f \in Files |-> IF Layout[f] = <<>> THEN 0 ELSE Layout[f][1]]
  /\ recorded = first
  /\ cache_line = [f \in Files |-> <<>>]
  /\ lru_queue = [f \in Files |-> <<>>]
  /\ w = [f \in Files |-> Worker0]
  /\ stuck = {} /\ faults = 0 /\ halt = FALSE

(***************************************************************************)
(* fat_reader                                                              *)
(***************************************************************************)
\* the slot of a sector is free for the worker of f
SlotFree(f, s) == s \notin stuck /\ \A g \in Files \ {f} : w[g].sector # s

\* the cluster whose entry the worker needs next
Wanted(f) == IF w[f].pc = "put" THEN w[f].new ELSE w[f].at.cluster
Loaded(f) == w[f].sector = Sector(Wanted(f))
UsesFat(f) == w[f].pc \in {"get", "follow", "put", "link"}

\* fat_reader::load gives the slot back that it has ...
Unload(f) ==
  /\ UsesFat(f) /\ w[f].sector # NoSector /\ ~Loaded(f)
  /\ w' = [w EXCEPT ![f].sector = NoSector]
  /\ UNCHANGED <<fat, taken, last, bmp_lock, first, recorded, cache_line, lru_queue, stuck, faults, halt>>

\* ... and waits for the one it needs.  get asserts a cluster
Load(f) ==
  /\ UsesFat(f) /\ w[f].sector = NoSector /\ ~halt
  /\ IF Wanted(f) \in Cluster
     THEN /\ SlotFree(f, Sector(Wanted(f)))
          /\ w' = [w EXCEPT ![f].sector = Sector(Wanted(f))] /\ UNCHANGED halt
     ELSE halt' = TRUE /\ UNCHANGED w
  /\ UNCHANGED <<fat, taken, last, bmp_lock, first, recorded, cache_line, lru_queue, stuck, faults>>

\* get_lba returns: the destructors give back the slot and bmp_lock
Returned(f, i, ans) == [w EXCEPT ![f] = [Worker0 EXCEPT !.index = i, !.ans = ans]]
Failed(f) == Returned(f, w[f].index, 0)

\* Faulty: the allocator is left without unlocking.
UnlockedNever(f) == bmp_lock

Unlocked(f) == IF bmp_lock = f THEN None ELSE bmp_lock

\* the allocator of f has the bitmap's slot since its first cluster
HoldsBitmap(f) == bmp_lock = f /\ w[f].new # None

\* the sectors of the FAT and the bitmap, as far as nobody has their slots
Idle == {s \in {Sector(c) : c \in Cluster} : \A f \in Files : w[f].sector # s}
          \cup (IF \E f \in Files : HoldsBitmap(f) THEN {} ELSE {Bitmap})

\* dm.get fails; the slot that it leaves locked may still hold a page
Fault ==
  /\ faults < MaxFailures /\ faults' = faults + 1
  /\ stuck' = stuck \/ \E s \in Idle : stuck' = stuck \cup {s}

\* ... for somebody else
SlotLost ==
  /\ ~halt /\ Fault
  /\ UNCHANGED <<fat, taken, last, bmp_lock, first, recorded, cache_line, lru_queue, w, halt>>

\* ... for a sector of the FAT or of the bitmap.  fat_reader::get returns 0,
\* which ends get as the end of the chain does; expand fails
ReadFails(f) ==
  /\ ~halt /\ Fault
  /\ \/ UsesFat(f) /\ w[f].sector = NoSector /\ Wanted(f) \in Cluster
     \/ w[f].pc = "alloc"
  /\ w' = IF w[f].pc = "get" THEN [w EXCEPT ![f] = At("missed", @.index, @.expand)]
          ELSE Failed(f)
  /\ bmp_lock' = Unlocked(f)
  /\ UNCHANGED <<fat, taken, last, first, recorded, cache_line, lru_queue, halt>>

(***************************************************************************)
(* cluster_chain::get                                                      *)
(***************************************************************************)
Cached(f, i) == \E k \in DOMAIN cache_line[f] : cache_line[f][k].index = i
LineAt(f, i) == CHOOSE l \in {cache_line[f][k] : k \in DOMAIN cache_line[f]} : l.index = i

\* the first line before an index, or the end of cache_line
Place(f, i) ==
  CHOOSE p \in 1..Len(cache_line[f]) + 1 :
    /\ \A k \in 1..p - 1 : cache_line[f][k].index >= i
    /\ p <= Len(cache_line[f]) => cache_line[f][p].index < i

\* where the walk to an index starts: at this line, or at the first cluster
Nearest(f, i) ==
  IF Place(f, i) > Len(cache_line[f]) THEN [index |-> 0, cluster |-> first[f]]
  ELSE cache_line[f][Place(f, i)]

\* Faulty: the line is left at its place and entered once more.
TouchedTwice(f, i) == <<i>> \o lru_queue[f]

\* the line found is moved to the front of lru_queue
Touched(f, i) ==
  LET p == CHOOSE p \in DOMAIN lru_queue[f] : lru_queue[f][p] = i
  IN <<i>> \o RemoveAt(lru_queue[f], p)

\* exfat::lba_of_cluster finds nothing past the last cluster of the volume
InHeap(c) == IF c \in Cluster THEN c ELSE 0

\* get, as far as it needs no FAT: a hit, a miss, or a walk to begin
Look(f, i, x) ==
  IF first[f] = 0
  THEN w' = [w EXCEPT ![f] = At("missed", i, x)] /\ UNCHANGED lru_queue
  ELSE IF f \in Linear \/ i = 0 \/ Cached(f, i)
  THEN /\ w' = Returned(f, i, InHeap(IF f \in Linear THEN first[f] + i
                                    ELSE IF i = 0 THEN first[f] ELSE LineAt(f, i).cluster))
       /\ lru_queue' = IF Cached(f, i) THEN [lru_queue EXCEPT ![f] = Touched(f, i)] ELSE lru_queue
  ELSE /\ w' = [w EXCEPT ![f] = [At("get", i, x) EXCEPT !.at = Nearest(f, i)]]
       /\ UNCHANGED lru_queue

\* file_instance::get_lba, for a read or, with expand, for a write
GetLba(f, i, x) ==
  /\ w[f].pc = "idle" /\ ~halt
  /\ Look(f, i, x)
  /\ UNCHANGED <<fat, taken, last, bmp_lock, first, recorded, cache_line, stuck, faults, halt>>

\* the line is inserted in its place; the one in excess, least recently used,
\* is removed
Entered(f, l) ==
  LET lines == InsertAt(cache_line[f], Place(f, l.index), l)
      lru == <<l.index>> \o lru_queue[f]
      out == CHOOSE p \in DOMAIN lines : lines[p].index = lru[Len(lru)]
      excess == Len(lru) > Lines
  IN /\ cache_line' = [cache_line EXCEPT ![f] = IF excess THEN RemoveAt(lines, out) ELSE lines]
     /\ lru_queue' = [lru_queue EXCEPT ![f] = IF excess THEN Front(lru) ELSE lru]

\* one entry of the FAT is followed
Get(f) ==
  /\ w[f].pc = "get" /\ Loaded(f) /\ ~halt
  /\ LET next == fat[w[f].at.cluster]
         l == [index |-> w[f].at.index + 1, cluster |-> next]
     IN IF next \in {0, EndMark}
        THEN /\ w' = [w EXCEPT ![f] = At("missed", @.index, @.expand)]
             /\ UNCHANGED <<cache_line, lru_queue>>
        ELSE IF l.index < w[f].index
        THEN w' = [w EXCEPT ![f].at = l] /\ UNCHANGED <<cache_line, lru_queue>>
        ELSE Entered(f, l) /\ w' = Returned(f, w[f].index, InHeap(next))
  /\ UNCHANGED <<fat, taken, last, bmp_lock, first, recorded, stuck, faults, halt>>

(***************************************************************************)
(* cluster_chain::expand                                                   *)
(***************************************************************************)
\* expand returned true: for the first cluster get_lba has the directory
\* record updated, which may fail; then it looks again
Expanded(f) ==
  [w EXCEPT ![f] = At(IF @.index = 0 THEN "record" ELSE "again", @.index, TRUE)]

\* get returned 0: without expand, and for a linear chain, get_lba fails.
\* The first cluster is allocated at once; else the tail is searched for,
\* from the last line on, unless the line shows that the chain is long enough
Expand(f) ==
  /\ w[f].pc = "missed" /\ ~halt
  /\ LET tail == IF cache_line[f] = <<>> \/ w[f].index = 0
                 THEN [index |-> 0, cluster |-> first[f]] ELSE cache_line[f][1]
     IN w' = IF ~w[f].expand \/ f \in Linear THEN Failed(f)
             ELSE IF w[f].index = 0 THEN [w EXCEPT ![f].pc = "lock", ![f].at = tail]
             ELSE IF tail.index >= w[f].index THEN Expanded(f)
             ELSE [w EXCEPT ![f].pc = "follow", ![f].at = tail]
  /\ UNCHANGED <<fat, taken, last, bmp_lock, first, recorded, cache_line, lru_queue, stuck, faults, halt>>

\* the search for the tail; the slot it ends with is kept.  It ends, too, at
\* the index that is wanted: the chain is long enough
Follow(f) ==
  /\ w[f].pc = "follow" /\ Loaded(f) /\ ~halt
  /\ LET next == fat[w[f].at.cluster]
     IN w' = IF next = 0 THEN Failed(f)
             ELSE IF next = EndMark THEN [w EXCEPT ![f].pc = "lock"]
             ELSE IF w[f].at.index + 1 >= w[f].index THEN Expanded(f)
             ELSE [w EXCEPT ![f].at = [index |-> @.index + 1, cluster |-> next]]
  /\ UNCHANGED <<fat, taken, last, bmp_lock, first, recorded, cache_line, lru_queue, stuck, faults, halt>>

\* exfat::allocator::allocator
LockBitmap(f) ==
  /\ w[f].pc = "lock" /\ bmp_lock = None /\ ~halt
  /\ bmp_lock' = f
  /\ w' = [w EXCEPT ![f].pc = "alloc"]
  /\ UNCHANGED <<fat, taken, last, first, recorded, cache_line, lru_queue, stuck, faults, halt>>

(***************************************************************************)
(* exfat::allocator::get looks from bmp_last_index to the end of its       *)
(* sector and then sector by sector around to the start of that sector:    *)
(* the bits before bmp_last_index in its own sector are not looked at.     *)
(***************************************************************************)
Scanned ==
  LET start == (last \div PerSector) * PerSector
  IN [k \in 1..Clusters - (last - start) |-> (last + k - 1) % Clusters]

Free(pos) == pos + 2 \notin taken

\* Faulty: the bitmap is read but the bit is not set.
AllocUnmarked(f) ==
  /\ w[f].pc = "alloc" /\ Bitmap \notin stuck /\ ~halt
  /\ LET ks == {k \in DOMAIN Scanned : Free(Scanned[k])}
     IN /\ ks # {}
        /\ LET pos == Scanned[CHOOSE k \in ks : \A j \in ks : k <= j]
           IN last' = pos /\ w' = [w EXCEPT ![f].pc = "put", ![f].new = pos + 2]
  /\ UNCHANGED <<fat, taken, bmp_lock, first, recorded, cache_line, lru_queue, stuck, faults, halt>>

Alloc(f) ==
  /\ w[f].pc = "alloc" /\ Bitmap \notin stuck /\ ~halt
  /\ LET ks == {k \in DOMAIN Scanned : Free(Scanned[k])}
     IN IF ks = {}
        THEN /\ w' = Failed(f) /\ bmp_lock' = Unlocked(f)
             /\ UNCHANGED <<taken, last>>
        ELSE LET pos == Scanned[CHOOSE k \in ks : \A j \in ks : k <= j]
             IN /\ taken' = taken \cup {pos + 2}
                /\ last' = pos
                /\ w' = [w EXCEPT ![f].pc = "put", ![f].new = pos + 2]
                /\ UNCHANGED bmp_lock
  /\ UNCHANGED <<fat, first, recorded, cache_line, lru_queue, stuck, faults, halt>>

\* the new cluster is the last one: go on, or expand returns true
Grown(f) ==
  LET n == w[f].new
      i == IF first[f] = 0 THEN 0 ELSE w[f].at.index + 1
  IN /\ first' = IF first[f] = 0 THEN [first EXCEPT ![f] = n] ELSE first
     /\ IF i < w[f].index
        THEN /\ w' = [w EXCEPT ![f].pc = "alloc", ![f].at = [index |-> i, cluster |-> n]]
             /\ UNCHANGED bmp_lock
        ELSE w' = Expanded(f) /\ bmp_lock' = Unlocked(f)

\* Faulty: the entry of the tail is written before that of the new cluster,
\* which keeps what it was.
PutTailOnly(f) ==
  /\ w[f].pc = "put" /\ Loaded(f) /\ ~halt
  /\ IF w[f].at.cluster = 0 THEN Grown(f)
     ELSE w' = [w EXCEPT ![f].pc = "link"] /\ UNCHANGED <<first, bmp_lock>>
  /\ UNCHANGED <<fat, taken, last, recorded, cache_line, lru_queue, stuck, faults, halt>>

\* fat_reader::put: the entry of the new cluster
Put(f) ==
  /\ w[f].pc = "put" /\ Loaded(f) /\ ~halt
  /\ fat' = [fat EXCEPT ![w[f].new] = EndMark]
  /\ IF w[f].at.cluster = 0 THEN Grown(f)
     ELSE w' = [w EXCEPT ![f].pc = "link"] /\ UNCHANGED <<first, bmp_lock>>
  /\ UNCHANGED <<taken, last, recorded, cache_line, lru_queue, stuck, faults, halt>>

\* ... and the entry of the tail, which must still be the tail
Link(f) ==
  /\ w[f].pc = "link" /\ Loaded(f) /\ ~halt
  /\ IF fat[w[f].at.cluster] # EndMark
     THEN w' = Failed(f) /\ bmp_lock' = Unlocked(f) /\ UNCHANGED <<fat, first>>
     ELSE fat' = [fat EXCEPT ![w[f].at.cluster] = w[f].new] /\ Grown(f)
  /\ UNCHANGED <<taken, last, recorded, cache_line, lru_queue, stuck, faults, halt>>

\* folder_instance::update_chain with the head of the chain
Record(f) ==
  /\ w[f].pc = "record" /\ ~halt
  /\ \/ recorded' = [recorded EXCEPT ![f] = first[f]]
        /\ w' = [w EXCEPT ![f].pc = "again"] /\ UNCHANGED <<stuck, faults>>
     \/ Fault /\ w' = Failed(f) /\ UNCHANGED recorded
  /\ UNCHANGED <<fat, taken, last, bmp_lock, first, cache_line, lru_queue, halt>>

\* the loop of get_lba looks again
Again(f) ==
  /\ w[f].pc = "again" /\ ~halt
  /\ Look(f, w[f].index, TRUE)
  /\ UNCHANGED <<fat, taken, last, bmp_lock, first, recorded, cache_line, stuck, faults, halt>>

Work(f) == \/ Unload(f) \/ Load(f) \/ ReadFails(f) \/ Get(f) \/ Expand(f) \/ Follow(f)
           \/ LockBitmap(f) \/ Alloc(f) \/ Put(f) \/ Link(f) \/ Record(f) \/ Again(f)

Next == \/ SlotLost
        \/ \E f \in Files : Work(f) \/ \E i \in 0..MaxIndex[f], x \in BOOLEAN : GetLba(f, i, x)

Spec == Init /\ [][Next]_vars

(***************************************************************************)
(* Properties                                                              *)
(***************************************************************************)
\* the clusters of a chain by index: a function, as far as the chain goes
Chain(f) ==
  LET nth[n \in 0..Clusters] ==
        IF n = 0 THEN first[f]
        ELSE IF nth[n - 1] \in Cluster THEN fat[nth[n - 1]] ELSE 0
  IN nth
Members(f) == {Chain(f)[n] : n \in 0..Clusters} \cap Cluster

(* Files do not share clusters: each chain runs, without a cycle, through  *)
(* clusters that are marked in the bitmap, to a tail, and no cluster is in *)
(* two chains, whatever workers expand at the same time and whichever read *)
(* fails half way.                                                         *)
ChainsDisjoint ==
  \A f \in Files \ Linear :
    /\ Members(f) \subseteq taken
    /\ first[f] # 0 => \E n \in 1..Clusters : Chain(f)[n] = EndMark
    /\ \A g \in Files \ {f} : Members(f) \cap (Members(g) \cup (IF g \in Linear THEN Laid(g) ELSE {})) = {}

(* The lines of the cache tell what the FAT says, in the order and number  *)
(* that get asserts, and each of them has its place in lru_queue.          *)
CacheIsTrue ==
  \A f \in Files :
    LET lines == cache_line[f] IN
    /\ \A k \in DOMAIN lines : /\ lines[k].cluster = Chain(f)[lines[k].index]
                               /\ lines[k].index > 0
                               /\ k > 1 => lines[k].index < lines[k - 1].index
    /\ Len(lru_queue[f]) = Len(lines) /\ Len(lines) <= Lines
    /\ {lru_queue[f][k] : k \in DOMAIN lru_queue[f]} = {lines[k].index : k \in DOMAIN lines}

(* A search that fails with the bitmap unread in part has missed no free   *)
(* cluster: the allocator fails only when the volume is full.              *)
FullMeansFull ==
  (\A k \in DOMAIN Scanned : ~Free(Scanned[k])) => taken = Cluster

Busy == {f \in Files : w[f].pc # "idle"}

\* the slot that the worker of f waits for
Needs(f, s) ==
  \/ UsesFat(f) /\ w[f].sector = NoSector /\ Wanted(f) \in Cluster /\ s = Sector(Wanted(f))
  \/ w[f].pc = "alloc" /\ s = Bitmap

Blocked(f) == \/ \E s \in stuck : Needs(f, s)
              \/ \E g \in Files \ {f} : w[g].sector # NoSector /\ Needs(f, w[g].sector)
              \/ w[f].pc = "lock" /\ bmp_lock # None

(* The workers can block each other for good in one way only: one holds    *)
(* bmp_lock and waits for the slot of a sector of the FAT, and the worker  *)
(* that has kept this slot since its search for the tail waits for         *)
(* bmp_lock.  Otherwise, where nobody can go on, somebody waits for a page *)
(* in a slot that a failed dm.get left locked.  A search that fails itself *)
(* leaves neither a sector of the FAT nor bmp_lock locked behind.          *)
OnlyFatDeadlock ==
  (Busy # {} /\ \A f \in Busy : Blocked(f)) =>
    \/ \E f, g \in Busy : /\ bmp_lock = f /\ w[g].pc = "lock"
                          /\ w[g].sector # NoSector /\ Needs(f, w[g].sector)
    \/ \E f \in Busy, s \in stuck : Needs(f, s)

(* What get_lba answers is the cluster at the index that was asked for:    *)
(* reads and writes stay within the file.  It knows no end of a linear     *)
(* file: what it answers for an index past it may be anybody's cluster.    *)
AnswerIsOwn ==
  \A f \in Files : w[f].ans # 0 =>
    IF f \in Linear
    THEN w[f].index < Len(Layout[f]) => w[f].ans = Layout[f][w[f].index + 1]
    ELSE w[f].ans = Chain(f)[w[f].index]
=============================================================================
