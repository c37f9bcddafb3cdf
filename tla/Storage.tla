------------------------------ MODULE Storage ------------------------------
(***************************************************************************)
(* The structures that the workers of the file system and the threads of   *)
(* processes share, side by side: the cache of the disk (DiskCache), the   *)
(* cluster chains (ClusterChain) and the tree of open files (Instances).   *)
(* Each contains what it needs of the others (ClusterChain the locks of    *)
(* the cache, Instances the callbacks into the folder), so a behaviour     *)
(* exercises one of them, which is chosen initially.                       *)
(***************************************************************************)
EXTENDS DiskCache, TLC

VARIABLES
  part,
  fat, taken, last, bmp_lock, first, recorded, cache_line,
  lru_queue, w, stuck, failures, stop,                      \* ClusterChain
  live, table, ref, xlock, slock, files, th                 \* Instances

chains == <<fat, taken, last, bmp_lock, first, recorded, cache_line,
            lru_queue, w, stuck, failures, stop>>
tree == <<live, table, ref, xlock, slock, files, th>>
storage == <<part, vars, chains, tree>>

C == INSTANCE ClusterChain WITH faults <- failures, halt <- stop
I == INSTANCE Instances

(***************************************************************************)
(* The instance that is checked                                            *)
(***************************************************************************)
CONSTANTS f1, f2, f3, r, d, x

\* an empty file, one of two clusters and one without a chain, with free
\* clusters around them
SmallFiles == (f1 :> <<2, 5>>) @@ (f2 :> << >>) @@ (f3 :> <<3>>)
AskedFor == (f1 :> 3) @@ (f2 :> 1) @@ (f3 :> 1)

\* a folder in the root and a file in the folder
SmallTree == (r :> Nil) @@ (d :> r) @@ (x :> d)
WalkedPaths == {<<d>>, <<d, x>>, <<d, Up, d, x>>, <<Dot, d>>, <<d, Up>>, <<x>>}

\* paths that end in "."
DotPaths == {<<d, Dot>>, <<d, x>>}

Symmetry ==
  Permutations(Clients) \cup Permutations(DiskPages) \cup Permutations(Openers)

StorageInit ==
  /\ part \in {"cache", "chains", "tree"}
  /\ Init /\ C!Init /\ I!Init

StorageNext ==
  /\ \/ part = "cache" /\ Next /\ UNCHANGED <<chains, tree>>
     \/ part = "chains" /\ C!Next /\ UNCHANGED <<vars, tree>>
     \/ part = "tree" /\ I!Next /\ UNCHANGED <<vars, chains>>
  /\ UNCHANGED part

StorageSpec == StorageInit /\ [][StorageNext]_storage

(***************************************************************************)
(* Properties of the components                                            *)
(***************************************************************************)
(* The cache is transparent: a reader finds what was written last, but for *)
(* sectors not written since two slots held their page; no sector ever     *)
(* holds what belongs to another; a client works on a slot that no other   *)
(* client has; and the one assertion that fails is that of slot::load for  *)
(* a part of a page that was written back.                                 *)
Transparent ==
  part = "cache" =>
    VisibleIsWritten /\ ContentsAreOwn /\ SlotIsOwned /\ StopIsKnown

(* Files do not share clusters, the cache of a chain tells what the FAT    *)
(* says, get_lba answers with clusters of the file, and an allocation      *)
(* fails only when the volume is full.                                     *)
ChainsSound ==
  part = "chains" =>
    C!ChainsDisjoint /\ C!CacheIsTrue /\ C!AnswerIsOwn /\ C!FullMeansFull

\* References in the tree of open files are exact and nothing deleted is used.
TreeSound == part = "tree" => I!TreeSound

(* What file_instance::relax asserts, assert(ref_count): the instance that *)
(* is given up has a reference to give up.                                 *)
RelaxFindsReference == part = "tree" => I!RelaxFindsReference

(* Workers and threads block each other for good only in the ways that are *)
(* named: FAT sector against bmp_lock, and a folder against what it holds. *)
KnownDeadlocks ==
  CASE part = "chains" -> C!OnlyFatDeadlock
    [] part = "tree" -> I!OnlyUpDownDeadlock
    [] OTHER -> TRUE
=============================================================================
