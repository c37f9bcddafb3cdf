----------------------------- MODULE FileSystem -----------------------------
(***************************************************************************)
(* What a request to the file system goes through, side by side: the       *)
(* request itself (FileRequests), the records of a folder (FolderRecords), *)
(* the transfer of the data (FileIO) and the volume (Mount).  Each leaves  *)
(* the effects of the others open (a request ends with any result, a       *)
(* transfer may fail at any sector), so a behaviour exercises one of them, *)
(* which is chosen initially.                                              *)
(***************************************************************************)
EXTENDS FileConstants

VARIABLES
  part,
  command, result, open, refs, waiters, th, list, barrier, worker,
  worker_count, stopping, state, stop, calls, missed,       \* FileRequests
  mem, sectors, dirty, inst, cursor, listed,                \* FolderRecords
  data, stored, unsaved, file_size, valid_size, request, offset, done, buf,
  iostate, step,                                            \* FileIO
  device, at, base, top, fat_start, heap, cluster_count, cluster_shift,
  fat_index, cur_cluster, cluster, index, bitmap, flags, volume_state, mark,
  saved, pending, setter, stopper, failed, early            \* Mount

requests == <<command, result, open, refs, waiters, th, list, barrier, worker,
              worker_count, stopping, state, stop, calls, missed>>
folder == <<mem, sectors, dirty, inst, cursor, listed>>
transfer == <<data, stored, unsaved, file_size, valid_size, request, offset, done,
              buf, iostate, step>>
volume == <<device, at, base, top, fat_start, heap, cluster_count, cluster_shift,
            fat_index, cur_cluster, cluster, index, bitmap, flags, volume_state, mark,
            saved, pending, setter, stopper, failed, early>>
vars == <<part, requests, folder, transfer, volume>>

Q == INSTANCE FileRequests WITH iostate <- result, flags <- state
R == INSTANCE FolderRecords WITH disk <- sectors
T == INSTANCE FileIO WITH req <- request, pc <- step
V == INSTANCE Mount WITH disk <- device, table <- fat_start, dirty <- pending

(***************************************************************************)
(* The instance that is checked                                            *)
(***************************************************************************)
\* files, folders, a long name and deleted records, in sectors of 4 records
SmallFolders ==
  LET a == R!FileSet("a", "file", 2)
      b == R!FileSet("b", "file", 2)
      c == R!FileSet("c", "folder", 2)
      long == R!FileSet("b", "file", 3)
      del == R!Other("05")
  IN {<<a, del, b>>, <<del, c, a>>, <<a, b>>, <<long, a>>, <<del, b, c>>,
      <<a, del, long>>, <<del, b, del, c>>}

\* volumes that begin at sector 0 or in a partition: sound and unsound ones, ones
\* with the largest number in a field, and shifts that do not fit
SmallDisks ==
  LET header(b) == [magic : {TRUE}, base : {b}, limit : {7, 9}, fat_offset : {1, 2},
                    fat_length : {1, 2}, fat_count : {1, 2}, active : {0, 1},
                    cluster_offset : {4, 6}, cluster_count : {2, 5}, shift : {0}, root : {3}]
      wide(b) == [magic : {TRUE}, base : {b}, limit : {9, 45, Long - 1}, fat_offset : {2},
                  fat_length : {2, 8}, fat_count : {1, 2}, active : {0, 1},
                  cluster_offset : {6}, cluster_count : {2, 11, 15}, shift : {0, 1, 3, 7},
                  root : {3, 11}]
      none == [CHOOSE h \in header(0) : TRUE EXCEPT !.magic = FALSE]
      found == [found |-> TRUE, start |-> 3, length |-> 8]
      missing == [found |-> FALSE, start |-> 0, length |-> 0]
      end == [type |-> "end", fat |-> 0, length |-> 0, cluster |-> 0]
      file == [end EXCEPT !.type = "file"]
      map(f, l, c) == [type |-> "bitmap", fat |-> f, length |-> l, cluster |-> c]
      sector(a, b, c, n) == [first |-> <<a, b, c>>, next |-> n]
      folders == {<<sector(map(0, 1, 2), map(1, 1, 3), end, 0)>>,
                  <<sector(map(1, 0, 3), map(0, 1, 3), map(0, 1, 4), 2),
                    sector(map(1, 1, 2), end, end, 0)>>,
                  <<sector(file, map(0, 0, 2), map(1, 1, 1), 2), sector(file, end, end, 0)>>}
      walked == CHOOSE v \in folders : Len(v) = 1
  IN [h0 : {none}, part : {found, missing}, h1 : header(3), dir : folders,
      sum : {TRUE}, marked : BOOLEAN]
     \cup
     [h0 : header(0), part : {missing}, h1 : {none}, dir : folders,
      sum : BOOLEAN, marked : {FALSE}]
     \cup
     [h0 : wide(0), part : {missing}, h1 : {none}, dir : folders, sum : {TRUE}, marked : {FALSE}]
     \cup
     [h0 : {none}, part : {[found EXCEPT !.length = 15]}, h1 : wide(3), dir : {walked},
      sum : {TRUE}, marked : {FALSE}]

\* a component that is not exercised begins in one state only
Init ==
  /\ part \in {"requests", "folder", "transfer", "volume"}
  /\ IF part = "folder" THEN TRUE
     ELSE mem = R!FlattenSeq(CHOOSE s \in Contents : TRUE) \o <<R!End>>
  /\ IF part = "transfer" THEN TRUE
     ELSE request = [kind |-> "read", offset |-> 0, length |-> 0, room |-> 0]
  /\ IF part = "transfer" THEN TRUE ELSE file_size = 0
  /\ IF part = "volume" THEN TRUE ELSE device = CHOOSE v \in Disks : TRUE
  /\ Q!Init /\ R!Init /\ T!Init /\ V!Init

Next ==
  /\ \/ part = "requests" /\ Q!Next /\ UNCHANGED <<folder, transfer, volume>>
     \/ part = "folder" /\ R!Next /\ UNCHANGED <<requests, transfer, volume>>
     \/ part = "transfer" /\ T!Next /\ UNCHANGED <<requests, folder, volume>>
     \/ part = "volume" /\ V!Next /\ UNCHANGED <<requests, folder, transfer>>
  /\ UNCHANGED part

\* the fairness of FileRequests, whose workers are ready from the beginning
Fairness ==
  /\ \A t \in Threads : WF_requests(part = "requests" /\ Q!ThreadStep(t))
  /\ \A w \in Workers : WF_requests(part = "requests" /\ Q!WorkerStep(w))
  /\ WF_requests(part = "requests" /\ Q!StopStep)

Spec == Init /\ [][Next]_vars /\ Fairness

(***************************************************************************)
(* Properties of the components                                            *)
(***************************************************************************)
(* A request is in one place and its file is kept until it ends, and the   *)
(* file system is marked as stopped only after the last worker has left.   *)
RequestsConserved ==
  part = "requests" => Q!RequestsConserved /\ Q!CleanAfterWork

(* A request ends, unless the file system is stopped meanwhile or a signal *)
(* fell into the gap between a worker's look at the list and its sleep.    *)
RequestEnds == Q!RequestEnds

\* The workers leave when the file system is stopped.
PoolStops == Q!PoolStops

(* A file with a regular set of records is found under its name whatever   *)
(* is updated, flushed and reused, and is listed once.                     *)
FilesStayFound == part = "folder" => R!FilesStayFound /\ R!ListedOnce

(* A request transfers what it reports, each unit once and in its place,   *)
(* and what it wrote stays but for the sector that upgrade forgets.        *)
TransferIsExact == part = "transfer" => T!ReadIsExact /\ T!WriteIsExact

(* The look-ups in a mounted volume stay in its parts, unless the numbers  *)
(* of its header wrap, and the mark of a volume that was not stopped is    *)
(* kept.                                                                   *)
VolumeIsSound == part = "volume" => V!VolumeIsSound /\ V!MarkIsKept
=============================================================================
