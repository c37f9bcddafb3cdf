------------------------------- MODULE FileIO -------------------------------
(***************************************************************************)
(* worker_read and worker_write of kernel/filesystem/worker.cpp: one       *)
(* request on one file, chunk by chunk.  A chunk ends with a page of the   *)
(* disk cache, with a cluster, with the request and, for a read, with the  *)
(* valid part of the file.                                                 *)
(*                                                                         *)
(* The instance is locked for the whole request (SHARED or EXCLUSIVE), so  *)
(* requests do not overlap.  The chain has as many clusters as are asked   *)
(* for (ClusterChain); it runs backwards over the disk, so that no cluster *)
(* is followed by its successor.  A unit stands for a part of a sector;    *)
(* what it holds is named after where it comes from.  Of the cache there   *)
(* is what this file needs of it: a page that is not being used may be     *)
(* taken for another one at any time, and then only its dirty sectors are  *)
(* written back.                                                           *)
(***************************************************************************)
EXTENDS FileConstants

VARIABLES
  data,        \* the units of the heap as the cache shows them
  stored,      \* as they are on the disk
  unsaved,     \* the sectors whose bit in slot::dirty is set
  file_size, valid_size,
  req,         \* the request as it was made
  offset,      \* f->offset
  done,        \* len: units transferred so far
  buf,         \* units of the user's buffer, for a read
  iostate, pc

vars == <<data, stored, unsaved, file_size, valid_size, req, offset, done, buf, iostate, pc>>

Size == PerCluster * Units                  \* units of a cluster
Last == (MaxSize + MaxLen) \div Size         \* the index of the last cluster
Span == 0..(Last + 1) * Size - 1            \* the heap

\* get_lba and the offset in the sector: where a unit of the file is
Loc(u) == (Last - u \div Size) * Size + (u % Size)

Old == [u \in Span |-> <<"old", u>>]     \* what the disk holds at first
Zero == <<"zero">>

\* room is how much of the buffer can be accessed
Init ==
  /\ req \in [kind : {"read", "write"}, offset : 0..MaxSize, length : 0..MaxLen, room : 0..MaxLen]
  /\ req.room <= req.length
  /\ file_size \in 0..MaxSize /\ valid_size \in 0..file_size
  /\ data = Old /\ stored = Old /\ unsaved = {} /\ offset = req.offset /\ done = 0
  /\ buf = [k \in 0..MaxLen - 1 |-> <<"buf">>]
  /\ iostate = {} /\ pc = req.kind

Least(S) == CHOOSE m \in S : \A n \in S : m <= n
Most(a, b) == IF a >= b THEN a ELSE b

(***************************************************************************)
(* The size of a chunk                                                     *)
(***************************************************************************)
\* dm.count(lba): the sectors up to the end of the page
ToPageEnd(off) == (PerPage - ((First + Loc(off) \div Units) % PerPage)) * Units - (off % Units)
ToClusterEnd(off) == Size - (off % Size)

\* Faulty: the end of the cluster is forgotten.
ChunkOfPage(off, rest) == Least({ToPageEnd(off), rest})

Chunk(off, rest) == Least({ToPageEnd(off), ToClusterEnd(off), rest})

\* the part of it that the user's memory takes
Moved(n) == Least({n, Most(req.room - done, 0)})

Fail(f) == iostate' = iostate \cup {f} /\ pc' = "end"

\* a request without a buffer or a length
Nothing ==
  /\ pc \in {"read", "write"} /\ done = 0 /\ req.length = 0
  /\ Fail("MEM")
  /\ UNCHANGED <<data, stored, unsaved, file_size, valid_size, req, offset, done, buf>>

(***************************************************************************)
(* worker_read                                                             *)
(***************************************************************************)
More == done < req.length

ReadEof ==
  /\ pc = "read" /\ More /\ offset >= file_size
  /\ Fail("EOF")
  /\ UNCHANGED <<data, stored, unsaved, file_size, valid_size, req, offset, done, buf>>

(* Beyond the valid part the buffer is zeroed.  Neither the offset nor the *)
(* place in the buffer moves on.                                           *)
ReadZero ==
  /\ pc = "read" /\ More /\ offset < file_size /\ offset >= valid_size
  /\ LET n == Least({file_size - valid_size, req.length - done})
         m == Moved(n)
         at == offset - req.offset
     IN /\ buf' = [k \in DOMAIN buf |-> IF k \in at..at + m - 1 THEN Zero ELSE buf[k]]
        /\ done' = done + m
        /\ IF m # n THEN Fail("MEM") ELSE UNCHANGED <<iostate, pc>>
  /\ UNCHANGED <<data, stored, unsaved, file_size, valid_size, req, offset>>

\* Faulty: the end of the valid part does not end a chunk.
ReadChunkStale ==
  /\ pc = "read" /\ More /\ offset < file_size /\ offset < valid_size
  /\ LET n == Chunk(offset, req.length - done)
         m == Moved(n)
     IN /\ buf' = [k \in DOMAIN buf |-> IF k \in done..done + m - 1
                                        THEN data[Loc(offset) + k - done] ELSE buf[k]]
        /\ offset' = offset + m /\ done' = done + m
        /\ IF m # n THEN Fail("MEM") ELSE UNCHANGED <<iostate, pc>>
  /\ UNCHANGED <<data, stored, unsaved, file_size, valid_size, req>>

ReadChunk ==
  /\ pc = "read" /\ More /\ offset < file_size /\ offset < valid_size
  /\ LET n == Least({Chunk(offset, req.length - done), valid_size - offset})
         m == Moved(n)
     IN /\ buf' = [k \in DOMAIN buf |-> IF k \in done..done + m - 1
                                        THEN data[Loc(offset) + k - done] ELSE buf[k]]
        /\ offset' = offset + m /\ done' = done + m
        /\ IF m # n THEN Fail("MEM") ELSE UNCHANGED <<iostate, pc>>
  /\ UNCHANGED <<data, stored, unsaved, file_size, valid_size, req>>

\* the chain cannot be followed, or the sector not be read
ReadFails ==
  /\ pc = "read" /\ More /\ offset < file_size /\ offset < valid_size
  /\ \E f \in {"FS", "MEDIA"} : Fail(f)
  /\ UNCHANGED <<data, stored, unsaved, file_size, valid_size, req, offset, done, buf>>

ReadEnd ==
  /\ pc = "read" /\ ~More /\ req.length > 0
  /\ pc' = "end"
  /\ UNCHANGED <<data, stored, unsaved, file_size, valid_size, req, offset, done, buf, iostate>>

(***************************************************************************)
(* worker_write                                                            *)
(***************************************************************************)
\* Faulty: a chunk that ends within a sector counts as whole too.
WholeStart(off, n) == off % Units = 0

\* the sectors that are asked for and marked: as many as the length needs,
\* wherever in a sector the chunk begins
Count(n) == (n + Units - 1) \div Units
Marked(off, n) == Loc(off) \div Units..Loc(off) \div Units + Count(n) - 1

\* whole sectors are not read before they are overwritten, but zeroed
Whole(off, n) == off % Units = 0 /\ n % Units = 0

\* the units of the sectors that a chunk touches
Touched(l, n) == (l \div Units) * Units..((l + n - 1) \div Units + 1) * Units - 1

\* one chunk, from the cache slot, which is marked by get or by upgrade, to the
\* sizes kept in the loop
WriteChunk ==
  /\ pc = "write" /\ More
  /\ LET n == Chunk(offset, req.length - done)
         m == Moved(n)
     IN /\ data' = [u \in Span |->
              IF u \in Loc(offset)..Loc(offset) + m - 1 THEN <<"new", done + u - Loc(offset)>>
              ELSE IF Whole(offset, n) /\ u \in Touched(Loc(offset), n) THEN Zero
              ELSE data[u]]
        /\ unsaved' = unsaved \cup Marked(offset, n)
        /\ offset' = offset + m /\ done' = done + m
        /\ valid_size' = Most(valid_size, offset')
        /\ file_size' = Most(file_size, valid_size')
        /\ IF m # n THEN Fail("MEM") ELSE UNCHANGED <<iostate, pc>>
  /\ UNCHANGED <<req, buf, stored>>

\* the chain cannot be expanded, or the sector not be read; what was written
\* before counts
WriteFails ==
  /\ pc = "write" /\ More
  /\ \E f \in {"FS", "MEDIA"} : Fail(f)
  /\ UNCHANGED <<data, stored, unsaved, file_size, valid_size, req, offset, done, buf>>

\* set_size; the directory record may not be written
WriteEnd ==
  /\ pc = "write" /\ ~More /\ req.length > 0
  /\ pc' = "end"
  /\ iostate' \in {iostate, iostate \cup {"FS"}}
  /\ UNCHANGED <<data, stored, unsaved, file_size, valid_size, req, offset, done, buf>>

(* slot::flush and slot::reload: between two chunks, and after the last,   *)
(* a page is written back and its slot is used for another one.            *)
PageOf(u) == (First + u \div Units) \div PerPage

Evict(p) ==
  LET saved(u) == PageOf(u) = p /\ u \div Units \in unsaved IN
  /\ stored' = [u \in Span |-> IF saved(u) THEN data[u] ELSE stored[u]]
  /\ data' = [u \in Span |-> IF PageOf(u) = p THEN stored'[u] ELSE data[u]]
  /\ unsaved' = {k \in unsaved : (First + k) \div PerPage # p}
  /\ UNCHANGED <<file_size, valid_size, req, offset, done, buf, iostate, pc>>

Next == \/ \E p \in {PageOf(u) : u \in Span} : Evict(p)
        \/ Nothing \/ ReadEof \/ ReadZero \/ ReadChunk \/ ReadFails \/ ReadEnd
        \/ WriteChunk \/ WriteFails \/ WriteEnd

Spec == Init /\ [][Next]_vars

(***************************************************************************)
(* Properties                                                              *)
(***************************************************************************)
\* the part of a file that reads reach as it is on the disk
Plain == valid_size = file_size \/ req.offset + req.length <= valid_size

(* A read returns the units of the file from its offset on, in order, each *)
(* once, as many as it reports; without a failure all that was asked for,  *)
(* and EOF_FAILURE exactly at the end of the file.  This is so for files   *)
(* whose size is valid, or up to the valid size: beyond it the offset does *)
(* not move, and the report counts the same units again and again.         *)
ReadIsExact ==
  (req.kind = "read" /\ Plain) =>
    /\ offset = req.offset + done
    /\ \A k \in 0..done - 1 : buf[k] = Old[Loc(req.offset + k)]
    /\ \A k \in DOMAIN buf : k >= done => buf[k] = <<"buf">>
    /\ pc = "end" => /\ iostate = {} => done = req.length
                     /\ "EOF" \in iostate => offset >= file_size
                     /\ done > 0 => offset <= file_size

(* A write that begins within a sector and fits into one chunk may touch a *)
(* sector more than its length needs.  The units in that sector, k of the  *)
(* request among them, are not marked.                                     *)
Torn(k) ==
  /\ req.offset % Units > 0 /\ Chunk(req.offset, req.length) = req.length
  /\ ((req.offset % Units) + k) \div Units >= Count(req.length)

(* A write changes the units that it reports and nothing else, unless the  *)
(* user's memory fails: then the rest of the sectors that were to be       *)
(* overwritten as a whole is zero.  What it changed is on the disk, or     *)
(* marked so that it will be, and stays through every eviction: all but    *)
(* the units that are Torn, which may go back to what they were.  The      *)
(* sizes cover what was written.                                           *)
WriteIsExact ==
  req.kind = "write" =>
    /\ \A k \in 0..done - 1 :
         LET u == Loc(req.offset + k) IN
         \/ /\ data[u] = <<"new", k>>
            /\ u \div Units \in unsaved \/ stored[u] = data[u] \/ Torn(k)
         \/ Torn(k) /\ data[u] = Old[u] /\ stored[u] = Old[u]
    /\ \A u \in 0..MaxSize + MaxLen : u \notin req.offset..req.offset + done - 1 =>
         \/ data[Loc(u)] = Old[Loc(u)]
         \/ "MEM" \in iostate /\ data[Loc(u)] = Zero /\ u >= offset /\ u < req.offset + req.length
    /\ offset = req.offset + done
    /\ file_size >= valid_size /\ (done > 0 => valid_size >= offset)
    /\ pc = "end" /\ iostate = {} => done = req.length
=============================================================================
