---------------------------- MODULE FolderRecords ----------------------------
(***************************************************************************)
(* The records of a folder: folder_instance::reader of                     *)
(* kernel/filesystem/instance.cpp, as folder_instance::open, update_size   *)
(* and update_chain and exfat::worker_list use it.                         *)
(*                                                                         *)
(* A file is a set of records: a file record (0x85) that counts the ones   *)
(* which follow, a stream record (0xC0) with the hash of the name, the     *)
(* size and the first cluster, and name records (0xC1) of 15 characters.   *)
(* The file record holds a checksum of the set.  The checksum is modelled  *)
(* without collisions: it is what it is computed from.                     *)
(*                                                                         *)
(* The folder is small enough for one slot of the disk cache; a sector of  *)
(* the slot that is not marked dirty is lost when the slot is reused.      *)
(***************************************************************************)
EXTENDS FileConstants, SequencesExt

VARIABLES
  mem,         \* the records in the slot
  disk,        \* the records on the disk
  dirty,       \* the dirty sectors of the slot
  inst,        \* per name, the instance: rec_index and size
  cursor,      \* the offset of a file object that lists the folder
  listed       \* the names it has returned

vars == <<mem, disk, dirty, inst, cursor, listed>>

Names == {"a", "b", "c"}
Hash(name) == IF name = "a" THEN "h1" ELSE "h2"     \* b and c collide
Both == {"file", "folder"}
Closed == [index |-> -1, size |-> 0]

\* the checksum covers all of the set but itself
Sum(l) == [k \in 1..Len(l) |-> IF k = 1 THEN [l[1] EXCEPT !.sum = <<>>] ELSE l[k]]
Stamped(l) == [l EXCEPT ![1].sum = Sum(l)]

\* the set of a file whose name takes n - 1 records, and other records
FileSet(name, kind, n) ==
  Stamped(<<[type |-> "85", count |-> n, kind |-> kind, sum |-> <<>>],
            [type |-> "C0", hash |-> Hash(name), size |-> 0, first |-> 0]>>
          \o [k \in 1..n - 1 |-> [type |-> "C1", name |-> name]])
Other(type) == <<[type |-> type]>>
End == [type |-> "00"]

Init ==
  /\ \E sets \in Contents : mem = FlattenSeq(sets) \o <<End>>
  /\ disk = mem /\ dirty = {}
  /\ inst = [n \in Names |-> Closed]
  /\ cursor = 0 /\ listed = <<>>

(***************************************************************************)
(* The reader                                                              *)
(***************************************************************************)
\* the records up to the end mark count as the size of the folder
Limit == Len(mem) - 1

(* reader::step at one record, with the records collected so far (list);   *)
(* the limit is looked at from sector to sector.  A set is complete when   *)
(* it has as many records as its file record counts.                       *)
Pass(r, mode, hash) ==
  LET i == r.index
      rec == mem[i + 1]
      more == Append(r.list, rec)
      starts == rec.type = "85" /\ rec.count >= 2 /\ rec.kind \in mode
      goes_on == /\ rec.type = "C0" /\ mode # {} /\ Len(r.list) = 1
                 /\ hash # "any" => rec.hash = hash
      named == rec.type = "C1" /\ mode # {} /\ Len(r.list) >= 2
      collected(l) == [stat |-> "step", index |-> i + 1, list |-> l]
  IN IF r.stat # "step" THEN r
     ELSE IF (i % PerSec = 0 /\ i >= Limit) \/ rec.type = "00"
     THEN [stat |-> "EOF", index |-> i, list |-> <<>>]
     ELSE IF starts THEN collected(<<rec>>)
     ELSE IF goes_on \/ (named /\ Len(more) < r.list[1].count) THEN collected(more)
     ELSE IF named /\ more[1].sum = Sum(more)
     THEN [stat |-> "found", index |-> i + 1, list |-> more]
     ELSE collected(<<>>)

\* from a record on, until a set is complete or the folder ends
Walk(i, list, mode, hash) ==
  LET r[n \in 0..Len(mem)] ==
        IF n = 0 THEN [stat |-> "step", index |-> i, list |-> list]
        ELSE Pass(r[n - 1], mode, hash)
  IN r[Len(mem)]

\* reader::get_name: empty when records are missing
GetName(list) == IF Len(list) = list[1].count + 1 THEN list[3].name ELSE ""

\* Faulty: the index of the set is computed without its file record.
BaseOfShort(r) == r.index - r.list[1].count

\* the index of the set that the reader has gone through
BaseOf(r) == r.index - r.list[1].count - 1

\* one round of the loop of folder_instance::open, which goes on from a set
\* with the hash but another name
Another(r, name, mode) ==
  IF r.stat # "found" \/ GetName(r.list) = name THEN r
  ELSE Walk(r.index, r.list, mode, Hash(name))

Search(name, mode) ==
  LET r[n \in 0..Len(mem)] ==
        IF n = 0 THEN Walk(0, <<>>, mode, Hash(name))
        ELSE Another(r[n - 1], name, mode)
  IN r[Len(mem)]

\* folder_instance::open for a name that is not in file_table
Open(name, mode) ==
  /\ inst[name] = Closed
  /\ LET r == Search(name, mode)
     IN /\ r.stat = "found"
        /\ inst' = [inst EXCEPT ![name] = [index |-> BaseOf(r), size |-> r.list[2].size]]
  /\ UNCHANGED <<mem, disk, dirty, cursor, listed>>

\* worker_list: one name, and the cursor behind its set
List ==
  /\ LET r == Walk(cursor, <<>>, Both, "any")
     IN /\ cursor' = r.index
        /\ listed' = IF r.stat = "found" THEN Append(listed, GetName(r.list)) ELSE listed
  /\ UNCHANGED <<mem, disk, dirty, inst>>

(***************************************************************************)
(* Updates                                                                 *)
(***************************************************************************)
SectorOf(i) == i \div PerSec

\* Faulty: the checksum of the set is left as it was.
Unstamped(l) == l

\* the new checksum, over the records as they were read
Restamped(l) == Stamped(l)

\* Faulty: the sector is not marked dirty.
WrittenClean(base, l) ==
  /\ mem' = [mem EXCEPT ![base + 1] = l[1], ![base + 2] = l[2]]
  /\ UNCHANGED dirty

\* reader::update copies the first two records; the test for a set that
\* crosses the end of a sector never holds, and one sector is marked
Written(base, l) ==
  /\ mem' = [mem EXCEPT ![base + 1] = l[1], ![base + 2] = l[2]]
  /\ dirty' = dirty \cup {SectorOf(base)}

\* update_size and update_chain: the set must be where the instance says
Update(name, field, v) ==
  LET base == inst[name].index
      r == Walk(base, <<>>, Both, "any")
      l == IF field = "size" THEN [r.list EXCEPT ![2].size = v] ELSE [r.list EXCEPT ![2].first = v]
  IN IF /\ r.stat = "found"
        /\ base + r.list[1].count + 1 = r.index /\ r.index <= Limit
        /\ Len(r.list) = r.list[1].count + 1
     THEN Written(base, Restamped(l))
     ELSE UNCHANGED <<mem, dirty>>

\* file_instance::set_size
SetSize(name, v) ==
  /\ inst[name] # Closed /\ inst[name].size # v
  /\ inst' = [inst EXCEPT ![name].size = v]
  /\ Update(name, "size", v)
  /\ UNCHANGED <<disk, cursor, listed>>

\* the first cluster of an empty file, from file_instance::get_lba
UpdateChain(name, v) ==
  /\ inst[name] # Closed /\ mem[inst[name].index + 2].first = 0
  /\ Update(name, "first", v)
  /\ UNCHANGED <<disk, inst, cursor, listed>>

\* the instance ends
Close(name) ==
  /\ inst[name] # Closed
  /\ inst' = [inst EXCEPT ![name] = Closed]
  /\ UNCHANGED <<mem, disk, dirty, cursor, listed>>

\* the disk cache writes the dirty sectors, and may reuse the slot
Flush(reuse) ==
  /\ disk' = [i \in DOMAIN disk |-> IF SectorOf(i - 1) \in dirty THEN mem[i] ELSE disk[i]]
  /\ dirty' = {}
  /\ mem' = IF reuse THEN disk' ELSE mem
  /\ UNCHANGED <<inst, cursor, listed>>

Next ==
  \/ \E name \in Names : \/ \E mode \in {Both, {"file"}, {"folder"}} : Open(name, mode)
                         \/ \E v \in Sizes : SetSize(name, v) \/ UpdateChain(name, v)
                         \/ Close(name)
  \/ List
  \/ \E reuse \in BOOLEAN : Flush(reuse)

Spec == Init /\ [][Next]_vars

(***************************************************************************)
(* Properties                                                              *)
(***************************************************************************)
SetAt(i) == mem[i].type = "85"
NameAt(i) == mem[i + 2].name
\* a set that fits the reader: its name takes one record, and its first two
\* records are in one sector
Regular(i) == mem[i].count = 2 /\ SectorOf(i - 1) = SectorOf(i)

(* A file with a regular set of records is found under its name at its     *)
(* place and with the size that was set last, whatever files are before    *)
(* it, and however updates, flushes and the reuse of the slot are mixed.   *)
(* Sets that cross a sector lose their checksum when the slot is reused,   *)
(* and those with a longer name are not found at all.                      *)
FilesStayFound ==
  \A i \in 1..Limit : SetAt(i) /\ Regular(i) =>
    LET r == Search(NameAt(i), Both)
        o == inst[NameAt(i)]
    IN /\ r.stat = "found" /\ BaseOf(r) = i - 1
       /\ o # Closed => o.index = i - 1 /\ o.size = mem[i + 1].size

(* The listing names each regular file that the cursor has passed once and *)
(* in the order of the folder.                                             *)
ListedOnce ==
  (\A i \in 1..Limit : SetAt(i) => Regular(i)) =>
    listed = [k \in 1..Cardinality({i \in 1..cursor : SetAt(i)}) |->
                NameAt(CHOOSE i \in 1..cursor :
                  SetAt(i) /\ Cardinality({j \in 1..i : SetAt(j)}) = k)]
=============================================================================
