-------------------------------- MODULE Mount --------------------------------
(***************************************************************************)
(* How exfat of kernel/filesystem/exfat.cpp finds the volume: thread_init  *)
(* reads the header, at sector 0 or where the partition table says, checks *)
(* it (parse_header) and the checksum of the boot area, and walks through  *)
(* the root folder for the allocation bitmap.  set_rw and stop set and     *)
(* clear the mark in the header that says the volume is being written.     *)
(*                                                                         *)
(* Sectors are numbered; the disk is chosen initially.  Signature, name,   *)
(* zeroes, version and sector size of a header are one flag (magic).  The  *)
(* numbers of a header are as wide as they are in the code, dword or       *)
(* qword, and so are the sums and products that parse_header checks.       *)
(***************************************************************************)
EXTENDS FileConstants

VARIABLES
  disk,
  at,          \* "header", "sum", "root", "ready", or "bugcheck"
  base, top, table, heap, cluster_count,
  cluster_shift, \* of the header, without the 9 for the sector
  fat_index,
  cur_cluster, \* the cluster of the root folder that is read next
  cluster,     \* its position in the folder
  index,       \* the records read so far
  bitmap,      \* where the bitmap is that was found, or 0
  flags,       \* a subset of {"rw", "stop"}
  volume_state,
  mark, saved, \* the mark in the header, as the cache shows it and on the disk
  dirty,       \* the header's sector is dirty in the cache
  setter,      \* set_rw: "none", "flagged", "done"
  stopper,     \* stop: "none", "look", "clear", "done"
  failed,      \* ghost: set_rw could not read the header
  early        \* ghost: stop began while set_rw was at work

geometry == <<base, top, table, heap, cluster_count, cluster_shift, fat_index>>
search == <<cur_cluster, cluster, index, bitmap>>
volume == <<flags, volume_state, mark, saved, dirty, setter, stopper, failed, early>>
vars == <<disk, at, geometry, search, volume>>

Init ==
  /\ disk \in Disks
  /\ at = "header"
  /\ base = 0 /\ top = 0 /\ table = 0 /\ heap = 0 /\ cluster_count = 0
  /\ cluster_shift = 0 /\ fat_index = 0
  /\ cur_cluster = 0 /\ cluster = 1 /\ index = 0 /\ bitmap = 0
  /\ flags = {} /\ volume_state = FALSE /\ setter = "none" /\ stopper = "none"
  /\ mark = disk.marked /\ saved = disk.marked /\ dirty = FALSE
  /\ failed = FALSE /\ early = FALSE

Bugcheck == at' = "bugcheck" /\ UNCHANGED <<disk, geometry, search, volume>>

(***************************************************************************)
(* parse_header                                                            *)
(***************************************************************************)
\* the table in use: the second one, when there are two and the flag says so
Table(h) == base + h.fat_offset + (IF h.fat_count = 2 /\ h.active = 1 THEN h.fat_length ELSE 0)

Up(a, b) == (a + b - 1) \div b

\* the sectors of a cluster as they are checked, (qword)1 << cluster_shift, ...
Checked(shift) == 2^(shift % LongBits)

\* ... and as they are used, cluster_size() / SECTOR_SIZE: a dword
Stride(shift) == 2^((SectorShift + shift) % WordBits) \div 2^SectorShift

\* Faulty: the table is not compared with the clusters.
AcceptsShortFat(h) ==
  /\ h.magic /\ h.base = base
  /\ top = 0 \/ (h.base + h.limit) % Long <= top
  /\ h.fat_offset >= MinFat /\ h.cluster_offset > 0 /\ h.cluster_count > 0
  /\ h.fat_length > 0
  /\ h.fat_count = 2 \/ (h.fat_count = 1 /\ h.active = 0)
  /\ Table(h) + ((h.fat_length * h.fat_count) % Word) <= base + h.cluster_offset
  /\ (base + h.cluster_offset + h.cluster_count * Checked(h.shift)) % Long
        <= (h.base + h.limit) % Long
  /\ h.root >= 2

Accepts(h) ==
  /\ h.magic /\ h.base = base
  /\ top = 0 \/ (h.base + h.limit) % Long <= top
  /\ h.fat_offset >= MinFat /\ h.cluster_offset > 0 /\ h.cluster_count > 0
  /\ h.fat_length > 0
  /\ h.fat_count = 2 \/ (h.fat_count = 1 /\ h.active = 0)
  /\ Up((2 + h.cluster_count) % Word, Entries) <= h.fat_length
  /\ Table(h) + ((h.fat_length * h.fat_count) % Word) <= base + h.cluster_offset
  /\ (base + h.cluster_offset + h.cluster_count * Checked(h.shift)) % Long
        <= (h.base + h.limit) % Long
  /\ h.root >= 2

Header == IF base = 0 THEN disk.h0 ELSE disk.h1

\* The most significant bit of what parse_header returns says which FAT is in
\* use; a root cluster that large sets it too.
Msb == Word \div 2

Parse ==
  /\ at = "header" /\ Accepts(Header)
  /\ LET h == Header
     IN /\ top' = (h.base + h.limit) % Long /\ table' = Table(h)
        /\ heap' = base + h.cluster_offset
        /\ cluster_count' = h.cluster_count /\ cluster_shift' = h.shift
        /\ fat_index' = IF h.active = 1 \/ h.root >= Msb THEN 1 ELSE 0
        /\ cur_cluster' = h.root % Msb
  /\ at' = "sum"
  /\ UNCHANGED <<disk, base, cluster, index, bitmap, volume>>

\* no volume at sector 0: the active partition of the right type, if any
Partition ==
  /\ at = "header" /\ ~Accepts(Header)
  /\ base = 0 /\ disk.part.found /\ disk.part.start > 0
  /\ base' = disk.part.start /\ top' = disk.part.start + disk.part.length
  /\ UNCHANGED <<disk, at, table, heap, cluster_count, cluster_shift, fat_index, search, volume>>

NoVolume ==
  /\ at = "header" /\ ~Accepts(Header)
  /\ base # 0 \/ ~disk.part.found \/ disk.part.start = 0
  /\ Bugcheck

\* the sum over the boot area, without the bytes that change
CheckSum ==
  /\ at = "sum"
  /\ IF disk.sum
     THEN at' = "root" /\ UNCHANGED <<disk, geometry, search, volume>>
     ELSE Bugcheck

\* any sector may be unreadable
ReadFails == at \in {"header", "sum", "root"} /\ Bugcheck

(***************************************************************************)
(* lba_of_fat and lba_of_cluster                                           *)
(***************************************************************************)
FatSectors == ((((cluster_count + 2) % Word) + Entries - 1) % Word) \div Entries
LbaOfFat(sector) == IF sector < FatSectors THEN table + sector ELSE 0

Proper(c) == c >= 2 /\ c < BadCluster           \* what lba_of_cluster asserts
LbaOfCluster(c) ==
  IF c - 2 >= cluster_count THEN 0 ELSE heap + (((c - 2) * Stride(cluster_shift)) % Word)

(***************************************************************************)
(* The root folder: the first sector of each of its clusters is read.  A   *)
(* record is the end, a bitmap, or another one.                            *)
(***************************************************************************)
EndAt(sector) == {k \in DOMAIN sector : sector[k].type = "end"}
BeforeEnd(sector) ==
  IF EndAt(sector) = {} THEN sector
  ELSE SubSeq(sector, 1, (CHOOSE k \in EndAt(sector) : \A j \in EndAt(sector) : k <= j) - 1)

\* align_up(cluster_count, 8) / 8, a dword
BitmapLength == ((cluster_count + 7) % Word) \div 8

\* the bitmap of the FAT in use, with a bit for each cluster
Takes(rec) == rec.type = "bitmap" /\ rec.fat = fat_index /\ BitmapLength <= rec.length

\* the one that is found last
LastTaken(recs) ==
  CHOOSE k \in DOMAIN recs : Takes(recs[k]) /\ \A j \in DOMAIN recs : Takes(recs[j]) => j <= k

\* Faulty: the length of the bitmap is not looked at.
FoundAny(recs) ==
  LET of(j) == recs[j].type = "bitmap" /\ recs[j].fat = fat_index IN
  IF \E k \in DOMAIN recs : of(k)
  THEN LbaOfCluster(recs[CHOOSE k \in DOMAIN recs : of(k)].cluster)
  ELSE bitmap

Found(recs) ==
  IF \E k \in DOMAIN recs : Takes(recs[k]) THEN LbaOfCluster(recs[LastTaken(recs)].cluster)
  ELSE bitmap

RootCluster ==
  LET recs == BeforeEnd(disk.dir[cluster].first) IN
  /\ at = "root"
  /\ IF \/ ~Proper(cur_cluster) \/ cur_cluster - 2 >= cluster_count \/ cluster > Len(disk.dir)
        \/ \E k \in DOMAIN recs : Takes(recs[k]) /\ ~Proper(recs[k].cluster)
     THEN Bugcheck
     ELSE /\ index' = index + Len(recs)
          /\ bitmap' = Found(recs)
          /\ cluster' = cluster + 1
          /\ IF EndAt(disk.dir[cluster].first) # {}
             THEN /\ at' = IF bitmap' = 0 \/ bitmap' >= top THEN "bugcheck" ELSE "ready"
                  /\ UNCHANGED cur_cluster
             ELSE /\ at' = IF LbaOfFat(cur_cluster \div Entries) = 0 THEN "bugcheck" ELSE "root"
                  /\ cur_cluster' = disk.dir[cluster].next
          /\ UNCHANGED <<disk, geometry, volume>>

(***************************************************************************)
(* set_rw: writes are allowed, and then the header is marked               *)
(***************************************************************************)
SetRW ==
  /\ at = "ready" /\ flags = {} /\ setter = "none"
  /\ flags' = {"rw"} /\ setter' = "flagged"
  /\ UNCHANGED <<disk, at, geometry, search, volume_state, mark, saved, dirty, stopper, failed,
                 early>>

\* relax(block, true): nobody looks whether the sector was written
Written(m, d) ==
  \/ saved' = (IF d THEN m ELSE saved) /\ dirty' = FALSE
  \/ saved' = saved /\ dirty' = d

SetMark(force) ==
  /\ setter = "flagged"
  /\ volume_state' = mark
  /\ mark' = (mark \/ ~volume_state' \/ force)
  /\ Written(mark', dirty \/ ~volume_state' \/ force)
  /\ setter' = "done"
  /\ UNCHANGED <<disk, at, geometry, search, flags, stopper, failed, early>>

\* the header cannot be read: writes are allowed all the same
SetMarkFails ==
  /\ setter = "flagged"
  /\ setter' = "done" /\ failed' = TRUE
  /\ UNCHANGED <<disk, at, geometry, search, flags, volume_state, mark, saved, dirty, stopper, early>>

(***************************************************************************)
(* stop: the workers leave and the cache is flushed (FileRequests), then   *)
(* the mark is cleared                                                     *)
(***************************************************************************)
Stop ==
  /\ flags = {"rw"}
  /\ flags' = {"rw", "stop"} /\ stopper' = "look"
  /\ early' = (setter # "done")
  /\ UNCHANGED <<disk, at, geometry, search, volume_state, mark, saved, dirty, setter, failed>>

\* Faulty: the mark is cleared whatever volume_state says.
StopLookNever ==
  /\ stopper = "look"
  /\ stopper' = "clear"
  /\ UNCHANGED <<disk, at, geometry, search, flags, volume_state, mark, saved, dirty, setter, failed,
                 early>>

StopLook ==
  /\ stopper = "look"
  /\ stopper' = IF volume_state THEN "done" ELSE "clear"
  /\ UNCHANGED <<disk, at, geometry, search, flags, volume_state, mark, saved, dirty, setter, failed,
                 early>>

StopClear ==
  /\ stopper = "clear" /\ stopper' = "done"
  /\ \/ mark' = FALSE /\ Written(FALSE, TRUE)
     \/ UNCHANGED <<mark, saved, dirty>>           \* the header cannot be read
  /\ UNCHANGED <<disk, at, geometry, search, flags, volume_state, setter, failed, early>>

\* thread_flush and dm.flush
Flush ==
  /\ dirty /\ dirty' = FALSE /\ saved' = mark
  /\ UNCHANGED <<disk, at, geometry, search, flags, volume_state, mark, setter, stopper, failed, early>>

Next == \/ Parse \/ Partition \/ NoVolume \/ CheckSum \/ ReadFails \/ RootCluster
        \/ SetRW \/ (\E force \in BOOLEAN : SetMark(force)) \/ SetMarkFails
        \/ Stop \/ StopLook \/ StopClear \/ Flush

Spec == Init /\ [][Next]_vars

(***************************************************************************)
(* Properties                                                              *)
(***************************************************************************)
\* where the dwords and qwords of parse_header and of the look-ups wrap
FatWraps == Header.fat_length * Header.fat_count >= Word
CountWraps == cluster_count + 1 + Entries >= Word
HeapWraps ==
  \/ Stride(cluster_shift) # Checked(cluster_shift)
  \/ (cluster_count - 1) * Stride(cluster_shift) >= Word

(* The look-ups in an accepted volume stay in its parts: lba_of_fat gives  *)
(* sectors of the FAT, behind the boot area and before the clusters, and   *)
(* one for each cluster; lba_of_cluster gives clusters side by side that   *)
(* end before the volume does, which is within its partition.  A header    *)
(* whose numbers wrap is accepted too, and loses just the part that is     *)
(* named for it.                                                           *)
LookUpsStayInside ==
  at \in {"sum", "root", "ready"} =>
    /\ base + MinFat <= table
    /\ FatWraps \/ \A s \in 0..Word - 1 : LbaOfFat(s) = 0 \/ LbaOfFat(s) \in table..heap - 1
    /\ CountWraps \/ \A c \in 2..cluster_count + 1 : c \div Entries < FatSectors
    /\ HeapWraps \/ \A c \in 2..cluster_count + 1 :
         /\ LbaOfCluster(c) = heap + (c - 2) * Checked(cluster_shift)
         /\ LbaOfCluster(c) + Checked(cluster_shift) <= top
    /\ base > 0 => base = disk.part.start /\ top <= base + disk.part.length

(* A volume that is ready has a bitmap in its clusters, taken from a       *)
(* record for the FAT in use (unless the root cluster has set the bit that *)
(* tells it), and knows the number of records in the first sectors of the  *)
(* root folder, which are all of them if a cluster is a sector.            *)
VolumeIsSound ==
  /\ LookUpsStayInside
  /\ at = "ready" =>
       /\ bitmap \in heap..top - 1
       /\ \E i \in 1..cluster - 1 : \E k \in DOMAIN BeforeEnd(disk.dir[i].first) :
            /\ Takes(disk.dir[i].first[k])
            /\ bitmap = LbaOfCluster(disk.dir[i].first[k].cluster)
       /\ Header.root < Msb => fat_index = Header.active
       /\ index = Len(BeforeEnd(disk.dir[cluster - 1].first)) + (cluster - 2) * Entries

(* A volume that is found marked, because it was not stopped, stays marked *)
(* whoever stops it, unless its header could not be read or stop overtook  *)
(* set_rw.  One that can be written is marked in the cache from the end of *)
(* set_rw until it is stopped; on the disk too, or the sector is dirty.    *)
MarkIsKept ==
  /\ mark # saved => dirty
  /\ ~failed /\ ~early => /\ disk.marked => mark /\ saved
                          /\ flags = {"rw"} /\ setter = "done" => mark
=============================================================================
