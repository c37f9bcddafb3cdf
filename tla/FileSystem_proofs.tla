------------------------- MODULE FileSystem_proofs -------------------------
(***************************************************************************)
(* Proofs about what a request to the file system goes through: the volume *)
(* (Mount), the requests and their workers (FileRequests) and the transfer *)
(* of the data (FileIO), in the composition FileSystem.  The records of a  *)
(* folder are left to TLC.                                                 *)
(***************************************************************************)
EXTENDS FileSystem, FiniteSetTheorems, SequenceTheorems, WellFoundedInduction, TLAPS

(***************************************************************************)
(* Numbers                                                                 *)
(***************************************************************************)
\* What division by a positive number gives.
LEMMA Division ==
  ASSUME NEW m \in Nat \ {0}, NEW x \in Nat
  PROVE  /\ x \div m \in Nat /\ x % m \in 0..m - 1
         /\ x = (x \div m) * m + (x % m)
  OBVIOUS

\* Quotient and remainder are determined.
LEMMA Quotient ==
  ASSUME NEW m \in Nat \ {0}, NEW x \in Nat, NEW q \in Nat, NEW r \in 0..m - 1,
         x = q * m + r
  PROVE  x \div m = q /\ x % m = r
  <1>1. q * m <= x /\ x < q * m + m /\ q * m \in Nat
    OBVIOUS
  <1>2. x \div m = q
    BY <1>1
  <1>3. PICK s \in 0..m - 1, p \in Nat : s = x % m /\ p = x \div m /\ x = p * m + s
    BY Division, Zenon
  <1>4. x = q * m + s /\ s \in Int /\ r \in Int
    BY <1>2, <1>3
  <1>5. s = r
    BY <1>1, <1>4
  <1> QED
    BY <1>2, <1>3, <1>5

\* A number that fits is not changed by the width.
LEMMA Fits ==
  ASSUME NEW m \in Nat \ {0}, NEW x \in Nat, x < m
  PROVE  x % m = x
  <1>1. x \in 0..m - 1 /\ x = 0 * m + x
    OBVIOUS
  <1> QED
    BY <1>1, Quotient

\* A larger number has no smaller quotient.
LEMMA DivMonotone ==
  ASSUME NEW m \in Nat \ {0}, NEW a \in Nat, NEW b \in Nat, a <= b
  PROVE  a \div m <= b \div m
  <1>1. PICK q \in Nat, s \in 0..m - 1 : q = a \div m /\ a = q * m + s
    BY Division, Zenon
  <1>2. PICK p \in Nat, t \in 0..m - 1 : p = b \div m /\ b = p * m + t
    BY Division, Zenon
  <1>3. SUFFICES ASSUME q > p PROVE FALSE
    BY <1>1, <1>2
  <1>4. PICK d \in Nat : q = p + 1 + d
    <2>1. q - p - 1 \in Nat /\ q = p + 1 + (q - p - 1)
      BY <1>3
    <2> QED
      BY <2>1
  <1>5. q * m = p * m + m + d * m /\ d * m \in Nat /\ p * m \in Nat
    BY <1>4
  <1> QED
    BY <1>1, <1>2, <1>5

(***************************************************************************)
(* The volume                                                              *)
(***************************************************************************)
\* What parse_header has checked of an accepted volume.
Checks ==
  /\ base + MinFat <= fat_start /\ fat_start \in Nat /\ heap \in Nat /\ heap < 2 * Word
  /\ cluster_count \in Dword \ {0} /\ cluster_shift \in Nat
  /\ V!Header.fat_count \in {1, 2}
  /\ V!Up((2 + cluster_count) % Word, Entries) <= V!Header.fat_length
  /\ fat_start + ((V!Header.fat_length * V!Header.fat_count) % Word) <= heap
  /\ (heap + cluster_count * V!Checked(cluster_shift)) % Long <= top
  /\ base > 0 => top <= base + device.part.length
  /\ V!Header.root < V!Msb => fat_index = V!Header.active

\* The bitmap comes from a record in the first n clusters of the root folder.
Origin(n) ==
  \E i \in 1..n : \E k \in DOMAIN V!BeforeEnd(device.dir[i].first) :
    /\ V!Takes(device.dir[i].first[k])
    /\ bitmap = V!LbaOfCluster(device.dir[i].first[k].cluster)

\* How far the search of the root folder has come.
Searched ==
  /\ at \in {"header", "sum"} => cluster = 1 /\ index = 0 /\ bitmap = 0
  /\ at = "root" => /\ bitmap = 0 \/ (Origin(cluster - 1) /\ bitmap >= heap /\ bitmap \in Nat)
                    /\ index = (cluster - 1) * Entries
  /\ at = "ready" =>
       /\ bitmap \in heap..top - 1 /\ Origin(cluster - 1)
       /\ index = Len(V!BeforeEnd(device.dir[cluster - 1].first))
                    + (cluster - 2) * Entries

\* The mark in the header, and what set_rw has seen of it.
Marked ==
  /\ flags \in {{}, {"rw"}, {"rw", "stop"}}
  /\ setter \in {"none", "flagged", "done"} /\ stopper \in {"none", "look", "clear", "done"}
  /\ mark \in BOOLEAN /\ saved \in BOOLEAN /\ pending \in BOOLEAN
  /\ volume_state \in BOOLEAN /\ failed \in BOOLEAN /\ early \in BOOLEAN
  /\ mark # saved => pending
  /\ flags # {} <=> setter # "none"
  /\ "stop" \in flags <=> stopper # "none"
  /\ early => stopper # "none"
  /\ ~failed /\ ~early =>
       /\ stopper # "none" => setter = "done"
       /\ setter # "done" => mark = device.marked /\ saved = device.marked
       /\ setter = "done" => volume_state = device.marked
       /\ stopper = "clear" => ~volume_state
       /\ device.marked => mark /\ saved
       /\ setter = "done" /\ stopper = "none" => mark

VolumeInv ==
  /\ device \in Disks
  /\ at \in {"header", "sum", "root", "ready", "bugcheck"}
  /\ base \in Nat /\ top \in Nat /\ cluster \in Nat \ {0} /\ fat_index \in {0, 1}
  /\ base > 0 => base = device.part.start
  /\ at = "header" => IF base = 0 THEN top = 0 ELSE top = base + device.part.length
  /\ at \in {"sum", "root", "ready"} => Checks
  /\ Searched
  /\ Marked

\* A set of numbers that is not empty has a least one.
LEMMA LeastNumber ==
  ASSUME NEW S, S \subseteq Nat, S # {}
  PROVE  \E k \in S : \A j \in S : k <= j
  <1>1. PICK k \in S : \A j \in S : ~ (<<j, k>> \in OpToRel(<, Nat))
    BY NatLessThanWellFounded, WFMin, Zenon
  <1>2. \A j \in S : ~ (j < k)
    BY <1>1 DEF OpToRel
  <1> QED
    BY <1>2

\* If it is bounded it has a greatest one.
LEMMA GreatestNumber ==
  ASSUME NEW n \in Nat, NEW S, S \subseteq 1..n, S # {}
  PROVE  \E k \in S : \A j \in S : j <= k
  <1>1. PICK T1 : T1 = {n - k : k \in S}
    OBVIOUS
  <1>2. T1 \subseteq Nat /\ T1 # {}
    <2>1. \A k \in S : n - k \in Nat /\ n - k \in T1
      BY <1>1
    <2> QED
      BY <1>1, <2>1
  <1>3. PICK t \in T1 : \A u \in T1 : t <= u
    BY <1>2, LeastNumber
  <1>4. PICK k \in S : t = n - k
    BY <1>1, <1>3
  <1>5. ASSUME NEW j \in S PROVE j <= k
    <2>1. n - j \in T1
      BY <1>1
    <2>2. n - k <= n - j
      BY <1>3, <1>4, <2>1
    <2>3. j \in Nat /\ k \in Nat
      BY <1>4
    <2> QED
      BY <2>2, <2>3
  <1> QED
    BY <1>5

\* The numbers of a volume.
LEMMA VolumeNumbers ==
  /\ MinFat \in Nat /\ Entries \in Nat \ {0} /\ Word \in Nat \ {0} /\ Long \in Nat \ {0}
  /\ 4 * Word <= Long /\ V!Msb \in Nat \ {0} /\ BadCluster \in Nat /\ Dword \subseteq Nat
  /\ \A s \in Nat : V!Checked(s) \in Nat
  /\ \A s \in Nat : V!Stride(s) \in Nat /\ V!Stride(s) <= Word
  <1>1. /\ MinFat \in Nat /\ Entries \in Nat \ {0} /\ Word \in Nat \ {0} /\ Long \in Nat \ {0}
        /\ Word >= 2 /\ 4 * Word <= Long /\ BadCluster \in Nat
        /\ WordBits \in Nat \ {0} /\ LongBits \in Nat \ {0} /\ WordBits < LongBits
        /\ SectorShift \in Nat /\ 2^SectorShift \in Nat \ {0}
        /\ \A n \in 0..LongBits - 1 : 2^n \in Nat /\ (n < WordBits => 2^n <= Word)
    BY MountAssumption DEF Dword
  <1>2. V!Msb \in Nat \ {0}
    BY <1>1 DEF V!Msb
  <1>3. ASSUME NEW s \in Nat PROVE V!Checked(s) \in Nat
    <2>1. s % LongBits \in 0..LongBits - 1
      BY <1>1, Division, Zenon
    <2> QED
      BY <1>1, <2>1 DEF V!Checked
  <1>4. ASSUME NEW s \in Nat PROVE V!Stride(s) \in Nat /\ V!Stride(s) <= Word
    <2>1. SectorShift + s \in Nat
      BY <1>1
    <2>2. (SectorShift + s) % WordBits \in 0..WordBits - 1
      BY <1>1, <2>1, Division, Zenon
    <2>3. PICK e \in 0..WordBits - 1 : e = (SectorShift + s) % WordBits
      BY <2>2
    <2>4. e \in 0..LongBits - 1 /\ e < WordBits
      BY <1>1
    <2>5. PICK x \in Nat : x = 2^e /\ x <= Word
      BY <1>1, <2>4
    <2>6. PICK z \in Nat \ {0} : z = 2^SectorShift
      BY <1>1
    <2>7. PICK q \in Nat, t \in 0..z - 1 : q = x \div z /\ x = q * z + t
      BY Division, Zenon
    <2>8. q <= q * z /\ q * z \in Nat
      OBVIOUS
    <2>9. V!Stride(s) = q
      BY <2>3, <2>5, <2>6, <2>7 DEF V!Stride
    <2> QED
      BY <1>1, <2>5, <2>7, <2>8, <2>9
  <1> QED
    BY <1>1, <1>2, <1>3, <1>4 DEF Dword

\* The fields of a disk.
LEMMA DiskFields ==
  ASSUME device \in Disks
  PROVE  /\ device.h0 \in BootSector /\ device.h1 \in BootSector
         /\ device.part.start \in Dword /\ device.part.length \in Dword
         /\ device.dir \in Seq([first : Sector, next : Dword])
         /\ device.marked \in BOOLEAN /\ V!Header \in BootSector
  <1>1. /\ device.h0 \in BootSector /\ device.h1 \in BootSector
        /\ device.part \in [found : BOOLEAN, start : Dword, length : Dword]
        /\ device.dir \in Seq([first : Sector, next : Dword])
        /\ device.marked \in BOOLEAN
    BY MountAssumption
  <1> QED
    BY <1>1 DEF V!Header

\* The fields of a header.
LEMMA HeaderFields ==
  ASSUME NEW h \in BootSector
  PROVE  /\ h.limit \in Nat /\ h.base \in Nat /\ h.fat_offset \in Nat /\ h.fat_length \in Nat
         /\ h.fat_count \in Nat /\ h.active \in {0, 1} /\ h.cluster_offset \in Dword
         /\ h.cluster_count \in Dword /\ h.shift \in Nat /\ h.root \in Nat
  BY VolumeNumbers DEF BootSector, Dword

\* The records before the end of a sector.
LEMMA BeforeTheEnd ==
  ASSUME NEW sector \in Sector, NEW recs, recs = V!BeforeEnd(sector)
  PROVE  /\ Len(recs) \in Nat /\ DOMAIN recs \subseteq 1..Entries
         /\ V!EndAt(sector) = {} => Len(recs) = Entries
         /\ \A k \in DOMAIN recs : recs[k] = sector[k] /\ sector[k] \in Record
  <1>1. Entries \in Nat \ {0}
    BY VolumeNumbers
  <1>2. /\ sector \in Seq(Record) /\ DOMAIN sector = 1..Entries /\ Len(sector) = Entries
        /\ \A k \in 1..Entries : sector[k] \in Record
    BY <1>1 DEF Sector
  <1>3. CASE V!EndAt(sector) = {}
    <2>1. recs = sector
      BY <1>3 DEF V!BeforeEnd
    <2> QED
      BY <1>1, <1>2, <2>1
  <1>4. CASE V!EndAt(sector) # {}
    <2>1. V!EndAt(sector) \subseteq 1..Entries
      BY <1>2 DEF V!EndAt
    <2>2. PICK k \in V!EndAt(sector) : \A j \in V!EndAt(sector) : k <= j
      BY <1>1, <1>4, <2>1, V!EndAt(sector) \subseteq Nat, LeastNumber
    <2>3. k = CHOOSE i \in V!EndAt(sector) : \A j \in V!EndAt(sector) : i <= j
      <3>1. ASSUME NEW i \in V!EndAt(sector), \A j \in V!EndAt(sector) : i <= j
            PROVE  i = k
        BY <2>1, <2>2, <3>1
      <3> QED
        BY <2>2, <3>1
    <2>4. recs = SubSeq(sector, 1, k - 1)
      BY <1>4, <2>3 DEF V!BeforeEnd
    <2>5. k \in 1..Entries /\ k - 1 \in 0..Entries
      BY <1>1, <2>1, <2>2
    <2>6. Len(recs) = k - 1 /\ DOMAIN recs = 1..k - 1 /\ \A j \in 1..k - 1 : recs[j] = sector[j]
      BY <1>2, <2>4, <2>5
    <2> QED
      BY <1>1, <1>2, <1>4, <2>5, <2>6
  <1> QED
    BY <1>3, <1>4

\* A cluster begins in the heap.
LEMMA ClusterInHeap ==
  ASSUME Checks, NEW c \in Nat, c >= 2
  PROVE  V!LbaOfCluster(c) = 0 \/ (V!LbaOfCluster(c) \in Nat /\ V!LbaOfCluster(c) >= heap)
  <1>1. heap \in Nat /\ cluster_shift \in Nat
    BY DEF Checks
  <1>2. PICK z \in Nat : z = V!Stride(cluster_shift)
    BY <1>1, VolumeNumbers
  <1>3. (c - 2) * z \in Nat /\ Word \in Nat \ {0}
    BY VolumeNumbers
  <1>4. ((c - 2) * z) % Word \in 0..Word - 1
    BY <1>3, Division, Zenon
  <1>5. PICK x \in Nat : x = ((c - 2) * z) % Word
    BY <1>3, <1>4
  <1>6. V!LbaOfCluster(c) = 0 \/ V!LbaOfCluster(c) = heap + x
    BY <1>2, <1>5 DEF V!LbaOfCluster
  <1> QED
    BY <1>1, <1>5, <1>6

\* The bitmap that is found in a sector.
LEMMA FoundIn ==
  ASSUME NEW sector \in Sector, NEW recs, recs = V!BeforeEnd(sector),
         \A k \in DOMAIN recs : V!Takes(recs[k]) => V!Proper(recs[k].cluster)
  PROVE  \/ V!Found(recs) = bitmap
         \/ \E k \in DOMAIN recs : /\ V!Takes(sector[k]) /\ sector[k].cluster \in Nat
                                   /\ sector[k].cluster >= 2
                                   /\ V!Found(recs) = V!LbaOfCluster(sector[k].cluster)
  <1>1. /\ DOMAIN recs \subseteq 1..Entries /\ Entries \in Nat
        /\ \A k \in DOMAIN recs : recs[k] = sector[k] /\ sector[k] \in Record
    BY BeforeTheEnd, VolumeNumbers
  <1>2. CASE ~\E k \in DOMAIN recs : V!Takes(recs[k])
    BY <1>2 DEF V!Found
  <1>3. CASE \E k \in DOMAIN recs : V!Takes(recs[k])
    <2>1. PICK S : S = {k \in DOMAIN recs : V!Takes(recs[k])}
      OBVIOUS
    <2>2. PICK k \in S : \A j \in S : j <= k
      BY <1>1, <1>3, <2>1, GreatestNumber
    <2>3. \E i \in DOMAIN recs : /\ V!Takes(recs[i])
                                 /\ \A j \in DOMAIN recs : V!Takes(recs[j]) => j <= i
      BY <2>1, <2>2
    <2>4. V!LastTaken(recs) \in DOMAIN recs /\ V!Takes(recs[V!LastTaken(recs)])
      BY <2>3 DEF V!LastTaken
    <2>5. PICK l \in DOMAIN recs : l = V!LastTaken(recs) /\ V!Takes(recs[l])
      BY <2>4
    <2>6. V!Found(recs) = V!LbaOfCluster(recs[l].cluster)
      BY <1>3, <2>5 DEF V!Found
    <2>7. V!Proper(recs[l].cluster) /\ recs[l].cluster \in Dword /\ Dword \subseteq Nat
      BY <1>1, <2>5, VolumeNumbers DEF Record
    <2> QED
      BY <1>1, <2>5, <2>6, <2>7 DEF V!Proper
  <1> QED
    BY <1>2, <1>3

\* A header that parse_header accepts.
LEMMA AcceptedChecks ==
  ASSUME VolumeInv, V!Parse
  PROVE  Checks' /\ top' \in Nat /\ fat_index' \in {0, 1}
  <1>0. /\ MinFat \in Nat /\ Entries \in Nat \ {0} /\ Word \in Nat \ {0} /\ Long \in Nat \ {0}
        /\ Dword \subseteq Nat
    BY VolumeNumbers
  <1>1. PICK h \in BootSector : h = V!Header
    BY DiskFields DEF VolumeInv
  <1>2. /\ at = "header" /\ V!Accepts(h) /\ at' = "sum"
        /\ top' = (h.base + h.limit) % Long /\ fat_start' = V!Table(h)
        /\ heap' = base + h.cluster_offset /\ cluster_count' = h.cluster_count
        /\ cluster_shift' = h.shift
        /\ fat_index' = IF h.active = 1 \/ h.root >= V!Msb THEN 1 ELSE 0
        /\ UNCHANGED <<device, base>>
    BY <1>1 DEF V!Parse
  <1>3. /\ h.limit \in Nat /\ h.base \in Nat /\ h.fat_offset \in Nat /\ h.fat_length \in Nat
        /\ h.fat_count \in Nat /\ h.active \in {0, 1} /\ h.cluster_offset \in Dword
        /\ h.cluster_count \in Dword /\ h.shift \in Nat /\ h.root \in Nat
    BY HeaderFields
  <1>4. /\ h.base = base /\ (top = 0 \/ (h.base + h.limit) % Long <= top)
        /\ h.fat_offset >= MinFat /\ h.fat_count \in {1, 2} /\ h.cluster_count > 0
        /\ V!Up((2 + h.cluster_count) % Word, Entries) <= h.fat_length
        /\ V!Table(h) + ((h.fat_length * h.fat_count) % Word) <= base + h.cluster_offset
        /\ (base + h.cluster_offset + h.cluster_count * V!Checked(h.shift)) % Long
              <= (h.base + h.limit) % Long
    BY <1>2 DEF V!Accepts
  <1>5. base \in Nat /\ top \in Nat /\ base < Word /\ h.cluster_offset < Word
    BY <1>0, <1>3, DiskFields DEF VolumeInv, Dword
  <1>6. V!Header' = h
    BY <1>1, <1>2 DEF V!Header
  <1>7. top' \in Nat
    <2>1. h.base + h.limit \in Nat
      BY <1>3
    <2>2. (h.base + h.limit) % Long \in 0..Long - 1
      BY <1>0, <2>1, Division, Zenon
    <2> QED
      BY <1>0, <1>2, <2>2
  <1>8. fat_start' \in Nat /\ base + MinFat <= fat_start'
    BY <1>0, <1>2, <1>3, <1>4, <1>5 DEF V!Table
  <1>9. heap' \in Nat /\ heap' < 2 * Word
    <2>1. h.cluster_offset \in Nat
      BY <1>0, <1>3
    <2> QED
      BY <1>0, <1>2, <1>5, <2>1
  <1>10. base > 0 => top' <= base + device.part.length
    <2>1. base > 0 => top = base + device.part.length /\ top > 0
      <3>1. device.part.length \in Nat
        BY <1>0, DiskFields DEF VolumeInv
      <3> QED
        BY <1>2, <1>5, <3>1 DEF VolumeInv
    <2> QED
      BY <1>2, <1>4, <1>5, <2>1
  <1>11. h.root < V!Msb => fat_index' = h.active
    BY <1>2, <1>3, VolumeNumbers
  <1>12. cluster_count' \in Dword \ {0} /\ cluster_shift' \in Nat
    BY <1>2, <1>3, <1>4
  <1>13. /\ V!Up((2 + cluster_count') % Word, Entries) <= h.fat_length
         /\ fat_start' + ((h.fat_length * h.fat_count) % Word) <= heap'
         /\ (heap' + cluster_count' * V!Checked(cluster_shift')) % Long <= top'
    BY <1>2, <1>4
  <1>14. Checks'
    BY <1>2, <1>4, <1>6, <1>8, <1>9, <1>10, <1>11, <1>12, <1>13
       DEF Checks, V!Up, V!Checked, V!Msb
  <1> QED
    BY <1>2, <1>7, <1>14

\* The driver begins at sector 0.
LEMMA InitVolume == V!Init => VolumeInv
  <1> SUFFICES ASSUME V!Init PROVE VolumeInv
    OBVIOUS
  <1>1. device.marked \in BOOLEAN
    BY DiskFields DEF V!Init
  <1>2. Searched
    BY DEF V!Init, Searched
  <1>3. Marked
    BY <1>1 DEF V!Init, Marked
  <1>4. device \in Disks /\ at = "header" /\ base = 0 /\ top = 0
        /\ cluster = 1 /\ fat_index = 0
    BY DEF V!Init
  <1>5. cluster \in Nat \ {0} /\ base \in Nat /\ top \in Nat /\ fat_index \in {0, 1}
    BY <1>4
  <1> QED
    BY <1>2, <1>3, <1>4, <1>5 DEF VolumeInv

\* A step of set_rw, of stop or of the cache leaves the rest alone.
LEMMA MarkStep ==
  ASSUME VolumeInv, Marked',
         UNCHANGED <<device, at, base, top, fat_start, heap, cluster_count, cluster_shift,
                     fat_index, cluster, index, bitmap>>
  PROVE  VolumeInv'
  <1>1. Checks' <=> Checks
    BY DEF Checks, V!Header, V!Up, V!Checked, V!Msb
  <1>2. Origin(cluster - 1)' <=> Origin(cluster - 1)
    BY DEF Origin, V!BeforeEnd, V!EndAt, V!Takes, V!BitmapLength, V!LbaOfCluster, V!Stride
  <1>3. Searched' <=> Searched
    BY <1>2 DEF Searched, V!BeforeEnd, V!EndAt
  <1> QED
    BY <1>1, <1>3 DEF VolumeInv

\* A cluster of the root folder.
LEMMA RootKeeps ==
  ASSUME VolumeInv, V!RootCluster, ~V!Bugcheck
  PROVE  VolumeInv'
  <1>0. Entries \in Nat \ {0}
    BY VolumeNumbers
  <1>1. PICK sector, recs : /\ sector = device.dir[cluster].first
                            /\ recs = V!BeforeEnd(sector)
    OBVIOUS
  <1>2. /\ at = "root" /\ ~(cluster > Len(device.dir))
        /\ \A k \in DOMAIN recs : V!Takes(recs[k]) => V!Proper(recs[k].cluster)
        /\ index' = index + Len(recs)
        /\ bitmap' = V!Found(recs) /\ cluster' = cluster + 1
        /\ IF V!EndAt(sector) # {}
           THEN at' = IF bitmap' = 0 \/ bitmap' >= top THEN "bugcheck" ELSE "ready"
           ELSE at' \in {"bugcheck", "root"}
        /\ UNCHANGED <<device, base, top, fat_start, heap, cluster_count, cluster_shift,
                       fat_index, flags, volume_state, mark, saved, pending, setter,
                       stopper, failed, early>>
    BY <1>1 DEF V!RootCluster, V!volume, V!geometry
  <1>3. device.dir \in Seq([first : Sector, next : Dword]) /\ cluster \in Nat \ {0} /\ top \in Nat
    BY DiskFields DEF VolumeInv
  <1>4. cluster \in DOMAIN device.dir
    BY <1>2, <1>3
  <1>5. sector \in Sector
    <2>1. PICK S : S = [first : Sector, next : Dword]
      OBVIOUS
    <2>2. device.dir \in Seq(S)
      BY <1>3, <2>1
    <2>3. device.dir[cluster] \in S
      BY <1>4, <2>2
    <2> QED
      BY <1>1, <2>1, <2>3
  <1>6. Checks /\ heap \in Nat
    BY <1>2 DEF VolumeInv, Checks
  <1>7. Len(recs) \in Nat /\ (V!EndAt(sector) = {} => Len(recs) = Entries)
    BY <1>1, <1>5, BeforeTheEnd
  <1>8. index = (cluster - 1) * Entries
    BY <1>2 DEF VolumeInv, Searched
  <1>9. cluster' - 1 = cluster /\ cluster' - 2 = cluster - 1
    BY <1>2, <1>3
  <1>10. \A n : V!Takes(n)' <=> V!Takes(n)
    BY <1>2 DEF V!Takes, V!BitmapLength
  <1>11. \A n : V!LbaOfCluster(n)' = V!LbaOfCluster(n)
    BY <1>2 DEF V!LbaOfCluster, V!Stride
  <1>12. \A i : V!BeforeEnd(device'.dir[i].first) = V!BeforeEnd(device.dir[i].first)
    BY <1>2
  <1>13. bitmap' = 0 \/ /\ \E i \in 1..cluster : \E k \in DOMAIN V!BeforeEnd(device.dir[i].first) :
                           /\ V!Takes(device.dir[i].first[k])
                           /\ bitmap' = V!LbaOfCluster(device.dir[i].first[k].cluster)
                        /\ bitmap' >= heap /\ bitmap' \in Nat
    <2>1. CASE V!Found(recs) = bitmap
      <3>1. bitmap = 0 \/ (Origin(cluster - 1) /\ bitmap >= heap /\ bitmap \in Nat)
        BY <1>2 DEF VolumeInv, Searched
      <3>2. CASE bitmap = 0
        BY <1>2, <2>1, <3>2
      <3>3. CASE bitmap # 0
        <4>1. PICK i \in 1..cluster - 1 : \E k \in DOMAIN V!BeforeEnd(device.dir[i].first) :
                /\ V!Takes(device.dir[i].first[k])
                /\ bitmap = V!LbaOfCluster(device.dir[i].first[k].cluster)
          BY <3>1, <3>3 DEF Origin
        <4>2. i \in 1..cluster
          BY <1>3, <4>1
        <4>3. bitmap \in Nat
          BY <3>1, <3>3
        <4> QED
          BY <1>2, <2>1, <3>1, <3>3, <4>1, <4>2, <4>3
      <3> QED
        BY <3>2, <3>3
    <2>2. CASE \E k \in DOMAIN recs : /\ V!Takes(sector[k]) /\ sector[k].cluster \in Nat
                                      /\ sector[k].cluster >= 2
                                      /\ V!Found(recs) = V!LbaOfCluster(sector[k].cluster)
      <3>1. PICK k \in DOMAIN recs : /\ V!Takes(sector[k]) /\ sector[k].cluster \in Nat
                                     /\ sector[k].cluster >= 2
                                     /\ bitmap' = V!LbaOfCluster(sector[k].cluster)
        BY <1>2, <2>2
      <3>2. bitmap' = 0 \/ (bitmap' >= heap /\ bitmap' \in Nat)
        BY <1>6, <3>1, ClusterInHeap
      <3>3. cluster \in 1..cluster
        BY <1>3
      <3> QED
        BY <1>1, <3>1, <3>2, <3>3
    <2> QED
      BY <1>1, <1>2, <1>5, <2>1, <2>2, FoundIn
  <1>14. bitmap' = 0 \/ (Origin(cluster - 1)' /\ bitmap' >= heap' /\ bitmap' \in Nat)
    BY <1>2, <1>9, <1>10, <1>11, <1>12, <1>13 DEF Origin
  <1>15. Searched'
    <2>1. CASE V!EndAt(sector) = {}
      <3>1. at' \in {"bugcheck", "root"} /\ index' = index + Entries
        BY <1>2, <1>7, <2>1
      <3>2. (cluster - 1) * Entries + Entries = ((cluster + 1) - 1) * Entries
        BY <1>0, <1>3
      <3>3. index' = (cluster' - 1) * Entries
        BY <1>2, <1>8, <3>1, <3>2
      <3> QED
        BY <1>14, <3>1, <3>3 DEF Searched
    <2>2. CASE V!EndAt(sector) # {}
      <3>1. at' \in {"bugcheck", "ready"} /\ (at' = "ready" => bitmap' # 0 /\ ~(bitmap' >= top))
        BY <1>2, <2>2
      <3>2. index' = Len(recs) + (cluster' - 2) * Entries
        <4>1. (cluster - 1) * Entries \in Int
          BY <1>0, <1>3
        <4> QED
          BY <1>2, <1>7, <1>8, <1>9, <4>1
      <3>3. recs = V!BeforeEnd(device'.dir[cluster' - 1].first)
        BY <1>1, <1>2, <1>9
      <3>4. at' = "ready" => bitmap' \in heap'..top' - 1
        BY <1>2, <1>3, <1>6, <1>13, <3>1
      <3>5. at' = "ready" => Origin(cluster - 1)'
        BY <1>14, <3>1
      <3> QED
        BY <3>1, <3>2, <3>3, <3>4, <3>5 DEF Searched
    <2> QED
      BY <2>1, <2>2
  <1>16. Checks' /\ Marked'
    BY <1>2, <1>6 DEF VolumeInv, Checks, Marked, V!Header, V!Up, V!Checked, V!Msb
  <1>17. cluster' \in Nat \ {0} /\ at' \in {"root", "bugcheck", "ready"}
    BY <1>2, <1>3
  <1> QED
    BY <1>2, <1>15, <1>16, <1>17 DEF VolumeInv

\* Every step of the driver keeps the invariant.
LEMMA NextVolume == VolumeInv /\ V!Next => VolumeInv'
  <1> SUFFICES ASSUME VolumeInv, V!Next PROVE VolumeInv'
    OBVIOUS
  <1>0. Entries \in Nat \ {0} /\ Dword \subseteq Nat
    BY VolumeNumbers
  <1>1. /\ device.part.start \in Nat /\ device.part.length \in Nat
        /\ device.marked \in BOOLEAN
    BY <1>0, DiskFields DEF VolumeInv
  <1>2. ASSUME V!Bugcheck PROVE VolumeInv'
    BY <1>2 DEF V!Bugcheck, V!geometry, V!search, V!volume, VolumeInv, Searched, Marked
  <1>3. CASE V!Parse
    <2>1. /\ at = "header" /\ at' = "sum"
          /\ UNCHANGED <<device, base, cluster, index, bitmap, flags, volume_state, mark,
                         saved, pending, setter, stopper, failed, early>>
      BY <1>3 DEF V!Parse, V!volume
    <2>2. Checks' /\ top' \in Nat /\ fat_index' \in {0, 1}
      BY <1>3, AcceptedChecks
    <2>3. Searched'
      BY <2>1 DEF VolumeInv, Searched
    <2>4. Marked'
      BY <2>1 DEF VolumeInv, Marked
    <2> QED
      BY <2>1, <2>2, <2>3, <2>4 DEF VolumeInv
  <1>4. CASE V!Partition
    <2>1. /\ at = "header" /\ base = 0 /\ device.part.start > 0
          /\ base' = device.part.start
          /\ top' = device.part.start + device.part.length
          /\ UNCHANGED <<device, at, fat_index, cluster, index, bitmap, flags, volume_state,
                         mark, saved, pending, setter, stopper, failed, early>>
      BY <1>4 DEF V!Partition, V!search, V!volume
    <2>2. Searched' /\ Marked'
      BY <2>1 DEF VolumeInv, Searched, Marked
    <2> QED
      BY <1>1, <2>1, <2>2 DEF VolumeInv
  <1>5. CASE V!CheckSum
    <2>1. CASE V!Bugcheck
      BY <1>2, <2>1
    <2>2. CASE ~V!Bugcheck
      <3>1. /\ at = "sum" /\ at' = "root"
            /\ UNCHANGED <<device, base, top, fat_start, heap, cluster_count, cluster_shift,
                           fat_index, cluster, index, bitmap, flags, volume_state, mark,
                           saved, pending, setter, stopper, failed, early>>
        BY <1>5, <2>2 DEF V!CheckSum, V!volume, V!geometry, V!search
      <3>2. Checks' /\ Marked'
        BY <3>1 DEF VolumeInv, Checks, Marked, V!Header, V!Up, V!Checked, V!Msb
      <3>3. Searched'
        BY <1>0, <3>1 DEF VolumeInv, Searched
      <3> QED
        BY <3>1, <3>2, <3>3 DEF VolumeInv
    <2> QED
      BY <2>1, <2>2
  <1>6. CASE V!RootCluster
    BY <1>2, <1>6, RootKeeps
  <1>7. CASE V!SetRW
    <2>1. /\ flags = {} /\ setter = "none" /\ flags' = {"rw"} /\ setter' = "flagged"
          /\ UNCHANGED <<device, mark, saved, pending, volume_state, stopper, failed, early>>
      BY <1>7 DEF V!SetRW
    <2>2. "stop" \notin flags /\ "stop" \notin flags' /\ flags' # {}
      BY <2>1
    <2>3. Marked'
      BY <2>1, <2>2 DEF VolumeInv, Marked
    <2> QED
      BY <1>7, <2>3, MarkStep DEF V!SetRW, V!geometry, V!search
  <1>8. ASSUME NEW force \in BOOLEAN, V!SetMark(force) PROVE VolumeInv'
    <2>1. /\ setter = "flagged" /\ setter' = "done" /\ volume_state' = mark
          /\ mark' = (mark \/ ~mark \/ force)
          /\ \/ saved' = (IF pending \/ ~mark \/ force THEN mark' ELSE saved) /\ pending' = FALSE
             \/ saved' = saved /\ pending' = (pending \/ ~mark \/ force)
          /\ UNCHANGED <<device, flags, stopper, failed, early>>
      BY <1>8 DEF V!SetMark, V!Written
    <2>2. mark \in BOOLEAN /\ saved \in BOOLEAN /\ pending \in BOOLEAN /\ (mark # saved => pending)
      BY DEF VolumeInv, Marked
    <2>3. /\ mark' = TRUE /\ saved' \in BOOLEAN /\ pending' \in BOOLEAN
          /\ (mark' # saved' => pending') /\ (saved => saved')
      BY <2>1, <2>2
    <2>4. Marked'
      BY <2>1, <2>2, <2>3 DEF VolumeInv, Marked
    <2> QED
      BY <1>8, <2>4, MarkStep DEF V!SetMark, V!geometry, V!search
  <1>9. CASE V!SetMarkFails
    <2>1. /\ setter = "flagged" /\ setter' = "done" /\ failed' = TRUE
          /\ UNCHANGED <<device, flags, volume_state, mark, saved, pending, stopper, early>>
      BY <1>9 DEF V!SetMarkFails
    <2>2. Marked'
      BY <2>1 DEF VolumeInv, Marked
    <2> QED
      BY <1>9, <2>2, MarkStep DEF V!SetMarkFails, V!geometry, V!search
  <1>10. CASE V!Stop
    <2>1. /\ flags = {"rw"} /\ flags' = {"rw", "stop"} /\ stopper' = "look"
          /\ early' = (setter # "done")
          /\ UNCHANGED <<device, volume_state, mark, saved, pending, setter, failed>>
      BY <1>10 DEF V!Stop
    <2>2. flags # {} /\ flags' # {} /\ "stop" \notin flags /\ "stop" \in flags'
      BY <2>1
    <2>3. stopper = "none" /\ ~early /\ early' \in BOOLEAN
      BY <2>1, <2>2 DEF VolumeInv, Marked
    <2>4. Marked'
      BY <2>1, <2>2, <2>3 DEF VolumeInv, Marked
    <2> QED
      BY <1>10, <2>4, MarkStep DEF V!Stop, V!geometry, V!search
  <1>11. CASE V!StopLook
    <2>1. /\ stopper = "look" /\ stopper' = IF volume_state THEN "done" ELSE "clear"
          /\ UNCHANGED <<device, flags, volume_state, mark, saved, pending, setter, failed, early>>
      BY <1>11 DEF V!StopLook
    <2>2. Marked'
      BY <2>1 DEF VolumeInv, Marked
    <2> QED
      BY <1>11, <2>2, MarkStep DEF V!StopLook, V!geometry, V!search
  <1>12. CASE V!StopClear
    <2>1. /\ stopper = "clear" /\ stopper' = "done"
          /\ UNCHANGED <<device, flags, volume_state, setter, failed, early>>
          /\ \/ mark' = FALSE /\ pending' = FALSE /\ saved' = FALSE
             \/ mark' = FALSE /\ pending' = TRUE /\ saved' = saved
             \/ UNCHANGED <<mark, saved, pending>>
      BY <1>12 DEF V!StopClear, V!Written
    <2>2. ~failed /\ ~early => setter = "done" /\ ~volume_state /\ volume_state = device.marked
      BY <2>1 DEF VolumeInv, Marked
    <2>3. Marked'
      BY <2>1, <2>2 DEF VolumeInv, Marked
    <2> QED
      BY <1>12, <2>3, MarkStep DEF V!StopClear, V!geometry, V!search
  <1>13. CASE V!Flush
    <2>1. /\ pending' = FALSE /\ saved' = mark
          /\ UNCHANGED <<device, flags, volume_state, mark, setter, stopper, failed, early>>
      BY <1>13 DEF V!Flush
    <2>2. Marked'
      BY <2>1 DEF VolumeInv, Marked
    <2> QED
      BY <1>13, <2>2, MarkStep DEF V!Flush, V!geometry, V!search
  <1> QED
    BY <1>2, <1>3, <1>4, <1>5, <1>6, <1>7, <1>8, <1>9, <1>10, <1>11, <1>12, <1>13
       DEF V!Next, V!NoVolume, V!ReadFails

\* The sectors of the FAT that can be looked up are among those that were checked.
LEMMA FatFits ==
  ASSUME Checks, NEW E1 \in Nat \ {0}, E1 = Entries
  PROVE  /\ V!FatSectors \in Nat
         /\ V!FatSectors <= V!Up((2 + cluster_count) % Word, Entries)
  <1>1. Word \in Nat \ {0} /\ cluster_count \in Nat
    BY VolumeNumbers DEF Checks
  <1>2. cluster_count + 2 \in Nat /\ 2 + cluster_count = cluster_count + 2
    BY <1>1
  <1>3. PICK a \in Nat : a = (cluster_count + 2) % Word
    <2>1. (cluster_count + 2) % Word \in 0..Word - 1
      BY <1>1, <1>2, Division, Zenon
    <2> QED
      BY <1>1, <2>1
  <1>4. PICK b \in Nat : b = a + E1 - 1
    OBVIOUS
  <1>5. PICK q \in Nat, s \in 0..Word - 1 : s = b % Word /\ b = q * Word + s
    BY <1>1, Division, Zenon
  <1>6. s \in Nat /\ s <= b
    BY <1>1, <1>5
  <1>7. s \div E1 \in Nat
    BY <1>6, Division, Zenon
  <1>8. V!FatSectors = s \div E1 /\ V!Up((2 + cluster_count) % Word, Entries) = b \div E1
    BY <1>2, <1>3, <1>4, <1>5 DEF V!FatSectors, V!Up
  <1> QED
    BY <1>6, <1>7, <1>8, DivMonotone

\* What the checks mean for the look-ups.
LEMMA ChecksShow ==
  ASSUME VolumeInv, Checks, base > 0 => base = device.part.start
  PROVE  /\ base + MinFat <= fat_start
         /\ V!FatWraps \/ \A s \in 0..Word - 1 :
              V!LbaOfFat(s) = 0 \/ V!LbaOfFat(s) \in fat_start..heap - 1
         /\ V!CountWraps \/ \A c \in 2..cluster_count + 1 : c \div Entries < V!FatSectors
         /\ V!HeapWraps \/ \A c \in 2..cluster_count + 1 :
              /\ V!LbaOfCluster(c) = heap + (c - 2) * V!Checked(cluster_shift)
              /\ V!LbaOfCluster(c) + V!Checked(cluster_shift) <= top
  <1>0. PICK en \in Nat \ {0}, w \in Nat \ {0}, lo \in Nat \ {0} :
          en = Entries /\ w = Word /\ lo = Long /\ 4 * w <= lo
    BY VolumeNumbers
  <1>1. /\ heap \in Nat /\ heap < 2 * w /\ cluster_count \in Nat \ {0} /\ cluster_count < w
        /\ cluster_shift \in Nat /\ fat_start \in Nat /\ top \in Nat
    BY <1>0, VolumeNumbers DEF VolumeInv, Checks, Dword
  <1>2. PICK fl \in Nat, fc \in {1, 2} : fl = V!Header.fat_length /\ fc = V!Header.fat_count
    <2>1. V!Header \in BootSector
      BY DiskFields DEF VolumeInv
    <2> QED
      BY <2>1, HeaderFields DEF Checks
  <1>3. V!FatSectors \in Nat /\ V!FatSectors <= fl
    <2>1. PICK u : u = V!Up((2 + cluster_count) % Word, Entries)
      OBVIOUS
    <2>2. V!FatSectors \in Nat /\ V!FatSectors <= u /\ u <= fl
      BY <1>0, <1>2, <2>1, FatFits DEF Checks
    <2>3. u \in Int
      <3>1. 2 + cluster_count \in Nat
        BY <1>1
      <3>2. (2 + cluster_count) % w \in 0..w - 1
        BY <3>1, Division, Zenon
      <3> QED
        BY <1>0, <2>1, <3>2 DEF V!Up
    <2> QED
      BY <2>2, <2>3
  <1>4. ASSUME ~V!FatWraps, NEW s \in 0..Word - 1
        PROVE  V!LbaOfFat(s) = 0 \/ V!LbaOfFat(s) \in fat_start..heap - 1
    <2>1. fl * fc < w /\ fl * fc \in Nat /\ fl <= fl * fc
      BY <1>0, <1>2, <1>4 DEF V!FatWraps
    <2>2. (fl * fc) % w = fl * fc
      BY <2>1, Fits
    <2>3. fat_start + fl <= heap
      BY <1>0, <1>1, <1>2, <2>1, <2>2 DEF Checks
    <2>4. s \in Nat
      BY <1>0
    <2> QED
      BY <1>1, <1>3, <2>3, <2>4 DEF V!LbaOfFat
  <1>5. ASSUME ~V!CountWraps, NEW c \in 2..cluster_count + 1
        PROVE  c \div Entries < V!FatSectors
    <2>1. cluster_count + 1 + en < w
      BY <1>0, <1>1, <1>5 DEF V!CountWraps
    <2>2. (cluster_count + 2) % w = cluster_count + 2
      BY <1>1, <2>1, Fits
    <2>3. PICK b \in Nat : b = cluster_count + 2 + en - 1
      BY <1>1
    <2>4. b % w = b
      BY <1>1, <2>1, <2>3, Fits
    <2>5. V!FatSectors = b \div en
      BY <1>0, <2>2, <2>3, <2>4 DEF V!FatSectors
    <2>6. c \in Nat /\ c + en \in Nat /\ c + en <= b
      BY <1>1, <2>3
    <2>7. PICK q \in Nat, r \in 0..en - 1 : q = c \div en /\ c = q * en + r
      BY <2>6, Division, Zenon
    <2>8. c + en = (q + 1) * en + r
      <3>1. (q + 1) * en = q * en + en /\ q * en \in Nat
        OBVIOUS
      <3> QED
        BY <2>6, <2>7, <3>1
    <2>9. (c + en) \div en = q + 1
      BY <2>6, <2>8, Quotient
    <2>10. q + 1 <= b \div en
      BY <2>6, <2>9, DivMonotone
    <2> QED
      BY <1>0, <1>3, <2>5, <2>7, <2>10
  <1>6. ASSUME ~V!HeapWraps, NEW c \in 2..cluster_count + 1
        PROVE  /\ V!LbaOfCluster(c) = heap + (c - 2) * V!Checked(cluster_shift)
               /\ V!LbaOfCluster(c) + V!Checked(cluster_shift) <= top
    <2>1. PICK z \in Nat : /\ z = V!Stride(cluster_shift) /\ z = V!Checked(cluster_shift)
                           /\ z <= w /\ (cluster_count - 1) * z < w
      <3>1. V!Stride(cluster_shift) \in Nat /\ V!Stride(cluster_shift) <= w
        BY <1>0, <1>1, VolumeNumbers
      <3>2. (cluster_count - 1) * V!Stride(cluster_shift) \in Nat
        BY <1>1, <3>1
      <3> QED
        BY <1>0, <1>6, <3>1, <3>2 DEF V!HeapWraps
    <2>2. PICK d \in Nat, f \in Nat : d = c - 2 /\ cluster_count = d + 1 + f
      <3>1. c - 2 \in Nat /\ cluster_count - (c - 2) - 1 \in Nat
            /\ cluster_count = (c - 2) + 1 + (cluster_count - (c - 2) - 1)
        BY <1>1
      <3> QED
        BY <3>1
    <2>3. PICK x \in Nat, y \in Nat, t \in Nat : x = d * z /\ y = f * z /\ t = cluster_count * z
      BY <1>1, <2>1
    <2>4. t = x + y + z
      <3>1. (d + 1 + f) * z = d * z + z + f * z
        OBVIOUS
      <3> QED
        BY <2>2, <2>3, <3>1
    <2>5. (cluster_count - 1) * z = x + y
      <3>1. cluster_count - 1 = d + f
        BY <2>2
      <3>2. (d + f) * z = d * z + f * z
        OBVIOUS
      <3> QED
        BY <2>3, <3>1, <3>2
    <2>6. x < w
      BY <2>1, <2>3, <2>5
    <2>7. x % w = x
      BY <2>6, Fits
    <2>8. V!LbaOfCluster(c) = heap + x
      <3>1. ~(c - 2 >= cluster_count)
        BY <1>1, <2>2
      <3> QED
        BY <1>0, <2>1, <2>2, <2>3, <2>7, <3>1 DEF V!LbaOfCluster
    <2>9. heap + t \in Nat /\ heap + t < lo
      BY <1>0, <1>1, <2>1, <2>3, <2>4, <2>5
    <2>10. (heap + t) % lo = heap + t
      BY <2>9, Fits
    <2>11. heap + t <= top
      BY <1>0, <2>1, <2>3, <2>10 DEF Checks
    <2> QED
      BY <1>1, <2>1, <2>2, <2>3, <2>4, <2>8, <2>11
  <1> QED
    BY <1>4, <1>5, <1>6 DEF Checks

\* What the invariant says of a volume.
LEMMA VolumeShows == VolumeInv => V!VolumeIsSound /\ V!MarkIsKept
  <1> SUFFICES ASSUME VolumeInv PROVE V!VolumeIsSound /\ V!MarkIsKept
    OBVIOUS
  <1>1. V!LookUpsStayInside
    <2> SUFFICES ASSUME at \in {"sum", "root", "ready"} PROVE V!LookUpsStayInside
      BY DEF V!LookUpsStayInside
    <2>1. Checks /\ (base > 0 => base = device.part.start)
      BY DEF VolumeInv
    <2>2. base > 0 => top <= base + device.part.length
      BY <2>1 DEF Checks
    <2> QED
      BY <2>1, <2>2, ChecksShow, Zenon DEF V!LookUpsStayInside
  <1>2. V!VolumeIsSound
    <2> SUFFICES ASSUME at = "ready"
                 PROVE  /\ bitmap \in heap..top - 1 /\ Origin(cluster - 1)
                        /\ V!Header.root < V!Msb => fat_index = V!Header.active
                        /\ index = Len(V!BeforeEnd(device.dir[cluster - 1].first))
                                     + (cluster - 2) * Entries
      BY <1>1, Zenon DEF V!VolumeIsSound, Origin
    <2> QED
      BY DEF VolumeInv, Searched, Checks
  <1>3. V!MarkIsKept
    <2>1. flags = {"rw"} => "stop" \notin flags
      OBVIOUS
    <2> QED
      BY <2>1 DEF VolumeInv, Marked, V!MarkIsKept
  <1> QED
    BY <1>2, <1>3

(***************************************************************************)
(* The requests                                                            *)
(***************************************************************************)
\* Where the request of a file is: with the thread t that posts it, at the
\* position k of the list, or with the worker w.
Posts(t, f) == th[t].at \in {"task", "put"} /\ th[t].file = f
Hands(t, f) == th[t].at = "put" /\ th[t].file = f
Lists(k, f) == list[k] = f
Serves(w, f) == worker[w].file = f

RequestTypes ==
  /\ command \in [Handles -> {None, "read", "write", "list"}]
  /\ open \subseteq Handles /\ refs \in [Handles -> Nat]
  /\ waiters \in [Handles -> SUBSET Threads]
  /\ th \in [Threads -> [at : {"user", "task", "put", "signal", "wait"},
                         file : Handles \cup {None}]]
  /\ list \in Seq(Handles) /\ barrier \in Seq(Workers \cup {Stopper})
  /\ worker \in [Workers -> [at : {"look", "gap", "asleep", "work", "finish", "gone"},
                             file : Handles \cup {None}]]
  /\ stop \in {"none", "signal", "sleep", "wait", "awake", "done"}

\* The sleepers of the barrier that are workers sleep, and are in it once.
BarrierOK ==
  /\ \A i \in DOMAIN barrier :
       barrier[i] \in Workers => worker[barrier[i]].at = "asleep"
  /\ \A i, j \in DOMAIN barrier :
       barrier[i] \in Workers /\ barrier[i] = barrier[j] => i = j

\* No file is in two places.
OnePlace ==
  /\ \A t, u \in Threads : \A f \in Handles : Posts(t, f) /\ Posts(u, f) => t = u
  /\ \A i, j \in DOMAIN list : list[i] = list[j] => i = j
  /\ \A v, w \in Workers : \A f \in Handles : Serves(v, f) /\ Serves(w, f) => v = w
  /\ \A t \in Threads, k \in DOMAIN list, f \in Handles : ~(Posts(t, f) /\ Lists(k, f))
  /\ \A t \in Threads, w \in Workers, f \in Handles : ~(Posts(t, f) /\ Serves(w, f))
  /\ \A k \in DOMAIN list, w \in Workers, f \in Handles : ~(Lists(k, f) /\ Serves(w, f))

\* Those in a place are the ones that have a command.
Placed(f) ==
  \/ \E t \in Threads : Posts(t, f)
  \/ \E k \in DOMAIN list : Lists(k, f)
  \/ \E w \in Workers : Serves(w, f)
Placing == \A f \in Handles : command[f] # None <=> Placed(f)

\* The list holds a reference, and so do the one who puts and the worker.
Held(f) ==
  \/ \E t \in Threads : Hands(t, f)
  \/ \E k \in DOMAIN list : Lists(k, f)
  \/ \E w \in Workers : Serves(w, f)
References ==
  \A f \in Handles :
    refs[f] = (IF f \in open THEN 1 ELSE 0) + (IF Held(f) THEN 1 ELSE 0)

WorkersOK ==
  /\ \A w \in Workers : worker[w].file = None <=> worker[w].at \notin {"work", "finish"}
  /\ worker_count = Cardinality({w \in Workers : worker[w].at # "gone"})
  /\ stop = "done" => \A w \in Workers : worker[w].at = "gone"

ThreadsOK ==
  /\ \A t \in Threads : \/ th[t].at = "user"
                        \/ th[t].at = "wait" /\ th[t].file \in Handles
                        \/ th[t].at = "signal"
                        \/ th[t].at \in {"task", "put"} /\ th[t].file \in open
  /\ \A f \in Handles : \A t \in waiters[f] : th[t].at = "wait" /\ th[t].file = f
  /\ \A f \in Handles : waiters[f] # {} => command[f] # None

RequestInv ==
  /\ RequestTypes /\ BarrierOK /\ OnePlace /\ Placing /\ References
  /\ WorkersOK /\ ThreadsOK

WorkerState == [at : {"look", "gap", "asleep", "work", "finish", "gone"},
                file : Handles \cup {None}]
StopState == {"none", "signal", "sleep", "wait", "awake", "done"}

\* The instance of the requests counts as this module does.
LEMMA SameCount == \A S : Q!Cardinality(S) = Cardinality(S)
  <1>1. \A S : Q!IsFiniteSet(S) = IsFiniteSet(S)
    BY DEF Q!IsFiniteSet, IsFiniteSet
  <1> QED
    BY <1>1 DEF Q!Cardinality, Cardinality

\* Both have the same names for nothing and for the stopper.
LEMMA SameNames == Q!None = None /\ Q!Stopper = Stopper
  BY DEF Q!None, None, Q!Stopper, Stopper

\* None is no file.
LEMMA NoneIsNoFile == None \notin Handles /\ Stopper \notin Workers /\ None # "read"
                      /\ None # "write" /\ None # "list"
  BY RequestAssumption DEF None, Stopper

\* The members of a sequence after one is appended, ...
LEMMA Appended ==
  ASSUME NEW S, NEW s \in Seq(S), NEW x \in S, NEW r, r = Append(s, x)
  PROVE  /\ r \in Seq(S) /\ DOMAIN s = 1..Len(s) /\ DOMAIN r = 1..Len(s) + 1
         /\ Len(s) \in Nat /\ \A i \in 1..Len(s) : r[i] = s[i]
         /\ r[Len(s) + 1] = x
  OBVIOUS

\* ... after the first is taken away, ...
LEMMA Tailed ==
  ASSUME NEW S, NEW s \in Seq(S), s # <<>>, NEW r, r = Tail(s)
  PROVE  /\ r \in Seq(S) /\ DOMAIN s = 1..Len(s) /\ DOMAIN r = 1..Len(s) - 1
         /\ Len(s) \in Nat \ {0} /\ \A i \in 1..Len(s) - 1 : r[i] = s[i + 1]
         /\ Head(s) = s[1] /\ Head(s) \in S
  OBVIOUS

\* ... and after one in the middle is.
Without(S, s, k, r) ==
  /\ r \in Seq(S) /\ DOMAIN s = 1..Len(s) /\ DOMAIN r = 1..Len(s) - 1
  /\ Len(s) \in Nat \ {0} /\ k \in 1..Len(s)
  /\ \A i \in 1..Len(s) - 1 : (i < k => r[i] = s[i]) /\ (i >= k => r[i] = s[i + 1])

\* Taking away the one at position k gives such a sequence.
LEMMA Removed ==
  ASSUME NEW S, NEW s \in Seq(S), NEW k \in DOMAIN s, NEW r,
         r = SubSeq(s, 1, k - 1) \o SubSeq(s, k + 1, Len(s))
  PROVE  Without(S, s, k, r)
  <1>1. Len(s) \in Nat /\ DOMAIN s = 1..Len(s) /\ k \in 1..Len(s)
    OBVIOUS
  <1>2. PICK p : p = SubSeq(s, 1, k - 1)
    OBVIOUS
  <1>3. PICK q : q = SubSeq(s, k + 1, Len(s))
    OBVIOUS
  <1>4. p \in Seq(S) /\ Len(p) = k - 1 /\ \A i \in 1..k - 1 : p[i] = s[i]
    BY <1>1, <1>2
  <1>5. q \in Seq(S) /\ Len(q) = Len(s) - k /\ \A i \in 1..Len(s) - k : q[i] = s[k + i]
    BY <1>1, <1>3
  <1>6. r = p \o q
    BY <1>2, <1>3
  <1>7. r \in Seq(S) /\ Len(r) = Len(s) - 1
    <2>1. p \o q \in Seq(S) /\ Len(p \o q) = Len(p) + Len(q)
      BY <1>4, <1>5, ConcatProperties, Zenon
    <2>2. PICK n \in Nat : n = Len(s) /\ k \in 1..n
      BY <1>1, Zenon
    <2>3. Len(p \o q) = (k - 1) + (n - k)
      BY <1>4, <1>5, <2>1, <2>2, Zenon
    <2>4. (k - 1) + (n - k) = n - 1
      BY ONLY <2>2
    <2> QED
      BY <1>6, <2>1, <2>2, <2>3, <2>4, Zenon
  <1>8. ASSUME NEW i \in 1..Len(s) - 1
        PROVE  (i < k => r[i] = s[i]) /\ (i >= k => r[i] = s[i + 1])
    <2>1. CASE i < k
      BY <1>1, <1>4, <1>5, <1>6, <2>1
    <2>2. CASE i >= k
      <3>1. PICK l, m, n : l = Len(p) /\ m = Len(q) /\ n = Len(s)
        OBVIOUS
      <3>2. l = k - 1 /\ m = n - k /\ k \in 1..n /\ n \in Nat /\ i \in 1..n - 1
        BY <1>1, <1>4, <1>5, <3>1
      <3>3. i \in 1..l + m /\ i > l /\ i - l \in 1..m /\ k + (i - l) = i + 1
            /\ ~(i < k) /\ i \in Int
        BY ONLY <2>2, <3>2
      <3>4. r[i] = q[i - l]
        <4>1. Len(p) = l /\ Len(q) = m /\ p \in Seq(S) /\ q \in Seq(S)
              /\ l \in Nat /\ m \in Nat
          BY <1>4, <1>5, <3>1
        <4>2. (p \o q)[i] = IF i <= l THEN p[i] ELSE q[i - l]
          BY <3>3, <4>1, ConcatProperties
        <4>3. ~(i <= l)
          BY ONLY <3>3, <4>1
        <4> QED
          BY <1>6, <4>2, <4>3
      <3>5. q[i - l] = s[k + (i - l)]
        BY <1>5, <3>1, <3>2, <3>3
      <3> QED
        BY <3>3, <3>4, <3>5
    <2> QED
      BY <1>1, <2>1, <2>2
  <1>9. Len(s) \in Nat \ {0} /\ DOMAIN r = 1..Len(s) - 1
    BY <1>1, <1>7
  <1> QED
    BY <1>1, <1>7, <1>8, <1>9 DEF Without

\* signal_one wakes a sleeper and nobody else.
LEMMA SignalKeeps ==
  ASSUME RequestTypes, BarrierOK,
         NEW ws \in [Workers -> WorkerState], NEW s \in StopState,
         \A i \in DOMAIN barrier : barrier[i] \in Workers => ws[barrier[i]].at = "asleep",
         Q!SignalOne(ws, s)
  PROVE  /\ worker' \in [Workers -> WorkerState] /\ stop' \in StopState
         /\ \A w \in Workers : /\ worker'[w].file = ws[w].file
                               /\ \/ worker'[w].at = ws[w].at
                                  \/ ws[w].at = "asleep" /\ worker'[w].at = "look"
         /\ stop' = "done" => s = "done"
         /\ barrier' \in Seq(Workers \cup {Stopper}) /\ BarrierOK'
  <1>0. barrier \in Seq(Workers \cup {Stopper})
    BY DEF RequestTypes
  <1>1. CASE barrier = <<>>
    <2>1. worker' = ws /\ stop' = s /\ barrier' = barrier
      BY <1>1 DEF Q!SignalOne
    <2> QED
      BY <1>0, <1>1, <2>1 DEF BarrierOK
  <1>2. CASE barrier # <<>>
    <2>1. PICK x : x = Head(barrier)
      OBVIOUS
    <2>2. /\ worker' = Q!Wakes(x, ws) /\ barrier' = Tail(barrier)
          /\ stop' = Q!StopperWakes(x, s)
      BY <1>2, <2>1 DEF Q!SignalOne
    <2>3. /\ barrier' \in Seq(Workers \cup {Stopper})
          /\ DOMAIN barrier = 1..Len(barrier) /\ DOMAIN barrier' = 1..Len(barrier) - 1
          /\ Len(barrier) \in Nat \ {0} /\ x = barrier[1]
          /\ \A i \in 1..Len(barrier) - 1 : barrier'[i] = barrier[i + 1]
      BY <1>0, <1>2, <2>1, <2>2, Tailed
    <2>4. stop' \in StopState /\ (stop' = "done" => s = "done")
      BY <2>2 DEF Q!StopperWakes, StopState
    <2>5. \A w \in Workers : w # x => worker'[w] = ws[w]
      BY <2>2 DEF Q!Wakes
    <2>6. CASE x \in Workers
      <3>1. worker' = [ws EXCEPT ![x].at = "look"]
        BY <2>2, <2>6 DEF Q!Wakes
      <3>2. ws[x].at = "asleep"
        BY <2>3, <2>6
      <3>3. worker' \in [Workers -> WorkerState]
        BY <3>1, <2>6 DEF WorkerState
      <3>4. \A w \in Workers : /\ worker'[w].file = ws[w].file
                               /\ \/ worker'[w].at = ws[w].at
                                  \/ ws[w].at = "asleep" /\ worker'[w].at = "look"
        BY <2>6, <3>1, <3>2 DEF WorkerState
      <3>5. BarrierOK'
        <4>1. ASSUME NEW i \in DOMAIN barrier', barrier'[i] \in Workers
              PROVE  worker'[barrier'[i]].at = "asleep"
          <5>1. barrier'[i] = barrier[i + 1] /\ i + 1 \in DOMAIN barrier /\ i + 1 # 1
                /\ 1 \in DOMAIN barrier
            BY <2>3
          <5>2. barrier[i + 1] # x
            BY <2>3, <4>1, <5>1 DEF BarrierOK
          <5> QED
            BY <2>5, <4>1, <5>1, <5>2
        <4>2. ASSUME NEW i \in DOMAIN barrier', NEW j \in DOMAIN barrier',
                     barrier'[i] \in Workers, barrier'[i] = barrier'[j]
              PROVE  i = j
          <5>1. /\ barrier'[i] = barrier[i + 1] /\ barrier'[j] = barrier[j + 1]
                /\ i + 1 \in DOMAIN barrier /\ j + 1 \in DOMAIN barrier
                /\ i \in Int /\ j \in Int
            BY <2>3
          <5>2. i + 1 = j + 1
            BY <4>2, <5>1 DEF BarrierOK
          <5> QED
            BY <5>1, <5>2
        <4> QED
          BY <4>1, <4>2 DEF BarrierOK
      <3> QED
        BY <2>3, <2>4, <3>3, <3>4, <3>5
    <2>7. CASE x \notin Workers
      <3>1. worker' = ws
        BY <2>2, <2>7 DEF Q!Wakes
      <3>2. BarrierOK'
        <4>1. ASSUME NEW i \in DOMAIN barrier', barrier'[i] \in Workers
              PROVE  worker'[barrier'[i]].at = "asleep"
          <5>1. barrier'[i] = barrier[i + 1] /\ i + 1 \in DOMAIN barrier
            BY <2>3
          <5> QED
            BY <3>1, <4>1, <5>1
        <4>2. ASSUME NEW i \in DOMAIN barrier', NEW j \in DOMAIN barrier',
                     barrier'[i] \in Workers, barrier'[i] = barrier'[j]
              PROVE  i = j
          <5>1. /\ barrier'[i] = barrier[i + 1] /\ barrier'[j] = barrier[j + 1]
                /\ i + 1 \in DOMAIN barrier /\ j + 1 \in DOMAIN barrier
                /\ i \in Int /\ j \in Int
            BY <2>3
          <5>2. i + 1 = j + 1
            BY <4>2, <5>1 DEF BarrierOK
          <5> QED
            BY <5>1, <5>2
        <4> QED
          BY <4>1, <4>2 DEF BarrierOK
      <3> QED
        BY <2>3, <2>4, <3>1, <3>2
    <2> QED
      BY <2>6, <2>7
  <1> QED
    BY <1>1, <1>2

\* A step that moves no request keeps where they are.
LEMMA NothingMoves ==
  ASSUME OnePlace, Placing, References,
         UNCHANGED <<command, open, refs, list>>,
         \A w \in Workers : worker'[w].file = worker[w].file,
         \A t \in Threads, f \in Handles :
           (Posts(t, f)' <=> Posts(t, f)) /\ (Hands(t, f)' <=> Hands(t, f))
  PROVE  OnePlace' /\ Placing' /\ References'
  <1>1. \A f \in Handles : (Placed(f)' <=> Placed(f)) /\ (Held(f)' <=> Held(f))
    BY DEF Placed, Held, Lists, Serves
  <1>2. OnePlace'
    BY DEF OnePlace, Lists, Serves
  <1>3. Placing' /\ References'
    BY <1>1 DEF Placing, References
  <1> QED
    BY <1>2, <1>3

\* What the invariant is about.
kept == <<command, open, refs, waiters, th, list, barrier, worker, worker_count, stop>>

\* A step that changes none of it keeps the invariant.
LEMMA Untouched == RequestInv /\ UNCHANGED kept => RequestInv'
  BY DEF kept, RequestInv, RequestTypes, BarrierOK, OnePlace, Placing, References,
         WorkersOK, ThreadsOK, Placed, Held, Posts, Hands, Lists, Serves

\* All workers begin in get, and no file has a command.
LEMMA InitRequests == Q!Init => RequestInv
  <1> SUFFICES ASSUME Q!Init PROVE RequestInv
    OBVIOUS
  <1>1. /\ command = [f \in Handles |-> None] /\ open = Handles
        /\ refs = [f \in Handles |-> 1] /\ waiters = [f \in Handles |-> {}]
        /\ th = [t \in Threads |-> [at |-> "user", file |-> None]]
        /\ list = <<>> /\ barrier = <<>> /\ stop = "none"
        /\ worker = [w \in Workers |-> [at |-> "look", file |-> None]]
        /\ worker_count = Cardinality(Workers)
    BY SameCount, SameNames DEF Q!Init, Q!Idle
  <1>2. RequestTypes
    BY <1>1 DEF RequestTypes
  <1>3. BarrierOK
    BY <1>1 DEF BarrierOK
  <1>4. \A f \in Handles : ~Placed(f) /\ ~Held(f)
    BY <1>1, NoneIsNoFile DEF Placed, Held, Posts, Hands, Lists, Serves
  <1>5. OnePlace
    BY <1>1, NoneIsNoFile DEF OnePlace, Posts, Hands, Lists, Serves
  <1>6. Placing /\ References
    BY <1>1, <1>4 DEF Placing, References
  <1>7. WorkersOK
    <2>1. {w \in Workers : worker[w].at # "gone"} = Workers
      BY <1>1
    <2> QED
      BY <1>1, <2>1 DEF WorkersOK
  <1>8. ThreadsOK
    BY <1>1 DEF ThreadsOK
  <1> QED
    BY <1>2, <1>3, <1>5, <1>6, <1>7, <1>8 DEF RequestInv

\* read and write: the file has no place yet.
LEMMA CallKeeps ==
  ASSUME RequestInv, NEW t \in Threads, NEW f \in Handles,
         NEW cmd \in {"read", "write", "list"}, Q!Call(t, f, cmd)
  PROVE  RequestInv'
  <1>1. CASE command[f] # None
    BY <1>1, SameNames, Untouched DEF Q!Call, Q!pool, Q!volume, kept
  <1>2. CASE command[f] = None
    <2>1. /\ th[t].at = "user" /\ f \in open
          /\ command' = [command EXCEPT ![f] = cmd]
          /\ th' = [th EXCEPT ![t] = [at |-> "task", file |-> f]]
          /\ UNCHANGED <<open, refs, waiters, list, barrier, worker, worker_count, stop>>
      BY <1>2, SameNames DEF Q!Call, Q!pool, Q!volume
    <2>2. RequestTypes /\ BarrierOK /\ OnePlace /\ Placing /\ References /\ WorkersOK
          /\ ThreadsOK
      BY DEF RequestInv
    <2>3. /\ command \in [Handles -> {None, "read", "write", "list"}]
          /\ th \in [Threads -> [at : {"user", "task", "put", "signal", "wait"},
                                 file : Handles \cup {None}]]
      BY <2>2 DEF RequestTypes
    <2>4. cmd # None
      BY NoneIsNoFile
    <2>5. ~Placed(f)
      BY <1>2, <2>2 DEF Placing
    <2>6. /\ \A u \in Threads, g \in Handles : u # t => /\ (Posts(u, g)' <=> Posts(u, g))
                                                        /\ (Hands(u, g)' <=> Hands(u, g))
          /\ \A g \in Handles : /\ Posts(t, g)' <=> g = f
                                /\ ~Posts(t, g) /\ ~Hands(t, g)' /\ ~Hands(t, g)
      BY <2>1, <2>3 DEF Posts, Hands
    <2>7. /\ \A k \in DOMAIN list, g \in Handles : Lists(k, g)' <=> Lists(k, g)
          /\ \A w \in Workers, g \in Handles : Serves(w, g)' <=> Serves(w, g)
          /\ DOMAIN list' = DOMAIN list
      BY <2>1 DEF Lists, Serves
    <2>8. \A g \in Handles : (Placed(g)' <=> Placed(g) \/ g = f) /\ (Held(g)' <=> Held(g))
      BY <2>6, <2>7 DEF Placed, Held
    <2>9. RequestTypes'
      <3>1. command' \in [Handles -> {None, "read", "write", "list"}]
        BY <2>1, <2>3
      <3>2. th' \in [Threads -> [at : {"user", "task", "put", "signal", "wait"},
                                 file : Handles \cup {None}]]
        BY <2>1, <2>3
      <3> QED
        BY <2>1, <2>2, <3>1, <3>2 DEF RequestTypes
    <2>10. OnePlace'
      <3>1. (\A i, j \in DOMAIN list : list[i] = list[j] => i = j)'
        BY <2>1, <2>2 DEF OnePlace
      <3> QED
        BY <2>2, <2>5, <2>6, <2>7, <3>1 DEF OnePlace, Placed
    <2>11. Placing'
      BY <2>1, <2>2, <2>3, <2>4, <2>8 DEF Placing
    <2>12. References'
      BY <2>1, <2>2, <2>8 DEF References
    <2>13. BarrierOK' /\ WorkersOK'
      BY <2>1, <2>2 DEF BarrierOK, WorkersOK
    <2>14. ThreadsOK'
      BY <2>1, <2>2, <2>3, <2>4 DEF ThreadsOK
    <2> QED
      BY <2>9, <2>10, <2>11, <2>12, <2>13, <2>14 DEF RequestInv
  <1> QED
    BY <1>1, <1>2

\* wait: the thread joins the waiters of a file with a command.
LEMMA WaitKeeps ==
  ASSUME RequestInv, NEW t \in Threads, NEW f \in Handles, Q!Wait(t, f)
  PROVE  RequestInv'
  <1>1. /\ th[t].at = "user" /\ f \in open /\ command[f] # None
        /\ waiters' = [waiters EXCEPT ![f] = @ \cup {t}]
        /\ th' = [th EXCEPT ![t] = [at |-> "wait", file |-> f]]
        /\ UNCHANGED <<open, command, refs, list, barrier, worker, worker_count, stop>>
    BY SameNames DEF Q!Wait, Q!pool, Q!volume
  <1>2. RequestTypes /\ BarrierOK /\ OnePlace /\ Placing /\ References /\ WorkersOK
        /\ ThreadsOK
    BY DEF RequestInv
  <1>3. /\ waiters \in [Handles -> SUBSET Threads]
        /\ th \in [Threads -> [at : {"user", "task", "put", "signal", "wait"},
                               file : Handles \cup {None}]]
    BY <1>2 DEF RequestTypes
  <1>4. \A u \in Threads, g \in Handles : /\ Posts(u, g)' <=> Posts(u, g)
                                          /\ Hands(u, g)' <=> Hands(u, g)
    BY <1>1, <1>3 DEF Posts, Hands
  <1>5. OnePlace' /\ Placing' /\ References'
    BY <1>1, <1>2, <1>4, NothingMoves
  <1>6. RequestTypes'
    <2>1. waiters' \in [Handles -> SUBSET Threads]
      BY <1>1, <1>3
    <2>2. th' \in [Threads -> [at : {"user", "task", "put", "signal", "wait"},
                               file : Handles \cup {None}]]
      BY <1>1, <1>3
    <2> QED
      BY <1>1, <1>2, <2>1, <2>2 DEF RequestTypes
  <1>7. BarrierOK' /\ WorkersOK'
    BY <1>1, <1>2 DEF BarrierOK, WorkersOK
  <1>8. ThreadsOK'
    BY <1>1, <1>2, <1>3 DEF ThreadsOK
  <1> QED
    BY <1>5, <1>6, <1>7, <1>8 DEF RequestInv

ThreadState == [at : {"user", "task", "put", "signal", "wait"},
                file : Handles \cup {None}]

\* task: put begins with a reference, or the request ends at once.
LEMMA TaskKeeps ==
  ASSUME RequestInv, NEW t \in Threads, Q!Task(t)
  PROVE  RequestInv'
  <1>2. RequestTypes /\ BarrierOK /\ OnePlace /\ Placing /\ References /\ WorkersOK
        /\ ThreadsOK
    BY DEF RequestInv
  <1>3. /\ command \in [Handles -> {None, "read", "write", "list"}]
        /\ refs \in [Handles -> Nat] /\ waiters \in [Handles -> SUBSET Threads]
        /\ th \in [Threads -> ThreadState]
    BY <1>2 DEF RequestTypes, ThreadState
  <1>4. PICK f : f = th[t].file
    OBVIOUS
  <1>5. th[t].at = "task" /\ UNCHANGED <<open, list, barrier, worker, worker_count, stop>>
    BY DEF Q!Task, Q!pool, Q!volume
  <1>6. f \in open /\ f \in Handles /\ Posts(t, f)
    BY <1>2, <1>4, <1>5 DEF ThreadsOK, RequestTypes, Posts
  <1>7. BarrierOK' /\ WorkersOK'
    BY <1>2, <1>5 DEF BarrierOK, WorkersOK
  <1>8. /\ \A k \in DOMAIN list, g \in Handles : Lists(k, g)' <=> Lists(k, g)
        /\ \A w \in Workers, g \in Handles : Serves(w, g)' <=> Serves(w, g)
        /\ DOMAIN list' = DOMAIN list
    BY <1>5 DEF Lists, Serves
  <1>9. (\A i, j \in DOMAIN list : list[i] = list[j] => i = j)'
    BY <1>2, <1>5 DEF OnePlace
  <1>10. CASE th' = [th EXCEPT ![t].at = "put"]
              /\ refs' = [refs EXCEPT ![f] = @ + 1]
              /\ UNCHANGED <<command, waiters>>
    <2>1. th'[t].at = "put" /\ th'[t].file = f /\ \A u \in Threads : u # t => th'[u] = th[u]
      BY <1>3, <1>4, <1>10 DEF ThreadState
    <2>2. /\ \A u \in Threads, g \in Handles : Posts(u, g)' <=> Posts(u, g)
          /\ \A u \in Threads, g \in Handles : u # t => (Hands(u, g)' <=> Hands(u, g))
          /\ \A g \in Handles : (Hands(t, g)' <=> g = f) /\ ~Hands(t, g)
      BY <1>4, <1>5, <2>1 DEF Posts, Hands
    <2>3. ~Held(f)
      BY <1>2, <1>6, <2>2 DEF OnePlace, Held, Posts, Hands
    <2>4. \A g \in Handles : (Placed(g)' <=> Placed(g)) /\ (Held(g)' <=> Held(g) \/ g = f)
      BY <1>8, <2>2 DEF Placed, Held
    <2>5. OnePlace'
      BY <1>2, <1>8, <1>9, <2>2 DEF OnePlace
    <2>6. Placing'
      BY <1>2, <1>10, <2>4 DEF Placing
    <2>7. References'
      BY <1>2, <1>3, <1>5, <1>6, <1>10, <2>3, <2>4 DEF References
    <2>8. RequestTypes'
      <3>1. refs' \in [Handles -> Nat]
        BY <1>3, <1>6, <1>10
      <3>2. th' \in [Threads -> ThreadState]
        BY <1>3, <1>10 DEF ThreadState
      <3> QED
        BY <1>2, <1>5, <1>10, <3>1, <3>2 DEF RequestTypes, ThreadState
    <2>9. ThreadsOK'
      BY <1>2, <1>4, <1>5, <1>6, <1>10, <2>1 DEF ThreadsOK
    <2> QED
      BY <1>7, <2>5, <2>6, <2>7, <2>8, <2>9 DEF RequestInv
  <1>11. CASE /\ command' = [command EXCEPT ![f] = None]
              /\ waiters' = [waiters EXCEPT ![f] = {}]
              /\ th' = Q!Cleared(f, [th EXCEPT ![t] = Q!Idle])
              /\ UNCHANGED refs
    <2>1. \A u \in Threads :
            th'[u] = IF u \in waiters[f] \/ u = t
                     THEN [at |-> "user", file |-> None] ELSE th[u]
      BY <1>3, <1>11, SameNames DEF Q!Cleared, Q!Idle
    <2>2. \A u \in waiters[f] : th[u].at = "wait"
      BY <1>2, <1>6 DEF ThreadsOK
    <2>3. /\ \A u \in Threads, g \in Handles :
               /\ u # t => (Posts(u, g)' <=> Posts(u, g))
               /\ Hands(u, g)' <=> Hands(u, g)
          /\ \A g \in Handles : ~Posts(t, g)' /\ (Posts(t, g) <=> g = f)
      BY <1>3, <1>4, <1>5, <2>1, <2>2 DEF Posts, Hands
    <2>4. ~Placed(f)'
      BY <1>2, <1>6, <1>8, <2>3 DEF OnePlace, Placed
    <2>5. \A g \in Handles : /\ g # f => (Placed(g)' <=> Placed(g))
                             /\ Held(g)' <=> Held(g)
      BY <1>8, <2>3 DEF Placed, Held
    <2>6. OnePlace'
      BY <1>2, <1>8, <1>9, <2>3 DEF OnePlace
    <2>7. Placing'
      BY <1>2, <1>3, <1>6, <1>11, <2>4, <2>5 DEF Placing
    <2>8. References'
      BY <1>2, <1>5, <1>11, <2>5 DEF References
    <2>9. RequestTypes'
      <3>1. command' \in [Handles -> {None, "read", "write", "list"}]
        BY <1>3, <1>11
      <3>2. waiters' \in [Handles -> SUBSET Threads]
        BY <1>3, <1>11
      <3>3. th' = [u \in Threads |-> th'[u]]
        BY <1>11 DEF Q!Cleared
      <3>4. \A u \in Threads : th'[u] \in ThreadState
        BY <1>3, <2>1 DEF ThreadState
      <3> QED
        BY <1>2, <1>5, <1>11, <3>1, <3>2, <3>3, <3>4 DEF RequestTypes, ThreadState
    <2>10. ThreadsOK'
      <3>1. \A u \in Threads : \/ th'[u].at = "user"
                               \/ th'[u].at = "wait" /\ th'[u].file \in Handles
                               \/ th'[u].at = "signal"
                               \/ th'[u].at \in {"task", "put"} /\ th'[u].file \in open
        BY <1>2, <2>1 DEF ThreadsOK
      <3>2. ASSUME NEW g \in Handles, NEW u \in waiters'[g]
            PROVE  th'[u].at = "wait" /\ th'[u].file = g
        <4>1. g # f /\ u \in waiters[g] /\ u \in Threads
          BY <1>3, <1>11, <3>2
        <4>2. th[u].at = "wait" /\ th[u].file = g
          BY <1>2, <4>1 DEF ThreadsOK
        <4>3. u \notin waiters[f] /\ u # t
          BY <1>2, <1>5, <1>6, <4>1, <4>2 DEF ThreadsOK
        <4> QED
          BY <2>1, <4>1, <4>2, <4>3
      <3>3. \A g \in Handles : waiters'[g] # {} => command'[g] # None
        BY <1>2, <1>3, <1>11 DEF ThreadsOK
      <3> QED
        BY <1>5, <3>1, <3>2, <3>3 DEF ThreadsOK
    <2> QED
      BY <1>7, <2>6, <2>7, <2>8, <2>9, <2>10 DEF RequestInv
  <1> QED
    BY <1>4, <1>10, <1>11, SameNames DEF Q!Task

\* put: the request passes from the thread to the list.
LEMMA PutKeeps ==
  ASSUME RequestInv, NEW t \in Threads, Q!Put(t)
  PROVE  RequestInv'
  <1>2. RequestTypes /\ BarrierOK /\ OnePlace /\ Placing /\ References /\ WorkersOK
        /\ ThreadsOK
    BY DEF RequestInv
  <1>3. list \in Seq(Handles) /\ th \in [Threads -> ThreadState]
    BY <1>2 DEF RequestTypes, ThreadState
  <1>4. PICK f : f = th[t].file
    OBVIOUS
  <1>5. /\ th[t].at = "put" /\ list' = Append(list, f)
        /\ th' = [th EXCEPT ![t].at = "signal"]
        /\ UNCHANGED <<command, open, refs, waiters, barrier, worker, worker_count, stop>>
    BY <1>4 DEF Q!Put, Q!volume
  <1>6. f \in open /\ f \in Handles /\ Posts(t, f) /\ Hands(t, f)
    BY <1>2, <1>4, <1>5 DEF ThreadsOK, RequestTypes, Posts, Hands
  <1>7. PICK n : n = Len(list)
    OBVIOUS
  <1>8. /\ list' \in Seq(Handles) /\ DOMAIN list = 1..n /\ DOMAIN list' = 1..n + 1
        /\ n \in Nat /\ \A i \in 1..n : list'[i] = list[i]
        /\ list'[n + 1] = f
    BY <1>3, <1>5, <1>6, <1>7, Appended
  <1>9. th'[t].at = "signal" /\ \A u \in Threads : u # t => th'[u] = th[u]
    BY <1>3, <1>5 DEF ThreadState
  <1>10. /\ \A u \in Threads, g \in Handles :
              u # t => (Posts(u, g)' <=> Posts(u, g)) /\ (Hands(u, g)' <=> Hands(u, g))
         /\ \A g \in Handles : /\ ~Posts(t, g)' /\ ~Hands(t, g)'
                               /\ (Posts(t, g) <=> g = f) /\ (Hands(t, g) <=> g = f)
    BY <1>4, <1>5, <1>9 DEF Posts, Hands
  <1>11. /\ \A w \in Workers, g \in Handles : Serves(w, g)' <=> Serves(w, g)
         /\ \A k \in 1..n, g \in Handles : Lists(k, g)' <=> Lists(k, g)
         /\ \A g \in Handles : Lists(n + 1, g)' <=> g = f
         /\ \A k \in 1..n + 1 : k \in 1..n \/ k = n + 1
         /\ n + 1 \in 1..n + 1 /\ 1..n \subseteq 1..n + 1
    BY <1>5, <1>8 DEF Serves, Lists
  <1>12. \A k \in 1..n : ~Lists(k, f)
    BY <1>2, <1>6, <1>8 DEF OnePlace
  <1>13. \A w \in Workers : ~Serves(w, f)
    BY <1>2, <1>6 DEF OnePlace
  <1>14. \A u \in Threads : u # t => ~Posts(u, f)
    BY <1>2, <1>6 DEF OnePlace
  <1>15. \A g \in Handles : (Placed(g)' <=> Placed(g)) /\ (Held(g)' <=> Held(g))
    <2>1. ASSUME NEW g \in Handles, g # f PROVE (Placed(g)' <=> Placed(g)) /\ (Held(g)' <=> Held(g))
      BY <1>8, <1>10, <1>11, <2>1 DEF Placed, Held
    <2>2. Placed(f)' /\ Placed(f) /\ Held(f)' /\ Held(f)
      BY <1>6, <1>8, <1>11 DEF Placed, Held
    <2> QED
      BY <2>1, <2>2
  <1>16. OnePlace'
    <2>1. ASSUME NEW i \in 1..n + 1, NEW j \in 1..n + 1, list'[i] = list'[j] PROVE i = j
      <3>1. \A k \in 1..n : list'[k] # f
        BY <1>8, <1>12 DEF Lists
      <3>2. \A k, l \in 1..n : list'[k] = list'[l] => k = l
        BY <1>2, <1>8 DEF OnePlace
      <3> QED
        BY <1>8, <1>11, <2>1, <3>1, <3>2
    <2>2. \A u \in Threads, k \in 1..n + 1, g \in Handles : ~(Posts(u, g)' /\ Lists(k, g)')
      <3>1. \A u \in Threads, k \in 1..n, g \in Handles : ~(Posts(u, g) /\ Lists(k, g))
        BY <1>2, <1>8, Zenon DEF OnePlace
      <3> QED
        BY ONLY <1>10, <1>11, <1>14, <3>1
    <2>3. \A k \in 1..n + 1, w \in Workers, g \in Handles : ~(Lists(k, g)' /\ Serves(w, g)')
      <3>1. \A k \in 1..n, w \in Workers, g \in Handles : ~(Lists(k, g) /\ Serves(w, g))
        BY <1>2, <1>8, Zenon DEF OnePlace
      <3> QED
        BY ONLY <1>11, <1>13, <3>1
    <2>4. \A u, v \in Threads : \A g \in Handles : Posts(u, g)' /\ Posts(v, g)' => u = v
      BY <1>2, <1>10 DEF OnePlace
    <2>5. \A u \in Threads, w \in Workers, g \in Handles : ~(Posts(u, g)' /\ Serves(w, g)')
      BY <1>2, <1>10, <1>11 DEF OnePlace
    <2>6. \A v, w \in Workers : \A g \in Handles : Serves(v, g)' /\ Serves(w, g)' => v = w
      BY <1>2, <1>11 DEF OnePlace
    <2> QED
      BY <1>8, <2>1, <2>2, <2>3, <2>4, <2>5, <2>6 DEF OnePlace
  <1>17. Placing' /\ References'
    BY <1>2, <1>5, <1>15 DEF Placing, References
  <1>18. RequestTypes'
    <2>1. th' \in [Threads -> ThreadState]
      BY <1>3, <1>5 DEF ThreadState
    <2> QED
      BY <1>2, <1>5, <1>8, <2>1 DEF RequestTypes, ThreadState
  <1>19. BarrierOK' /\ WorkersOK'
    BY <1>2, <1>5 DEF BarrierOK, WorkersOK
  <1>20. ThreadsOK'
    <2>1. \A g \in Handles : \A u \in waiters[g] : u \in Threads /\ u # t
      BY <1>2, <1>5 DEF ThreadsOK, RequestTypes
    <2> QED
      BY <1>2, <1>5, <1>9, <2>1 DEF ThreadsOK
  <1> QED
    BY <1>16, <1>17, <1>18, <1>19, <1>20 DEF RequestInv

\* The workers of a signal, which moves no request.
LEMMA SignalMoves ==
  ASSUME RequestInv, NEW ws \in [Workers -> WorkerState], NEW s \in StopState,
         \A w \in Workers : ws[w] = worker[w], s # "done",
         Q!SignalOne(ws, s), UNCHANGED worker_count
  PROVE  /\ worker' \in [Workers -> WorkerState] /\ stop' \in StopState
         /\ \A w \in Workers : worker'[w].file = worker[w].file
         /\ barrier' \in Seq(Workers \cup {Stopper}) /\ BarrierOK' /\ WorkersOK'
  <1>1. RequestTypes /\ BarrierOK /\ WorkersOK
    BY DEF RequestInv
  <1>2. \A i \in DOMAIN barrier : barrier[i] \in Workers => ws[barrier[i]].at = "asleep"
    BY <1>1 DEF BarrierOK
  <1>3. /\ worker' \in [Workers -> WorkerState] /\ stop' \in StopState
        /\ \A w \in Workers : /\ worker'[w].file = worker[w].file
                              /\ \/ worker'[w].at = worker[w].at
                                 \/ worker[w].at = "asleep" /\ worker'[w].at = "look"
        /\ stop' # "done"
        /\ barrier' \in Seq(Workers \cup {Stopper}) /\ BarrierOK'
    BY <1>1, <1>2, SignalKeeps
  <1>4. {w \in Workers : worker'[w].at # "gone"} = {w \in Workers : worker[w].at # "gone"}
    BY <1>3
  <1>5. WorkersOK'
    BY <1>1, <1>3, <1>4 DEF WorkersOK
  <1> QED
    BY <1>3, <1>5

\* The rest of put: the caller returns, a worker wakes.
LEMMA SignalStep ==
  ASSUME RequestInv, NEW t \in Threads, Q!Signal(t)
  PROVE  RequestInv'
  <1>2. RequestTypes /\ BarrierOK /\ OnePlace /\ Placing /\ References /\ WorkersOK
        /\ ThreadsOK
    BY DEF RequestInv
  <1>3. /\ worker \in [Workers -> WorkerState] /\ stop \in StopState
        /\ th \in [Threads -> ThreadState]
    BY <1>2 DEF RequestTypes, ThreadState, WorkerState, StopState
  <1>4. /\ th[t].at = "signal" /\ Q!SignalOne(worker, stop)
        /\ th' = [th EXCEPT ![t] = [at |-> "user", file |-> None]]
        /\ UNCHANGED <<command, open, refs, waiters, list, worker_count>>
    BY SameNames DEF Q!Signal, Q!Idle
  <1>5. /\ worker' \in [Workers -> WorkerState] /\ stop' \in StopState
        /\ \A w \in Workers : worker'[w].file = worker[w].file
        /\ barrier' \in Seq(Workers \cup {Stopper}) /\ BarrierOK' /\ WorkersOK'
    <2>1. CASE stop # "done"
      BY <1>3, <1>4, <2>1, SignalMoves
    <2>2. CASE stop = "done"
      <3>1. \A w \in Workers : worker[w].at = "gone"
        BY <1>2, <2>2 DEF WorkersOK
      <3>2. \A i \in DOMAIN barrier : barrier[i] \in Workers => worker[barrier[i]].at = "asleep"
        BY <1>2 DEF BarrierOK
      <3>3. /\ worker' \in [Workers -> WorkerState] /\ stop' \in StopState
            /\ \A w \in Workers : worker'[w].file = worker[w].file /\ worker'[w].at = "gone"
            /\ barrier' \in Seq(Workers \cup {Stopper}) /\ BarrierOK'
        BY <1>2, <1>3, <1>4, <3>1, <3>2, SignalKeeps
      <3>4. {w \in Workers : worker'[w].at # "gone"} = {w \in Workers : worker[w].at # "gone"}
        BY <3>1, <3>3
      <3>5. WorkersOK'
        BY <1>2, <1>4, <3>1, <3>3, <3>4 DEF WorkersOK
      <3> QED
        BY <3>3, <3>5
    <2> QED
      BY <2>1, <2>2
  <1>6. \A u \in Threads, g \in Handles : /\ Posts(u, g)' <=> Posts(u, g)
                                          /\ Hands(u, g)' <=> Hands(u, g)
    BY <1>3, <1>4 DEF Posts, Hands
  <1>7. OnePlace' /\ Placing' /\ References'
    BY <1>2, <1>4, <1>5, <1>6, NothingMoves
  <1>8. RequestTypes'
    <2>1. th' \in [Threads -> ThreadState]
      BY <1>3, <1>4 DEF ThreadState
    <2> QED
      BY <1>2, <1>4, <1>5, <2>1 DEF RequestTypes, ThreadState, WorkerState, StopState
  <1>9. ThreadsOK'
    <2>1. \A g \in Handles : \A u \in waiters[g] : u \in Threads /\ u # t
      BY <1>2, <1>4 DEF ThreadsOK, RequestTypes
    <2> QED
      BY <1>2, <1>3, <1>4, <2>1 DEF ThreadsOK
  <1> QED
    BY <1>5, <1>7, <1>8, <1>9 DEF RequestInv

\* close: no call is in progress, so no thread posts.
LEMMA CloseKeeps ==
  ASSUME RequestInv, NEW f \in Handles, Q!Close(f)
  PROVE  RequestInv'
  <1>2. RequestTypes /\ BarrierOK /\ OnePlace /\ Placing /\ References /\ WorkersOK
        /\ ThreadsOK
    BY DEF RequestInv
  <1>3. /\ f \in open /\ open' = open \ {f} /\ refs' = [refs EXCEPT ![f] = @ - 1]
        /\ UNCHANGED <<command, waiters, th, list, barrier, worker, worker_count, stop>>
    BY DEF Q!Close, Q!pool, Q!volume
  <1>4. \A t \in Threads : th[t].at \notin {"task", "put", "signal"}
    BY DEF Q!Close, Q!InCall
  <1>5. refs \in [Handles -> Nat]
    BY <1>2 DEF RequestTypes
  <1>6. \A g \in Handles : (Placed(g)' <=> Placed(g)) /\ (Held(g)' <=> Held(g))
    BY <1>3 DEF Placed, Held, Posts, Hands, Lists, Serves
  <1>7. refs[f] = 1 + (IF Held(f) THEN 1 ELSE 0)
    BY <1>2, <1>3 DEF References
  <1>8. RequestTypes'
    <2>1. refs' \in [Handles -> Nat]
      BY <1>3, <1>5, <1>7
    <2> QED
      BY <1>2, <1>3, <2>1 DEF RequestTypes
  <1>9. OnePlace'
    BY <1>2, <1>3 DEF OnePlace, Posts, Lists, Serves
  <1>10. Placing'
    BY <1>2, <1>3, <1>6 DEF Placing
  <1>11. References'
    BY <1>2, <1>3, <1>5, <1>6, <1>7 DEF References
  <1>12. BarrierOK' /\ WorkersOK'
    BY <1>2, <1>3 DEF BarrierOK, WorkersOK
  <1>13. ThreadsOK'
    BY <1>2, <1>3, <1>4 DEF ThreadsOK
  <1> QED
    BY <1>8, <1>9, <1>10, <1>11, <1>12, <1>13 DEF RequestInv

\* A worker that leaves is counted.
LEMMA LeavesCounted ==
  ASSUME RequestInv, NEW w \in Workers, worker[w].at # "gone",
         worker_count' = worker_count - 1,
         \A v \in Workers : worker'[v].at = "gone" <=> v = w \/ worker[v].at = "gone"
  PROVE  worker_count' = Cardinality({v \in Workers : worker'[v].at # "gone"})
  <1>1. PICK S : S = {v \in Workers : worker[v].at # "gone"}
    OBVIOUS
  <1>2. {v \in Workers : worker'[v].at # "gone"} = S \ {w} /\ w \in S /\ S \subseteq Workers
    BY <1>1
  <1>3. IsFiniteSet(S)
    BY <1>2, RequestAssumption, FS_Subset
  <1>4. Cardinality(S \ {w}) = Cardinality(S) - 1
    BY <1>2, <1>3, FS_RemoveElement
  <1>5. worker_count = Cardinality(S)
    BY <1>1 DEF RequestInv, WorkersOK
  <1> QED
    BY <1>2, <1>4, <1>5

\* get: the worker leaves, takes the head of the list or goes to sleep.
LEMMA LookKeeps ==
  ASSUME RequestInv, NEW w \in Workers, Q!Look(w)
  PROVE  RequestInv'
  <1>2. RequestTypes /\ BarrierOK /\ OnePlace /\ Placing /\ References /\ WorkersOK
        /\ ThreadsOK
    BY DEF RequestInv
  <1>3. /\ worker \in [Workers -> WorkerState] /\ stop \in StopState
        /\ list \in Seq(Handles)
    BY <1>2 DEF RequestTypes, WorkerState, StopState
  <1>4. /\ worker[w].at = "look" /\ worker[w].file = None
        /\ UNCHANGED <<command, open, refs, waiters, th>>
    BY <1>2 DEF Q!Look, WorkersOK
  <1>5. stop # "done"
    BY <1>2, <1>4 DEF WorkersOK
  <1>6. \A t \in Threads, g \in Handles : /\ Posts(t, g)' <=> Posts(t, g)
                                          /\ Hands(t, g)' <=> Hands(t, g)
    BY <1>4 DEF Posts, Hands
  <1>7. ThreadsOK'
    BY <1>2, <1>4 DEF ThreadsOK
  <1>8. \A i \in DOMAIN barrier : barrier[i] # w
    BY <1>2, <1>4 DEF BarrierOK
  <1>9. CASE stopping
    <2>1. PICK ws : ws = [worker EXCEPT ![w].at = "gone"]
      OBVIOUS
    <2>2. worker_count' = worker_count - 1 /\ Q!SignalOne(ws, stop) /\ list' = list
      BY <1>9, <2>1 DEF Q!Look
    <2>3. /\ ws \in [Workers -> WorkerState] /\ ws[w].at = "gone" /\ ws[w].file = None
          /\ \A v \in Workers : v # w => ws[v] = worker[v]
      BY <1>3, <1>4, <2>1 DEF WorkerState
    <2>4. \A i \in DOMAIN barrier : barrier[i] \in Workers => ws[barrier[i]].at = "asleep"
      BY <1>2, <1>8, <2>3 DEF BarrierOK
    <2>5. /\ worker' \in [Workers -> WorkerState] /\ stop' \in StopState
          /\ \A v \in Workers : /\ worker'[v].file = ws[v].file
                                /\ \/ worker'[v].at = ws[v].at
                                   \/ ws[v].at = "asleep" /\ worker'[v].at = "look"
          /\ stop' # "done"
          /\ barrier' \in Seq(Workers \cup {Stopper}) /\ BarrierOK'
      BY <1>2, <1>3, <1>5, <2>2, <2>3, <2>4, SignalKeeps
    <2>6. \A v \in Workers : worker'[v].file = worker[v].file
      BY <1>4, <2>3, <2>5
    <2>7. OnePlace' /\ Placing' /\ References'
      BY <1>2, <1>4, <1>6, <2>2, <2>6, NothingMoves
    <2>8. RequestTypes'
      BY <1>2, <1>4, <2>2, <2>5 DEF RequestTypes, WorkerState, StopState
    <2>9. WorkersOK'
      <3>1. \A v \in Workers : worker'[v].at = "gone" <=> v = w \/ worker[v].at = "gone"
        BY <2>3, <2>5
      <3>2. worker_count' = Cardinality({v \in Workers : worker'[v].at # "gone"})
        BY <1>4, <2>2, <3>1, LeavesCounted
      <3>3. \A v \in Workers : worker'[v].file = None
                                 <=> worker'[v].at \notin {"work", "finish"}
        BY <1>2, <2>3, <2>5 DEF WorkersOK
      <3> QED
        BY <2>5, <3>2, <3>3 DEF WorkersOK
    <2> QED
      BY <1>7, <2>5, <2>7, <2>8, <2>9 DEF RequestInv
  <1>10. CASE ~stopping /\ list = <<>>
    <2>1. /\ worker' = [worker EXCEPT ![w].at = "gap"]
          /\ UNCHANGED <<list, worker_count, barrier, stop>>
      BY <1>10 DEF Q!Look
    <2>2. /\ worker' \in [Workers -> WorkerState]
          /\ \A v \in Workers : worker'[v].file = worker[v].file
          /\ \A v \in Workers : v # w => worker'[v] = worker[v]
          /\ worker'[w].at = "gap"
      BY <1>3, <2>1 DEF WorkerState
    <2>3. OnePlace' /\ Placing' /\ References'
      BY <1>2, <1>4, <1>6, <2>1, <2>2, NothingMoves
    <2>4. RequestTypes'
      BY <1>2, <1>4, <2>1, <2>2 DEF RequestTypes, WorkerState
    <2>5. BarrierOK'
      BY <1>2, <1>8, <2>1, <2>2 DEF BarrierOK
    <2>6. WorkersOK'
      <3>1. {v \in Workers : worker'[v].at # "gone"} = {v \in Workers : worker[v].at # "gone"}
        BY <1>4, <2>2
      <3> QED
        BY <1>2, <1>4, <1>5, <2>1, <2>2, <3>1 DEF WorkersOK
    <2> QED
      BY <1>7, <2>3, <2>4, <2>5, <2>6 DEF RequestInv
  <1>11. CASE ~stopping /\ list # <<>>
    <2>1. PICK f, n : f = Head(list) /\ n = Len(list)
      OBVIOUS
    <2>2. /\ worker' = [worker EXCEPT ![w] = [at |-> "work", file |-> f]]
          /\ list' = Tail(list) /\ UNCHANGED <<worker_count, barrier, stop>>
      BY <1>11, <2>1 DEF Q!Look
    <2>3. /\ list' \in Seq(Handles) /\ DOMAIN list = 1..n /\ DOMAIN list' = 1..n - 1
          /\ n \in Nat \ {0} /\ \A i \in 1..n - 1 : list'[i] = list[i + 1]
          /\ f = list[1] /\ f \in Handles
      BY <1>3, <1>11, <2>1, <2>2, Tailed
    <2>4. /\ worker' \in [Workers -> WorkerState]
          /\ \A v \in Workers : v # w => worker'[v] = worker[v]
          /\ worker'[w].at = "work" /\ worker'[w].file = f
      BY <1>3, <2>2, <2>3 DEF WorkerState
    <2>5. /\ \A k \in 1..n - 1, g \in Handles : Lists(k, g)' <=> Lists(k + 1, g)
          /\ \A k \in 1..n : k = 1 \/ (k - 1 \in 1..n - 1 /\ (k - 1) + 1 = k)
          /\ \A k \in 1..n - 1 : k + 1 \in 1..n /\ k + 1 # 1
          /\ \A g \in Handles : Lists(1, g) <=> g = f
          /\ 1 \in 1..n
      BY <2>3 DEF Lists
    <2>6. /\ \A v \in Workers, g \in Handles : v # w => (Serves(v, g)' <=> Serves(v, g))
          /\ \A g \in Handles : (Serves(w, g)' <=> g = f) /\ ~Serves(w, g)
      BY <1>4, <2>4, NoneIsNoFile DEF Serves
    <2>7. \A k, l \in 1..n, g \in Handles : Lists(k, g) /\ Lists(l, g) => k = l
      BY <1>2, <2>3 DEF OnePlace, Lists
    <2>8. \A k \in 1..n - 1 : ~Lists(k, f)'
      BY <2>3, <2>5, <2>7
    <2>9. \A t \in Threads : ~Posts(t, f)
      BY <1>2, <2>3, <2>5 DEF OnePlace
    <2>10. \A v \in Workers : ~Serves(v, f)
      BY <1>2, <2>3, <2>5 DEF OnePlace
    <2>11. \A g \in Handles : (Placed(g)' <=> Placed(g)) /\ (Held(g)' <=> Held(g))
      <3>1. ASSUME NEW g \in Handles, g # f
            PROVE  (\E k \in DOMAIN list' : Lists(k, g)') <=> (\E k \in DOMAIN list : Lists(k, g))
        <4>1. ASSUME NEW k \in 1..n, Lists(k, g) PROVE \E l \in 1..n - 1 : Lists(l, g)'
          <5>1. k - 1 \in 1..n - 1 /\ (k - 1) + 1 = k
            BY <2>5, <3>1, <4>1
          <5> QED
            BY <2>5, <4>1, <5>1
        <4>2. ASSUME NEW k \in 1..n - 1, Lists(k, g)' PROVE \E l \in 1..n : Lists(l, g)
          BY <2>5, <4>2
        <4> QED
          BY <2>3, <4>1, <4>2
      <3>2. ASSUME NEW g \in Handles, g # f
            PROVE  (\E v \in Workers : Serves(v, g)') <=> (\E v \in Workers : Serves(v, g))
        BY <2>6, <3>2
      <3>3. Placed(f)' /\ Placed(f) /\ Held(f)' /\ Held(f)
        BY <2>3, <2>5, <2>6 DEF Placed, Held
      <3>4. ASSUME NEW g \in Handles, g # f
            PROVE  (Placed(g)' <=> Placed(g)) /\ (Held(g)' <=> Held(g))
        BY <1>6, <3>1, <3>2, <3>4 DEF Placed, Held
      <3> QED
        BY <3>3, <3>4
    <2>12. OnePlace'
      <3>1. ASSUME NEW i \in 1..n - 1, NEW j \in 1..n - 1, list'[i] = list'[j] PROVE i = j
        <4>1. i + 1 \in 1..n /\ j + 1 \in 1..n /\ list[i + 1] = list[j + 1]
          BY <2>3, <3>1
        <4>2. i + 1 = j + 1
          BY <1>2, <2>3, <4>1 DEF OnePlace
        <4> QED
          BY <2>3, <4>2
      <3>2. \A t \in Threads, k \in 1..n - 1, g \in Handles : ~(Posts(t, g)' /\ Lists(k, g)')
        BY <1>2, <1>6, <2>3, <2>5 DEF OnePlace
      <3>3. ASSUME NEW k \in 1..n - 1, NEW v \in Workers, NEW g \in Handles,
                   Lists(k, g)', Serves(v, g)'
            PROVE  FALSE
        <4>1. g # f
          BY <2>8, <3>3
        <4>2. v # w /\ Serves(v, g)
          BY <2>6, <3>3, <4>1
        <4>3. k + 1 \in DOMAIN list /\ Lists(k + 1, g)
          BY <2>3, <2>5, <3>3
        <4> QED
          BY <1>2, <4>2, <4>3 DEF OnePlace
      <3>4. \A t, u \in Threads : \A g \in Handles : Posts(t, g)' /\ Posts(u, g)' => t = u
        BY <1>2, <1>6 DEF OnePlace
      <3>5. \A t \in Threads, v \in Workers, g \in Handles : ~(Posts(t, g)' /\ Serves(v, g)')
        BY <1>2, <1>6, <2>6, <2>9 DEF OnePlace
      <3>6. \A u, v \in Workers : \A g \in Handles : Serves(u, g)' /\ Serves(v, g)' => u = v
        BY <1>2, <2>6, <2>10 DEF OnePlace
      <3> QED
        BY <2>3, <3>1, <3>2, <3>3, <3>4, <3>5, <3>6 DEF OnePlace
    <2>13. Placing' /\ References'
      BY <1>2, <1>4, <2>11 DEF Placing, References
    <2>14. RequestTypes'
      BY <1>2, <1>4, <2>2, <2>3, <2>4 DEF RequestTypes, WorkerState
    <2>15. BarrierOK'
      BY <1>2, <1>8, <2>2, <2>4 DEF BarrierOK
    <2>16. WorkersOK'
      <3>1. {v \in Workers : worker'[v].at # "gone"} = {v \in Workers : worker[v].at # "gone"}
        BY <1>4, <2>4
      <3>2. f # None
        BY <2>3, NoneIsNoFile
      <3> QED
        BY <1>2, <1>4, <1>5, <2>2, <2>4, <3>1, <3>2 DEF WorkersOK
    <2> QED
      BY <1>7, <2>12, <2>13, <2>14, <2>15, <2>16 DEF RequestInv
  <1> QED
    BY <1>9, <1>10, <1>11

\* A worker that goes to sleep or works moves no request.
LEMMA SleepKeeps ==
  ASSUME RequestInv, NEW w \in Workers, Q!Sleep(w) \/ Q!Work(w)
  PROVE  RequestInv'
  <1>2. RequestTypes /\ BarrierOK /\ OnePlace /\ Placing /\ References /\ WorkersOK
        /\ ThreadsOK
    BY DEF RequestInv
  <1>3. worker \in [Workers -> WorkerState] /\ barrier \in Seq(Workers \cup {Stopper})
    BY <1>2 DEF RequestTypes, WorkerState
  <1>4. PICK new \in {"asleep", "finish"} :
          /\ worker' = [worker EXCEPT ![w].at = new]
          /\ \/ new = "asleep" /\ worker[w].at = "gap" /\ barrier' = Append(barrier, w)
             \/ new = "finish" /\ worker[w].at = "work" /\ barrier' = barrier
          /\ UNCHANGED <<command, open, refs, waiters, th, list, worker_count, stop>>
    BY DEF Q!Sleep, Q!Work, Q!volume
  <1>5. /\ worker' \in [Workers -> WorkerState]
        /\ \A v \in Workers : worker'[v].file = worker[v].file
        /\ \A v \in Workers : v # w => worker'[v] = worker[v]
        /\ worker'[w].at = new
    BY <1>3, <1>4 DEF WorkerState
  <1>6. \A t \in Threads, g \in Handles : /\ Posts(t, g)' <=> Posts(t, g)
                                          /\ Hands(t, g)' <=> Hands(t, g)
    BY <1>4 DEF Posts, Hands
  <1>7. OnePlace' /\ Placing' /\ References'
    BY <1>2, <1>4, <1>5, <1>6, NothingMoves
  <1>8. \A i \in DOMAIN barrier : barrier[i] # w
    BY <1>2, <1>4 DEF BarrierOK
  <1>9. barrier' \in Seq(Workers \cup {Stopper}) /\ BarrierOK'
    <2>1. CASE barrier' = barrier
      BY <1>2, <1>3, <1>5, <1>8, <2>1 DEF BarrierOK
    <2>2. CASE barrier' = Append(barrier, w) /\ new = "asleep"
      <3>1. PICK n : n = Len(barrier)
        OBVIOUS
      <3>2. /\ barrier' \in Seq(Workers \cup {Stopper})
            /\ DOMAIN barrier = 1..n /\ DOMAIN barrier' = 1..n + 1
            /\ n \in Nat /\ \A i \in 1..n : barrier'[i] = barrier[i]
            /\ barrier'[n + 1] = w
        BY <1>3, <2>2, <3>1, Appended
      <3>3. \A i \in 1..n + 1 : i \in 1..n \/ i = n + 1
        BY <3>2
      <3>4. ASSUME NEW i \in 1..n + 1, barrier'[i] \in Workers
            PROVE  worker'[barrier'[i]].at = "asleep"
        BY <1>2, <1>5, <1>8, <2>2, <3>2, <3>3, <3>4 DEF BarrierOK
      <3>5. ASSUME NEW i \in 1..n + 1, NEW j \in 1..n + 1,
                   barrier'[i] \in Workers, barrier'[i] = barrier'[j]
            PROVE  i = j
        BY <1>2, <1>8, <3>2, <3>3, <3>5 DEF BarrierOK
      <3> QED
        BY <3>2, <3>4, <3>5 DEF BarrierOK
    <2> QED
      BY <1>4, <2>1, <2>2
  <1>10. RequestTypes'
    BY <1>2, <1>4, <1>5, <1>9 DEF RequestTypes, WorkerState
  <1>11. WorkersOK'
    <2>1. {v \in Workers : worker'[v].at # "gone"} = {v \in Workers : worker[v].at # "gone"}
      BY <1>4, <1>5
    <2>2. stop # "done"
      BY <1>2, <1>4 DEF WorkersOK
    <2> QED
      BY <1>2, <1>4, <1>5, <2>1, <2>2 DEF WorkersOK
  <1>12. ThreadsOK'
    BY <1>2, <1>4 DEF ThreadsOK
  <1> QED
    BY <1>7, <1>9, <1>10, <1>11, <1>12 DEF RequestInv

\* The end of a request: its place, its command, its waiters and the reference go.
LEMMA FinishKeeps ==
  ASSUME RequestInv, NEW w \in Workers, Q!Finish(w)
  PROVE  RequestInv'
  <1>2. RequestTypes /\ BarrierOK /\ OnePlace /\ Placing /\ References /\ WorkersOK
        /\ ThreadsOK
    BY DEF RequestInv
  <1>3. /\ command \in [Handles -> {None, "read", "write", "list"}]
        /\ refs \in [Handles -> Nat] /\ waiters \in [Handles -> SUBSET Threads]
        /\ th \in [Threads -> ThreadState] /\ worker \in [Workers -> WorkerState]
    BY <1>2 DEF RequestTypes, ThreadState, WorkerState
  <1>4. PICK f : f = worker[w].file
    OBVIOUS
  <1>5. /\ worker[w].at = "finish"
        /\ command' = [command EXCEPT ![f] = None]
        /\ waiters' = [waiters EXCEPT ![f] = {}]
        /\ th' = Q!Cleared(f, th)
        /\ refs' = [refs EXCEPT ![f] = @ - 1]
        /\ worker' = [worker EXCEPT ![w] = [at |-> "look", file |-> None]]
        /\ UNCHANGED <<open, list, barrier, worker_count, stop>>
    BY <1>4, SameNames DEF Q!Finish, Q!volume
  <1>6. f \in Handles /\ Serves(w, f)
    BY <1>2, <1>3, <1>4, <1>5 DEF WorkersOK, WorkerState, Serves
  <1>7. \A u \in Threads :
          th'[u] = IF u \in waiters[f] THEN [at |-> "user", file |-> None] ELSE th[u]
    BY <1>5, SameNames DEF Q!Cleared, Q!Idle
  <1>8. \A u \in waiters[f] : th[u].at = "wait"
    BY <1>2, <1>6 DEF ThreadsOK
  <1>9. \A u \in Threads, g \in Handles : /\ Posts(u, g)' <=> Posts(u, g)
                                          /\ Hands(u, g)' <=> Hands(u, g)
    BY <1>7, <1>8 DEF Posts, Hands
  <1>10. /\ worker' \in [Workers -> WorkerState]
         /\ \A v \in Workers : v # w => worker'[v] = worker[v]
         /\ worker'[w].at = "look" /\ worker'[w].file = None
    BY <1>3, <1>5 DEF WorkerState
  <1>11. /\ \A v \in Workers, g \in Handles : v # w => (Serves(v, g)' <=> Serves(v, g))
         /\ \A g \in Handles : ~Serves(w, g)' /\ (Serves(w, g) <=> g = f)
    BY <1>4, <1>10, NoneIsNoFile DEF Serves
  <1>12. /\ \A k \in DOMAIN list, g \in Handles : Lists(k, g)' <=> Lists(k, g)
         /\ DOMAIN list' = DOMAIN list
    BY <1>5 DEF Lists
  <1>13. ~Placed(f)' /\ ~Held(f)' /\ Held(f)
    <2>1. \A t \in Threads : ~Posts(t, f)
      BY <1>2, <1>6 DEF OnePlace
    <2>2. \A k \in DOMAIN list : ~Lists(k, f)
      BY <1>2, <1>6 DEF OnePlace
    <2>3. \A v \in Workers : v # w => ~Serves(v, f)
      BY <1>2, <1>6 DEF OnePlace
    <2>4. \A t \in Threads : ~Hands(t, f)
      BY <2>1 DEF Posts, Hands
    <2> QED
      BY <1>6, <1>9, <1>11, <1>12, <2>1, <2>2, <2>3, <2>4 DEF Placed, Held
  <1>14. \A g \in Handles : g # f => (Placed(g)' <=> Placed(g)) /\ (Held(g)' <=> Held(g))
    BY <1>9, <1>11, <1>12 DEF Placed, Held
  <1>15. OnePlace'
    <2>1. (\A i, j \in DOMAIN list : list[i] = list[j] => i = j)'
      BY <1>2, <1>5 DEF OnePlace
    <2> QED
      BY <1>2, <1>9, <1>11, <1>12, <2>1 DEF OnePlace
  <1>16. Placing'
    BY <1>2, <1>3, <1>5, <1>6, <1>13, <1>14 DEF Placing
  <1>17. refs[f] = (IF f \in open THEN 1 ELSE 0) + 1
    BY <1>2, <1>6, <1>13 DEF References
  <1>18. References'
    BY <1>2, <1>3, <1>5, <1>6, <1>13, <1>14, <1>17 DEF References
  <1>19. RequestTypes'
    <2>1. command' \in [Handles -> {None, "read", "write", "list"}]
      BY <1>3, <1>5
    <2>2. waiters' \in [Handles -> SUBSET Threads]
      BY <1>3, <1>5
    <2>3. refs' \in [Handles -> Nat]
      BY <1>3, <1>5, <1>6, <1>17
    <2>4. th' = [u \in Threads |-> th'[u]]
      BY <1>5 DEF Q!Cleared
    <2>5. \A u \in Threads : th'[u] \in ThreadState
      BY <1>3, <1>7 DEF ThreadState
    <2> QED
      BY <1>2, <1>5, <1>10, <2>1, <2>2, <2>3, <2>4, <2>5
         DEF RequestTypes, ThreadState, WorkerState
  <1>20. BarrierOK'
    <2>1. \A i \in DOMAIN barrier : barrier[i] # w
      BY <1>2, <1>5 DEF BarrierOK
    <2> QED
      BY <1>2, <1>5, <1>10, <2>1 DEF BarrierOK
  <1>21. WorkersOK'
    <2>1. {v \in Workers : worker'[v].at # "gone"} = {v \in Workers : worker[v].at # "gone"}
      BY <1>5, <1>10
    <2>2. stop # "done"
      BY <1>2, <1>5 DEF WorkersOK
    <2> QED
      BY <1>2, <1>5, <1>10, <2>1, <2>2 DEF WorkersOK
  <1>22. ThreadsOK'
    <2>1. \A u \in Threads : \/ th'[u].at = "user"
                             \/ th'[u].at = "wait" /\ th'[u].file \in Handles
                             \/ th'[u].at = "signal"
                             \/ th'[u].at \in {"task", "put"} /\ th'[u].file \in open
      BY <1>2, <1>7 DEF ThreadsOK
    <2>2. ASSUME NEW g \in Handles, NEW u \in waiters'[g]
          PROVE  th'[u].at = "wait" /\ th'[u].file = g
      <3>1. g # f /\ u \in waiters[g] /\ u \in Threads
        BY <1>3, <1>5, <2>2
      <3>2. th[u].at = "wait" /\ th[u].file = g
        BY <1>2, <3>1 DEF ThreadsOK
      <3>3. u \notin waiters[f]
        BY <1>2, <1>6, <3>1, <3>2 DEF ThreadsOK
      <3> QED
        BY <1>7, <3>1, <3>2, <3>3
    <2>3. \A g \in Handles : waiters'[g] # {} => command'[g] # None
      BY <1>2, <1>3, <1>5 DEF ThreadsOK
    <2> QED
      BY <1>5, <2>1, <2>2, <2>3 DEF ThreadsOK
  <1> QED
    BY <1>15, <1>16, <1>18, <1>19, <1>20, <1>21, <1>22 DEF RequestInv

\* The steps of the stopper.
LEMMA StopKeeps ==
  ASSUME RequestInv, Q!Stop \/ Q!StopStep
  PROVE  RequestInv'
  <1>2. RequestTypes /\ BarrierOK /\ OnePlace /\ Placing /\ References /\ WorkersOK
        /\ ThreadsOK
    BY DEF RequestInv
  <1>3. /\ worker \in [Workers -> WorkerState] /\ stop \in StopState
        /\ barrier \in Seq(Workers \cup {Stopper})
    BY <1>2 DEF RequestTypes, WorkerState, StopState
  <1>4. UNCHANGED <<command, open, refs, waiters, th, list, worker_count>>
    BY DEF Q!Stop, Q!StopStep, Q!StopSignal, Q!StopSleep, Q!StopTimeout, Q!StopLeaves,
           Q!pool
  <1>5. \A t \in Threads, g \in Handles : /\ Posts(t, g)' <=> Posts(t, g)
                                          /\ Hands(t, g)' <=> Hands(t, g)
    BY <1>4 DEF Posts, Hands
  <1>6. ThreadsOK'
    BY <1>2, <1>4 DEF ThreadsOK
  <1>7. SUFFICES /\ worker' \in [Workers -> WorkerState] /\ stop' \in StopState
                 /\ \A w \in Workers : worker'[w].file = worker[w].file
                 /\ barrier' \in Seq(Workers \cup {Stopper}) /\ BarrierOK' /\ WorkersOK'
    <2>1. OnePlace' /\ Placing' /\ References'
      BY <1>2, <1>4, <1>5, <1>7, NothingMoves
    <2>2. RequestTypes'
      BY <1>2, <1>4, <1>7 DEF RequestTypes, WorkerState, StopState
    <2> QED
      BY <1>6, <1>7, <2>1, <2>2 DEF RequestInv
  <1>8. CASE Q!StopSignal
    <2>1. Q!SignalOne(worker, "sleep")
      BY <1>8 DEF Q!StopSignal
    <2>2. "sleep" \in StopState /\ "sleep" # "done"
      BY DEF StopState
    <2> QED
      BY <1>3, <1>4, <2>1, <2>2, SignalMoves
  <1>9. CASE Q!Stop \/ Q!StopLeaves
    <2>1. worker' = worker /\ barrier' = barrier /\ stop' \in {"signal", "done"}
          /\ (stop' = "done" => worker_count = 0)
      BY <1>9 DEF Q!Stop, Q!StopLeaves, Q!pool
    <2>2. stop' = "done" => \A w \in Workers : worker[w].at = "gone"
      <3>1. PICK S : S = {w \in Workers : worker[w].at # "gone"}
        OBVIOUS
      <3>2. worker_count = Cardinality(S) /\ IsFiniteSet(S)
        BY <1>2, <3>1, RequestAssumption, FS_Subset DEF WorkersOK
      <3>3. worker_count = 0 => S = {}
        BY <3>2, FS_EmptySet
      <3> QED
        BY <2>1, <3>1, <3>3
    <2>3. BarrierOK' /\ WorkersOK'
      BY <1>2, <1>4, <2>1, <2>2 DEF BarrierOK, WorkersOK
    <2> QED
      BY <1>3, <2>1, <2>3 DEF StopState
  <1>10. CASE Q!StopSleep
    <2>1. worker' = worker /\ barrier' = Append(barrier, Stopper) /\ stop' = "wait"
      BY <1>10, SameNames DEF Q!StopSleep
    <2>2. PICK n : n = Len(barrier)
      OBVIOUS
    <2>3. /\ barrier' \in Seq(Workers \cup {Stopper})
          /\ DOMAIN barrier = 1..n /\ DOMAIN barrier' = 1..n + 1
          /\ n \in Nat /\ \A i \in 1..n : barrier'[i] = barrier[i]
          /\ barrier'[n + 1] = Stopper
      BY <1>3, <2>1, <2>2, Appended
    <2>4. \A i \in 1..n + 1 : i \in 1..n \/ i = n + 1
      BY <2>3
    <2>5. \A i \in 1..n + 1 : barrier'[i] \in Workers => i \in 1..n
      BY <2>3, <2>4, NoneIsNoFile
    <2>6. BarrierOK'
      BY <1>2, <2>1, <2>3, <2>5 DEF BarrierOK
    <2>7. WorkersOK'
      BY <1>2, <1>4, <2>1 DEF WorkersOK
    <2> QED
      BY <1>3, <2>1, <2>3, <2>6, <2>7 DEF StopState
  <1>11. CASE Q!StopTimeout
    <2>1. /\ worker' = worker /\ stop' = "awake"
          /\ \E k \in DOMAIN barrier :
               barrier' = SubSeq(barrier, 1, k - 1) \o SubSeq(barrier, k + 1, Len(barrier))
      BY <1>11 DEF Q!StopTimeout
    <2>2. PICK k \in DOMAIN barrier :
            barrier' = SubSeq(barrier, 1, k - 1) \o SubSeq(barrier, k + 1, Len(barrier))
      BY <2>1
    <2>3. PICK n : n = Len(barrier)
      OBVIOUS
    <2>4. /\ barrier' \in Seq(Workers \cup {Stopper})
          /\ DOMAIN barrier = 1..n /\ DOMAIN barrier' = 1..n - 1
          /\ n \in Nat \ {0} /\ k \in 1..n
          /\ \A i \in 1..n - 1 : /\ i < k => barrier'[i] = barrier[i]
                                 /\ i >= k => barrier'[i] = barrier[i + 1]
      <3>1. PICK r, b, S : r = barrier' /\ b = barrier /\ S = Workers \cup {Stopper}
        OBVIOUS
      <3>2. /\ b \in Seq(S) /\ k \in DOMAIN b
            /\ r = SubSeq(b, 1, k - 1) \o SubSeq(b, k + 1, Len(b))
        BY <1>3, <2>2, <3>1
      <3>3. Without(S, b, k, r)
        BY <3>2, Removed, Zenon
      <3> QED
        BY <2>3, <3>1, <3>3, Zenon DEF Without
    <2>5. BarrierOK'
      <3> DEFINE at0(i) == IF i < k THEN i ELSE i + 1
      <3>1. \A i \in 1..n - 1 : at0(i) \in 1..n /\ barrier'[i] = barrier[at0(i)]
        BY <2>4
      <3>2. \A i, j \in 1..n - 1 : at0(i) = at0(j) => i = j
        BY <2>4
      <3> HIDE DEF at0
      <3>3. ASSUME NEW i \in DOMAIN barrier', barrier'[i] \in Workers
            PROVE  worker'[barrier'[i]].at = "asleep"
        <4>1. at0(i) \in DOMAIN barrier /\ barrier'[i] = barrier[at0(i)]
          BY <2>4, <3>1
        <4> QED
          BY <1>2, <2>1, <3>3, <4>1 DEF BarrierOK
      <3>4. ASSUME NEW i \in DOMAIN barrier', NEW j \in DOMAIN barrier',
                   barrier'[i] \in Workers, barrier'[i] = barrier'[j]
            PROVE  i = j
        <4>1. at0(i) = at0(j)
          BY <1>2, <2>4, <3>1, <3>4 DEF BarrierOK
        <4> QED
          BY <2>4, <3>2, <4>1
      <3> QED
        BY <3>3, <3>4 DEF BarrierOK
    <2>6. WorkersOK'
      BY <1>2, <1>4, <2>1 DEF WorkersOK
    <2> QED
      BY <1>3, <2>1, <2>4, <2>5, <2>6 DEF StopState
  <1> QED
    BY <1>8, <1>9, <1>10, <1>11 DEF Q!StopStep

\* Every step keeps the invariant.
LEMMA NextRequests == RequestInv /\ Q!Next => RequestInv'
  <1> SUFFICES ASSUME RequestInv, Q!Next PROVE RequestInv'
    OBVIOUS
  <1>1. ASSUME NEW t \in Threads, NEW f \in Handles, Q!WriteFolder(t, f)
        PROVE  RequestInv'
    BY <1>1, Untouched DEF Q!WriteFolder, Q!pool, Q!volume, kept
  <1>2. CASE Q!SetRW
    BY <1>2, Untouched DEF Q!SetRW, Q!pool, kept
  <1>3. ASSUME NEW t \in Threads, Q!ThreadStep(t) PROVE RequestInv'
    BY <1>3, TaskKeeps, PutKeeps, SignalStep DEF Q!ThreadStep
  <1>4. ASSUME NEW w \in Workers, Q!WorkerStep(w) PROVE RequestInv'
    BY <1>4, LookKeeps, SleepKeeps, FinishKeeps DEF Q!WorkerStep
  <1> QED
    BY <1>1, <1>2, <1>3, <1>4, CallKeeps, WaitKeeps, CloseKeeps, StopKeeps DEF Q!Next

\* The invariant says what RequestsConserved and CleanAfterWork say.
LEMMA RequestsShow == RequestInv => Q!RequestsConserved /\ Q!CleanAfterWork
  <1> SUFFICES ASSUME RequestInv PROVE Q!RequestsConserved /\ Q!CleanAfterWork
    OBVIOUS
  <1>2. RequestTypes /\ BarrierOK /\ OnePlace /\ Placing /\ References /\ WorkersOK
        /\ ThreadsOK
    BY DEF RequestInv
  <1>3. ASSUME NEW f \in Handles
        PROVE  Q!Places(f) = IF command[f] # None THEN 1 ELSE 0
    <2>1. PICK P, L, W : /\ P = {t \in Threads : Posts(t, f)}
                         /\ L = {k \in DOMAIN list : Lists(k, f)}
                         /\ W = {w \in Workers : Serves(w, f)}
      OBVIOUS
    <2>2. Q!Places(f) = Cardinality(P) + Cardinality(L) + Cardinality(W)
      <3>1. {t \in Q!InCall : th[t].file = f /\ th[t].at # "signal"} = P
        BY <2>1 DEF Q!InCall, Posts
      <3>2. {k \in DOMAIN list : list[k] = f} = L /\ {w \in Workers : worker[w].file = f} = W
        BY <2>1 DEF Lists, Serves
      <3> QED
        BY <3>1, <3>2, SameCount DEF Q!Places
    <2>3. /\ \A x, y \in P : x = y
          /\ \A x, y \in L : x = y
          /\ \A x, y \in W : x = y
      <3>1. \A x, y \in L : x = y
        BY <1>2, <2>1 DEF OnePlace, Lists
      <3> QED
        BY <1>2, <2>1, <3>1 DEF OnePlace
    <2>4. /\ P # {} => L = {} /\ W = {}
          /\ L # {} => P = {} /\ W = {}
          /\ W # {} => P = {} /\ L = {}
      BY <1>2, <2>1 DEF OnePlace
    <2>5. command[f] # None <=> P # {} \/ L # {} \/ W # {}
      BY <1>2, <2>1 DEF Placing, Placed
    <2>6. \A S : (\A x, y \in S : x = y) => Cardinality(S) = IF S = {} THEN 0 ELSE 1
      <3> SUFFICES ASSUME NEW S, \A x, y \in S : x = y
                   PROVE  Cardinality(S) = IF S = {} THEN 0 ELSE 1
        OBVIOUS
      <3>1. CASE S = {}
        BY <3>1, FS_EmptySet
      <3>2. CASE S # {}
        <4>1. PICK x : S = {x}
          BY <3>2
        <4> QED
          BY <3>2, <4>1, FS_Singleton
      <3> QED
        BY <3>1, <3>2
    <2>7. /\ Cardinality(P) = IF P = {} THEN 0 ELSE 1
          /\ Cardinality(L) = IF L = {} THEN 0 ELSE 1
          /\ Cardinality(W) = IF W = {} THEN 0 ELSE 1
      BY <2>3, <2>6
    <2> QED
      BY <2>2, <2>4, <2>5, <2>7
  <1>4. ASSUME NEW f \in Handles, command[f] # None \/ f \in open
        PROVE  refs[f] > 0
    <2>1. CASE f \in open
      BY <1>2, <2>1 DEF References
    <2>2. CASE f \notin open
      <3>1. Placed(f)
        BY <1>2, <1>4, <2>2 DEF Placing
      <3>2. \A t \in Threads : ~Posts(t, f)
        BY <1>2, <2>2 DEF ThreadsOK, Posts
      <3>3. Held(f)
        BY <3>1, <3>2 DEF Placed, Held
      <3> QED
        BY <1>2, <2>2, <3>3 DEF References
    <2> QED
      BY <2>1, <2>2
  <1>5. worker_count = Cardinality({w \in Workers : worker[w].at # "gone"})
        /\ (stop = "done" => \A w \in Workers : worker[w].at = "gone")
    BY <1>2 DEF WorkersOK
  <1>6. \A f \in Handles : waiters[f] # {} => command[f] # None
    BY <1>2 DEF ThreadsOK
  <1> QED
    BY <1>3, <1>4, <1>5, <1>6, SameCount, SameNames DEF Q!RequestsConserved, Q!CleanAfterWork

(***************************************************************************)
(* The transfer                                                            *)
(***************************************************************************)
\* A sum of a multiple and a rest determines both, below zero too.
LEMMA Unique ==
  ASSUME NEW m \in Nat \ {0}, NEW a \in Int, NEW b \in Int,
         NEW r \in 0..m - 1, NEW s \in 0..m - 1, a * m + r = b * m + s
  PROVE  a = b /\ r = s
  <1>1. a * m \in Int /\ b * m \in Int
    OBVIOUS
  <1>2. ~(a < b)
    <2> SUFFICES ASSUME a < b PROVE FALSE
      OBVIOUS
    <2>1. (a + 1) * m <= b * m
      <3>1. b - (a + 1) \in Nat
        OBVIOUS
      <3>2. (b - (a + 1)) * m \in Nat
        BY <3>1
      <3>3. (b - (a + 1)) * m = b * m - (a + 1) * m
        OBVIOUS
      <3>4. (a + 1) * m \in Int
        OBVIOUS
      <3> QED
        BY <1>1, <3>2, <3>3, <3>4
    <2>2. (a + 1) * m = a * m + m
      OBVIOUS
    <2> QED
      BY <1>1, <2>1, <2>2
  <1>3. ~(b < a)
    <2> SUFFICES ASSUME b < a PROVE FALSE
      OBVIOUS
    <2>1. (b + 1) * m <= a * m
      <3>1. a - (b + 1) \in Nat
        OBVIOUS
      <3>2. (a - (b + 1)) * m \in Nat
        BY <3>1
      <3>3. (a - (b + 1)) * m = a * m - (b + 1) * m
        OBVIOUS
      <3>4. (b + 1) * m \in Int
        OBVIOUS
      <3> QED
        BY <1>1, <3>2, <3>3, <3>4
    <2>2. (b + 1) * m = b * m + m
      OBVIOUS
    <2> QED
      BY <1>1, <2>1, <2>2
  <1>4. a = b
    BY <1>2, <1>3
  <1> QED
    BY <1>1, <1>4

\* The least of two and of three numbers.
LEMMA LeastOf ==
  /\ \A a, b \in Int : /\ T!Least({a, b}) \in {a, b}
                       /\ T!Least({a, b}) <= a /\ T!Least({a, b}) <= b
  /\ \A a, b, c \in Int : /\ T!Least({a, b, c}) \in {a, b, c}
                          /\ T!Least({a, b, c}) <= a /\ T!Least({a, b, c}) <= b
                          /\ T!Least({a, b, c}) <= c
  <1>1. ASSUME NEW a \in Int, NEW b \in Int
        PROVE  /\ T!Least({a, b}) \in {a, b}
               /\ T!Least({a, b}) <= a /\ T!Least({a, b}) <= b
    <2>1. \E m \in {a, b} : \A n \in {a, b} : m <= n
      OBVIOUS
    <2>2. T!Least({a, b}) \in {a, b} /\ \A n \in {a, b} : T!Least({a, b}) <= n
      BY <2>1 DEF T!Least
    <2> QED
      BY <2>2
  <1>2. ASSUME NEW a \in Int, NEW b \in Int, NEW c \in Int
        PROVE  /\ T!Least({a, b, c}) \in {a, b, c}
               /\ T!Least({a, b, c}) <= a /\ T!Least({a, b, c}) <= b
               /\ T!Least({a, b, c}) <= c
    <2>1. \E m \in {a, b, c} : \A n \in {a, b, c} : m <= n
      OBVIOUS
    <2>2. T!Least({a, b, c}) \in {a, b, c} /\ \A n \in {a, b, c} : T!Least({a, b, c}) <= n
      BY <2>1 DEF T!Least
    <2> QED
      BY <2>2
  <1> QED
    BY <1>1, <1>2

\* The units that requests reach.
Reach == 0..MaxSize + MaxLen

\* The numbers of the heap.
LEMMA IOFacts ==
  /\ Units \in Nat \ {0} /\ PerPage \in Nat \ {0} /\ PerCluster \in Nat \ {0}
  /\ First \in Nat /\ MaxSize \in Nat /\ MaxLen \in Nat \ {0}
  /\ T!Size \in Nat \ {0} /\ T!Last \in Nat /\ T!Size = PerCluster * Units
  /\ Reach \subseteq Nat
  /\ \A u \in Reach : u \div T!Size <= T!Last
  <1>1. /\ Units \in Nat \ {0} /\ PerPage \in Nat \ {0} /\ PerCluster \in Nat \ {0}
        /\ First \in Nat /\ MaxSize \in Nat /\ MaxLen \in Nat \ {0}
    BY IOAssumption
  <1>2. T!Size \in Nat \ {0} /\ T!Size = PerCluster * Units
    BY <1>1 DEF T!Size
  <1>3. PICK z \in Nat \ {0} : z = T!Size
    BY <1>2
  <1>4. PICK m \in Nat : m = MaxSize + MaxLen
    BY <1>1
  <1>5. T!Last = m \div z
    BY <1>3, <1>4 DEF T!Last
  <1>6. ASSUME NEW u \in 0..m PROVE u \div z <= m \div z
    <2>1. PICK q \in Nat, r \in Nat : /\ q = u \div z /\ r = m \div z
                                      /\ q * z <= u /\ m < (r + 1) * z
      <3>0. u \in Nat
        OBVIOUS
      <3>1. /\ u = (u \div z) * z + (u % z) /\ u % z \in 0..z - 1 /\ u \div z \in Nat
            /\ m = (m \div z) * z + (m % z) /\ m % z \in 0..z - 1 /\ m \div z \in Nat
        BY <3>0, Division, Zenon
      <3> QED
        BY <3>1
    <2>2. q * z < (r + 1) * z
      BY <2>1
    <2>3. q < r + 1
      BY <2>1, <2>2
    <2> QED
      BY <2>1, <2>3
  <1> QED
    BY <1>1, <1>2, <1>3, <1>4, <1>5, <1>6, Division DEF Reach

\* Where a unit of the file is.
LEMMA LocIn ==
  ASSUME NEW u \in Reach
  PROVE  /\ T!Loc(u) \in Nat /\ T!Loc(u) \in T!Span
         /\ T!Loc(u) = (T!Last - (u \div T!Size)) * T!Size + (u % T!Size)
  <1>1. PICK z \in Nat \ {0}, l \in Nat : z = T!Size /\ l = T!Last
    BY IOFacts
  <1>2. PICK q \in Nat, r \in 0..z - 1 : q = u \div z /\ r = u % z /\ q <= l
    BY <1>1, IOFacts, Division
  <1>3. T!Loc(u) = (l - q) * z + r
    BY <1>1, <1>2 DEF T!Loc
  <1>4. (l - q) * z \in Nat /\ (l - q) * z <= l * z /\ l * z \in Nat
    <2>1. l - q \in Nat /\ q * z \in Nat /\ l * z \in Nat
      BY <1>2
    <2>2. (l - q) * z = l * z - q * z
      BY <1>2
    <2>3. (l - q) * z \in Nat
      BY <2>1
    <2> QED
      BY <2>1, <2>2, <2>3
  <1>5. (l + 1) * z = l * z + z
    OBVIOUS
  <1>6. T!Span = 0..(l + 1) * z - 1
    BY <1>1 DEF T!Span
  <1> QED
    BY <1>1, <1>2, <1>3, <1>4, <1>5, <1>6

\* The units of a cluster follow each other, ...
LEMMA LocFollows ==
  ASSUME NEW u \in Reach, NEW j \in Nat, (u % T!Size) + j < T!Size, u + j \in Reach
  PROVE  T!Loc(u + j) = T!Loc(u) + j
  <1>1. PICK z \in Nat \ {0}, l \in Nat : z = T!Size /\ l = T!Last
    BY IOFacts
  <1>2. PICK q \in Nat, r \in 0..z - 1 : q = u \div z /\ r = u % z /\ u = q * z + r
    <2>1. u \in Nat
      BY IOFacts
    <2>2. u \div z \in Nat /\ u % z \in 0..z - 1 /\ u = (u \div z) * z + (u % z)
      BY <2>1, Division, Zenon
    <2> QED
      BY <2>2, Zenon
  <1>3. r + j \in 0..z - 1
    BY <1>1, <1>2
  <1>4. u + j \in Nat /\ u + j = q * z + (r + j)
    BY <1>2
  <1>5. (u + j) \div z = q /\ (u + j) % z = r + j
    BY <1>3, <1>4, Quotient
  <1>6. T!Loc(u + j) = (l - q) * z + (r + j) /\ T!Loc(u) = (l - q) * z + r
    BY <1>1, <1>2, <1>5 DEF T!Loc
  <1>7. (l - q) * z \in Int
    OBVIOUS
  <1> QED
    BY <1>3, <1>6, <1>7

\* ... and no two units of the file are in one place.
LEMMA LocInjective ==
  ASSUME NEW u \in Reach, NEW v \in Reach, T!Loc(u) = T!Loc(v)
  PROVE  u = v
  <1>1. PICK z \in Nat \ {0}, l \in Nat : z = T!Size /\ l = T!Last
    BY IOFacts
  <1>2. PICK q \in Nat, r \in 0..z - 1 : q = u \div z /\ r = u % z /\ u = q * z + r
    <2>1. u \in Nat
      BY IOFacts
    <2>2. u \div z \in Nat /\ u % z \in 0..z - 1 /\ u = (u \div z) * z + (u % z)
      BY <2>1, Division, Zenon
    <2> QED
      BY <2>2, Zenon
  <1>3. PICK p \in Nat, s \in 0..z - 1 : p = v \div z /\ s = v % z /\ v = p * z + s
    <2>1. v \in Nat
      BY IOFacts
    <2>2. v \div z \in Nat /\ v % z \in 0..z - 1 /\ v = (v \div z) * z + (v % z)
      BY <2>1, Division, Zenon
    <2> QED
      BY <2>2, Zenon
  <1>4. (l - q) * z + r = (l - p) * z + s
    BY <1>1, <1>2, <1>3 DEF T!Loc
  <1>5. l - q = l - p /\ r = s
    BY <1>4, Unique
  <1>6. q = p
    BY <1>5
  <1> QED
    BY <1>2, <1>3, <1>5, <1>6

\* A chunk is not empty and stays within its cluster and its request.
LEMMA ChunkFacts ==
  ASSUME NEW u \in Reach, NEW rest \in Nat \ {0}, NEW n, n = T!Chunk(u, rest)
  PROVE  n \in Nat \ {0} /\ n <= rest /\ (u % T!Size) + n <= T!Size
  <1>1. PICK z \in Nat \ {0} : z = T!Size
    BY IOFacts
  <1>2. u \in Nat
    BY IOFacts
  <1>3. PICK r \in 0..z - 1 : r = u % z
    BY <1>2, Division, Zenon
  <1>4. PICK c : c = T!ToClusterEnd(u)
    OBVIOUS
  <1>5. c \in Nat \ {0} /\ r + c = z
    BY <1>1, <1>3, <1>4 DEF T!ToClusterEnd
  <1>6. PICK p : p = T!ToPageEnd(u)
    OBVIOUS
  <1>7. p \in Nat \ {0}
    <2>1. PICK un \in Nat \ {0}, pp \in Nat \ {0} : un = Units /\ pp = PerPage
      BY IOFacts
    <2>2. PICK a \in Nat : a = T!Loc(u) \div un
      <3>1. T!Loc(u) \in Nat
        BY LocIn
      <3> QED
        BY <3>1, Division, Zenon
    <2>3. PICK b \in 0..pp - 1 : b = (First + a) % pp
      <3>1. First + a \in Nat
        BY IOFacts
      <3> QED
        BY <3>1, Division, Zenon
    <2>4. PICK s \in 0..un - 1 : s = u % un
      BY <1>2, Division, Zenon
    <2>5. p = (pp - b) * un - s
      BY <1>6, <2>1, <2>2, <2>3, <2>4 DEF T!ToPageEnd
    <2>6. PICK d \in Nat : d = pp - b - 1
      BY <2>3
    <2>7. (pp - b) * un = d * un + un /\ d * un \in Nat
      <3>1. pp - b = d + 1
        BY <2>3, <2>6
      <3>2. (d + 1) * un = d * un + un
        OBVIOUS
      <3> QED
        BY <3>1, <3>2
    <2> QED
      BY <2>4, <2>5, <2>7
  <1>8. n = T!Least({p, c, rest})
    BY <1>4, <1>6 DEF T!Chunk
  <1>9. n \in {p, c, rest} /\ n <= c /\ n <= rest
    <2>1. p \in Int /\ c \in Int /\ rest \in Int
      BY <1>5, <1>7
    <2>2. /\ T!Least({p, c, rest}) \in {p, c, rest}
          /\ T!Least({p, c, rest}) <= c /\ T!Least({p, c, rest}) <= rest
      BY <2>1, LeastOf, Zenon
    <2> QED
      BY <1>8, <2>2, Zenon
  <1>10. n \in Nat \ {0}
    BY <1>5, <1>7, <1>9
  <1>11. r + n <= z
    BY <1>5, <1>9, <1>10
  <1> QED
    BY <1>1, <1>3, <1>9, <1>10, <1>11

\* What the user's memory takes of a chunk.
LEMMA MovedFacts ==
  ASSUME NEW n \in Nat, request.room \in Nat, done \in Nat, NEW m, m = T!Moved(n)
  PROVE  m \in Nat /\ m <= n
  <1>1. PICK k : k = T!Most(request.room - done, 0)
    OBVIOUS
  <1>2. k \in Nat
    BY <1>1 DEF T!Most
  <1>3. m = T!Least({n, k})
    BY <1>1 DEF T!Moved
  <1>4. n \in Int /\ k \in Int
    BY <1>2
  <1>5. T!Least({n, k}) \in {n, k} /\ T!Least({n, k}) <= n
    BY <1>4, LeastOf, Zenon
  <1>6. m \in {n, k} /\ m <= n
    BY <1>3, <1>5, Zenon
  <1> QED
    BY <1>2, <1>6

\* Whole sectors are touched from end to end.
LEMMA TouchedFacts ==
  ASSUME NEW u \in Reach, NEW n \in Nat \ {0}, T!Whole(u, n)
  PROVE  T!Touched(T!Loc(u), n) = T!Loc(u)..T!Loc(u) + n - 1
  <1>1. PICK z \in Nat \ {0}, un \in Nat \ {0}, pc \in Nat \ {0}, l \in Nat :
          z = T!Size /\ un = Units /\ pc = PerCluster /\ l = T!Last /\ z = pc * un
    BY IOFacts
  <1>2. u \in Nat /\ n \in Nat
    BY IOFacts
  <1>3. PICK q \in Nat, r \in 0..z - 1 : q = u \div z /\ r = u % z /\ u = q * z + r
    <2>1. u \div z \in Nat /\ u % z \in 0..z - 1 /\ u = (u \div z) * z + (u % z)
      BY <1>2, Division, Zenon
    <2> QED
      BY <2>1, Zenon
  <1>4. u % un = 0 /\ n % un = 0
    BY <1>1 DEF T!Whole
  <1>5. PICK k \in Nat : u = k * un
    <2>1. u \div un \in Nat /\ u = (u \div un) * un + (u % un)
      BY <1>2, Division, Zenon
    <2>2. PICK j \in Nat : j = u \div un
      BY <2>1
    <2>3. u = j * un
      BY <1>4, <2>1, <2>2
    <2> QED
      BY <2>3
  <1>6. PICK c \in Nat \ {0} : n = c * un
    <2>1. n \div un \in Nat /\ n = (n \div un) * un + (n % un)
      BY <1>2, Division, Zenon
    <2>2. PICK c \in Nat : c = n \div un
      BY <2>1
    <2>3. n = c * un
      BY <1>4, <2>1, <2>2
    <2>4. c # 0
      BY <2>3
    <2> QED
      BY <2>3, <2>4
  <1>7. PICK e \in Int : e = (l - q) * pc + (k - q * pc)
    OBVIOUS
  <1>8. PICK a \in Nat : a = T!Loc(u)
    BY LocIn
  <1>9. a = e * un
    <2>1. a = (l - q) * z + r
      BY <1>1, <1>3, <1>8 DEF T!Loc
    <2>2. q * z = (q * pc) * un
      BY <1>1
    <2>3. (l - q) * z = ((l - q) * pc) * un
      BY <1>1
    <2>4. PICK x \in Int, y \in Int : x = q * pc /\ y = (l - q) * pc
      OBVIOUS
    <2>5. r = k * un - x * un
      BY <1>3, <1>5, <2>2, <2>4
    <2>6. a = y * un + (k * un - x * un)
      BY <2>1, <2>3, <2>4, <2>5
    <2>7. y * un + (k * un - x * un) = (y + (k - x)) * un
      OBVIOUS
    <2> QED
      BY <1>7, <2>4, <2>6, <2>7
  <1>10. e \in Nat
    BY <1>9
  <1>11. a \div un = e
    <2>1. a = e * un + 0 /\ 0 \in 0..un - 1
      BY <1>9, <1>10
    <2> QED
      BY <1>10, <2>1, Quotient
  <1>12. (a + n - 1) \div un = e + c - 1
    <2>1. PICK g \in Nat : g = e + c - 1
      BY <1>10
    <2>2. g * un + un = e * un + c * un
      <3>1. (g + 1) * un = g * un + un /\ (e + c) * un = e * un + c * un
        BY <1>10
      <3>2. g + 1 = e + c
        BY <1>10, <2>1
      <3> QED
        BY <3>1, <3>2
    <2>3. g * un \in Nat /\ e * un \in Nat /\ c * un \in Nat
      BY <1>10
    <2>4. a + n - 1 = g * un + (un - 1)
      BY <1>6, <1>9, <2>2, <2>3
    <2>5. un - 1 \in 0..un - 1 /\ a + n - 1 \in Nat
      OBVIOUS
    <2> QED
      BY <2>1, <2>4, <2>5, Quotient
  <1>13. ((a + n - 1) \div un + 1) * un = a + n
    <2>1. (e + c - 1) + 1 = e + c
      BY <1>10
    <2>2. (e + c) * un = e * un + c * un
      BY <1>10
    <2> QED
      BY <1>6, <1>9, <1>12, <2>1, <2>2
  <1> QED
    BY <1>1, <1>8, <1>9, <1>11, <1>13 DEF T!Touched

\* The place of a unit in its sector is the same in the file and in the heap.
LEMMA LocInSector ==
  ASSUME NEW u \in Reach
  PROVE  \E e \in Nat : T!Loc(u) = e * Units + (u % Units)
  <1>1. PICK z \in Nat \ {0}, un \in Nat \ {0}, pc \in Nat \ {0}, l \in Nat :
          z = T!Size /\ un = Units /\ pc = PerCluster /\ l = T!Last /\ z = pc * un
    BY IOFacts
  <1>2. u \in Nat
    BY IOFacts
  <1>3. PICK q \in Nat, r \in 0..z - 1 : q = u \div z /\ r = u % z /\ u = q * z + r
    <2>1. u \div z \in Nat /\ u % z \in 0..z - 1 /\ u = (u \div z) * z + (u % z)
      BY <1>2, Division, Zenon
    <2> QED
      BY <2>1, Zenon
  <1>4. PICK k \in Nat, o \in 0..un - 1 : k = u \div un /\ o = u % un /\ u = k * un + o
    <2>1. u \div un \in Nat /\ u % un \in 0..un - 1 /\ u = (u \div un) * un + (u % un)
      BY <1>2, Division, Zenon
    <2> QED
      BY <2>1, Zenon
  <1>5. PICK e \in Int : e = (l - q) * pc + (k - q * pc)
    OBVIOUS
  <1>6. PICK a \in Nat : a = T!Loc(u)
    BY LocIn
  <1>7. a = e * un + o
    <2>1. a = (l - q) * z + r
      BY <1>1, <1>3, <1>6 DEF T!Loc
    <2>2. q * z = (q * pc) * un
      BY <1>1
    <2>3. (l - q) * z = ((l - q) * pc) * un
      BY <1>1
    <2>4. PICK x \in Int, y \in Int : x = q * pc /\ y = (l - q) * pc
      OBVIOUS
    <2>8. PICK qz \in Int, ku \in Int, xu \in Int : qz = q * z /\ ku = k * un /\ xu = x * un
      OBVIOUS
    <2>9. qz = xu /\ u = qz + r /\ u = ku + o
      BY <1>3, <1>4, <2>2, <2>4, <2>8
    <2>10. r = ku + o - xu
      BY <1>2, <2>9
    <2>5. r = k * un + o - x * un
      BY <2>8, <2>10
    <2>6. a = y * un + (k * un - x * un) + o
      BY <2>1, <2>3, <2>4, <2>5
    <2>7. y * un + (k * un - x * un) = (y + (k - x)) * un
      OBVIOUS
    <2> QED
      BY <1>5, <2>4, <2>6, <2>7
  <1>8. e \in Nat
    <2> SUFFICES ASSUME e < 0 PROVE FALSE
      OBVIOUS
    <2>1. e + 1 <= 0
      OBVIOUS
    <2>2. (e + 1) * un <= 0
      BY <2>1
    <2>3. (e + 1) * un = e * un + un /\ e * un \in Int
      OBVIOUS
    <2> QED
      BY <1>4, <1>6, <1>7, <2>2, <2>3
  <1> QED
    BY <1>1, <1>4, <1>6, <1>7, <1>8

\* The sectors that hold n units: the least number with room for them.
LEMMA CountFacts ==
  ASSUME NEW n \in Nat \ {0}, NEW c, c = T!Count(n)
  PROVE  /\ c \in Nat /\ n <= c * Units
         /\ \A M \in Nat : \A o \in 0..Units - 1 : n = M * Units - o => c = M
  <1>1. PICK un \in Nat \ {0} : un = Units
    BY IOFacts
  <1>2. PICK x \in Nat : x = n + un - 1
    OBVIOUS
  <1>3. c = x \div un
    BY <1>1, <1>2 DEF T!Count
  <1>4. PICK q \in Nat, r \in 0..un - 1 : q = x \div un /\ x = q * un + r
    <2>1. x \div un \in Nat /\ x % un \in 0..un - 1 /\ x = (x \div un) * un + (x % un)
      BY Division, Zenon
    <2> QED
      BY <2>1
  <1>5. n <= q * un
    <2>1. q * un \in Nat
      OBVIOUS
    <2> QED
      BY <1>2, <1>4, <2>1
  <1>6. ASSUME NEW M \in Nat, NEW o \in 0..un - 1, n = M * un - o PROVE q = M
    <2>1. M * un \in Nat
      OBVIOUS
    <2>2. x = M * un + (un - 1 - o) /\ un - 1 - o \in 0..un - 1
      BY <1>2, <1>6, <2>1
    <2> QED
      BY <1>4, <2>2, Quotient
  <1> QED
    BY <1>1, <1>3, <1>4, <1>5, <1>6

(* A chunk that does not end the request ends with a sector.  Each of its  *)
(* units is in a sector that is marked, unless it ends the request, begins *)
(* within a sector and the unit is past the sectors that its length needs. *)
LEMMA ChunkMarks ==
  ASSUME NEW u \in Reach, NEW rest \in Nat \ {0}, NEW n, n = T!Chunk(u, rest)
  PROVE  /\ n # rest => (u + n) % Units = 0
         /\ \A j \in 0..n - 1 :
              \/ (T!Loc(u) + j) \div Units \in T!Marked(u, n)
              \/ /\ n = rest /\ u % Units > 0
                 /\ ((u % Units) + j) \div Units >= T!Count(n)
  <1>1. PICK z \in Nat \ {0}, un \in Nat \ {0}, pc \in Nat \ {0}, pp \in Nat \ {0} :
          z = T!Size /\ un = Units /\ pc = PerCluster /\ pp = PerPage /\ z = pc * un
    BY IOFacts
  <1>2. u \in Nat
    BY IOFacts
  <1>3. PICK y \in Nat, o \in 0..un - 1 : o = u % un /\ u = y * un + o
    <2>1. u \div un \in Nat /\ u % un \in 0..un - 1 /\ u = (u \div un) * un + (u % un)
      BY <1>2, Division, Zenon
    <2> QED
      BY <2>1
  <1>4. PICK e \in Nat : T!Loc(u) = e * un + o
    BY <1>1, <1>3, LocInSector
  <1>5. n \in Nat \ {0} /\ n <= rest
    BY ChunkFacts
  <1>20. PICK c : c = T!Count(n)
    OBVIOUS
  <1>6. /\ c \in Nat /\ c = T!Count(n) /\ n <= c * un
        /\ \A M \in Nat : \A x \in 0..un - 1 : n = M * un - x => c = M
    BY <1>1, <1>5, <1>20, CountFacts
  <1>7. n = rest \/ \E M \in Nat : n = M * un - o
    <2>1. PICK p, d : p = T!ToPageEnd(u) /\ d = T!ToClusterEnd(u)
      OBVIOUS
    <2>2. \E M \in Nat : p = M * un - o
      <3>1. PICK a \in Nat : a = T!Loc(u) \div un
        <4>1. T!Loc(u) \in Nat
          BY LocIn
        <4> QED
          BY <4>1, Division, Zenon
      <3>2. PICK b \in 0..pp - 1 : b = (First + a) % pp
        <4>1. First + a \in Nat
          BY IOFacts
        <4> QED
          BY <4>1, Division, Zenon
      <3>3. p = (pp - b) * un - o
        BY <1>1, <1>3, <2>1, <3>1, <3>2 DEF T!ToPageEnd
      <3>4. pp - b \in Nat
        BY <3>2
      <3> QED
        BY <3>3, <3>4
    <2>3. \E M \in Nat : d = M * un - o
      <3>1. PICK q \in Nat, r \in 0..z - 1 : r = u % z /\ u = q * z + r
        <4>1. u \div z \in Nat /\ u % z \in 0..z - 1 /\ u = (u \div z) * z + (u % z)
          BY <1>2, Division, Zenon
        <4> QED
          BY <4>1
      <3>2. d = z - r
        BY <1>1, <2>1, <3>1 DEF T!ToClusterEnd
      <3>3. PICK x \in Int : x = y - q * pc
        OBVIOUS
      <3>4. r = x * un + o
        <4>1. q * z = (q * pc) * un
          BY <1>1
        <4>2. PICK w \in Int : w = q * pc
          OBVIOUS
        <4>6. PICK qz \in Int, yu \in Int, wu \in Int : qz = q * z /\ yu = y * un /\ wu = w * un
          OBVIOUS
        <4>7. qz = wu /\ u = qz + r /\ u = yu + o
          BY <1>3, <3>1, <4>1, <4>2, <4>6
        <4>8. r = yu + o - wu
          BY <1>2, <4>7
        <4>3. r = y * un + o - w * un
          BY <4>6, <4>8
        <4>4. (y - w) * un = y * un - w * un
          OBVIOUS
        <4>5. y * un \in Int /\ w * un \in Int
          OBVIOUS
        <4> QED
          BY <3>3, <4>2, <4>3, <4>4, <4>5
      <3>5. d = (pc - x) * un - o
        <4>1. (pc - x) * un = pc * un - x * un
          OBVIOUS
        <4>2. pc * un \in Int /\ x * un \in Int
          OBVIOUS
        <4> QED
          BY <1>1, <3>2, <3>4, <4>1, <4>2
      <3>6. pc - x \in Nat
        <4> SUFFICES ASSUME pc - x <= 0 PROVE FALSE
          OBVIOUS
        <4>1. (pc - x) * un <= 0
          OBVIOUS
        <4>2. (pc - x) * un \in Int
          OBVIOUS
        <4> QED
          BY <3>1, <3>2, <3>5, <4>1, <4>2
      <3> QED
        BY <3>5, <3>6
    <2>4. n \in {p, d, rest}
      <3>1. p \in Int /\ d \in Int /\ rest \in Int
        BY <2>2, <2>3
      <3>2. T!Least({p, d, rest}) \in {p, d, rest}
        BY <3>1, LeastOf, Zenon
      <3> QED
        BY <2>1, <3>2 DEF T!Chunk
    <2> QED
      BY <2>2, <2>3, <2>4
  <1>8. ASSUME n # rest PROVE (u + n) % un = 0
    <2>1. PICK M \in Nat : n = M * un - o
      BY <1>7, <1>8
    <2>2. (y + M) * un = y * un + M * un /\ y * un \in Nat /\ M * un \in Nat
      OBVIOUS
    <2>3. u + n = (y + M) * un + 0 /\ 0 \in 0..un - 1 /\ u + n \in Nat /\ y + M \in Nat
      BY <1>2, <1>3, <1>5, <2>1, <2>2
    <2> QED
      BY <2>3, Quotient
  <1>9. ASSUME NEW j \in 0..n - 1
        PROVE  \/ (T!Loc(u) + j) \div un \in T!Marked(u, n)
               \/ n = rest /\ o > 0 /\ (o + j) \div un >= c
    <2>1. PICK q \in Nat, r \in 0..un - 1 : q = (o + j) \div un /\ o + j = q * un + r
      <3>1. o + j \in Nat
        OBVIOUS
      <3>2. /\ (o + j) \div un \in Nat /\ (o + j) % un \in 0..un - 1
            /\ o + j = ((o + j) \div un) * un + ((o + j) % un)
        BY <3>1, Division, Zenon
      <3> QED
        BY <3>2
    <2>2. (T!Loc(u) + j) \div un = e + q
      <3>1. (e + q) * un = e * un + q * un /\ e * un \in Nat /\ q * un \in Nat
        OBVIOUS
      <3>2. T!Loc(u) + j = (e + q) * un + r /\ T!Loc(u) + j \in Nat /\ e + q \in Nat
        BY <1>4, <2>1, <3>1
      <3> QED
        BY <3>2, Quotient
    <2>3. T!Loc(u) \div un = e
      <3>1. T!Loc(u) \in Nat
        BY <1>4
      <3> QED
        BY <1>4, <3>1, Quotient
    <2>4. T!Marked(u, n) = e..e + c - 1
      BY <1>1, <1>6, <2>3 DEF T!Marked
    <2>5. ASSUME q >= c PROVE n = rest /\ o > 0
      <3>0. c \in Nat
        BY <1>6
      <3>2. c * un \in Nat /\ q * un \in Nat
        BY <3>0
      <3>1. c * un <= q * un
        <4>1. PICK d \in Nat : q = c + d
          <5>1. q - c \in Nat /\ q = c + (q - c)
            BY <2>5, <3>0
          <5> QED
            BY <5>1
        <4>2. (c + d) * un = c * un + d * un /\ d * un \in Nat
          BY <3>0
        <4> QED
          BY <3>2, <4>1, <4>2
      <3>3. c * un <= o + j
        BY <2>1, <3>1, <3>2
      <3>4. o > 0
        BY <1>5, <1>6, <3>2, <3>3
      <3>5. ASSUME NEW M \in Nat, n = M * un - o PROVE FALSE
        <4>1. c = M
          BY <1>6, <3>5
        <4>2. M * un \in Nat
          OBVIOUS
        <4> QED
          BY <1>5, <3>3, <3>5, <4>1, <4>2
      <3> QED
        BY <1>7, <3>4, <3>5
    <2>6. CASE q >= c
      BY <2>1, <2>5, <2>6
    <2>7. CASE q < c
      <3>1. e + q \in e..e + c - 1
        BY <1>6, <2>7
      <3> QED
        BY <2>2, <2>4, <3>1
    <2> QED
      BY <1>6, <2>6, <2>7
  <1> QED
    BY <1>1, <1>3, <1>6, <1>8, <1>9

\* The request, and the sizes.
TransferTypes ==
  /\ request \in [kind : {"read", "write"}, offset : 0..MaxSize,
                  length : 0..MaxLen, room : 0..MaxLen]
  /\ file_size \in Nat /\ valid_size \in Nat /\ valid_size <= file_size
  /\ step \in {request.kind, "end"}

\* How far a request has come and with which failures.
Progress ==
  /\ done \in 0..request.length /\ offset = request.offset + done
  /\ step # "end" => iostate = {}
  /\ step = "end" /\ iostate = {} => done = request.length

\* A read within the valid part: the buffer so far.
ReadInv ==
  /\ Progress
  /\ data = T!Old /\ stored = T!Old /\ unsaved = {} /\ DOMAIN buf = 0..MaxLen - 1
  /\ \A k \in 0..done - 1 : buf[k] = T!Old[T!Loc(request.offset + k)]
  /\ \A k \in DOMAIN buf : k >= done => buf[k] = <<"buf">>
  /\ done > 0 => offset <= valid_size
  /\ "EOF" \in iostate => offset >= file_size

\* A write: what was written, the rest, ...
Written ==
  \A k \in 0..done - 1 :
    \/ data[T!Loc(request.offset + k)] = <<"new", k>>
    \/ /\ T!Torn(k)
       /\ data[T!Loc(request.offset + k)] = T!Old[T!Loc(request.offset + k)]
       /\ stored[T!Loc(request.offset + k)] = T!Old[T!Loc(request.offset + k)]

Unwritten ==
  \A u \in Reach : u \notin request.offset..request.offset + done - 1 =>
    \/ data[T!Loc(u)] = T!Old[T!Loc(u)]
    \/ /\ "MEM" \in iostate /\ data[T!Loc(u)] = T!Zero
       /\ u >= offset /\ u < request.offset + request.length

\* ... and what the disk holds where the sector is not marked.
OnDisk ==
  \A u \in T!Span : u \div Units \notin unsaved =>
    \/ stored[u] = data[u]
    \/ \E k \in 0..done - 1 : /\ T!Torn(k) /\ u = T!Loc(request.offset + k)
                              /\ stored[u] = T!Old[u]

\* Every chunk but the first begins with a sector.
WriteInv ==
  /\ Progress /\ Written /\ Unwritten /\ OnDisk
  /\ done > 0 => valid_size >= offset
  /\ step = "write" /\ done > 0 /\ done < request.length => offset % Units = 0

TransferInv ==
  /\ TransferTypes
  /\ request.kind = "read" /\ T!Plain => ReadInv
  /\ request.kind = "write" => WriteInv

\* A failure ends the request.
LEMMA FailEnds ==
  ASSUME NEW f, T!Fail(f), Progress, step # "end", UNCHANGED <<request, offset, done>>
  PROVE  Progress' /\ step' = "end" /\ iostate' = {f}
  BY DEF T!Fail, Progress

\* Nothing has been transferred at first.
LEMMA InitTransfer == T!Init => TransferInv
  <1> SUFFICES ASSUME T!Init PROVE TransferInv
    OBVIOUS
  <1>1. MaxSize \in Nat /\ MaxLen \in Nat
    BY IOFacts
  <1>2. TransferTypes
    BY <1>1 DEF T!Init, TransferTypes
  <1>3. Progress
    BY <1>1, <1>2 DEF T!Init, TransferTypes, Progress
  <1>4. done = 0 /\ iostate = {} /\ data = T!Old /\ stored = T!Old /\ unsaved = {}
        /\ buf = [k \in 0..MaxLen - 1 |-> <<"buf">>]
    BY DEF T!Init
  <1>5. ReadInv
    BY <1>3, <1>4 DEF ReadInv
  <1>6. WriteInv
    BY <1>3, <1>4 DEF WriteInv, Written, Unwritten, OnDisk
  <1> QED
    BY <1>2, <1>5, <1>6 DEF TransferInv

\* One chunk of a read.
LEMMA ReadChunkKeeps ==
  ASSUME TransferInv, T!Plain, T!ReadChunk
  PROVE  ReadInv'
  <1>1. /\ step = "read" /\ done < request.length /\ offset < valid_size
        /\ UNCHANGED <<data, stored, unsaved, file_size, valid_size, request>>
    BY DEF T!ReadChunk, T!More
  <1>2. request.kind = "read" /\ TransferTypes /\ ReadInv /\ Progress
    BY <1>1 DEF TransferInv, TransferTypes, ReadInv
  <1>3. /\ request.offset \in Nat /\ request.length \in Nat /\ request.room \in Nat
        /\ request.offset <= MaxSize /\ request.length <= MaxLen
        /\ valid_size \in Nat /\ done \in Nat /\ offset \in Nat
        /\ offset = request.offset + done /\ MaxSize \in Nat /\ MaxLen \in Nat
    BY <1>1, <1>2, IOFacts DEF TransferTypes, Progress
  <1>4. PICK c, n, m : /\ c = T!Chunk(offset, request.length - done)
                       /\ n = T!Least({c, valid_size - offset}) /\ m = T!Moved(n)
    OBVIOUS
  <1>5. offset \in Reach /\ request.length - done \in Nat \ {0}
    BY <1>1, <1>3 DEF Reach
  <1>6. c \in Nat \ {0} /\ c <= request.length - done
        /\ (offset % T!Size) + c <= T!Size
    BY <1>4, <1>5, ChunkFacts
  <1>7. n \in Nat /\ n <= c /\ n <= valid_size - offset
    <2>1. c \in Int /\ valid_size - offset \in Int
      BY <1>3, <1>6
    <2>2. /\ T!Least({c, valid_size - offset}) \in {c, valid_size - offset}
          /\ T!Least({c, valid_size - offset}) <= c
          /\ T!Least({c, valid_size - offset}) <= valid_size - offset
      BY <2>1, LeastOf, Zenon
    <2>3. n \in {c, valid_size - offset} /\ n <= c /\ n <= valid_size - offset
      BY <1>4, <2>2, Zenon
    <2> QED
      BY <1>1, <1>3, <1>6, <2>3
  <1>8. m \in Nat /\ m <= n
    BY <1>3, <1>4, <1>7, MovedFacts
  <1>9. /\ buf' = [k \in DOMAIN buf |-> IF k \in done..done + m - 1
                                        THEN data[T!Loc(offset) + k - done] ELSE buf[k]]
        /\ offset' = offset + m /\ done' = done + m
        /\ \/ m # n /\ T!Fail("MEM")
           \/ m = n /\ UNCHANGED <<iostate, step>>
    BY <1>4 DEF T!ReadChunk
  <1>10. done + m <= request.length /\ offset + m <= valid_size
    BY <1>3, <1>6, <1>7, <1>8
  <1>11. iostate = {} /\ step' \in {"read", "end"} /\ iostate' \in {{}, {"MEM"}}
         /\ (step' = "end" => iostate' = {"MEM"}) /\ (step' # "end" => iostate' = {})
    <2>1. iostate = {}
      BY <1>1, <1>2 DEF Progress
    <2> QED
      BY <1>1, <1>9, <2>1 DEF T!Fail
  <1>12. Progress'
    <2>1. done + m \in 0..request.length /\ offset + m = request.offset + (done + m)
      BY <1>3, <1>8, <1>10
    <2>2. done' = done + m /\ offset' = offset + m /\ request' = request
      BY <1>1, <1>9
    <2> QED
      BY <1>11, <2>1, <2>2 DEF Progress
  <1>13. data' = T!Old /\ stored' = T!Old /\ unsaved' = {} /\ DOMAIN buf' = 0..MaxLen - 1
    BY <1>1, <1>2, <1>9 DEF ReadInv
  <1>14. ASSUME NEW k \in 0..done + m - 1
         PROVE  buf'[k] = T!Old[T!Loc(request.offset + k)]
    <2>1. k \in DOMAIN buf
      BY <1>2, <1>3, <1>8, <1>10 DEF ReadInv
    <2>2. CASE k < done
      <3>1. k \in 0..done - 1 /\ k \notin done..done + m - 1
        BY <1>3, <1>8, <2>2
      <3> QED
        BY <1>2, <1>9, <2>1, <3>1 DEF ReadInv
    <2>3. CASE k >= done
      <3>1. PICK j \in Nat : j = k - done
        BY <1>3, <2>3
      <3>2. j < m /\ offset + j = request.offset + k /\ k \in done..done + m - 1
        BY <1>3, <1>8, <2>3, <3>1
      <3>3. offset + j \in Reach
        <4>1. offset + m <= MaxSize + MaxLen
          BY <1>3, <1>8, <1>10
        <4> QED
          BY <1>3, <1>8, <3>1, <3>2, <4>1 DEF Reach
      <3>4. (offset % T!Size) + j < T!Size
        <4>1. PICK r \in Nat, z \in Nat : r = offset % T!Size /\ z = T!Size
          BY <1>3, IOFacts
        <4> QED
          BY <1>6, <1>7, <1>8, <3>1, <3>2, <4>1
      <3>5. T!Loc(offset + j) = T!Loc(offset) + j
        BY <1>5, <3>3, <3>4, LocFollows
      <3>6. T!Loc(offset) + k - done = T!Loc(offset) + j
        <4>1. T!Loc(offset) \in Nat
          BY <1>5, LocIn
        <4> QED
          BY <1>3, <3>1, <4>1
      <3>7. buf'[k] = data[T!Loc(offset) + k - done]
        BY <1>9, <2>1, <3>2
      <3> QED
        BY <1>2, <3>2, <3>5, <3>6, <3>7 DEF ReadInv
    <2> QED
      BY <1>3, <2>2, <2>3
  <1>15. ASSUME NEW k \in DOMAIN buf', k >= done + m PROVE buf'[k] = <<"buf">>
    <2>1. k \in DOMAIN buf /\ k \notin done..done + m - 1 /\ k >= done
      BY <1>2, <1>3, <1>8, <1>13, <1>15 DEF ReadInv
    <2> QED
      BY <1>2, <1>9, <2>1 DEF ReadInv
  <1>16. offset' <= valid_size' /\ ~("EOF" \in iostate')
    BY <1>1, <1>9, <1>10, <1>11
  <1>17. \A k \in 0..done' - 1 : buf'[k] = T!Old[T!Loc(request'.offset + k)]
    <2>1. request' = request /\ done' = done + m
      BY <1>1, <1>9
    <2> SUFFICES ASSUME NEW k \in 0..done' - 1
                 PROVE  buf'[k] = T!Old[T!Loc(request'.offset + k)]
      OBVIOUS
    <2>2. k \in 0..done + m - 1 /\ request'.offset + k = request.offset + k
      BY <1>3, <1>8, <2>1
    <2> QED
      BY <1>14, <2>2
  <1> QED
    BY <1>9, <1>12, <1>13, <1>15, <1>16, <1>17 DEF ReadInv, T!Loc, T!Old

\* Which units are torn depends on the request only.
LEMMA TornStays ==
  ASSUME request' = request PROVE \A k : T!Torn(k)' <=> T!Torn(k)
  BY DEF T!Torn, T!Chunk, T!ToPageEnd, T!ToClusterEnd, T!Least, T!Count, T!Loc

\* One chunk of a write.
LEMMA WriteChunkKeeps ==
  ASSUME TransferInv, T!WriteChunk
  PROVE  WriteInv' /\ TransferTypes'
  <1>1. step = "write" /\ done < request.length /\ request' = request
    BY DEF T!WriteChunk, T!More
  <1>2. request.kind = "write" /\ TransferTypes /\ WriteInv /\ Progress
    BY <1>1 DEF TransferInv, TransferTypes, WriteInv
  <1>3. /\ request.offset \in Nat /\ request.length \in Nat /\ request.room \in Nat
        /\ request.offset <= MaxSize /\ request.length <= MaxLen
        /\ done \in Nat /\ offset \in Nat /\ offset = request.offset + done
        /\ MaxSize \in Nat /\ MaxLen \in Nat
    BY <1>1, <1>2, IOFacts DEF TransferTypes, Progress
  <1>4. PICK n, m : n = T!Chunk(offset, request.length - done) /\ m = T!Moved(n)
    OBVIOUS
  <1>5. offset \in Reach /\ request.length - done \in Nat \ {0}
    BY <1>1, <1>3 DEF Reach
  <1>6. n \in Nat \ {0} /\ n <= request.length - done
        /\ (offset % T!Size) + n <= T!Size
    BY <1>4, <1>5, ChunkFacts
  <1>7. m \in Nat /\ m <= n
    BY <1>3, <1>4, <1>6, MovedFacts
  <1>8. PICK l \in Nat : l = T!Loc(offset)
    BY <1>5, LocIn
  <1>9. /\ data' = [u \in T!Span |->
              IF u \in l..l + m - 1 THEN <<"new", done + u - l>>
              ELSE IF T!Whole(offset, n) /\ u \in T!Touched(l, n) THEN T!Zero
              ELSE data[u]]
        /\ unsaved' = unsaved \cup T!Marked(offset, n) /\ stored' = stored
        /\ offset' = offset + m /\ done' = done + m
        /\ valid_size' = T!Most(valid_size, offset + m)
        /\ file_size' = T!Most(file_size, valid_size')
        /\ \/ m # n /\ T!Fail("MEM")
           \/ m = n /\ UNCHANGED <<iostate, step>>
    BY <1>4, <1>8 DEF T!WriteChunk
  <1>10. /\ done + m <= request.length /\ offset + n <= MaxSize + MaxLen
         /\ offset + n <= request.offset + request.length
    BY <1>3, <1>6, <1>7
  <1>11. /\ iostate = {} /\ step' \in {"write", "end"} /\ iostate' \in {{}, {"MEM"}}
         /\ (step' = "end" => iostate' = {"MEM"}) /\ (step' # "end" => iostate' = {})
         /\ (m # n => "MEM" \in iostate')
    <2>1. iostate = {}
      BY <1>1, <1>2 DEF Progress
    <2> QED
      BY <1>1, <1>9, <2>1 DEF T!Fail
  <1>12. Progress'
    BY <1>1, <1>3, <1>7, <1>9, <1>10, <1>11 DEF Progress
  <1>13. /\ valid_size' \in Nat /\ file_size' \in Nat
         /\ valid_size' <= file_size' /\ valid_size' >= offset'
    BY <1>2, <1>3, <1>7, <1>9 DEF TransferTypes, T!Most
  <1>14. TransferTypes'
    BY <1>1, <1>2, <1>11, <1>13 DEF TransferTypes
  <1>15. ASSUME NEW j \in Nat, j < n
         PROVE  offset + j \in Reach /\ T!Loc(offset + j) = l + j
    <2>1. offset + j \in Reach
      BY <1>3, <1>6, <1>10, <1>15 DEF Reach
    <2>2. (offset % T!Size) + j < T!Size
      <3>1. PICK r \in Nat, z \in Nat : r = offset % T!Size /\ z = T!Size
        BY <1>3, IOFacts
      <3> QED
        BY <1>6, <1>15, <3>1
    <2> QED
      BY <1>5, <1>8, <2>1, <2>2, LocFollows
  <1>16. ASSUME NEW u \in Reach, T!Loc(u) \in l..l + n - 1
         PROVE  u \in offset..offset + n - 1 /\ T!Loc(u) = l + (u - offset)
    <2>1. PICK j \in Nat : j = T!Loc(u) - l /\ j < n
      BY <1>6, <1>8, <1>16
    <2>2. T!Loc(u) = l + j
      BY <1>16, <2>1
    <2>3. u = offset + j
      BY <1>15, <2>1, <2>2, LocInjective
    <2> QED
      BY <1>3, <1>6, <2>1, <2>2, <2>3
  <1>17. T!Whole(offset, n) => T!Touched(l, n) = l..l + n - 1
    BY <1>5, <1>6, <1>8, TouchedFacts
  <1>18. ASSUME NEW k \in 0..done + m - 1
         PROVE  \/ data'[T!Loc(request.offset + k)] = <<"new", k>>
                \/ /\ T!Torn(k)
                   /\ data'[T!Loc(request.offset + k)] = T!Old[T!Loc(request.offset + k)]
                   /\ stored'[T!Loc(request.offset + k)] = T!Old[T!Loc(request.offset + k)]
    <2>1. PICK u \in Reach : u = request.offset + k
      BY <1>3, <1>7, <1>10 DEF Reach
    <2>2. T!Loc(u) \in T!Span
      BY <2>1, LocIn
    <2>3. CASE k < done
      <3>1. T!Loc(u) \notin l..l + n - 1
        <4>1. ~(u \in offset..offset + n - 1)
          BY <1>3, <1>6, <2>1, <2>3
        <4> QED
          BY <1>16, <4>1
      <3>2. T!Loc(u) \notin l..l + m - 1
        BY <1>6, <1>7, <1>8, <3>1
      <3>3. data'[T!Loc(u)] = data[T!Loc(u)]
        BY <1>9, <1>17, <2>2, <3>1, <3>2
      <3>4. k \in 0..done - 1
        BY <1>3, <1>7, <2>3
      <3> QED
        BY <1>2, <1>9, <2>1, <3>3, <3>4 DEF WriteInv, Written
    <2>4. CASE k >= done
      <3>1. PICK j \in Nat : j = k - done /\ j < m /\ u = offset + j
        BY <1>3, <1>7, <2>1, <2>4
      <3>2. T!Loc(u) = l + j
        BY <1>6, <1>7, <1>15, <3>1
      <3>3. T!Loc(u) \in l..l + m - 1 /\ done + T!Loc(u) - l = k
        BY <1>3, <1>7, <1>8, <3>1, <3>2
      <3>4. data'[T!Loc(u)] = <<"new", done + T!Loc(u) - l>>
        BY <1>9, <2>2, <3>3
      <3> QED
        BY <2>1, <3>3, <3>4
    <2> QED
      BY <1>3, <2>3, <2>4
  <1>19. ASSUME NEW u \in Reach, u \notin request.offset..request.offset + (done + m) - 1
         PROVE  \/ data'[T!Loc(u)] = T!Old[T!Loc(u)]
                \/ /\ "MEM" \in iostate' /\ data'[T!Loc(u)] = T!Zero
                   /\ u >= offset + m /\ u < request.offset + request.length
    <2>0. T!Loc(u) \in T!Span /\ u \in Nat /\ T!Loc(u) \in Nat
      BY LocIn, IOFacts
    <2>1. T!Loc(u) \notin l..l + m - 1
      <3> SUFFICES ASSUME T!Loc(u) \in l..l + m - 1 PROVE FALSE
        OBVIOUS
      <3>1. PICK a \in Nat : a = T!Loc(u)
        BY <2>0
      <3>2. a \in l..l + n - 1 /\ a <= l + m - 1
        BY <1>6, <1>7, <3>1
      <3>3. u \in offset..offset + n - 1 /\ a = l + (u - offset)
        BY <1>16, <3>1, <3>2
      <3>4. u - offset <= m - 1
        BY <1>3, <1>7, <1>8, <2>0, <3>2, <3>3
      <3>5. u \in request.offset..request.offset + (done + m) - 1
        BY <1>3, <1>6, <1>7, <2>0, <3>3, <3>4
      <3> QED
        BY <1>19, <3>5
    <2>2. u \notin request.offset..request.offset + done - 1
      BY <1>3, <1>7, <1>19, <2>0
    <2>3. data[T!Loc(u)] = T!Old[T!Loc(u)]
      <3>1. "MEM" \notin iostate
        BY <1>11
      <3> QED
        BY <1>2, <2>2, <3>1 DEF WriteInv, Unwritten
    <2>4. CASE T!Whole(offset, n) /\ T!Loc(u) \in T!Touched(l, n)
      <3>1. T!Loc(u) \in l..l + n - 1
        BY <1>17, <2>4
      <3>2. u \in offset..offset + n - 1
        BY <1>16, <3>1
      <3>3. data'[T!Loc(u)] = T!Zero
        BY <1>9, <2>0, <2>1, <2>4
      <3>4. u >= offset + m
        BY <1>3, <1>7, <1>19, <2>0, <3>2
      <3>5. m # n
        BY <1>3, <1>6, <2>0, <3>2, <3>4
      <3>6. u < request.offset + request.length
        BY <1>3, <1>6, <1>10, <2>0, <3>2
      <3> QED
        BY <1>11, <3>3, <3>4, <3>5, <3>6
    <2>5. CASE ~(T!Whole(offset, n) /\ T!Loc(u) \in T!Touched(l, n))
      BY <1>9, <2>0, <2>1, <2>3, <2>5
    <2> QED
      BY <2>4, <2>5
  <1>20. request' = request /\ done' = done + m /\ offset' = offset + m
    BY <1>1, <1>9
  <1>21. \A k : T!Torn(k)' <=> T!Torn(k)
    BY <1>20, TornStays
  <1>22. Written'
    <2> SUFFICES ASSUME NEW k \in 0..done' - 1
                 PROVE  \/ data'[T!Loc(request'.offset + k)] = <<"new", k>>
                        \/ /\ T!Torn(k)'
                           /\ data'[T!Loc(request'.offset + k)]
                                = T!Old[T!Loc(request'.offset + k)]
                           /\ stored'[T!Loc(request'.offset + k)]
                                = T!Old[T!Loc(request'.offset + k)]
      BY DEF Written, T!Loc, T!Old
    <2>1. k \in 0..done + m - 1 /\ request'.offset + k = request.offset + k
      BY <1>3, <1>7, <1>20
    <2> QED
      BY <1>18, <1>21, <2>1
  <1>23. Unwritten'
    <2>1. ASSUME NEW u \in Reach, u \notin request'.offset..request'.offset + done' - 1
          PROVE  \/ data'[T!Loc(u)] = T!Old[T!Loc(u)]
                 \/ /\ "MEM" \in iostate' /\ data'[T!Loc(u)] = T!Zero
                    /\ u >= offset' /\ u < request'.offset + request'.length
      BY <1>19, <1>20, <2>1
    <2> QED
      BY <2>1 DEF Unwritten
  <1>24. ASSUME NEW j \in 0..n - 1
         PROVE  \/ (l + j) \div Units \in T!Marked(offset, n)
                \/ T!Torn(j) /\ done = 0 /\ offset = request.offset
    <2> SUFFICES ASSUME (l + j) \div Units \notin T!Marked(offset, n)
                 PROVE  T!Torn(j) /\ done = 0 /\ offset = request.offset
      OBVIOUS
    <2>1. /\ n = request.length - done /\ offset % Units > 0
          /\ ((offset % Units) + j) \div Units >= T!Count(n)
      BY <1>4, <1>5, <1>8, ChunkMarks
    <2>2. done = 0
      <3> SUFFICES ASSUME done > 0 PROVE FALSE
        BY <1>3
      <3>1. offset % Units = 0
        BY <1>1, <1>2 DEF WriteInv
      <3> QED
        BY <2>1, <3>1
    <2>3. offset = request.offset /\ n = request.length
      BY <1>3, <2>1, <2>2
    <2>4. request.length - done = request.length
      BY <1>3, <2>2
    <2> QED
      BY <1>4, <2>1, <2>2, <2>3, <2>4 DEF T!Torn
  <1>25. OnDisk'
    <2> SUFFICES ASSUME NEW u \in T!Span, u \div Units \notin unsaved'
                 PROVE  \/ stored'[u] = data'[u]
                        \/ \E k \in 0..done' - 1 :
                             /\ T!Torn(k)' /\ u = T!Loc(request'.offset + k)
                             /\ stored'[u] = T!Old[u]
      BY DEF OnDisk, T!Loc, T!Old
    <2>1. u \div Units \notin unsaved /\ u \div Units \notin T!Marked(offset, n)
      BY <1>9
    <2>2. \/ stored[u] = data[u]
          \/ \E k \in 0..done - 1 : /\ T!Torn(k) /\ u = T!Loc(request.offset + k)
                                    /\ stored[u] = T!Old[u]
      BY <1>2, <2>1 DEF WriteInv, OnDisk
    <2>3. u \in Nat
      BY LocIn, IOFacts DEF T!Span
    <2>4. CASE u \in l..l + m - 1
      <3>1. PICK j \in 0..n - 1 : j = u - l /\ u = l + j /\ j < m
        BY <1>6, <1>7, <1>8, <2>3, <2>4
      <3>2. T!Torn(j) /\ done = 0 /\ offset = request.offset
        BY <1>24, <2>1, <3>1
      <3>7. j \in Nat /\ j < n
        BY <1>6, <3>1
      <3>3. offset + j \in Reach /\ u = T!Loc(offset + j)
        BY <1>6, <1>15, <3>1, <3>7
      <3>4. stored[u] = data[u]
        <4>1. 0..done - 1 = {}
          BY <3>2
        <4> QED
          BY <2>2, <4>1
      <3>5. data[u] = T!Old[u]
        <4>1. offset + j \notin request.offset..request.offset + done - 1
          BY <1>3, <3>2
        <4> QED
          BY <1>2, <1>11, <3>3, <4>1 DEF WriteInv, Unwritten
      <3>6. j \in 0..done' - 1 /\ u = T!Loc(request'.offset + j) /\ T!Torn(j)'
        BY <1>7, <1>20, <1>21, <3>1, <3>2, <3>3
      <3> QED
        BY <1>9, <3>4, <3>5, <3>6
    <2>5. CASE u \notin l..l + m - 1 /\ T!Whole(offset, n) /\ u \in T!Touched(l, n)
      <3>1. PICK j \in 0..n - 1 : u = l + j
        <4>1. u \in l..l + n - 1
          BY <1>17, <2>5
        <4>2. u - l \in 0..n - 1 /\ u = l + (u - l)
          BY <1>6, <1>8, <2>3, <4>1
        <4> QED
          BY <4>2
      <3>2. T!Torn(j) /\ offset = request.offset
        BY <1>24, <2>1, <3>1
      <3>3. offset % Units > 0 /\ offset % Units = 0
        BY <2>5, <3>2 DEF T!Torn, T!Whole
      <3> QED
        BY <3>3
    <2>6. CASE u \notin l..l + m - 1 /\ ~(T!Whole(offset, n) /\ u \in T!Touched(l, n))
      <3>1. data'[u] = data[u] /\ stored'[u] = stored[u]
        BY <1>9, <2>6
      <3>2. \A k \in 0..done - 1 : k \in 0..done' - 1
        BY <1>3, <1>7, <1>20
      <3> QED
        BY <1>20, <1>21, <2>2, <3>1, <3>2
    <2> QED
      BY <2>4, <2>5, <2>6
  <1>26. ASSUME step' = "write", done' > 0, done' < request'.length
         PROVE  offset' % Units = 0
    <2>1. m = n
      BY <1>11, <1>26
    <2>2. n # request.length - done
      BY <1>3, <1>6, <1>20, <1>26, <2>1
    <2>3. (offset + n) % Units = 0
      BY <1>4, <1>5, <2>2, ChunkMarks
    <2> QED
      BY <1>20, <2>1, <2>3
  <1>27. WriteInv'
    BY <1>12, <1>13, <1>22, <1>23, <1>25, <1>26 DEF WriteInv
  <1> QED
    BY <1>14, <1>27

\* The eviction of a page shows what is on the disk, which is the same.
LEMMA EvictKeeps ==
  ASSUME TransferInv, NEW p, T!Evict(p)
  PROVE  TransferInv'
  <1>1. UNCHANGED <<file_size, valid_size, request, offset, done, buf, iostate, step>>
    BY DEF T!Evict
  <1>2. /\ stored' = [u \in T!Span |-> IF T!PageOf(u) = p /\ u \div Units \in unsaved
                                       THEN data[u] ELSE stored[u]]
        /\ data' = [u \in T!Span |-> IF T!PageOf(u) = p THEN stored'[u] ELSE data[u]]
        /\ unsaved' = {k \in unsaved : (First + k) \div PerPage # p}
    BY DEF T!Evict
  <1>3. TransferTypes' /\ (Progress => Progress')
    BY <1>1 DEF TransferInv, TransferTypes, Progress
  <1>4. ASSUME ReadInv PROVE ReadInv'
    <2>1. data = T!Old /\ stored = T!Old /\ unsaved = {}
      BY <1>4 DEF ReadInv
    <2>2. stored' = T!Old
      BY <1>2, <2>1 DEF T!Old
    <2>3. data' = T!Old /\ unsaved' = {}
      BY <1>2, <2>1, <2>2 DEF T!Old
    <2> QED
      BY <1>1, <1>3, <1>4, <2>2, <2>3 DEF ReadInv, T!Old, T!Loc
  <1>5. ASSUME WriteInv, request.kind = "write" PROVE WriteInv'
    <2>1. \A k : T!Torn(k)' <=> T!Torn(k)
      BY <1>1, TornStays
    <2>2. /\ request.offset \in Nat /\ done \in Nat
          /\ request.offset + done <= MaxSize + MaxLen
      <3>1. /\ request.offset \in Nat /\ request.length \in Nat /\ done \in Nat
            /\ request.offset <= MaxSize /\ request.length <= MaxLen
            /\ done <= request.length /\ MaxSize \in Nat /\ MaxLen \in Nat
        BY <1>5, IOFacts DEF TransferInv, TransferTypes, WriteInv, Progress
      <3> QED
        BY <3>1
    <2>3. ASSUME NEW k \in 0..done - 1 PROVE request.offset + k \in Reach
      <3>1. MaxSize \in Nat /\ MaxLen \in Nat
        BY IOFacts
      <3>2. k \in Nat /\ k < done
        BY <2>2
      <3>3. request.offset + k \in Nat /\ request.offset + k <= MaxSize + MaxLen
        BY <2>2, <3>1, <3>2
      <3> QED
        BY <3>1, <3>3 DEF Reach
    <2>4. ASSUME NEW u \in T!Span
          PROVE  \/ data'[u] = data[u] /\ stored'[u] \in {data[u], stored[u]}
                 \/ /\ data'[u] = stored'[u] /\ stored'[u] = T!Old[u]
                    /\ \E k \in 0..done - 1 : T!Torn(k) /\ u = T!Loc(request.offset + k)
      <3>1. CASE T!PageOf(u) = p /\ u \div Units \notin unsaved
        <4>1. data'[u] = stored[u] /\ stored'[u] = stored[u]
          BY <1>2, <3>1
        <4>2. \/ stored[u] = data[u]
              \/ \E k \in 0..done - 1 : /\ T!Torn(k) /\ u = T!Loc(request.offset + k)
                                        /\ stored[u] = T!Old[u]
          BY <1>5, <3>1 DEF WriteInv, OnDisk
        <4> QED
          BY <4>1, <4>2
      <3>2. CASE ~(T!PageOf(u) = p /\ u \div Units \notin unsaved)
        BY <1>2, <3>2
      <3> QED
        BY <3>1, <3>2
    <2>5. Written'
      <3> SUFFICES ASSUME NEW k \in 0..done - 1
                   PROVE  \/ data'[T!Loc(request.offset + k)] = <<"new", k>>
                          \/ /\ T!Torn(k)
                             /\ data'[T!Loc(request.offset + k)]
                                  = T!Old[T!Loc(request.offset + k)]
                             /\ stored'[T!Loc(request.offset + k)]
                                  = T!Old[T!Loc(request.offset + k)]
        BY <1>1, <2>1 DEF Written, T!Loc, T!Old
      <3>1. PICK u \in T!Span : u = T!Loc(request.offset + k)
        BY <2>3, LocIn
      <3>2. \/ data[u] = <<"new", k>>
            \/ T!Torn(k) /\ data[u] = T!Old[u] /\ stored[u] = T!Old[u]
        BY <1>5, <3>1 DEF WriteInv, Written
      <3>3. ASSUME NEW i \in 0..done - 1, u = T!Loc(request.offset + i) PROVE i = k
        <4>1. request.offset + i = request.offset + k
          BY <2>3, <3>1, <3>3, LocInjective
        <4> QED
          BY <2>2, <4>1
      <3> QED
        BY <2>4, <3>1, <3>2, <3>3
    <2>6. Unwritten'
      <3>1. ASSUME NEW w \in Reach, w \notin request.offset..request.offset + done - 1
            PROVE  data'[T!Loc(w)] = data[T!Loc(w)]
        <4>1. PICK u \in T!Span : u = T!Loc(w)
          BY LocIn
        <4>2. ASSUME NEW k \in 0..done - 1, u = T!Loc(request.offset + k) PROVE FALSE
          <5>1. w = request.offset + k
            BY <2>3, <4>1, <4>2, LocInjective
          <5> QED
            BY <2>2, <3>1, <5>1
        <4> QED
          BY <2>4, <4>1, <4>2
      <3> QED
        BY <1>1, <1>5, <3>1 DEF WriteInv, Unwritten, T!Old, T!Loc
    <2>7. OnDisk'
      <3> SUFFICES ASSUME NEW u \in T!Span, u \div Units \notin unsaved'
                   PROVE  \/ stored'[u] = data'[u]
                          \/ \E k \in 0..done - 1 :
                               /\ T!Torn(k) /\ u = T!Loc(request.offset + k)
                               /\ stored'[u] = T!Old[u]
        BY <1>1, <2>1 DEF OnDisk, T!Loc, T!Old
      <3>1. CASE T!PageOf(u) = p
        BY <1>2, <3>1
      <3>2. CASE T!PageOf(u) # p
        <4>1. u \div Units \notin unsaved
          BY <1>2, <3>2 DEF T!PageOf
        <4>2. stored'[u] = stored[u] /\ data'[u] = data[u]
          BY <1>2, <3>2
        <4> QED
          BY <1>5, <4>1, <4>2 DEF WriteInv, OnDisk
      <3> QED
        BY <3>1, <3>2
    <2> QED
      BY <1>1, <1>3, <1>5, <2>5, <2>6, <2>7 DEF WriteInv
  <1>6. (T!Plain' <=> T!Plain) /\ request' = request
    BY <1>1 DEF T!Plain
  <1> QED
    BY <1>3, <1>4, <1>5, <1>6 DEF TransferInv

\* Every step keeps the invariant.
LEMMA NextTransfer == TransferInv /\ T!Next => TransferInv'
  <1> SUFFICES ASSUME TransferInv, T!Next PROVE TransferInv'
    OBVIOUS
  <1>1. TransferTypes
    BY DEF TransferInv
  <1>2. request.kind \in {"read", "write"} /\ request.length \in Nat
    BY <1>1, IOFacts DEF TransferTypes
  <1>3. CASE T!WriteChunk
    <2>1. WriteInv' /\ TransferTypes' /\ request' = request /\ request.kind = "write"
      <3>1. step = "write" /\ request' = request
        BY <1>3 DEF T!WriteChunk
      <3> QED
        BY <1>1, <1>3, <3>1, WriteChunkKeeps DEF TransferTypes
    <2>2. request'.kind # "read"
      BY <2>1
    <2> QED
      BY <2>1, <2>2 DEF TransferInv
  <1>4. CASE T!ReadChunk \/ T!ReadZero
    <2>1. /\ step = "read" /\ done < request.length /\ offset < file_size
          /\ UNCHANGED <<data, stored, unsaved, file_size, valid_size, request>>
          /\ step' \in {"read", "end"}
      BY <1>4 DEF T!ReadChunk, T!ReadZero, T!More, T!Fail
    <2>2. request.kind = "read"
      BY <1>1, <1>2, <2>1 DEF TransferTypes
    <2>3. TransferTypes'
      BY <1>1, <2>1, <2>2 DEF TransferTypes
    <2>4. ASSUME T!Plain PROVE ReadInv'
      <3>1. T!ReadChunk
        <4> SUFFICES ASSUME T!ReadZero PROVE FALSE
          BY <1>4
        <4>1. offset >= valid_size
          BY DEF T!ReadZero
        <4>2. ReadInv /\ Progress
          BY <2>2, <2>4 DEF TransferInv, ReadInv
        <4>3. /\ offset = request.offset + done /\ done \in Nat
              /\ request.offset \in Nat /\ valid_size \in Nat /\ file_size \in Nat
          BY <1>1, <1>2, <4>2, IOFacts DEF TransferTypes, Progress
        <4>4. valid_size = file_size \/ request.offset + request.length <= valid_size
          BY <2>4 DEF T!Plain
        <4> QED
          BY <1>2, <2>1, <4>1, <4>3, <4>4
      <3> QED
        BY <2>4, <3>1, ReadChunkKeeps
    <2>5. T!Plain' <=> T!Plain
      BY <2>1 DEF T!Plain
    <2>6. request'.kind # "write"
      BY <2>1, <2>2
    <2> QED
      BY <2>3, <2>4, <2>5, <2>6 DEF TransferInv
  <1>5. CASE T!Nothing \/ T!ReadEof \/ T!ReadFails \/ T!ReadEnd \/ T!WriteFails \/ T!WriteEnd
    <2>1. /\ step \in {"read", "write"} /\ step' = "end"
          /\ UNCHANGED <<data, stored, unsaved, file_size, valid_size, request, offset,
                         done, buf>>
      BY <1>5 DEF T!Nothing, T!ReadEof, T!ReadFails, T!ReadEnd, T!WriteFails, T!WriteEnd, T!Fail
    <2>2. iostate = {} =>
            /\ iostate' \in {{}, {"MEM"}, {"EOF"}, {"FS"}, {"MEDIA"}}
            /\ iostate' = {} => ~(done < request.length)
            /\ iostate' = {"EOF"} => offset >= file_size
      BY <1>5 DEF T!Nothing, T!ReadEof, T!ReadFails, T!ReadEnd, T!WriteFails, T!WriteEnd,
                  T!Fail, T!More
    <2>3. TransferTypes'
      BY <1>1, <2>1 DEF TransferTypes
    <2>4. ASSUME Progress PROVE Progress' /\ iostate = {}
      <3>1. iostate = {} /\ done \in 0..request.length
        BY <2>1, <2>4 DEF Progress
      <3>2. iostate' = {} => done = request.length
        BY <1>2, <2>2, <3>1
      <3> QED
        BY <2>1, <2>4, <3>1, <3>2 DEF Progress
    <2>5. ASSUME ReadInv PROVE ReadInv'
      <3>1. Progress' /\ iostate = {}
        BY <2>4, <2>5 DEF ReadInv
      <3>2. "EOF" \in iostate' => offset >= file_size
        BY <2>2, <3>1
      <3> QED
        BY <2>1, <2>5, <3>1, <3>2 DEF ReadInv, T!Old, T!Loc
    <2>6. ASSUME WriteInv PROVE WriteInv'
      <3>1. Progress' /\ iostate = {}
        BY <2>4, <2>6 DEF WriteInv
      <3>2. \A u \in Reach : u \notin request.offset..request.offset + done - 1 =>
              data[T!Loc(u)] = T!Old[T!Loc(u)]
        BY <2>6, <3>1 DEF WriteInv, Unwritten
      <3>3. Unwritten'
        BY <2>1, <3>2 DEF Unwritten, T!Old, T!Loc
      <3>4. \A k : T!Torn(k)' <=> T!Torn(k)
        BY <2>1, TornStays
      <3>5. Written' /\ OnDisk'
        BY <2>1, <2>6, <3>4 DEF WriteInv, Written, OnDisk, T!Old, T!Loc
      <3> QED
        BY <2>1, <2>6, <3>1, <3>3, <3>5 DEF WriteInv
    <2>7. (T!Plain' <=> T!Plain) /\ request'.kind = request.kind
      BY <2>1 DEF T!Plain
    <2> QED
      BY <2>3, <2>5, <2>6, <2>7 DEF TransferInv
  <1> QED
    BY <1>3, <1>4, <1>5, EvictKeeps DEF T!Next

\* The invariant says what ReadIsExact and WriteIsExact say.
LEMMA TransferShows == TransferInv => T!ReadIsExact /\ T!WriteIsExact
  <1> SUFFICES ASSUME TransferInv PROVE T!ReadIsExact /\ T!WriteIsExact
    OBVIOUS
  <1>1. TransferTypes
    BY DEF TransferInv
  <1>2. T!ReadIsExact
    <2> SUFFICES ASSUME request.kind = "read", T!Plain
                 PROVE  /\ offset = request.offset + done
                        /\ \A k \in 0..done - 1 : buf[k] = T!Old[T!Loc(request.offset + k)]
                        /\ \A k \in DOMAIN buf : k >= done => buf[k] = <<"buf">>
                        /\ step = "end" => /\ iostate = {} => done = request.length
                                           /\ "EOF" \in iostate => offset >= file_size
                                           /\ done > 0 => offset <= file_size
      BY DEF T!ReadIsExact
    <2>1. ReadInv
      BY DEF TransferInv
    <2>2. offset \in Nat /\ valid_size \in Nat /\ file_size \in Nat /\ valid_size <= file_size
      <3>1. request.offset \in Nat /\ done \in Nat
        BY <1>1, <2>1, IOFacts DEF TransferTypes, ReadInv, Progress
      <3> QED
        BY <1>1, <2>1, <3>1 DEF TransferTypes, ReadInv, Progress
    <2>3. done > 0 => offset <= file_size
      BY <2>1, <2>2 DEF ReadInv
    <2> QED
      BY <2>1, <2>3 DEF ReadInv, Progress
  <1>3. T!WriteIsExact
    <2> SUFFICES ASSUME request.kind = "write" PROVE T!WriteIsExact
      BY DEF T!WriteIsExact
    <2>1. WriteInv
      BY DEF TransferInv
    <2>2. file_size >= valid_size
      BY <1>1 DEF TransferTypes
    <2>3. ASSUME NEW k \in 0..done - 1
          PROVE  LET u == T!Loc(request.offset + k) IN
                 \/ /\ data[u] = <<"new", k>>
                    /\ u \div Units \in unsaved \/ stored[u] = data[u] \/ T!Torn(k)
                 \/ T!Torn(k) /\ data[u] = T!Old[u] /\ stored[u] = T!Old[u]
      <3>1. ASSUME NEW i \in 0..done - 1 PROVE request.offset + i \in Reach
        <4>1. /\ request.offset \in Nat /\ request.length \in Nat /\ done \in Nat
              /\ request.offset <= MaxSize /\ request.length <= MaxLen
              /\ done <= request.length /\ MaxSize \in Nat /\ MaxLen \in Nat
          BY <1>1, <2>1, IOFacts DEF TransferTypes, WriteInv, Progress
        <4> QED
          BY <4>1 DEF Reach
      <3>2. PICK u \in T!Span : u = T!Loc(request.offset + k)
        BY <3>1, LocIn
      <3>3. ASSUME NEW i \in 0..done - 1, u = T!Loc(request.offset + i) PROVE i = k
        <4>1. request.offset + i = request.offset + k
          BY <3>1, <3>2, <3>3, LocInjective
        <4>2. request.offset \in Nat
          BY <1>1, IOFacts DEF TransferTypes
        <4> QED
          BY <4>1, <4>2
      <3>4. u \div Units \in unsaved \/ stored[u] = data[u] \/ T!Torn(k)
        BY <2>1, <3>3 DEF WriteInv, OnDisk
      <3>5. \/ data[u] = <<"new", k>>
            \/ T!Torn(k) /\ data[u] = T!Old[u] /\ stored[u] = T!Old[u]
        BY <2>1, <3>2 DEF WriteInv, Written
      <3> QED
        BY <3>2, <3>4, <3>5
    <2> QED
      BY <2>1, <2>2, <2>3 DEF WriteInv, Unwritten, Progress, T!WriteIsExact, Reach
  <1> QED
    BY <1>2, <1>3

(***************************************************************************)
(* The theorems                                                            *)
(***************************************************************************)
\* A step that leaves a component alone keeps its invariant.
LEMMA Stutters ==
  /\ RequestInv /\ UNCHANGED requests => RequestInv'
  /\ TransferInv /\ UNCHANGED transfer => TransferInv'
  /\ VolumeInv /\ UNCHANGED volume => VolumeInv'
  <1>1. RequestInv /\ UNCHANGED requests => RequestInv'
    BY Untouched DEF requests, kept
  <1>2. TransferInv /\ UNCHANGED transfer => TransferInv'
    <2> SUFFICES ASSUME TransferInv, UNCHANGED transfer PROVE TransferInv'
      OBVIOUS
    <2>1. UNCHANGED <<data, stored, unsaved, file_size, valid_size, request, offset, done,
                      buf, iostate, step>>
      BY DEF transfer
    <2>2. \A k : T!Torn(k)' <=> T!Torn(k)
      BY <2>1, TornStays
    <2>3. WriteInv => WriteInv'
      BY <2>1, <2>2 DEF WriteInv, Written, Unwritten, OnDisk, Progress, T!Old, T!Loc
    <2> QED
      BY <2>1, <2>3 DEF TransferInv, TransferTypes, ReadInv, Progress, T!Plain, T!Old, T!Loc
  <1>3. VolumeInv /\ UNCHANGED volume => VolumeInv'
    <2> SUFFICES ASSUME VolumeInv, UNCHANGED volume PROVE VolumeInv'
      OBVIOUS
    <2>1. UNCHANGED <<device, at, base, top, fat_start, heap, cluster_count, cluster_shift,
                      fat_index, cluster, index, bitmap, flags, volume_state, mark, saved,
                      pending, setter, stopper, failed, early>>
      BY DEF volume
    <2>2. Marked'
      BY <2>1 DEF VolumeInv, Marked
    <2> QED
      BY <2>1, <2>2, MarkStep
  <1> QED
    BY <1>1, <1>2, <1>3

\* A request to a file is in one place from the call that posts it until it
\* ends: with the thread that posts it, in request_list or with one worker,
\* however threads, workers, closed handles, signals and the stop of the pool
\* interleave; the file keeps a reference that long; and stop returns only
\* when all workers have left.
THEOREM RequestsStayConserved == Spec => []RequestsConserved
  <1> DEFINE Inv == part = "requests" => RequestInv
  <1>1. Init => Inv
    BY InitRequests DEF Init
  <1>2. Inv /\ [Next]_vars => Inv'
    <2> SUFFICES ASSUME part = "requests" => RequestInv, [Next]_vars,
                        part' = "requests"
                 PROVE  RequestInv'
      OBVIOUS
    <2>1. part = "requests" /\ RequestInv
      BY DEF Next, vars
    <2>2. Q!Next \/ UNCHANGED requests
      BY <2>1 DEF Next, vars
    <2> QED
      BY <2>1, <2>2, NextRequests, Stutters
  <1>3. Inv => RequestsConserved
    BY RequestsShow DEF RequestsConserved
  <1> QED
    BY <1>1, <1>2, <1>3, PTL DEF Spec

\* worker_read and worker_write transfer each unit that they report once and
\* in its place, whatever the sizes of sectors, pages and clusters and
\* wherever the request begins and ends, and touch nothing else.  Whichever
\* pages are evicted in between or afterwards, what was written stays, but for
\* the last sector of a request within one chunk that begins within a sector
\* and whose length needs a sector less than it touches.
THEOREM TransfersAreExact == Spec => []TransferIsExact
  <1> DEFINE Inv == part = "transfer" => TransferInv
  <1>1. Init => Inv
    BY InitTransfer DEF Init
  <1>2. Inv /\ [Next]_vars => Inv'
    <2> SUFFICES ASSUME part = "transfer" => TransferInv, [Next]_vars,
                        part' = "transfer"
                 PROVE  TransferInv'
      OBVIOUS
    <2>1. part = "transfer" /\ TransferInv
      BY DEF Next, vars
    <2>2. T!Next \/ UNCHANGED transfer
      BY <2>1 DEF Next, vars
    <2> QED
      BY <2>1, <2>2, NextTransfer, Stutters
  <1>3. Inv => TransferIsExact
    BY TransferShows DEF TransferIsExact
  <1> QED
    BY <1>1, <1>2, <1>3, PTL DEF Spec

\* Whatever numbers the header of an accepted volume holds: what lba_of_fat
\* gives lies in the FAT, before the clusters, with an entry for each cluster,
\* and what lba_of_cluster gives ends before the volume does, but for the part
\* that a wrapped product, count or shift spoils; the bitmap lies between the
\* first cluster and the end and comes from a record that is long enough; and
\* the mark of a volume that was not stopped is kept by set_rw and stop, if its
\* header was read and stop did not overtake set_rw.
THEOREM VolumeStaysSound == Spec => []VolumeIsSound
  <1> DEFINE Inv == part = "volume" => VolumeInv
  <1>1. Init => Inv
    BY InitVolume DEF Init
  <1>2. Inv /\ [Next]_vars => Inv'
    <2> SUFFICES ASSUME part = "volume" => VolumeInv, [Next]_vars, part' = "volume"
                 PROVE  VolumeInv'
      OBVIOUS
    <2>1. part = "volume" /\ VolumeInv
      BY DEF Next, vars
    <2>2. V!Next \/ UNCHANGED volume
      BY <2>1 DEF Next, vars
    <2> QED
      BY <2>1, <2>2, NextVolume, Stutters
  <1>3. Inv => VolumeIsSound
    BY VolumeShows DEF VolumeIsSound
  <1> QED
    BY <1>1, <1>2, <1>3, PTL DEF Spec
=============================================================================
