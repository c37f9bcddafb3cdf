---------------------------- MODULE FileConstants ---------------------------
(***************************************************************************)
(* The parameters of the requests to the file system (FileRequests) and of *)
(* a volume: its header and root folder (Mount), the records of a folder   *)
(* (FolderRecords) and the contents of a file (FileIO).                    *)
(***************************************************************************)
EXTENDS Integers, FiniteSets, Sequences

\* requests
CONSTANTS
  Handles,    \* file objects, each known by one handle of the process
  Folders,    \* those that stand for a folder
  Threads,    \* threads of the process
  Workers,    \* the worker threads that exfat::exfat(count) launches
  MaxCalls    \* bound on the calls of read and write

\* volumes
CONSTANTS
  Disks,       \* the disks: the header in sector 0 (h0), the partition table
               \* (part), the header (h1) of the partition, the first sector
               \* of each cluster of the root folder with the cluster that
               \* follows (dir), whether the checksum is right (sum) and
               \* whether the volume is marked as being written (marked)
  MinFat,      \* 24: the least offset of the FAT
  WordBits, LongBits, Word, Long, \* bits and numbers of a dword and of a qword
  SectorShift, \* 9: SECTOR_SIZE is 2^9
  BadCluster,  \* 0xFFFFFFF7
  Entries,     \* element_per_sector, also record_per_sector
  Contents,    \* the folders: sequences of sets of records, no name twice
  PerSec,      \* record_per_sector
  Sizes,       \* the sizes that are written
  Units,       \* units of a sector
  PerPage,     \* sectors of a page of the cache
  PerCluster,  \* sectors of a cluster
  First,       \* the position of the first sector of the heap in its page
  MaxSize,     \* bound on offsets and sizes, in units
  MaxLen       \* bound on the length of a request

None == "none"
Stopper == "stopper"    \* the thread in exfat::stop, which runs once

ASSUME RequestAssumption ==
  /\ Folders \subseteq Handles
  /\ Workers # {} /\ IsFiniteSet(Workers) /\ MaxCalls \in Nat
  /\ {None, Stopper} \cap (Handles \cup Threads \cup Workers) = {}

\* what a disk may hold: any numbers of the width of their fields
Dword == 0..Word - 1
BootSector ==
  [magic : BOOLEAN, base : 0..Long - 1, limit : 0..Long - 1, fat_offset : Dword,
   fat_length : Dword, fat_count : Nat, active : {0, 1}, cluster_offset : Dword,
   cluster_count : Dword, shift : Nat, root : Dword]
Record == [type : {"end", "bitmap", "file"}, fat : {0, 1}, length : Nat, cluster : Dword]
Sector == [1..Entries -> Record]

ASSUME MountAssumption ==
  /\ MinFat \in Nat /\ Entries \in Nat \ {0}
  /\ SectorShift \in Nat /\ 2^SectorShift \in Nat \ {0}
  /\ WordBits \in Nat \ {0} /\ LongBits \in Nat /\ WordBits < LongBits
  /\ \A n \in 0..LongBits - 1 : 2^n \in Nat /\ (n < WordBits => 2^n <= Word)
  /\ Word \in Nat /\ Long \in Nat /\ Word >= 2 /\ 4 * Word <= Long
  /\ BadCluster \in Dword
  /\ Disks \subseteq [h0 : BootSector, h1 : BootSector,
                     part : [found : BOOLEAN, start : Dword, length : Dword],
                     dir : Seq([first : Sector, next : Dword]),
                     sum : BOOLEAN, marked : BOOLEAN]

ASSUME FolderAssumption == Contents # {} /\ PerSec \in Nat /\ PerSec > 2

ASSUME IOAssumption ==
  /\ Units \in Nat \ {0} /\ PerPage \in Nat \ {0} /\ PerCluster \in Nat \ {0}
  /\ First \in 0..PerPage - 1 /\ MaxSize \in Nat /\ MaxLen \in Nat \ {0}
=============================================================================
