--------------------------- MODULE Storage_proofs ---------------------------
(***************************************************************************)
(* The storage components: the disk cache is transparent, the tree of open *)
(* files is counted exactly, and the cluster chains of files stay apart.   *)
(*                                                                         *)
(* A page may be in a slot of the cache, on the disk or, while it is       *)
(* reloaded, in neither; the scan of get looks at slots without their locks,*)
(* slots change hands between two looks, and operations of the disk fail half*)
(* way. DataTrue says where the truth is for each sector at each moment. For*)
(* the tree, TreeInv names those who count for an instance; for the chains,*)
(* ChainInv names the clusters of each file. Each of the three has a part of*)
(* this module of its own.                                                 *)
(*                                                                         *)
(* One lemma per action shows that it keeps the invariant of its component.*)
(* The steps of the other components of Storage do not touch it.           *)
(***************************************************************************)
EXTENDS Storage, FiniteSetTheorems, WellFoundedInduction, TLAPS

(***************************************************************************)
(* The inductive invariant                                                 *)
(***************************************************************************)
Content == {Zero} \cup (DiskPages \X Sector \X Values)
SlotData == [lba : DiskPages \cup {NULL}, valid : SUBSET Sector,
             dirty : SUBSET Sector, data : [Sector -> Content],
             locked : BOOLEAN]
Request == [page : DiskPages \cup {NULL}, sectors : SUBSET Sector,
            write : BOOLEAN, index : 1..Slots + 1, target : 0..Slots,
            has : 0..Slots]
Where == {"idle", "scan", "lock", "take", "wait", "io", "use"}
Contents == [DiskPages -> [Sector -> Content]]

CacheTypes ==
  /\ disk \in Contents /\ written \in Contents
  /\ slot \in [Slot -> SlotData] /\ req \in [Clients -> Request]
  /\ pc \in [Clients -> Where]
  /\ halt \in BOOLEAN /\ twice \in SUBSET (DiskPages \X Sector)

\* a client that has locked a slot
Owns(c) == pc[c] \in {"io", "use"}

\* A client inside get asks for sectors of a page, and locks a slot.
Requested ==
  \A c \in Clients :
    /\ pc[c] # "idle" => req[c].page \in DiskPages /\ req[c].sectors # {}
    /\ pc[c] = "lock" => req[c].index \in Slot

\* The slot of a client is locked, holds its page and is nobody else's; the
\* page is valid once it has been read in.
Owned ==
  \A c \in Clients : Owns(c) =>
    LET i == req[c].has IN
    /\ i \in Slot /\ slot[i].locked /\ slot[i].lba = req[c].page
    /\ pc[c] = "use" => req[c].sectors \subseteq slot[i].valid
    /\ pc[c] = "io" => slot[i].valid = {}
    /\ \A e \in Clients : Owns(e) /\ req[e].has = i => e = c

DirtyIsValid ==
  \A i \in Slot : /\ slot[i].dirty \subseteq slot[i].valid
                  /\ slot[i].valid # {} => slot[i].lba \in DiskPages

\* sector s of slot i is zeroed and not filled yet
Blank(i, s) == \E c \in Clients : /\ pc[c] = "use" /\ req[c].write
                                  /\ req[c].has = i /\ s \in req[c].sectors

Holds(i, p, s) == slot[i].lba = p /\ s \in slot[i].valid

\* one slot at most holds page p
Single(p) ==
  \A i, j \in Slot : i # j /\ slot[i].lba = p /\ slot[j].lba = p =>
                       slot[i].valid = {} \/ slot[j].valid = {}

\* A valid sector is what was written last, unless it is blank, and is dirty
\* unless the disk has it too; if no slot has it the disk is right about it.
TrueAt(p, s) ==
  /\ Single(p)
  /\ \A i \in Slot : Holds(i, p, s) =>
       /\ slot[i].data[s] = written[p][s] \/ Blank(i, s)
       /\ s \in slot[i].dirty \/ slot[i].data[s] = disk[p][s]
  /\ (\A i \in Slot : ~Holds(i, p, s)) => disk[p][s] = written[p][s]

\* That is so for every sector written since two slots held its page.
DataTrue ==
  \A p \in DiskPages, s \in Sector : <<p, s>> \in twice \/ TrueAt(p, s)

CacheInv ==
  /\ CacheTypes /\ Requested /\ Owned /\ DirtyIsValid
  /\ DataTrue /\ ContentsAreOwn

(***************************************************************************)
(* What the steps of the cache do                                          *)
(***************************************************************************)
\* Flushed writes the dirty sectors of the slot and nothing else.
LEMMA FlushedAt ==
  ASSUME CacheTypes, DirtyIsValid, NEW i \in Slot
  PROVE  /\ Flushed(i) \in Contents
         /\ \A p \in DiskPages, s \in Sector :
              Flushed(i)[p][s] = IF p = slot[i].lba /\ s \in slot[i].dirty
                                 THEN slot[i].data[s] ELSE disk[p][s]
  <1>1. CASE slot[i].dirty = {}
    <2>1. Flushed(i) = disk
      BY <1>1 DEF Flushed
    <2> QED
      BY <1>1, <2>1 DEF CacheTypes
  <1>2. CASE slot[i].dirty # {}
    <2>1. slot[i] \in SlotData /\ slot[i].lba \in DiskPages
      BY <1>2 DEF CacheTypes, DirtyIsValid
    <2> DEFINE new == [s \in Sector |-> IF s \in slot[i].dirty
                                       THEN slot[i].data[s]
                                       ELSE disk[slot[i].lba][s]]
    <2>2. new \in [Sector -> Content]
      BY <2>1 DEF CacheTypes, Contents, SlotData
    <2>3. Flushed(i) = [disk EXCEPT ![slot[i].lba] = new]
      BY <1>2 DEF Flushed
    <2>4. Flushed(i) \in Contents
      BY <2>1, <2>2, <2>3 DEF CacheTypes, Contents
    <2>5. \A p \in DiskPages : Flushed(i)[p] = IF p = slot[i].lba
                                             THEN new ELSE disk[p]
      BY <2>1, <2>3 DEF CacheTypes, Contents
    <2>6. ASSUME NEW p \in DiskPages, NEW s \in Sector
          PROVE  Flushed(i)[p][s] = IF p = slot[i].lba /\ s \in slot[i].dirty
                                    THEN slot[i].data[s] ELSE disk[p][s]
      <3>1. CASE p = slot[i].lba
        <4>1. Flushed(i)[p] = new /\ disk[p] = disk[slot[i].lba]
          BY <3>1, <2>5
        <4> QED
          BY <4>1, <3>1
      <3>2. CASE p # slot[i].lba
        BY <3>2, <2>5
      <3> QED
        BY <3>1, <3>2
    <2> QED
      BY <2>4, <2>6
  <1> QED
    BY <1>1, <1>2

\* What is written back belongs to the page.
LEMMA FlushedIsOwn ==
  ASSUME CacheTypes, DirtyIsValid, ContentsAreOwn, NEW i \in Slot
  PROVE  \A p \in DiskPages, s \in Sector : Flushed(i)[p][s] \in OwnOf(p, s)
  <1> TAKE p \in DiskPages, s \in Sector
  <1>1. Flushed(i)[p][s] = IF p = slot[i].lba /\ s \in slot[i].dirty
                           THEN slot[i].data[s] ELSE disk[p][s]
    BY FlushedAt
  <1>2. disk[p][s] \in OwnOf(p, s)
    BY DEF ContentsAreOwn
  <1>3. s \in slot[i].dirty => slot[i].data[s] \in OwnOf(slot[i].lba, s)
    BY DEF ContentsAreOwn, DirtyIsValid
  <1> QED
    BY <1>1, <1>2, <1>3

\* A step that writes nothing keeps DataTrue if it keeps what is true of the
\* sectors of pages that stay in one slot.
LEMMA DataKept ==
  ASSUME DataTrue, SetSlots(slot'),
         \A p \in DiskPages, s \in Sector :
           TrueAt(p, s) /\ Single(p)' => TrueAt(p, s)'
  PROVE  DataTrue'
  <1> SUFFICES ASSUME NEW p \in DiskPages, NEW s \in Sector,
                      <<p, s>> \notin twice'
               PROVE  TrueAt(p, s)'
    BY DEF DataTrue
  <1>1. twice' = (twice \ {}) \cup Doubled(slot')
    BY DEF SetSlots, Rewrite
  <1>2. <<p, s>> \notin twice /\ <<p, s>> \notin Doubled(slot')
    BY <1>1
  <1>3. Single(p)'
    BY <1>2 DEF Single, Doubled
  <1> QED
    BY <1>2, <1>3 DEF DataTrue

\* The sectors of pages in two slots are sectors of pages.
LEMMA TwiceType ==
  ASSUME CacheTypes, SetSlots(slot')
  PROVE  twice' \in SUBSET (DiskPages \X Sector)
  BY DEF CacheTypes, SetSlots, Rewrite, Doubled

\* A slot is an index that a request can hold; zero is none.
LEMMA SlotIsIndex == Slot \subseteq 0..Slots
  BY StorageAssumption DEF Slot

\* Nobody works on a slot that is not locked.
LEMMA FreeIsUnowned ==
  ASSUME Owned, NEW i \in Slot, ~slot[i].locked
  PROVE  /\ \A e \in Clients : Owns(e) => req[e].has # i
         /\ \A s \in Sector : ~Blank(i, s)
  BY DEF Owned, Owns, Blank

\* A slot that keeps its contents stays true if its page is neither written
\* to the disk nor filled.
LEMMA OtherSlot ==
  ASSUME NEW j \in Slot, NEW p \in DiskPages,
         NEW s \in Sector, TrueAt(p, s), Holds(j, p, s)', slot'[j] = slot[j],
         Blank(j, s) => Blank(j, s)', disk'[p][s] = disk[p][s],
         written'[p][s] = written[p][s]
  PROVE  /\ slot'[j].data[s] = written'[p][s] \/ Blank(j, s)'
         /\ s \in slot'[j].dirty \/ slot'[j].data[s] = disk'[p][s]
  <1>1. Holds(j, p, s)
    BY DEF Holds
  <1>2. /\ slot[j].data[s] = written[p][s] \/ Blank(j, s)
        /\ s \in slot[j].dirty \/ slot[j].data[s] = disk[p][s]
    BY <1>1 DEF TrueAt
  <1> QED
    BY <1>2

\* slot::store, for a page that the slot had and for another one: the old
\* page is true on the disk, the sectors asked for are blank.
LEMMA StoreStep ==
  ASSUME CacheInv, NEW c \in Clients, NEW i \in Slot, ~slot[i].locked,
         pc[c] \in {"lock", "take"}, req[c].write,
         req' = [req EXCEPT ![c].has = i], store(c, i),
         UNCHANGED written
  PROVE  CacheInv'
  <1> USE DEF CacheInv
  <1> DEFINE q == req[c].page
             moved == slot[i].lba # q
             sec == req[c].sectors
             dirty == (IF moved THEN {} ELSE slot[i].dirty) \cup sec
             valid == (IF moved THEN {} ELSE slot[i].valid) \cup dirty
             data == [s \in Sector |->
                        IF s \in sec \/ moved THEN Zero ELSE slot[i].data[s]]
  <1>1. /\ q \in DiskPages /\ sec \subseteq Sector /\ sec # {}
        /\ slot[i] \in SlotData /\ req[c] \in Request
    BY DEF CacheTypes, Requested, Request
  <1>2. /\ disk' = IF moved THEN Flushed(i) ELSE disk
        /\ slot' = [slot EXCEPT ![i].locked = TRUE, ![i].lba = q,
                      ![i].dirty = dirty, ![i].valid = valid,
                      ![i].data = data]
        /\ SetSlots(slot')
        /\ pc' = [pc EXCEPT ![c] = "use"] /\ halt' = halt
        /\ written' = written
    BY DEF store, SetSlots, Rewrite, Goto
  <1>3. /\ dirty \in SUBSET Sector /\ valid \in SUBSET Sector
        /\ data \in [Sector -> Content]
    BY <1>1 DEF SlotData, Content
  <1>4. /\ slot' \in [Slot -> SlotData]
        /\ slot'[i].lba = q /\ slot'[i].valid = valid
        /\ slot'[i].dirty = dirty /\ slot'[i].data = data
        /\ slot'[i].locked
        /\ \A j \in Slot \ {i} : slot'[j] = slot[j]
    <2> HIDE DEF q, moved, sec, dirty, valid, data
    <2>1. slot' = [slot EXCEPT ![i] = [slot[i] EXCEPT !.locked = TRUE,
               !.lba = q, !.dirty = dirty, !.valid = valid, !.data = data]]
      BY <1>2
    <2>2. [slot[i] EXCEPT !.locked = TRUE, !.lba = q, !.dirty = dirty,
                          !.valid = valid, !.data = data] \in SlotData
      BY <1>1, <1>3 DEF SlotData
    <2> QED
      BY <1>1, <2>1, <2>2 DEF CacheTypes, SlotData
  <1>5. /\ req' \in [Clients -> Request] /\ req'[c].has = i
        /\ req'[c].page = q /\ req'[c].sectors = sec
        /\ req'[c].write
        /\ \A e \in Clients \ {c} : req'[e] = req[e]
    <2>1. req' = [req EXCEPT ![c] = [req[c] EXCEPT !.has = i]]
      OBVIOUS
    <2>2. [req[c] EXCEPT !.has = i] \in Request
      BY <1>1, SlotIsIndex DEF Request
    <2> QED
      BY <1>1, <2>1, <2>2 DEF CacheTypes, Request
  <1>6. /\ pc'[c] = "use"
        /\ \A e \in Clients \ {c} : pc'[e] = pc[e]
    BY <1>2 DEF CacheTypes
  <1>7. disk' \in Contents
    BY <1>2, FlushedAt DEF CacheTypes
  <1>8. CacheTypes'
    BY <1>2, <1>4, <1>5, <1>7, TwiceType DEF CacheTypes, Where
  <1>9. Requested'
    BY <1>1, <1>5, <1>6 DEF Requested
  <1>10. \A e \in Clients : Owns(e) => req[e].has # i
    BY FreeIsUnowned
  <1>11. Owned'
    <2>1. \A e \in Clients : Owns(e)' => e = c \/ Owns(e)
      BY <1>6 DEF Owns
    <2>2. sec \subseteq valid
      OBVIOUS
    <2> HIDE DEF q, moved, sec, dirty, valid, data
    <2>3. ASSUME NEW e \in Clients \ {c}, Owns(e)'
          PROVE  LET k == req'[e].has IN
                 /\ k \in Slot /\ slot'[k].locked
                 /\ slot'[k].lba = req'[e].page
                 /\ pc'[e] = "use" => req'[e].sectors \subseteq slot'[k].valid
                 /\ pc'[e] = "io" => slot'[k].valid = {}
                 /\ \A b \in Clients : Owns(b)' /\ req'[b].has = k => b = e
      BY <1>4, <1>5, <1>6, <1>10, <2>1, <2>3 DEF Owned
    <2>4. LET k == req'[c].has IN
          /\ k \in Slot /\ slot'[k].locked /\ slot'[k].lba = req'[c].page
          /\ req'[c].sectors \subseteq slot'[k].valid
          /\ \A b \in Clients : Owns(b)' /\ req'[b].has = k => b = c
      BY <1>4, <1>5, <1>10, <2>1, <2>2
    <2> QED
      BY <1>6, <2>3, <2>4 DEF Owned
  <1>12. DirtyIsValid'
    BY <1>1, <1>4 DEF DirtyIsValid
  <1>d. \A p \in DiskPages, s \in Sector :
          disk'[p][s] = IF moved /\ p = slot[i].lba /\ s \in slot[i].dirty
                        THEN slot[i].data[s] ELSE disk[p][s]
    BY <1>2, FlushedAt
  <1>b. \A j \in Slot, s \in Sector : Blank(j, s) => Blank(j, s)'
    BY <1>5, <1>6 DEF Blank
  <1>13. ASSUME NEW p \in DiskPages, NEW s \in Sector, TrueAt(p, s), Single(p)'
         PROVE  TrueAt(p, s)'
    <2>1. ASSUME NEW j \in Slot \ {i}, Holds(j, p, s)'
          PROVE  /\ slot'[j].data[s] = written'[p][s] \/ Blank(j, s)'
                 /\ s \in slot'[j].dirty \/ slot'[j].data[s] = disk'[p][s]
      <3>1. Holds(j, p, s) /\ slot'[j] = slot[j]
        BY <2>1, <1>4 DEF Holds
      <3>2. ~(p = slot[i].lba /\ s \in slot[i].dirty)
        BY <3>1, <1>13 DEF Holds, TrueAt, Single, DirtyIsValid
      <3>3. disk'[p][s] = disk[p][s]
        BY <3>2, <1>d
      <3> QED
        BY <3>1, <3>3, <2>1, <1>13, <1>b, <1>2, OtherSlot
    <2>2. ASSUME Holds(i, p, s)'
          PROVE  /\ slot'[i].data[s] = written'[p][s] \/ Blank(i, s)'
                 /\ s \in slot'[i].dirty \/ slot'[i].data[s] = disk'[p][s]
      <3>1. CASE s \in sec
        BY <3>1, <1>4, <1>5, <1>6 DEF Blank
      <3>2. CASE s \notin sec
        <4>1. ~moved /\ Holds(i, p, s)
          BY <3>2, <2>2, <1>4 DEF Holds, DirtyIsValid
        <4> QED
          BY <4>1, <3>2, <1>13, <1>d, <1>b, <1>2, <1>4 DEF TrueAt
      <3> QED
        BY <3>1, <3>2
    <2>3. ASSUME \A j \in Slot : ~Holds(j, p, s)'
          PROVE  disk'[p][s] = written'[p][s]
      <3>1. \A j \in Slot \ {i} : ~Holds(j, p, s)
        BY <2>3, <1>4 DEF Holds
      <3>2. CASE Holds(i, p, s)
        <4>1. moved
          BY <3>2, <2>3, <1>4 DEF Holds
        <4> QED
          BY <4>1, <3>2, <1>13, <1>d, <1>2, FreeIsUnowned DEF TrueAt, Holds
      <3>3. CASE ~Holds(i, p, s)
        <4>1. disk[p][s] = written[p][s]
          BY <3>1, <3>3, <1>13 DEF TrueAt
        <4> QED
          BY <4>1, <3>3, <1>d, <1>2 DEF Holds, DirtyIsValid
      <3> QED
        BY <3>2, <3>3
    <2> QED
      BY <1>13, <2>1, <2>2, <2>3 DEF TrueAt
  <1>14. DataTrue'
    BY <1>2, <1>13, DataKept
  <1>15. ContentsAreOwn'
    <2>1. \A p \in DiskPages, s \in Sector : disk'[p][s] \in OwnOf(p, s)
      BY <1>2, FlushedIsOwn DEF ContentsAreOwn
    <2>2. ASSUME NEW s \in valid PROVE slot'[i].data[s] \in OwnOf(q, s)
      <3>1. CASE s \in sec \/ moved
        BY <3>1, <1>3, <1>4 DEF OwnOf
      <3>2. CASE s \notin sec /\ ~moved
        BY <3>2, <2>2, <1>3, <1>4 DEF ContentsAreOwn, DirtyIsValid
      <3> QED
        BY <3>1, <3>2
    <2>3. ASSUME NEW j \in Slot, NEW s \in slot'[j].valid
          PROVE  slot'[j].data[s] \in OwnOf(slot'[j].lba, s)
      <3>1. CASE j = i
        BY <3>1, <2>2, <2>3, <1>4
      <3>2. CASE j # i
        BY <3>2, <2>3, <1>4 DEF ContentsAreOwn
      <3> QED
        BY <3>1, <3>2
    <2> QED
      BY <2>1, <2>3 DEF ContentsAreOwn
  <1> QED
    BY <1>8, <1>9, <1>11, <1>12, <1>14, <1>15

\* slot::reload up to the read command: the page that leaves the slot is
\* true on the disk.
LEMMA ReloadStep ==
  ASSUME CacheInv, NEW c \in Clients, NEW i \in Slot, ~slot[i].locked,
         pc[c] \in {"lock", "take"},
         req' = [req EXCEPT ![c].has = i], reload(c, i),
         UNCHANGED written
  PROVE  CacheInv'
  <1> USE DEF CacheInv
  <1> DEFINE q == req[c].page
             data == [s \in Sector |-> Zero]
  <1>1. /\ q \in DiskPages /\ req[c].sectors \subseteq Sector
        /\ req[c].sectors # {}
        /\ slot[i] \in SlotData /\ req[c] \in Request
    BY DEF CacheTypes, Requested, Request
  <1>2. /\ disk' = Flushed(i)
        /\ slot' = [slot EXCEPT ![i].lba = q, ![i].dirty = {},
                      ![i].valid = {}, ![i].data = data, ![i].locked = TRUE]
        /\ SetSlots(slot')
        /\ pc' = [pc EXCEPT ![c] = "io"] /\ halt' = halt
        /\ written' = written
    BY DEF reload, SetSlots, Rewrite, Goto, Blanked
  <1>3. data \in [Sector -> Content]
    BY DEF Content
  <1>4. /\ slot' \in [Slot -> SlotData]
        /\ slot'[i].lba = q /\ slot'[i].valid = {}
        /\ slot'[i].dirty = {} /\ slot'[i].locked
        /\ \A j \in Slot \ {i} : slot'[j] = slot[j]
    <2> HIDE DEF q, data
    <2>1. slot' = [slot EXCEPT ![i] = [slot[i] EXCEPT !.lba = q,
               !.dirty = {}, !.valid = {}, !.data = data, !.locked = TRUE]]
      BY <1>2
    <2>2. [slot[i] EXCEPT !.lba = q, !.dirty = {}, !.valid = {},
                          !.data = data, !.locked = TRUE] \in SlotData
      BY <1>1, <1>3 DEF SlotData
    <2> QED
      BY <1>1, <2>1, <2>2 DEF CacheTypes, SlotData
  <1>5. /\ req' \in [Clients -> Request] /\ req'[c].has = i
        /\ req'[c].page = q /\ req'[c].sectors = req[c].sectors
        /\ \A e \in Clients \ {c} : req'[e] = req[e]
    <2>1. req' = [req EXCEPT ![c] = [req[c] EXCEPT !.has = i]]
      OBVIOUS
    <2>2. [req[c] EXCEPT !.has = i] \in Request
      BY <1>1, SlotIsIndex DEF Request
    <2> QED
      BY <1>1, <2>1, <2>2 DEF CacheTypes, Request
  <1>6. /\ pc'[c] = "io"
        /\ \A e \in Clients \ {c} : pc'[e] = pc[e]
    BY <1>2 DEF CacheTypes
  <1>7. CacheTypes'
    BY <1>2, <1>4, <1>5, FlushedAt, TwiceType DEF CacheTypes, Where
  <1>8. Requested'
    BY <1>1, <1>5, <1>6 DEF Requested
  <1>9. \A e \in Clients : Owns(e) => req[e].has # i
    BY FreeIsUnowned
  <1>10. Owned'
    BY <1>1, <1>4, <1>5, <1>6, <1>9 DEF Owned, Owns
  <1>11. DirtyIsValid'
    BY <1>1, <1>4 DEF DirtyIsValid
  <1>d. \A p \in DiskPages, s \in Sector :
          disk'[p][s] = IF p = slot[i].lba /\ s \in slot[i].dirty
                        THEN slot[i].data[s] ELSE disk[p][s]
    BY <1>2, FlushedAt
  <1>b. \A j \in Slot, s \in Sector : Blank(j, s) => Blank(j, s)'
    BY <1>5, <1>6 DEF Blank
  <1>12. ASSUME NEW p \in DiskPages, NEW s \in Sector, TrueAt(p, s), Single(p)'
         PROVE  TrueAt(p, s)'
    <2>1. ASSUME NEW j \in Slot, Holds(j, p, s)'
          PROVE  /\ slot'[j].data[s] = written'[p][s] \/ Blank(j, s)'
                 /\ s \in slot'[j].dirty \/ slot'[j].data[s] = disk'[p][s]
      <3>1. j # i /\ Holds(j, p, s) /\ slot'[j] = slot[j]
        BY <2>1, <1>4 DEF Holds
      <3>2. ~(p = slot[i].lba /\ s \in slot[i].dirty)
        BY <3>1, <1>12 DEF Holds, TrueAt, Single, DirtyIsValid
      <3>3. disk'[p][s] = disk[p][s]
        BY <3>2, <1>d
      <3> QED
        BY <3>1, <3>3, <2>1, <1>12, <1>b, <1>2, OtherSlot
    <2>2. ASSUME \A j \in Slot : ~Holds(j, p, s)'
          PROVE  disk'[p][s] = written'[p][s]
      <3>1. \A j \in Slot \ {i} : ~Holds(j, p, s)
        BY <2>2, <1>4 DEF Holds
      <3>2. CASE Holds(i, p, s)
        BY <3>2, <1>12, <1>d, <1>2, FreeIsUnowned DEF TrueAt, Holds
      <3>3. CASE ~Holds(i, p, s)
        <4>1. disk[p][s] = written[p][s]
          BY <3>1, <3>3, <1>12 DEF TrueAt
        <4> QED
          BY <4>1, <3>3, <1>d, <1>2 DEF Holds, DirtyIsValid
      <3> QED
        BY <3>2, <3>3
    <2> QED
      BY <1>12, <2>1, <2>2 DEF TrueAt
  <1>13. DataTrue'
    BY <1>2, <1>12, DataKept
  <1>14. ContentsAreOwn'
    <2>1. \A p \in DiskPages, s \in Sector : disk'[p][s] \in OwnOf(p, s)
      BY <1>2, FlushedIsOwn
    <2> QED
      BY <2>1, <1>4 DEF ContentsAreOwn
  <1> QED
    BY <1>7, <1>8, <1>10, <1>11, <1>13, <1>14

\* Locking a slot changes only its lock.
LEMMA LockSlot ==
  ASSUME CacheInv, NEW i \in Slot,
         slot' = [slot EXCEPT ![i].locked = TRUE]
  PROVE  /\ slot' \in [Slot -> SlotData] /\ slot'[i].locked
         /\ \A j \in Slot : /\ slot'[j].lba = slot[j].lba
                            /\ slot'[j].valid = slot[j].valid
                            /\ slot'[j].dirty = slot[j].dirty
                            /\ slot'[j].data = slot[j].data
                            /\ slot[j].locked => slot'[j].locked
  <1>1. slot \in [Slot -> SlotData]
    BY DEF CacheInv, CacheTypes
  <1>2. slot' = [slot EXCEPT ![i] = [slot[i] EXCEPT !.locked = TRUE]]
    OBVIOUS
  <1>3. [slot[i] EXCEPT !.locked = TRUE] \in SlotData
    BY <1>1 DEF SlotData
  <1> QED
    BY <1>1, <1>2, <1>3 DEF SlotData

\* Slots keep their pages, and what is blank stays blank.
LEMMA SameData ==
  ASSUME CacheInv, SetSlots(slot'),
         disk' = disk, written' = written,
         \A j \in Slot : /\ slot'[j].lba = slot[j].lba
                         /\ slot'[j].valid = slot[j].valid
                         /\ slot'[j].dirty = slot[j].dirty
                         /\ slot'[j].data = slot[j].data,
         \A j \in Slot, s \in Sector : Blank(j, s) => Blank(j, s)'
  PROVE  DirtyIsValid' /\ DataTrue' /\ ContentsAreOwn'
  <1>1. DirtyIsValid' /\ ContentsAreOwn'
    BY DEF CacheInv, DirtyIsValid, ContentsAreOwn
  <1>2. \A j \in Slot, p \in DiskPages, s \in Sector :
          Holds(j, p, s)' <=> Holds(j, p, s)
    BY DEF Holds
  <1>3. ASSUME NEW p \in DiskPages, NEW s \in Sector, TrueAt(p, s), Single(p)'
        PROVE  TrueAt(p, s)'
    <2>1. ASSUME NEW j \in Slot, Holds(j, p, s)'
          PROVE  /\ slot'[j].data[s] = written'[p][s] \/ Blank(j, s)'
                 /\ s \in slot'[j].dirty \/ slot'[j].data[s] = disk'[p][s]
      <3>1. /\ slot[j].data[s] = written[p][s] \/ Blank(j, s)
            /\ s \in slot[j].dirty \/ slot[j].data[s] = disk[p][s]
        BY <1>2, <1>3, <2>1 DEF TrueAt
      <3> QED
        BY <3>1
    <2>2. ASSUME \A j \in Slot : ~Holds(j, p, s)'
          PROVE  disk'[p][s] = written'[p][s]
      BY <1>2, <1>3, <2>2 DEF TrueAt
    <2> QED
      BY <1>3, <2>1, <2>2 DEF TrueAt
  <1>4. DataTrue'
    BY <1>3, DataKept DEF CacheInv
  <1> QED
    BY <1>1, <1>4

\* A client without a slot moves on, or gives its request up.
LEMMA ClientStep ==
  ASSUME CacheInv, NEW c \in Clients, pc[c] # "use",
         UNCHANGED <<disk, slot, written, twice>>,
         NEW where \in {"idle", "scan", "lock", "take", "wait"},
         pc' = [pc EXCEPT ![c] = where],
         NEW new \in Request, req' = [req EXCEPT ![c] = new],
         where # "idle" => new.page \in DiskPages /\ new.sectors # {},
         where = "lock" => new.index \in Slot, halt' \in BOOLEAN
  PROVE  CacheInv'
  <1> USE DEF CacheInv
  <1>1. /\ req' \in [Clients -> Request] /\ req'[c] = new
        /\ \A e \in Clients \ {c} : req'[e] = req[e]
    BY DEF CacheTypes
  <1>2. /\ pc'[c] = where
        /\ \A e \in Clients \ {c} : pc'[e] = pc[e]
        /\ pc' \in [Clients -> Where]
    BY DEF CacheTypes, Where
  <1>3. CacheTypes'
    BY <1>1, <1>2 DEF CacheTypes, Where
  <1>4. Requested'
    BY <1>1, <1>2 DEF Requested
  <1>5. Owned'
    <2>1. \A e \in Clients : Owns(e)' => e # c /\ Owns(e)
      BY <1>2 DEF Owns
    <2> QED
      BY <1>1, <1>2, <2>1 DEF Owned
  <1>6. DirtyIsValid' /\ ContentsAreOwn'
    BY DEF DirtyIsValid, ContentsAreOwn
  <1>7. \A j \in Slot, s \in Sector : Blank(j, s)' <=> Blank(j, s)
    BY <1>1, <1>2 DEF Blank
  <1>8. \A j \in Slot, p \in DiskPages, s \in Sector :
          Holds(j, p, s)' <=> Holds(j, p, s)
    BY DEF Holds
  <1>9. \A p \in DiskPages : Single(p)' <=> Single(p)
    BY DEF Single
  <1>10. \A p \in DiskPages, s \in Sector : TrueAt(p, s) => TrueAt(p, s)'
    BY <1>7, <1>8, <1>9 DEF TrueAt
  <1>11. DataTrue'
    BY <1>10 DEF DataTrue
  <1> QED
    BY <1>3, <1>4, <1>5, <1>6, <1>11

\* load finds the whole page in the slot.
LEMMA LoadStep ==
  ASSUME CacheInv, NEW c \in Clients, NEW i \in Slot, ~slot[i].locked,
         pc[c] = "lock", ~req[c].write, slot[i].valid = Sector,
         slot[i].lba = req[c].page, SetSlots([slot EXCEPT ![i].locked = TRUE]),
         req' = [req EXCEPT ![c].has = i], pc' = [pc EXCEPT ![c] = "use"],
         UNCHANGED <<disk, halt, written>>
  PROVE  CacheInv'
  <1> USE DEF CacheInv
  <1>1. /\ slot' = [slot EXCEPT ![i].locked = TRUE]
        /\ SetSlots(slot')
    BY DEF SetSlots, Rewrite
  <1>2. /\ req[c].page \in DiskPages /\ req[c].sectors \subseteq Sector
        /\ req[c].sectors # {} /\ req[c] \in Request
    BY DEF CacheTypes, Requested, Request
  <1>3. /\ slot' \in [Slot -> SlotData] /\ slot'[i].locked
        /\ \A j \in Slot : /\ slot'[j].lba = slot[j].lba
                           /\ slot'[j].valid = slot[j].valid
                           /\ slot'[j].dirty = slot[j].dirty
                           /\ slot'[j].data = slot[j].data
                           /\ slot[j].locked => slot'[j].locked
    BY <1>1, LockSlot
  <1>4. /\ req' \in [Clients -> Request] /\ req'[c].has = i
        /\ req'[c].page = req[c].page /\ req'[c].sectors = req[c].sectors
        /\ \A e \in Clients \ {c} : req'[e] = req[e]
    <2>1. req' = [req EXCEPT ![c] = [req[c] EXCEPT !.has = i]]
      OBVIOUS
    <2>2. [req[c] EXCEPT !.has = i] \in Request
      BY <1>2, SlotIsIndex DEF Request
    <2> QED
      BY <1>2, <2>1, <2>2 DEF CacheTypes, Request
  <1>5. /\ pc'[c] = "use"
        /\ \A e \in Clients \ {c} : pc'[e] = pc[e]
    BY DEF CacheTypes
  <1>6. CacheTypes'
    BY <1>1, <1>3, <1>4, TwiceType DEF CacheTypes, Where
  <1>7. Requested'
    BY <1>2, <1>4, <1>5 DEF Requested
  <1>8. \A e \in Clients : Owns(e) => req[e].has # i
    BY FreeIsUnowned
  <1>9. Owned'
    <2>1. \A e \in Clients : Owns(e)' => e = c \/ Owns(e)
      BY <1>5 DEF Owns
    <2>2. \A e \in Clients \ {c} : Owns(e)' => req'[e].has # i
      BY <1>4, <1>8, <2>1
    <2>3. ASSUME NEW e \in Clients \ {c}, Owns(e)'
          PROVE  LET k == req'[e].has IN
                 /\ k \in Slot /\ slot'[k].locked
                 /\ slot'[k].lba = req'[e].page
                 /\ pc'[e] = "use" => req'[e].sectors \subseteq slot'[k].valid
                 /\ pc'[e] = "io" => slot'[k].valid = {}
                 /\ \A b \in Clients : Owns(b)' /\ req'[b].has = k => b = e
      <3>1. Owns(e) /\ req'[e] = req[e] /\ pc'[e] = pc[e]
        BY <1>4, <1>5, <2>1, <2>3
      <3>2. LET k == req[e].has IN
            /\ k \in Slot /\ slot[k].locked /\ slot[k].lba = req[e].page
            /\ pc[e] = "use" => req[e].sectors \subseteq slot[k].valid
            /\ pc[e] = "io" => slot[k].valid = {}
            /\ \A b \in Clients : Owns(b) /\ req[b].has = k => b = e
        BY <3>1 DEF Owned
      <3>3. \A b \in Clients : Owns(b)' /\ req'[b].has = req[e].has => b = e
        BY <1>4, <2>1, <2>2, <2>3, <3>1, <3>2
      <3> QED
        BY <3>1, <3>2, <3>3, <1>3
    <2>4. LET k == req'[c].has IN
          /\ k \in Slot /\ slot'[k].locked /\ slot'[k].lba = req'[c].page
          /\ req'[c].sectors \subseteq slot'[k].valid
          /\ \A b \in Clients : Owns(b)' /\ req'[b].has = k => b = c
      BY <1>2, <1>3, <1>4, <2>2
    <2> QED
      BY <1>5, <2>3, <2>4 DEF Owned
  <1>10. \A j \in Slot, s \in Sector : Blank(j, s) => Blank(j, s)'
    BY <1>4, <1>5 DEF Blank
  <1> QED
    BY <1>1, <1>3, <1>6, <1>7, <1>9, <1>10, SameData

\* The scan begins with the first slot and no target.
LEMMA FirstRound == 1 \in 1..Slots + 1 /\ 0 \in 0..Slots
  BY StorageAssumption

\* A client that gives up has an empty request.
LEMMA NoReqIsRequest == NoReq \in Request
  BY FirstRound DEF NoReq, Request

\* A write that fails leaves the slot locked and its contents alone.
LEMMA WriteFailsStep ==
  ASSUME CacheInv, NEW c \in Clients, WriteFails(c)
  PROVE  CacheInv'
  <1> USE DEF CacheInv
  <1> DEFINE i == IF pc[c] = "take" THEN req[c].target ELSE req[c].index
  <1>1. /\ slot' = [slot EXCEPT ![i].locked = TRUE]
        /\ SetSlots(slot')
        /\ pc' = [pc EXCEPT ![c] = "idle"] /\ req' = [req EXCEPT ![c] = NoReq]
        /\ disk' = disk /\ halt' = halt /\ written' = written
        /\ pc[c] \in {"take", "lock"}
    BY DEF WriteFails, SetSlots, Rewrite, Goto
  <1>2. i \in Slot /\ ~slot[i].locked
    <2>1. req[c] \in Request
      BY DEF CacheTypes
    <2>2. ~slot[i].locked /\ (pc[c] = "take" => i # 0)
      BY DEF WriteFails
    <2>3. CASE pc[c] = "take"
      BY <2>1, <2>2, <2>3, StorageAssumption DEF Request, Slot
    <2>4. CASE pc[c] = "lock"
      BY <2>2, <2>4 DEF Requested
    <2> QED
      BY <1>1, <2>3, <2>4
  <1> HIDE DEF i
  <1>3. /\ slot' \in [Slot -> SlotData] /\ slot'[i].locked
        /\ \A j \in Slot : /\ slot'[j].lba = slot[j].lba
                           /\ slot'[j].valid = slot[j].valid
                           /\ slot'[j].dirty = slot[j].dirty
                           /\ slot'[j].data = slot[j].data
                           /\ slot[j].locked => slot'[j].locked
    BY <1>1, <1>2, LockSlot
  <1>4. /\ req' \in [Clients -> Request] /\ req'[c] = NoReq
        /\ \A e \in Clients \ {c} : req'[e] = req[e]
    BY <1>1, NoReqIsRequest DEF CacheTypes
  <1>5. /\ pc'[c] = "idle"
        /\ \A e \in Clients \ {c} : pc'[e] = pc[e]
    BY <1>1 DEF CacheTypes
  <1>6. CacheTypes'
    BY <1>1, <1>3, <1>4, TwiceType DEF CacheTypes, Where
  <1>7. Requested'
    BY <1>4, <1>5 DEF Requested
  <1>8. Owned'
    BY <1>3, <1>4, <1>5 DEF Owned, Owns
  <1>9. \A j \in Slot, s \in Sector : Blank(j, s) => Blank(j, s)'
    BY <1>1, <1>4, <1>5 DEF Blank
  <1> QED
    BY <1>1, <1>3, <1>6, <1>7, <1>8, <1>9, SameData

\* The page comes from the disk. No other slot has it, or there would be
\* two, so the disk is right about it.
LEMMA ReadInStep ==
  ASSUME CacheInv, NEW c \in Clients, ReadIn(c)
  PROVE  CacheInv'
  <1> USE DEF CacheInv
  <1>0. PICK i \in Slot : i = req[c].has
    BY DEF ReadIn, Owned, Owns
  <1>q. PICK q \in DiskPages : q = req[c].page
    BY DEF ReadIn, Requested
  <1>1. /\ pc[c] = "io" /\ SetSlots(slot')
        /\ slot' = [slot EXCEPT ![i].locked = TRUE, ![i].valid = Sector,
                                ![i].data = disk[q]]
        /\ pc' = [pc EXCEPT ![c] = "use"]
        /\ req' = req /\ disk' = disk /\ halt' = halt /\ written' = written
    BY <1>0, <1>q DEF ReadIn, SetSlots, Rewrite, Goto
  <1>2. /\ i \in Slot /\ slot[i].locked /\ slot[i].lba = q
        /\ slot[i].valid = {} /\ slot[i].dirty = {} /\ q \in DiskPages
        /\ slot[i] \in SlotData /\ req[c].sectors \subseteq Sector
        /\ disk[q] \in [Sector -> Content]
        /\ \A e \in Clients : Owns(e) /\ req[e].has = i => e = c
    BY <1>0, <1>q, <1>1 DEF Owned, Owns, Requested, DirtyIsValid, CacheTypes,
                            Contents, Request
  <1>3. /\ slot' \in [Slot -> SlotData]
        /\ slot'[i].lba = q /\ slot'[i].valid = Sector
        /\ slot'[i].dirty = {} /\ slot'[i].data = disk[q]
        /\ slot'[i].locked
        /\ \A j \in Slot \ {i} : slot'[j] = slot[j]
    <2>1. slot' = [slot EXCEPT ![i] = [slot[i] EXCEPT !.locked = TRUE,
                                         !.valid = Sector, !.data = disk[q]]]
      BY <1>1
    <2>2. [slot[i] EXCEPT !.locked = TRUE, !.valid = Sector,
                          !.data = disk[q]] \in SlotData
      BY <1>2 DEF SlotData
    <2> QED
      BY <1>2, <2>1, <2>2 DEF CacheTypes, SlotData
  <1>4. /\ pc'[c] = "use"
        /\ \A e \in Clients \ {c} : pc'[e] = pc[e]
    BY <1>1 DEF CacheTypes
  <1>5. CacheTypes'
    BY <1>1, <1>3, TwiceType DEF CacheTypes, Where
  <1>6. Requested'
    BY <1>1, <1>4 DEF Requested
  <1>7. Owned'
    <2>1. \A e \in Clients : Owns(e)' <=> Owns(e)
      BY <1>1, <1>4 DEF Owns
    <2>2. Owns(c) /\ req[c].has = i /\ req[c].page = q
      BY <1>0, <1>q, <1>1 DEF Owns
    <2>3. ASSUME NEW e \in Clients \ {c}, Owns(e)
          PROVE  req[e].has # i
      BY <1>2, <2>3
    <2> QED
      BY <1>1, <1>2, <1>3, <1>4, <2>1, <2>2, <2>3 DEF Owned
  <1>8. DirtyIsValid'
    BY <1>2, <1>3 DEF DirtyIsValid
  <1>b. \A j \in Slot, s \in Sector : Blank(j, s) => Blank(j, s)'
    BY <1>1, <1>4 DEF Blank
  <1>9. ASSUME NEW p \in DiskPages, NEW s \in Sector, TrueAt(p, s), Single(p)'
        PROVE  TrueAt(p, s)'
    <2>1. ASSUME NEW j \in Slot \ {i}, Holds(j, p, s)'
          PROVE  /\ slot'[j].data[s] = written'[p][s] \/ Blank(j, s)'
                 /\ s \in slot'[j].dirty \/ slot'[j].data[s] = disk'[p][s]
      BY <2>1, <1>9, <1>b, <1>1, <1>3, OtherSlot
    <2>2. ASSUME p = q PROVE disk[q][s] = written[q][s]
      <3>1. \A j \in Slot : ~Holds(j, q, s)
        BY <1>2, <1>3, <1>9, <2>2 DEF Holds, Single
      <3> QED
        BY <1>9, <2>2, <3>1 DEF TrueAt
    <2>3. ASSUME Holds(i, p, s)'
          PROVE  /\ slot'[i].data[s] = written'[p][s] \/ Blank(i, s)'
                 /\ s \in slot'[i].dirty \/ slot'[i].data[s] = disk'[p][s]
      <3>1. p = q
        BY <2>3, <1>3 DEF Holds
      <3>2. slot'[i].data[s] = disk[q][s] /\ disk[q][s] = written[q][s]
        BY <2>2, <3>1, <1>3
      <3> QED
        BY <3>1, <3>2, <1>1
    <2>4. ASSUME \A j \in Slot : ~Holds(j, p, s)'
          PROVE  disk'[p][s] = written'[p][s]
      <3>1. \A j \in Slot : ~Holds(j, p, s)
        BY <2>4, <1>2, <1>3 DEF Holds
      <3> QED
        BY <3>1, <1>9, <1>1 DEF TrueAt
    <2> QED
      BY <1>9, <2>1, <2>3, <2>4 DEF TrueAt
  <1>10. DataTrue'
    BY <1>1, <1>9, DataKept
  <1>11. ContentsAreOwn'
    <2>1. \A s \in Sector : disk[q][s] \in OwnOf(q, s)
      BY DEF ContentsAreOwn
    <2>2. \A s \in slot'[i].valid : slot'[i].data[s] \in OwnOf(slot'[i].lba, s)
      BY <2>1, <1>3
    <2>3. ASSUME NEW j \in Slot \ {i}, NEW s \in slot'[j].valid
          PROVE  slot'[j].data[s] \in OwnOf(slot'[j].lba, s)
      BY <2>3, <1>3 DEF ContentsAreOwn
    <2>4. \A p \in DiskPages, s \in Sector : disk'[p][s] \in OwnOf(p, s)
      BY <1>1 DEF ContentsAreOwn
    <2>5. \A j \in Slot : \A s \in slot'[j].valid :
            slot'[j].data[s] \in OwnOf(slot'[j].lba, s)
      BY <2>2, <2>3
    <2> QED
      BY <2>4, <2>5 DEF ContentsAreOwn
  <1> QED
    BY <1>5, <1>6, <1>7, <1>8, <1>10, <1>11

\* The owner of the slot fills the sectors that it asked for.
LEMMA FillStep ==
  ASSUME CacheInv, NEW c \in Clients, NEW v \in Values, Fill(c, v)
  PROVE  CacheInv'
  <1> USE DEF CacheInv
  <1>0. PICK i \in Slot : i = req[c].has
    BY DEF Fill, Owned, Owns
  <1>q. PICK q \in DiskPages : q = req[c].page
    BY DEF Fill, Requested
  <1>r. PICK sec \in SUBSET Sector : sec = req[c].sectors
    BY DEF CacheTypes, Request
  <1> DEFINE data == [s \in Sector |->
                        IF s \in sec THEN <<q, s, v>> ELSE slot[i].data[s]]
             page == [s \in Sector |->
                        IF s \in sec THEN <<q, s, v>> ELSE written[q][s]]
             dirty == slot[i].dirty \cup sec
  <1>1. /\ pc[c] = "use"
        /\ twice' = (twice \ ({q} \X sec)) \cup Doubled(slot')
        /\ slot' = [slot EXCEPT ![i].dirty = dirty, ![i].data = data]
        /\ written' = [written EXCEPT ![q] = page]
        /\ req' = [req EXCEPT ![c].write = FALSE]
        /\ disk' = disk /\ pc' = pc /\ halt' \in BOOLEAN
    BY <1>0, <1>q, <1>r DEF Fill, Rewrite
  <1>2. /\ slot[i].locked /\ slot[i].lba = q /\ sec # {}
        /\ sec \subseteq slot[i].valid /\ Owns(c)
        /\ slot[i] \in SlotData /\ req[c] \in Request
        /\ written[q] \in [Sector -> Content]
        /\ \A e \in Clients : Owns(e) /\ req[e].has = i => e = c
    BY <1>0, <1>q, <1>r, <1>1 DEF Owned, Owns, Requested, CacheTypes, Contents
  <1>3. /\ dirty \in SUBSET Sector /\ data \in [Sector -> Content]
        /\ page \in [Sector -> Content]
    BY <1>2 DEF SlotData, Content
  <1>4. /\ slot' \in [Slot -> SlotData]
        /\ slot'[i].lba = q /\ slot'[i].valid = slot[i].valid
        /\ slot'[i].dirty = dirty /\ slot'[i].data = data
        /\ slot'[i].locked
        /\ \A j \in Slot \ {i} : slot'[j] = slot[j]
    <2> HIDE DEF dirty, data, page
    <2>1. slot' = [slot EXCEPT ![i] =
                     [slot[i] EXCEPT !.dirty = dirty, !.data = data]]
      BY <1>1
    <2>2. [slot[i] EXCEPT !.dirty = dirty, !.data = data] \in SlotData
      BY <1>2, <1>3 DEF SlotData
    <2> QED
      BY <1>2, <2>1, <2>2 DEF CacheTypes, SlotData
  <1>5. /\ written' \in Contents /\ written'[q] = page
        /\ \A p \in DiskPages \ {q} : written'[p] = written[p]
    <2> HIDE DEF page
    <2> QED
      BY <1>1, <1>3 DEF CacheTypes, Contents
  <1>6. /\ req' \in [Clients -> Request] /\ req'[c].has = i
        /\ req'[c].page = q /\ req'[c].sectors = sec /\ ~req'[c].write
        /\ req'[c].index = req[c].index
        /\ \A e \in Clients \ {c} : req'[e] = req[e]
    <2>1. req' = [req EXCEPT ![c] = [req[c] EXCEPT !.write = FALSE]]
      BY <1>1
    <2>2. [req[c] EXCEPT !.write = FALSE] \in Request
      BY <1>2 DEF Request
    <2> QED
      BY <1>0, <1>q, <1>r, <1>2, <2>1, <2>2 DEF CacheTypes, Request
  <1>t. twice' \in SUBSET (DiskPages \X Sector)
    BY <1>1 DEF CacheTypes, Doubled
  <1>7. CacheTypes'
    BY <1>1, <1>4, <1>5, <1>6, <1>t DEF CacheTypes, Where
  <1>8. Requested'
    BY <1>1, <1>2, <1>6 DEF Requested
  <1>9. Owned'
    <2>1. \A e \in Clients : Owns(e)' <=> Owns(e)
      BY <1>1 DEF Owns
    <2>2. \A e \in Clients : req'[e].has = req[e].has
      BY <1>0, <1>6
    <2>3. \A e \in Clients : /\ req'[e].page = req[e].page
                             /\ req'[e].sectors = req[e].sectors
      BY <1>q, <1>r, <1>6
    <2>4. \A j \in Slot : /\ slot'[j].locked = slot[j].locked
                          /\ slot'[j].lba = slot[j].lba
                          /\ slot'[j].valid = slot[j].valid
      BY <1>2, <1>4 DEF SlotData
    <2>5. ASSUME NEW e \in Clients, Owns(e)
          PROVE  LET k == req[e].has IN
                 /\ k \in Slot /\ slot'[k].locked
                 /\ slot'[k].lba = req[e].page
                 /\ pc[e] = "use" => req[e].sectors \subseteq slot'[k].valid
                 /\ pc[e] = "io" => slot'[k].valid = {}
                 /\ \A b \in Clients : Owns(b) /\ req[b].has = k => b = e
      BY <2>4, <2>5 DEF Owned
    <2>6. ASSUME NEW e \in Clients, Owns(e)'
          PROVE  LET k == req'[e].has IN
                 /\ k \in Slot /\ slot'[k].locked
                 /\ slot'[k].lba = req'[e].page
                 /\ pc'[e] = "use" => req'[e].sectors \subseteq slot'[k].valid
                 /\ pc'[e] = "io" => slot'[k].valid = {}
                 /\ \A b \in Clients : Owns(b)' /\ req'[b].has = k => b = e
      BY <1>1, <2>1, <2>2, <2>3, <2>5, <2>6
    <2> QED
      BY <2>6 DEF Owned
  <1>10. DirtyIsValid'
    BY <1>2, <1>4 DEF DirtyIsValid
  <1>b. \A j \in Slot \ {i}, s \in Sector : Blank(j, s) => Blank(j, s)'
    BY <1>0, <1>1, <1>6 DEF Blank
  <1>11. ASSUME NEW p \in DiskPages, NEW s \in Sector, <<p, s>> \notin twice'
         PROVE  TrueAt(p, s)'
    <2>1. Single(p)'
      BY <1>11, <1>1 DEF Single, Doubled
    <2>2. CASE p = q /\ s \in sec
      <3>1. \A j \in Slot : Holds(j, p, s)' => j = i
        BY <2>1, <2>2, <1>2, <1>4 DEF Single, Holds
      <3>2. Holds(i, p, s)' /\ slot'[i].data[s] = written'[p][s]
            /\ s \in slot'[i].dirty
        BY <2>2, <1>2, <1>4, <1>5 DEF Holds
      <3> QED
        BY <2>1, <3>1, <3>2 DEF TrueAt
    <2>3. CASE ~(p = q /\ s \in sec)
      <3>1. TrueAt(p, s)
        BY <2>3, <1>11, <1>1 DEF DataTrue
      <3>2. written'[p][s] = written[p][s]
        BY <2>3, <1>5
      <3>3. ASSUME NEW j \in Slot \ {i}, Holds(j, p, s)'
            PROVE  /\ slot'[j].data[s] = written'[p][s] \/ Blank(j, s)'
                   /\ s \in slot'[j].dirty \/ slot'[j].data[s] = disk'[p][s]
        <4>1. slot'[j] = slot[j] /\ (Blank(j, s) => Blank(j, s)')
          BY <1>4, <1>b
        <4> QED
          BY <3>1, <3>2, <3>3, <4>1, <1>1, OtherSlot
      <3>4. ASSUME Holds(i, p, s)'
            PROVE  /\ slot'[i].data[s] = written'[p][s] \/ Blank(i, s)'
                   /\ s \in slot'[i].dirty \/ slot'[i].data[s] = disk'[p][s]
        <4>1. p = q /\ s \in slot[i].valid /\ s \notin sec
          BY <2>3, <3>4, <1>4 DEF Holds
        <4>2. ~Blank(i, s)
          BY <4>1, <1>r, <1>2 DEF Blank, Owns
        <4>3. /\ slot[i].data[s] = written[q][s]
              /\ s \in slot[i].dirty \/ slot[i].data[s] = disk[q][s]
          BY <4>1, <4>2, <3>1, <1>2 DEF TrueAt, Holds
        <4>4. slot'[i].data[s] = slot[i].data[s] /\ s \in Sector
          BY <4>1, <1>4
        <4>5. slot[i].dirty \subseteq slot'[i].dirty
          BY <1>4
        <4> QED
          BY <4>1, <4>3, <4>4, <4>5, <3>2, <1>1
      <3>5. ASSUME \A j \in Slot : ~Holds(j, p, s)'
            PROVE  disk'[p][s] = written'[p][s]
        <4>1. \A j \in Slot : ~Holds(j, p, s)
          BY <3>5, <1>2, <1>4 DEF Holds
        <4> QED
          BY <4>1, <3>1, <3>2, <1>1 DEF TrueAt
      <3> QED
        BY <2>1, <3>3, <3>4, <3>5 DEF TrueAt
    <2> QED
      BY <2>2, <2>3
  <1>12. DataTrue'
    BY <1>11 DEF DataTrue
  <1>13. ContentsAreOwn'
    <2>1. ASSUME NEW s \in slot[i].valid PROVE data[s] \in OwnOf(q, s)
      <3>1. s \in Sector
        BY <1>2, <2>1 DEF SlotData
      <3>2. CASE s \in sec
        BY <3>1, <3>2 DEF OwnOf
      <3>3. CASE s \notin sec
        BY <3>1, <3>3, <2>1, <1>2 DEF ContentsAreOwn
      <3> QED
        BY <3>2, <3>3
    <2>2. ASSUME NEW j \in Slot \ {i}, NEW s \in slot'[j].valid
          PROVE  slot'[j].data[s] \in OwnOf(slot'[j].lba, s)
      BY <2>2, <1>4 DEF ContentsAreOwn
    <2>3. \A p \in DiskPages, s \in Sector : disk'[p][s] \in OwnOf(p, s)
      BY <1>1 DEF ContentsAreOwn
    <2>4. \A j \in Slot : \A s \in slot'[j].valid :
            slot'[j].data[s] \in OwnOf(slot'[j].lba, s)
      BY <2>1, <2>2, <1>4
    <2> QED
      BY <2>3, <2>4 DEF ContentsAreOwn
  <1> QED
    BY <1>7, <1>8, <1>9, <1>10, <1>12, <1>13

\* The slot is written back, or not, and keeps its page.
LEMMA BackStep ==
  ASSUME CacheInv, NEW i \in Slot, NEW flush \in BOOLEAN,
         \A s \in Sector : ~Blank(i, s),
         disk' = IF flush THEN Flushed(i) ELSE disk,
         SetSlots(slot'), written' = written,
         slot' \in [Slot -> SlotData],
         slot'[i].lba = slot[i].lba, slot'[i].valid = slot[i].valid,
         slot'[i].data = slot[i].data,
         slot'[i].dirty = IF flush THEN {} ELSE slot[i].dirty,
         \A j \in Slot \ {i} : slot'[j] = slot[j],
         \A j \in Slot \ {i}, s \in Sector : Blank(j, s) => Blank(j, s)'
  PROVE  /\ DirtyIsValid' /\ DataTrue' /\ ContentsAreOwn'
         /\ disk' \in Contents
  <1> USE DEF CacheInv
  <1>1. DirtyIsValid'
    BY DEF DirtyIsValid
  <1>2. disk' \in Contents
    BY FlushedAt DEF CacheTypes
  <1>d. \A p \in DiskPages, s \in Sector :
          disk'[p][s] = IF flush /\ p = slot[i].lba /\ s \in slot[i].dirty
                        THEN slot[i].data[s] ELSE disk[p][s]
    BY FlushedAt
  <1>3. ASSUME NEW p \in DiskPages, NEW s \in Sector, TrueAt(p, s), Single(p)'
        PROVE  TrueAt(p, s)'
    <2>1. ASSUME NEW j \in Slot \ {i}, Holds(j, p, s)'
          PROVE  /\ slot'[j].data[s] = written'[p][s] \/ Blank(j, s)'
                 /\ s \in slot'[j].dirty \/ slot'[j].data[s] = disk'[p][s]
      <3>1. Holds(j, p, s) /\ slot'[j] = slot[j]
        BY <2>1 DEF Holds
      <3>2. ~(p = slot[i].lba /\ s \in slot[i].dirty)
        BY <3>1, <1>3 DEF Holds, TrueAt, Single, DirtyIsValid
      <3>3. disk'[p][s] = disk[p][s]
        BY <3>2, <1>d
      <3> QED
        BY <3>1, <3>3, <2>1, <1>3, OtherSlot
    <2>2. ASSUME Holds(i, p, s)'
          PROVE  /\ slot'[i].data[s] = written'[p][s] \/ Blank(i, s)'
                 /\ s \in slot'[i].dirty \/ slot'[i].data[s] = disk'[p][s]
      <3>1. Holds(i, p, s)
        BY <2>2 DEF Holds
      <3>2. /\ slot[i].data[s] = written[p][s]
            /\ s \in slot[i].dirty \/ slot[i].data[s] = disk[p][s]
        BY <3>1, <1>3 DEF TrueAt
      <3>3. slot[i].lba = p
        BY <3>1 DEF Holds
      <3> QED
        BY <3>2, <3>3, <1>d
    <2>3. ASSUME \A j \in Slot : ~Holds(j, p, s)'
          PROVE  disk'[p][s] = written'[p][s]
      <3>1. \A j \in Slot : ~Holds(j, p, s)
        BY <2>3 DEF Holds
      <3>2. ~(p = slot[i].lba /\ s \in slot[i].dirty)
        BY <3>1 DEF Holds, DirtyIsValid
      <3> QED
        BY <3>1, <3>2, <1>3, <1>d DEF TrueAt
    <2> QED
      BY <1>3, <2>1, <2>2, <2>3 DEF TrueAt
  <1>4. DataTrue'
    BY <1>3, DataKept
  <1>5. ContentsAreOwn'
    <2>1. \A p \in DiskPages, s \in Sector : disk'[p][s] \in OwnOf(p, s)
      BY FlushedIsOwn DEF ContentsAreOwn
    <2>2. \A j \in Slot : \A s \in slot'[j].valid :
            slot'[j].data[s] \in OwnOf(slot'[j].lba, s)
      BY DEF ContentsAreOwn
    <2> QED
      BY <2>1, <2>2 DEF ContentsAreOwn
  <1> QED
    BY <1>1, <1>2, <1>4, <1>5

\* relax gives the slot back, with its sectors filled.
LEMMA RelaxStep ==
  ASSUME CacheInv, NEW c \in Clients, NEW flush \in BOOLEAN, Relax(c, flush)
  PROVE  CacheInv'
  <1> USE DEF CacheInv
  <1>0. PICK i \in Slot : i = req[c].has
    BY DEF Relax, Owned, Owns
  <1>1. /\ pc[c] = "use" /\ ~req[c].write
        /\ disk' = IF flush THEN Flushed(i) ELSE disk
        /\ SetSlots(slot') /\ written' = written
        /\ slot' = [slot EXCEPT ![i].locked = FALSE,
                     ![i].dirty = IF flush THEN {} ELSE slot[i].dirty]
        /\ pc' = [pc EXCEPT ![c] = "idle"] /\ req' = [req EXCEPT ![c] = NoReq]
        /\ halt' = halt
    BY <1>0 DEF Relax, SetSlots, Rewrite, Goto
  <1>2. \A e \in Clients : Owns(e) /\ req[e].has = i => e = c
    BY <1>0, <1>1 DEF Owned, Owns
  <1>3. /\ slot' \in [Slot -> SlotData]
        /\ slot'[i].lba = slot[i].lba /\ slot'[i].valid = slot[i].valid
        /\ slot'[i].data = slot[i].data
        /\ slot'[i].dirty = IF flush THEN {} ELSE slot[i].dirty
        /\ \A j \in Slot \ {i} : slot'[j] = slot[j]
    <2> DEFINE dirty == IF flush THEN {} ELSE slot[i].dirty
    <2>1. slot[i] \in SlotData /\ dirty \in SUBSET Sector
      BY DEF CacheTypes, SlotData
    <2>2. slot' = [slot EXCEPT ![i] =
                     [slot[i] EXCEPT !.locked = FALSE, !.dirty = dirty]]
      BY <1>1
    <2> HIDE DEF dirty
    <2>3. [slot[i] EXCEPT !.locked = FALSE, !.dirty = dirty] \in SlotData
      BY <2>1 DEF SlotData
    <2>4. /\ slot' \in [Slot -> SlotData]
          /\ slot'[i].lba = slot[i].lba /\ slot'[i].valid = slot[i].valid
          /\ slot'[i].data = slot[i].data /\ slot'[i].dirty = dirty
          /\ \A j \in Slot \ {i} : slot'[j] = slot[j]
      BY <2>1, <2>2, <2>3 DEF CacheTypes, SlotData
    <2> QED
      BY <2>4 DEF dirty
  <1>4. /\ req' \in [Clients -> Request] /\ req'[c] = NoReq
        /\ \A e \in Clients \ {c} : req'[e] = req[e]
    BY <1>1, NoReqIsRequest DEF CacheTypes
  <1>5. /\ pc'[c] = "idle"
        /\ \A e \in Clients \ {c} : pc'[e] = pc[e]
    BY <1>1 DEF CacheTypes
  <1>6. Requested'
    BY <1>4, <1>5 DEF Requested
  <1>7. Owned'
    <2>1. \A e \in Clients : Owns(e)' => e # c /\ Owns(e)
      BY <1>5 DEF Owns
    <2>2. ASSUME NEW e \in Clients, Owns(e)'
          PROVE  LET k == req[e].has IN
                 /\ k \in Slot \ {i} /\ slot[k].locked
                 /\ slot[k].lba = req[e].page
                 /\ pc[e] = "use" => req[e].sectors \subseteq slot[k].valid
                 /\ pc[e] = "io" => slot[k].valid = {}
                 /\ \A b \in Clients : Owns(b) /\ req[b].has = k => b = e
      BY <1>2, <2>1, <2>2 DEF Owned
    <2> QED
      BY <1>3, <1>4, <1>5, <2>1, <2>2 DEF Owned
  <1>8. /\ \A s \in Sector : ~Blank(i, s)
        /\ \A j \in Slot \ {i}, s \in Sector : Blank(j, s) => Blank(j, s)'
    BY <1>0, <1>1, <1>2, <1>4, <1>5 DEF Blank, Owns
  <1>9. DirtyIsValid' /\ DataTrue' /\ ContentsAreOwn' /\ disk' \in Contents
    BY <1>1, <1>3, <1>8, BackStep
  <1>10. CacheTypes'
    BY <1>1, <1>3, <1>4, <1>9, TwiceType DEF CacheTypes, Where
  <1> QED
    BY <1>6, <1>7, <1>9, <1>10

\* The flush thread writes back a slot that nobody works on.
LEMMA FlushSlotStep ==
  ASSUME CacheInv, NEW i \in Slot, FlushSlot(i)
  PROVE  CacheInv'
  <1> USE DEF CacheInv
  <1>1. /\ ~slot[i].locked /\ disk' = Flushed(i)
        /\ SetSlots(slot') /\ written' = written
        /\ slot' = [slot EXCEPT ![i].dirty = {}]
        /\ pc' = pc /\ req' = req /\ halt' = halt
    BY DEF FlushSlot, SetSlots, Rewrite
  <1>2. /\ slot' \in [Slot -> SlotData]
        /\ slot'[i].lba = slot[i].lba /\ slot'[i].valid = slot[i].valid
        /\ slot'[i].data = slot[i].data /\ slot'[i].dirty = {}
        /\ slot'[i].locked = slot[i].locked
        /\ \A j \in Slot \ {i} : slot'[j] = slot[j]
    <2>1. slot[i] \in SlotData
      BY DEF CacheTypes
    <2>2. slot' = [slot EXCEPT ![i] = [slot[i] EXCEPT !.dirty = {}]]
      BY <1>1
    <2>3. [slot[i] EXCEPT !.dirty = {}] \in SlotData
      BY <2>1 DEF SlotData
    <2> QED
      BY <2>1, <2>2, <2>3 DEF CacheTypes, SlotData
  <1>3. Requested'
    BY <1>1 DEF Requested
  <1>4. Owned'
    <2>1. \A j \in Slot : /\ slot'[j].locked = slot[j].locked
                          /\ slot'[j].lba = slot[j].lba
                          /\ slot'[j].valid = slot[j].valid
      BY <1>2
    <2>2. \A e \in Clients : Owns(e)' <=> Owns(e)
      BY <1>1 DEF Owns
    <2> QED
      BY <1>1, <2>1, <2>2 DEF Owned
  <1>5. /\ \A s \in Sector : ~Blank(i, s)
        /\ \A j \in Slot \ {i}, s \in Sector : Blank(j, s) => Blank(j, s)'
    <2>1. \A s \in Sector : ~Blank(i, s)
      BY <1>1, FreeIsUnowned
    <2> QED
      BY <1>1, <2>1 DEF Blank
  <1>6. DirtyIsValid' /\ DataTrue' /\ ContentsAreOwn' /\ disk' \in Contents
    <2> DEFINE flush == TRUE
    <2>1. /\ disk' = IF flush THEN Flushed(i) ELSE disk
          /\ slot'[i].dirty = IF flush THEN {} ELSE slot[i].dirty
          /\ flush \in BOOLEAN
      BY <1>1, <1>2
    <2> HIDE DEF flush
    <2> QED
      BY <1>1, <1>2, <1>5, <2>1, BackStep
  <1>7. CacheTypes'
    BY <1>1, <1>2, <1>6, TwiceType DEF CacheTypes, Where
  <1> QED
    BY <1>3, <1>4, <1>6, <1>7

\* The empty cache satisfies the invariant.
LEMMA InitCache == Init => CacheInv
  <1> SUFFICES ASSUME Init PROVE CacheInv
    OBVIOUS
  <1>1. CacheTypes
    <2>1. Blanked \in [Sector -> Content]
      BY DEF Blanked, Content
    <2>2. [lba |-> NULL, valid |-> {}, dirty |-> {},
           data |-> Blanked, locked |-> FALSE] \in SlotData
      BY <2>1 DEF SlotData
    <2> QED
      BY <2>1, <2>2, NoReqIsRequest DEF Init, CacheTypes, Contents, Where
  <1>2. \A i \in Slot : slot[i].valid = {} /\ slot[i].dirty = {}
    BY DEF Init
  <1>3. Requested /\ Owned
    BY DEF Init, Requested, Owned, Owns
  <1>4. DirtyIsValid
    BY <1>2 DEF DirtyIsValid
  <1>5. DataTrue
    BY <1>2 DEF DataTrue, TrueAt, Single, Holds, Init
  <1>6. ContentsAreOwn
    BY <1>2 DEF ContentsAreOwn, Init, Blanked, OwnOf
  <1> QED
    BY <1>1, <1>3, <1>4, <1>5, <1>6 DEF CacheInv

\* The scan goes on with the next slot and a target among the slots.
LEMMA NextRound ==
  ASSUME CacheInv, NEW c \in Clients, req[c].index \in Slot,
         NEW t \in Candidates(c, req[c].index)
  PROVE  [req[c] EXCEPT !.index = @ + 1, !.target = t] \in Request
  <1>1. req[c] \in Request
    BY DEF CacheInv, CacheTypes
  <1>2. t \in 0..Slots
    BY <1>1, SlotIsIndex DEF Candidates, Request
  <1>3. req[c].index + 1 \in 1..Slots + 1
    BY StorageAssumption DEF Slot
  <1> QED
    BY <1>1, <1>2, <1>3 DEF Request

\* A round of the scan changes only the request.
LEMMA ScanStep ==
  ASSUME CacheInv, NEW c \in Clients, Scan(c)
  PROVE  CacheInv'
  <1>1. /\ pc[c] = "scan" /\ req[c] \in Request /\ halt \in BOOLEAN
        /\ req[c].page \in DiskPages /\ req[c].sectors # {}
        /\ UNCHANGED <<disk, slot, halt, written, twice>>
        /\ pc \in [Clients -> Where] /\ req \in [Clients -> Request]
    BY DEF Scan, CacheInv, CacheTypes, Requested
  <1>2. CASE req[c].index > Slots
    <2>1. pc' = [pc EXCEPT ![c] = "take"] /\ req' = [req EXCEPT ![c] = req[c]]
      BY <1>1, <1>2 DEF Scan, Goto
    <2> QED
      BY <1>1, <2>1, ClientStep
  <1>3. CASE ~(req[c].index > Slots)
    <2>1. req[c].index \in Slot
      BY <1>1, <1>3, StorageAssumption DEF Request, Slot
    <2>2. CASE match(req[c].index, req[c].page)
      <3>1. /\ pc' = [pc EXCEPT ![c] = "lock"]
            /\ req' = [req EXCEPT ![c] = req[c]]
        BY <1>1, <1>3, <2>2 DEF Scan, Goto
      <3> QED
        BY <1>1, <2>1, <3>1, ClientStep
    <2>3. CASE ~match(req[c].index, req[c].page)
      <3>1. PICK t \in Candidates(c, req[c].index) :
              req' = [req EXCEPT ![c].index = @ + 1, ![c].target = t]
        BY <1>3, <2>3 DEF Scan
      <3> DEFINE new == [req[c] EXCEPT !.index = @ + 1, !.target = t]
      <3>2. new \in Request /\ new.page = req[c].page
            /\ new.sectors = req[c].sectors
        BY <1>1, <2>1, NextRound DEF Request
      <3>3. req' = [req EXCEPT ![c] = new]
        BY <1>1, <3>1
      <3>4. pc' = [pc EXCEPT ![c] = "scan"]
        BY <1>1, <1>3, <2>3 DEF Scan
      <3> HIDE DEF new
      <3> QED
        BY <1>1, <3>2, <3>3, <3>4, ClientStep
    <2> QED
      BY <2>2, <2>3
  <1> QED
    BY <1>2, <1>3

\* The second look at the slot that matched: store, load or go on.
LEMMA LockStep ==
  ASSUME CacheInv, NEW c \in Clients, Lock(c)
  PROVE  CacheInv'
  <1>1. /\ pc[c] = "lock" /\ req[c] \in Request /\ halt \in BOOLEAN
        /\ req[c].page \in DiskPages /\ req[c].sectors # {}
        /\ req[c].index \in Slot /\ ~slot[req[c].index].locked
        /\ UNCHANGED written
        /\ pc \in [Clients -> Where] /\ req \in [Clients -> Request]
    BY DEF Lock, CacheInv, CacheTypes, Requested
  <1>0. PICK i \in Slot : i = req[c].index
    BY <1>1
  <1>2. CASE match(i, req[c].page)
    <2>1. req' = [req EXCEPT ![c].has = i]
      BY <1>0, <1>2 DEF Lock
    <2>2. CASE req[c].write
      <3>1. store(c, i)
        BY <1>0, <1>2, <2>2 DEF Lock
      <3> QED
        BY <1>0, <1>1, <2>1, <2>2, <3>1, StoreStep
    <2>3. CASE ~req[c].write
      <3>1. load(c, i)
        BY <1>0, <1>2, <2>3 DEF Lock
      <3>2. CASE slot[i].valid = Sector
        BY <1>0, <1>1, <1>2, <2>1, <2>3, <3>1, <3>2, LoadStep
           DEF load, Goto, match
      <3>3. CASE slot[i].valid # Sector /\ slot[i].dirty = {}
        <4>1. halt' = TRUE /\ UNCHANGED <<disk, slot, pc, twice>>
          BY <3>1, <3>3 DEF load
        <4> DEFINE new == [req[c] EXCEPT !.has = i]
        <4>2. new \in Request /\ new.page = req[c].page
              /\ new.sectors = req[c].sectors /\ new.index \in Slot
          BY <1>1, SlotIsIndex DEF Request
        <4>3. req' = [req EXCEPT ![c] = new] /\ pc' = [pc EXCEPT ![c] = "lock"]
          BY <1>1, <2>1, <4>1
        <4> HIDE DEF new
        <4> QED
          BY <1>1, <4>1, <4>2, <4>3, ClientStep
      <3>4. CASE slot[i].valid # Sector /\ slot[i].dirty # {}
        BY <1>0, <1>1, <2>1, <3>1, <3>4, ReloadStep DEF load
      <3> QED
        BY <3>2, <3>3, <3>4
    <2> QED
      BY <2>2, <2>3
  <1>3. CASE ~match(i, req[c].page)
    <2>1. PICK t \in Candidates(c, i) :
            req' = [req EXCEPT ![c].index = @ + 1, ![c].target = t]
      BY <1>0, <1>3 DEF Lock
    <2> DEFINE new == [req[c] EXCEPT !.index = @ + 1, !.target = t]
    <2>2. new \in Request /\ new.page = req[c].page
          /\ new.sectors = req[c].sectors
      BY <1>0, <1>1, NextRound DEF Request
    <2>3. req' = [req EXCEPT ![c] = new]
      BY <1>1, <2>1
    <2>4. /\ pc' = [pc EXCEPT ![c] = "scan"]
          /\ UNCHANGED <<disk, slot, halt, twice>>
      BY <1>0, <1>3 DEF Lock, Goto
    <2> HIDE DEF new
    <2> QED
      BY <1>1, <2>2, <2>3, <2>4, ClientStep
  <1> QED
    BY <1>2, <1>3

\* The target is taken over by store or reload, or the client waits.
LEMMA TakeStep ==
  ASSUME CacheInv, NEW c \in Clients, Take(c)
  PROVE  CacheInv'
  <1>1. /\ pc[c] = "take" /\ req[c] \in Request /\ halt \in BOOLEAN
        /\ req[c].page \in DiskPages /\ req[c].sectors # {}
        /\ UNCHANGED written /\ req \in [Clients -> Request]
    BY DEF Take, CacheInv, CacheTypes, Requested
  <1>2. CASE req[c].target # 0 /\ ~slot[req[c].target].locked
    <2>1. PICK i \in Slot : i = req[c].target
      BY <1>1, <1>2, StorageAssumption DEF Request, Slot
    <2>2. /\ req' = [req EXCEPT ![c].has = i] /\ ~slot[i].locked
          /\ IF req[c].write THEN store(c, i) ELSE reload(c, i)
      BY <1>2, <2>1 DEF Take
    <2> QED
      BY <1>1, <2>2, StoreStep, ReloadStep
  <1>3. CASE ~(req[c].target # 0 /\ ~slot[req[c].target].locked)
    <2>1. /\ pc' = [pc EXCEPT ![c] = "wait"]
          /\ req' = [req EXCEPT ![c] = req[c]]
          /\ UNCHANGED <<disk, slot, halt, twice>>
      BY <1>1, <1>3 DEF Take, Goto
    <2> QED
      BY <1>1, <2>1, ClientStep
  <1> QED
    BY <1>2, <1>3

\* Every step of the cache keeps the invariant.
LEMMA NextCache == CacheInv /\ [Next]_vars => CacheInv'
  <1> SUFFICES ASSUME CacheInv, [Next]_vars PROVE CacheInv'
    OBVIOUS
  <1>1. ASSUME NEW c \in Clients, NEW p \in DiskPages, NEW sectors \in Runs,
               NEW write \in BOOLEAN, Get(c, p, sectors, write)
        PROVE  CacheInv'
    <2> DEFINE new == [NoReq EXCEPT !.page = p, !.sectors = sectors,
                                    !.write = write]
    <2>1. sectors \in SUBSET Sector /\ sectors # {}
      BY StorageAssumption DEF Runs, Sector
    <2>2. new \in Request /\ new.page = p /\ new.sectors = sectors
      BY <2>1, FirstRound DEF NoReq, Request
    <2>3. /\ pc[c] = "idle" /\ req' = [req EXCEPT ![c] = new]
          /\ pc' = [pc EXCEPT ![c] = "scan"] /\ halt' \in BOOLEAN
          /\ UNCHANGED <<disk, slot, halt, written, twice>>
      BY <1>1 DEF Get, Goto, CacheInv, CacheTypes
    <2> HIDE DEF new
    <2> QED
      BY <2>1, <2>2, <2>3, ClientStep
  <1>2. ASSUME NEW c \in Clients, Again(c) PROVE CacheInv'
    <2> DEFINE new == [req[c] EXCEPT !.index = 1, !.target = 0]
    <2>1. /\ req[c] \in Request /\ pc[c] = "wait" /\ halt' \in BOOLEAN
          /\ req[c].page \in DiskPages /\ req[c].sectors # {}
      BY <1>2 DEF Again, CacheInv, CacheTypes, Requested
    <2>2. new \in Request /\ new.page = req[c].page
          /\ new.sectors = req[c].sectors
      BY <2>1, FirstRound DEF Request
    <2>3. /\ req' = [req EXCEPT ![c] = new]
          /\ pc' = [pc EXCEPT ![c] = "scan"]
          /\ UNCHANGED <<disk, slot, halt, written, twice>>
      BY <1>2 DEF Again, Goto
    <2> HIDE DEF new
    <2> QED
      BY <2>1, <2>2, <2>3, ClientStep
  <1>3. ASSUME NEW c \in Clients, ReadFails(c) PROVE CacheInv'
    <2>1. /\ pc[c] = "io" /\ halt' \in BOOLEAN
          /\ req' = [req EXCEPT ![c] = NoReq]
          /\ pc' = [pc EXCEPT ![c] = "idle"]
          /\ UNCHANGED <<disk, slot, written, twice>>
      BY <1>3 DEF ReadFails, Goto, CacheInv, CacheTypes
    <2> QED
      BY <2>1, NoReqIsRequest, ClientStep
  <1>4. CASE UNCHANGED vars
    <2>1. CacheTypes' /\ Requested' /\ DirtyIsValid'
      BY <1>4 DEF CacheInv, vars, CacheTypes, Requested, DirtyIsValid
    <2>2. Owned'
      BY <1>4 DEF CacheInv, vars, Owned, Owns
    <2>3. DataTrue' /\ ContentsAreOwn'
      BY <1>4 DEF CacheInv, vars, DataTrue, TrueAt, Single, Holds, Blank,
                  ContentsAreOwn
    <2> QED
      BY <2>1, <2>2, <2>3 DEF CacheInv
  <1>5. CASE Next
    BY <1>1, <1>2, <1>3, <1>5, ScanStep, LockStep, TakeStep, ReadInStep,
       WriteFailsStep, FillStep, RelaxStep, FlushSlotStep DEF Next
  <1> QED
    BY <1>4, <1>5

\* What the invariant says of a reader: of the slots that hold a sector it
\* does not matter which one Visible chooses.
LEMMA CacheShows == CacheInv => VisibleIsWritten /\ SlotIsOwned
  <1> SUFFICES ASSUME CacheInv PROVE VisibleIsWritten /\ SlotIsOwned
    OBVIOUS
  <1> USE DEF CacheInv
  <1>1. SlotIsOwned
    BY DEF Owned, Owns, SlotIsOwned
  <1>2. ASSUME NEW p \in DiskPages, NEW s \in Sector, TrueAt(p, s),
               ~Pending(p, s)
        PROVE  Visible(p, s) = written[p][s]
    <2>1. CASE \E i \in Slot : Holds(i, p, s)
      <3>1. PICK i \in Slot : /\ Holds(i, p, s)
                              /\ Visible(p, s) = slot[i].data[s]
        <4> DEFINE i == CHOOSE i \in Slot : slot[i].lba = p
                                            /\ s \in slot[i].valid
        <4>1. i \in Slot /\ Holds(i, p, s)
          BY <2>1 DEF Holds
        <4>2. Visible(p, s) = slot[i].data[s]
          BY <2>1 DEF Holds, Visible
        <4> QED
          BY <4>1, <4>2
      <3>2. ~Blank(i, s)
        BY <1>2, <3>1 DEF Blank, Pending, Holds, Owned, Owns
      <3> QED
        BY <1>2, <3>1, <3>2 DEF TrueAt
    <2>2. CASE ~ \E i \in Slot : Holds(i, p, s)
      BY <1>2, <2>2 DEF TrueAt, Visible, Holds
    <2> QED
      BY <2>1, <2>2
  <1> QED
    BY <1>1, <1>2 DEF VisibleIsWritten, DataTrue

\* The cache stops only at the assertion of slot::load, and then what is
\* valid in the slot is on the disk.
LEMMA StopKept == CacheInv /\ StopIsKnown /\ [Next]_vars => StopIsKnown'
  <1> SUFFICES ASSUME CacheInv, StopIsKnown, [Next]_vars, halt'
               PROVE  StopIsKnown'
    BY DEF StopIsKnown
  <1> USE DEF CacheInv
  <1>1. CASE halt
    <2>1. UNCHANGED vars
      BY <1>1 DEF Next, Get, Scan, Lock, Take, Again, ReadIn, ReadFails,
                  WriteFails, Fill, Relax, FlushSlot
    <2>2. StopIsKnown' <=> StopIsKnown
      BY <2>1 DEF vars, StopIsKnown, match
    <2> QED
      BY <2>2
  <1>2. CASE ~halt
    <2>1. ASSUME NEW c \in Clients, NEW v \in Values, Fill(c, v) PROVE FALSE
      <3>1. req[c].sectors \subseteq slot[req[c].has].valid
        BY <2>1 DEF Fill, Owned, Owns
      <3> QED
        BY <2>1, <3>1 DEF Fill
    <2>2. ASSUME NEW c \in Clients, Take(c) PROVE FALSE
      BY <1>2, <2>2 DEF Take, store, reload
    <2>3. ~UNCHANGED vars /\ Next
      BY <1>2 DEF vars
    <2>4. PICK c \in Clients : Lock(c)
      BY <1>2, <2>1, <2>2, <2>3 DEF Next, Get, Scan, Again, ReadIn, ReadFails,
                                    WriteFails, Relax, FlushSlot
    <2>5. PICK i \in Slot : i = req[c].index
      BY <2>4 DEF Lock, Requested
    <2>6. /\ pc[c] = "lock" /\ match(i, req[c].page) /\ ~req[c].write
          /\ slot[i].valid # Sector /\ slot[i].dirty = {} /\ ~slot[i].locked
          /\ UNCHANGED <<disk, slot, pc, twice>>
          /\ req' = [req EXCEPT ![c].has = i]
      BY <1>2, <2>4, <2>5 DEF Lock, load, store, reload
    <2>7. /\ req'[c].index = i /\ req'[c].page = req[c].page
          /\ req'[c].write = req[c].write
      <3>1. req[c] \in Request /\ req \in [Clients -> Request]
        BY DEF CacheTypes
      <3> QED
        BY <2>5, <2>6, <3>1 DEF Request
    <2>8. ASSUME NEW s \in slot[i].valid
          PROVE  \/ <<slot[i].lba, s>> \in twice
                 \/ slot[i].data[s] = disk[slot[i].lba][s]
      <3>1. s \in Sector /\ slot[i].lba \in DiskPages
        BY <2>8 DEF CacheTypes, SlotData, DirtyIsValid
      <3>2. Holds(i, slot[i].lba, s) /\ s \notin slot[i].dirty
        BY <2>6, <2>8 DEF Holds
      <3> QED
        BY <3>1, <3>2 DEF DataTrue, TrueAt
    <2>9. slot'[i].valid # {} /\ slot'[i].lba = req'[c].page
      BY <2>6, <2>7 DEF match
    <2>10. pc'[c] = "lock" /\ slot' = slot /\ disk' = disk /\ twice' = twice
      BY <2>6
    <2>11. LET k == req'[c].index IN
           /\ pc'[c] = "lock" /\ ~req'[c].write
           /\ slot'[k].valid # {} /\ slot'[k].lba = req'[c].page
           /\ slot'[k].valid # Sector /\ ~slot'[k].locked
           /\ \A s \in slot'[k].valid :
                \/ <<slot'[k].lba, s>> \in twice'
                \/ slot'[k].data[s] = disk'[slot'[k].lba][s]
      BY <2>6, <2>7, <2>8, <2>9, <2>10
    <2> QED
      BY <2>11 DEF StopIsKnown, match
  <1> QED
    BY <1>1, <1>2

\* The invariant holds in every behaviour of the storage components.
LEMMA CacheAlways == StorageSpec => [](CacheInv /\ StopIsKnown)
  <1>1. StorageInit => CacheInv /\ StopIsKnown
    BY InitCache DEF StorageInit, Init, StopIsKnown
  <1>2. CacheInv /\ [StorageNext]_storage => CacheInv'
    BY NextCache DEF StorageNext, storage
  <1>3. CacheInv /\ StopIsKnown /\ [StorageNext]_storage => StopIsKnown'
    <2>1. [StorageNext]_storage => [Next]_vars
      BY DEF StorageNext, storage
    <2> QED
      BY <2>1, StopKept
  <1> QED
    BY <1>1, <1>2, <1>3, PTL DEF StorageSpec

(* The cache is transparent for any number of clients, slots, pages and    *)
(* sectors, and with any number of failing disk operations: a reader finds *)
(* what was written last, unless the sector has not been written since two *)
(* misses at once brought its page into two slots; no sector ever holds    *)
(* what belongs to another one; a client works on the page that it asked   *)
(* for in a slot that no other client has; and the only assertion that     *)
(* fails is the one of slot::load, for a part of a page that is on the     *)
(* disk already.                                                           *)
THEOREM CacheIsTransparent == StorageSpec => []Transparent
  <1>1. CacheInv /\ StopIsKnown => Transparent
    BY CacheShows DEF Transparent, CacheInv
  <1> QED
    BY <1>1, CacheAlways, PTL

(***************************************************************************)
(* The tree of open files                                                  *)
(*                                                                         *)
(* TreeInv counts the references: RefOK says which they are, ThreadsOK     *)
(* what a thread relies on at each place, LiveOK which instances exist.    *)
(***************************************************************************)
Names == Node \cup {Dot, Up}

\* The rest of a path never ends in ".".
Ways == {p \in Seq(Names) : p # <<>> => p[Len(p)] # Dot}

\* No path that is opened ends in ".".
NoDotAtEnd == Paths \subseteq Ways

ThreadRec ==
  [at : {"idle", "name", "acquire", "look", "step", "relax", "close",
         "forward", "opened", "update", "path"},
   path : Ways, mode : SUBSET {"file", "folder"},
   cur : Node \cup {Nil}, next : Node \cup {Nil}, end : Node \cup {Nil},
   then : {"idle", "forward", "opened"}]

TreeType ==
  /\ live \subseteq Node /\ table \subseteq Node
  /\ ref \in [Node -> Int] /\ files \in [Node -> Nat]
  /\ xlock \in [Node -> Openers \cup {Nil}]
  /\ slock \in [Node -> SUBSET Openers]
  /\ th \in [Openers -> ThreadRec]

\* OnTheWay of a thread in state q
Way(q) ==
  CASE q.at \in {"name", "look", "acquire"} -> <<q.cur>>
    [] q.at = "step" -> IF q.next = q.cur THEN <<q.cur>> ELSE <<q.cur, q.next>>
    [] q.at = "relax" -> IF q.then \in {"forward", "opened"}
                         THEN <<q.end, q.next>> ELSE <<q.end>>
    [] q.at = "close" -> IF q.then \in {"forward", "opened"} THEN <<q.next>> ELSE <<>>
    [] q.at \in {"forward", "opened"} -> <<q.next>>
    [] OTHER -> <<>>

\* the k-th reference of the thread is to n; how often it refers to n
Has(q, k, n) == k \in DOMAIN Way(q) /\ Way(q)[k] = n
Num(q, n) == (IF Has(q, 1, n) THEN 1 ELSE 0) + (IF Has(q, 2, n) THEN 1 ELSE 0)

Kids(n) == {m \in table : Parent[m] = n}
Refs(n) == {at \in Openers \X {1, 2} : Has(th[at[1]], at[2], n)}

\* The instances are the root and those in a file_table; their folders are
\* instances too.
LiveOK ==
  /\ live = table \cup {Root} /\ Root \notin table
  /\ \A n \in table : Parent[n] \in live /\ Parent[n] # n
  /\ \A n \in Node : files[n] > 0 => n \in live

\* What the state of a thread holds, place by place.
Shape(q) ==
  /\ q.at \in {"name", "look", "acquire", "step", "update", "path"} => q.cur \in Node
  /\ q.at \in {"look", "acquire", "step", "forward"} => q.path # <<>>
  /\ q.at = "look" => Head(q.path) \in Node
  /\ q.at = "acquire" => q.next = Parent[q.cur] /\ q.cur # Root
  /\ q.at = "step" => q.next \in Node /\ (q.next = q.cur => Tail(q.path) # <<>>)
  /\ q.at \in {"relax", "close"} => q.end \in Node
  /\ q.at \in {"relax", "close"} /\ q.then \in {"forward", "opened"} => q.next \in Node
  /\ q.at \in {"relax", "close"} /\ q.then = "forward" => q.path # <<>>
  /\ q.at \in {"forward", "opened"} => q.next \in Node

\* What a thread refers to exists; what it changes it has locked; what it
\* closes has no reference and is in the table still.
ThreadsOK ==
  \A t \in Openers :
    /\ Shape(th[t])
    /\ \A k \in DOMAIN Way(th[t]) : Way(th[t])[k] \in live
    /\ th[t].at \in {"look", "update"} => xlock[th[t].cur] = t
    /\ th[t].at = "close" => xlock[th[t].end] = t /\ ref[th[t].end] = 0
                             /\ th[t].end \in table

\* ref_count counts the references.
RefOK ==
  \A n \in Node : ref[n] = files[n] + Cardinality(Kids(n)) + Cardinality(Refs(n))
                           + (IF n = Root THEN 1 ELSE 0)

TreeInv == TreeType /\ LiveOK /\ ThreadsOK /\ RefOK

\* What a thread refers to, place by place.
LEMMA WayForm ==
  ASSUME NEW q \in ThreadRec
  PROVE  /\ q.at \in {"idle", "update", "path"} => Way(q) = <<>>
         /\ q.at \in {"name", "look", "acquire"} => Way(q) = <<q.cur>>
         /\ q.at = "step" => Way(q) = IF q.next = q.cur THEN <<q.cur>>
                                      ELSE <<q.cur, q.next>>
         /\ q.at = "relax" => Way(q) = IF q.then = "idle" THEN <<q.end>>
                                       ELSE <<q.end, q.next>>
         /\ q.at = "close" => Way(q) = IF q.then = "idle" THEN <<>>
                                       ELSE <<q.next>>
         /\ q.at \in {"forward", "opened"} => Way(q) = <<q.next>>
  BY DEF Way, ThreadRec

\* How often a thread refers to an instance, from the list of what it refers
\* to.
LEMMA NumForm ==
  ASSUME NEW q, NEW n
  PROVE  /\ Way(q) = <<>> => Num(q, n) = 0
         /\ \A a : Way(q) = <<a>> => Num(q, n) = IF a = n THEN 1 ELSE 0
         /\ \A a, b : Way(q) = <<a, b>> =>
              Num(q, n) = (IF a = n THEN 1 ELSE 0) + (IF b = n THEN 1 ELSE 0)
  BY DEF Num, Has

\* The places of a set of at most one.
LEMMA OneMore ==
  ASSUME NEW S, IsFiniteSet(S), NEW e, e \notin S, NEW c \in BOOLEAN
  PROVE  /\ IsFiniteSet(S \cup (IF c THEN {e} ELSE {}))
         /\ Cardinality(S \cup (IF c THEN {e} ELSE {}))
              = Cardinality(S) + (IF c THEN 1 ELSE 0)
  <1>1. CASE c
    <2>1. S \cup (IF c THEN {e} ELSE {}) = S \cup {e}
      BY <1>1
    <2> QED
      BY <1>1, <2>1, FS_AddElement
  <1>2. CASE ~c
    <2>1. S \cup (IF c THEN {e} ELSE {}) = S
      BY <1>2
    <2> QED
      BY <1>2, <2>1, FS_CardinalityType
  <1> QED
    BY <1>1, <1>2

\* The references of all threads but one, and of this one.
LEMMA SplitRefs ==
  ASSUME NEW t \in Openers, NEW f \in [Openers -> ThreadRec], NEW n,
         NEW A, A = {at \in Openers \X {1, 2} : at[1] # t /\ Has(f[at[1]], at[2], n)}
  PROVE  LET R == {at \in Openers \X {1, 2} : Has(f[at[1]], at[2], n)} IN
         /\ IsFiniteSet(R) /\ IsFiniteSet(A)
         /\ Cardinality(R) = Cardinality(A) + Num(f[t], n)
  <1> DEFINE R == {at \in Openers \X {1, 2} : Has(f[at[1]], at[2], n)}
  <1>1. IsFiniteSet(Openers \X {1, 2})
    <2>1. IsFiniteSet({1, 2})
      <3>1. IsFiniteSet({1})
        BY FS_Singleton
      <3>2. IsFiniteSet({1} \cup {2})
        BY <3>1, FS_AddElement
      <3>3. {1} \cup {2} = {1, 2}
        OBVIOUS
      <3> QED
        BY <3>2, <3>3
    <2>2. IsFiniteSet({1, 2}) /\ IsFiniteSet(Openers)
      BY <2>1, TreeAssumption
    <2> QED
      BY <2>2, FS_Product
  <1>2. IsFiniteSet(A) /\ Cardinality(A) \in Nat
    BY <1>1, FS_Subset, FS_CardinalityType
  <1> DEFINE c == Has(f[t], 1, n)
             e == Has(f[t], 2, n)
             A1 == A \cup (IF c THEN {<<t, 1>>} ELSE {})
             A2 == A1 \cup (IF e THEN {<<t, 2>>} ELSE {})
  <1>3. c \in BOOLEAN /\ e \in BOOLEAN
    BY DEF Has
  <1>4. <<t, 1>> \notin A /\ <<t, 2>> \notin A1
    OBVIOUS
  <1>5. R = A2
    <2>1. ASSUME NEW at \in R PROVE at \in A2
      <3>1. at = <<at[1], at[2]>> /\ at[2] \in {1, 2} /\ at[1] \in Openers
        OBVIOUS
      <3>2. CASE at[1] # t
        BY <3>2
      <3>3. CASE at[1] = t
        BY <3>3, <3>1
      <3> QED
        BY <3>2, <3>3
    <2>2. ASSUME NEW at \in A2 PROVE at \in R
      <3>1. at \in A \/ (c /\ at = <<t, 1>>) \/ (e /\ at = <<t, 2>>)
        OBVIOUS
      <3> QED
        BY <3>1
    <2> HIDE DEF A2, R
    <2> QED
      BY <2>1, <2>2
  <1>6. IsFiniteSet(A1) /\ Cardinality(A1) = Cardinality(A) + (IF c THEN 1 ELSE 0)
    <2> HIDE DEF c
    <2> QED
      BY <1>2, <1>3, <1>4, OneMore
  <1>7. IsFiniteSet(A2) /\ Cardinality(A2) = Cardinality(A1) + (IF e THEN 1 ELSE 0)
    <2> HIDE DEF e, A1
    <2> QED
      BY <1>6, <1>3, <1>4, OneMore
  <1>8. Num(f[t], n) = (IF c THEN 1 ELSE 0) + (IF e THEN 1 ELSE 0)
    BY DEF Num
  <1> HIDE DEF c, e, A1, A2, R
  <1>9. Cardinality(A2) = Cardinality(A) + Num(f[t], n)
    BY <1>2, <1>6, <1>7, <1>8
  <1> QED
    BY <1>2, <1>5, <1>7, <1>9 DEF R

\* The state of one thread changes.
Moves(t) ==
  /\ th' \in [Openers -> ThreadRec]
  /\ \A u \in Openers \ {t} : th'[u] = th[u]

\* When one thread moves, the references of all threads change by what it
\* drops and takes.
LEMMA RefsStep ==
  ASSUME TreeType, NEW t \in Openers, Moves(t), NEW n
  PROVE  /\ Cardinality(Refs(n)) \in Nat /\ Cardinality(Refs(n)') \in Nat
         /\ Cardinality(Refs(n)') + Num(th[t], n)
              = Cardinality(Refs(n)) + Num(th'[t], n)
  <1> DEFINE A == {at \in Openers \X {1, 2} : at[1] # t /\ Has(th[at[1]], at[2], n)}
             A2 == {at \in Openers \X {1, 2} : at[1] # t /\ Has(th'[at[1]], at[2], n)}
  <1>1. /\ IsFiniteSet(Refs(n)) /\ IsFiniteSet(A)
        /\ Cardinality(Refs(n)) = Cardinality(A) + Num(th[t], n)
    BY SplitRefs DEF Refs, TreeType
  <1>2. /\ IsFiniteSet(Refs(n)') /\ IsFiniteSet(A2)
        /\ Cardinality(Refs(n)') = Cardinality(A2) + Num(th'[t], n)
    BY SplitRefs DEF Refs, Moves
  <1>3. A = A2
    <2>1. ASSUME NEW at \in Openers \X {1, 2}, at[1] # t PROVE th'[at[1]] = th[at[1]]
      BY <2>1 DEF Moves
    <2> QED
      BY <2>1
  <1>4. \A q : Num(q, n) \in Nat
    BY DEF Num
  <1> HIDE DEF A, A2
  <1>5. Cardinality(A) \in Nat
    BY <1>1, FS_CardinalityType
  <1> QED
    BY <1>1, <1>2, <1>3, <1>4, <1>5

\* What the other threads know stays true.
LEMMA OthersKept ==
  ASSUME TreeInv, NEW t \in Openers, Moves(t), Shape(th'[t]),
         \A k \in DOMAIN Way(th'[t]) : Way(th'[t])[k] \in live',
         th'[t].at \in {"look", "update"} => xlock'[th'[t].cur] = t,
         th'[t].at = "close" => /\ xlock'[th'[t].end] = t
                                /\ ref'[th'[t].end] = 0
                                /\ th'[t].end \in table',
         \A n \in Node : xlock[n] \in Openers \ {t} => xlock'[n] = xlock[n],
         \A n \in table : xlock[n] \in Openers \ {t} =>
                           ref'[n] = ref[n] /\ n \in table',
         \A u \in Openers \ {t} : \A k \in DOMAIN Way(th[u]) : Way(th[u])[k] \in live'
  PROVE  ThreadsOK'
  <1>1. ASSUME NEW u \in Openers
        PROVE  /\ Shape(th'[u])
               /\ \A k \in DOMAIN Way(th'[u]) : Way(th'[u])[k] \in live'
               /\ th'[u].at \in {"look", "update"} => xlock'[th'[u].cur] = u
               /\ th'[u].at = "close" => /\ xlock'[th'[u].end] = u
                                         /\ ref'[th'[u].end] = 0
                                         /\ th'[u].end \in table'
    <2>1. CASE u = t
      BY <2>1
    <2>2. CASE u # t
      <3>1. th'[u] = th[u]
        BY <2>2 DEF Moves
      <3>2. Shape(th[u])
        BY DEF TreeInv, ThreadsOK
      <3>3. \A k \in DOMAIN Way(th[u]) : Way(th[u])[k] \in live'
        BY <2>2
      <3>4. ASSUME th[u].at \in {"look", "update"} PROVE xlock'[th[u].cur] = u
        <4>1. th[u].cur \in Node /\ xlock[th[u].cur] = u
          BY <3>4, <3>2 DEF TreeInv, ThreadsOK, Shape
        <4> QED
          BY <4>1, <2>2
      <3>5. ASSUME th[u].at = "close"
            PROVE  /\ xlock'[th[u].end] = u /\ ref'[th[u].end] = 0
                   /\ th[u].end \in table'
        <4>1. /\ th[u].end \in Node /\ xlock[th[u].end] = u
              /\ ref[th[u].end] = 0 /\ th[u].end \in table
          BY <3>5, <3>2 DEF TreeInv, ThreadsOK, Shape
        <4> QED
          BY <4>1, <2>2
      <3> QED
        BY <3>1, <3>2, <3>3, <3>4, <3>5
    <2> QED
      BY <2>1, <2>2
  <1> QED
    BY <1>1 DEF ThreadsOK

\* The references are counted when a thread, files and ref_count change in step.
LEMMA RefsKept ==
  ASSUME TreeInv, NEW t \in Openers, Moves(t), table' = table,
         ref' \in [Node -> Int], files' \in [Node -> Nat],
         \A n \in Node : ref'[n] + files[n] + Num(th[t], n)
                          = ref[n] + files'[n] + Num(th'[t], n)
  PROVE  RefOK'
  <1> SUFFICES ASSUME NEW n \in Node
               PROVE  ref'[n] = files'[n] + Cardinality(Kids(n)')
                                + Cardinality(Refs(n)') + (IF n = Root THEN 1 ELSE 0)
    BY DEF RefOK
  <1>1. Kids(n)' = Kids(n)
    BY DEF Kids
  <1>2. Cardinality(Kids(n)) \in Nat
    <2>1. IsFiniteSet(Node) /\ Kids(n) \subseteq Node
      BY TreeAssumption DEF Kids, TreeInv, TreeType
    <2> QED
      BY <2>1, FS_Subset, FS_CardinalityType
  <1>3. /\ Cardinality(Refs(n)) \in Nat /\ Cardinality(Refs(n)') \in Nat
        /\ Cardinality(Refs(n)') + Num(th[t], n)
             = Cardinality(Refs(n)) + Num(th'[t], n)
    BY RefsStep DEF TreeInv
  <1>4. ref[n] = files[n] + Cardinality(Kids(n)) + Cardinality(Refs(n))
                 + (IF n = Root THEN 1 ELSE 0)
    BY DEF TreeInv, RefOK
  <1>5. \A q : Num(q, n) \in Nat
    BY DEF Num
  <1>6. ref[n] \in Int /\ ref'[n] \in Int /\ files[n] \in Nat /\ files'[n] \in Nat
    BY DEF TreeInv, TreeType
  <1> QED
    BY <1>1, <1>2, <1>3, <1>4, <1>5, <1>6

\* Nothing but the states of a thread and the locks changes, and what the
\* thread refers to stays the same.
LEMMA StillStep ==
  ASSUME TreeInv, NEW t \in Openers, Moves(t), Shape(th'[t]),
         Way(th'[t]) = Way(th[t]),
         UNCHANGED <<live, table, ref, files>>,
         xlock' \in [Node -> Openers \cup {Nil}],
         slock' \in [Node -> SUBSET Openers],
         th'[t].at \in {"look", "update"} => xlock'[th'[t].cur] = t,
         th'[t].at # "close",
         \A n \in Node : xlock[n] \in Openers \ {t} => xlock'[n] = xlock[n]
  PROVE  TreeInv'
  <1>1. TreeType'
    BY DEF TreeInv, TreeType, Moves
  <1>2. LiveOK'
    BY DEF TreeInv, LiveOK
  <1>3. RefOK'
    <2>1. \A n : Num(th'[t], n) = Num(th[t], n)
      BY DEF Num, Has
    <2>2. \A n \in Node : ref[n] \in Int /\ files[n] \in Nat
      BY DEF TreeInv, TreeType
    <2>3. \A n \in Node : ref'[n] + files[n] + Num(th[t], n)
                           = ref[n] + files'[n] + Num(th'[t], n)
      BY <2>1
    <2>4. ref' \in [Node -> Int] /\ files' \in [Node -> Nat] /\ table' = table
      BY DEF TreeInv, TreeType
    <2> QED
      BY <2>3, <2>4, RefsKept
  <1>4. ThreadsOK'
    <2>1. \A u \in Openers : \A k \in DOMAIN Way(th[u]) : Way(th[u])[k] \in live'
      BY DEF TreeInv, ThreadsOK
    <2> QED
      BY <2>1, OthersKept
  <1> QED
    BY <1>1, <1>2, <1>3, <1>4 DEF TreeInv

\* A step that changes counters, under the lock of what it counts.
LEMMA CountStep ==
  ASSUME TreeInv, NEW t \in Openers, Moves(t), Shape(th'[t]),
         \A k \in DOMAIN Way(th'[t]) : Way(th'[t])[k] \in live,
         UNCHANGED <<live, table>>,
         ref' \in [Node -> Int], files' \in [Node -> Nat],
         xlock' \in [Node -> Openers \cup {Nil}],
         slock' \in [Node -> SUBSET Openers],
         \A n \in Node : files'[n] > 0 => n \in live,
         \A n \in Node : ref'[n] + files[n] + Num(th[t], n)
                          = ref[n] + files'[n] + Num(th'[t], n),
         th'[t].at \in {"look", "update"} => xlock'[th'[t].cur] = t,
         th'[t].at = "close" => /\ xlock'[th'[t].end] = t
                                /\ ref'[th'[t].end] = 0
                                /\ th'[t].end \in table,
         \A n \in Node : xlock[n] \in Openers \ {t} =>
                           xlock'[n] = xlock[n] /\ ref'[n] = ref[n]
  PROVE  TreeInv'
  <1>1. TreeType'
    BY DEF TreeInv, TreeType, Moves
  <1>2. LiveOK'
    BY DEF TreeInv, LiveOK
  <1>3. RefOK'
    BY RefsKept
  <1>4. ThreadsOK'
    <2>1. \A u \in Openers : \A k \in DOMAIN Way(th[u]) : Way(th[u])[k] \in live'
      BY DEF TreeInv, ThreadsOK
    <2>2. \A n \in table : n \in Node /\ n \in table'
      BY DEF TreeInv, TreeType
    <2>3. \A n \in table : xlock[n] \in Openers \ {t} =>
                            ref'[n] = ref[n] /\ n \in table'
      BY <2>2
    <2>4. \A k \in DOMAIN Way(th'[t]) : Way(th'[t])[k] \in live'
      OBVIOUS
    <2>5. th'[t].at = "close" => /\ xlock'[th'[t].end] = t
                                 /\ ref'[th'[t].end] = 0
                                 /\ th'[t].end \in table'
      OBVIOUS
    <2> QED
      BY <2>1, <2>3, <2>4, <2>5, OthersKept
  <1> QED
    BY <1>1, <1>2, <1>3, <1>4 DEF TreeInv

\* What is left of a path.
LEMMA PathForm ==
  ASSUME NEW p \in Ways
  PROVE  /\ p \in Seq(Names)
         /\ p # <<>> => /\ Head(p) \in Names /\ Tail(p) \in Ways
                        /\ Head(p) = Dot => Tail(p) # <<>>
  <1>1. p \in Seq(Names)
    BY DEF Ways
  <1>2. ASSUME p # <<>>
        PROVE  /\ Head(p) \in Names /\ Tail(p) \in Ways
               /\ Head(p) = Dot => Tail(p) # <<>>
    <2>1. Len(p) \in Nat \ {0} /\ Head(p) = p[1] /\ p[Len(p)] # Dot
      BY <1>1, <1>2 DEF Ways
    <2>2. /\ Tail(p) \in Seq(Names) /\ Len(Tail(p)) = Len(p) - 1
          /\ \A i \in 1..Len(p) - 1 : Tail(p)[i] = p[i + 1]
      BY <1>1, <1>2
    <2>3. ASSUME Tail(p) # <<>> PROVE Tail(p)[Len(Tail(p))] # Dot
      <3>1. Len(Tail(p)) # 0
        BY <2>2, <2>3
      <3>2. Len(p) - 1 \in 1..Len(p) - 1
        BY <2>1, <2>2, <3>1
      <3>3. Tail(p)[Len(p) - 1] = p[(Len(p) - 1) + 1]
        BY <2>2, <3>2
      <3>4. (Len(p) - 1) + 1 = Len(p)
        BY <2>1
      <3> QED
        BY <2>1, <2>2, <3>3, <3>4
    <2>4. Head(p) = Dot => Tail(p) # <<>>
      <3> SUFFICES ASSUME Head(p) = Dot, Tail(p) = <<>> PROVE FALSE
        OBVIOUS
      <3>1. Len(p) - 1 = 0
        BY <2>2
      <3>2. Len(p) = 1
        BY <3>1, <2>1
      <3> QED
        BY <3>2, <2>1
    <2>5. Head(p) \in Names
      BY <1>1, <2>1
    <2> QED
      BY <2>2, <2>3, <2>4, <2>5 DEF Ways
  <1> QED
    BY <1>1, <1>2

\* A thread that does nothing refers to nothing.
LEMMA IdleRec == /\ I!Idle \in ThreadRec /\ I!Idle.at = "idle" /\ Shape(I!Idle)
                 /\ Way(I!Idle) = <<>>
  <1>1. <<>> \in Ways
    BY DEF Ways
  <1>2. I!Idle \in ThreadRec
    BY <1>1 DEF I!Idle, ThreadRec
  <1> QED
    BY <1>2, WayForm DEF I!Idle, Shape

\* What holds of a thread.
LEMMA ThreadFacts ==
  ASSUME TreeInv, NEW t \in Openers
  PROVE  /\ th[t] \in ThreadRec /\ Shape(th[t])
         /\ \A k \in DOMAIN Way(th[t]) : Way(th[t])[k] \in live
         /\ th[t].path \in Ways
         /\ th[t].at \in {"look", "update"} => xlock[th[t].cur] = t
         /\ th[t].at = "close" => /\ xlock[th[t].end] = t
                                  /\ ref[th[t].end] = 0 /\ th[t].end \in table
         /\ t # Nil
  BY TreeAssumption DEF TreeInv, TreeType, ThreadsOK, ThreadRec

\* What a thread refers to exists.
LEMMA RefersToLive ==
  ASSUME TreeInv, NEW t \in Openers
  PROVE  /\ th[t].at \in {"name", "look", "acquire", "step"} => th[t].cur \in live
         /\ th[t].at \in {"step", "forward", "opened"} => th[t].next \in live
         /\ th[t].at = "relax" => th[t].end \in live
         /\ th[t].at \in {"relax", "close"} /\ th[t].then # "idle" =>
              th[t].next \in live
  <1>1. /\ th[t] \in ThreadRec
        /\ \A k \in DOMAIN Way(th[t]) : Way(th[t])[k] \in live
    BY ThreadFacts
  <1>2. \A a : Way(th[t]) = <<a>> => a \in live
    <2> SUFFICES ASSUME NEW a, Way(th[t]) = <<a>> PROVE a \in live
      OBVIOUS
    <2>1. 1 \in DOMAIN Way(th[t]) /\ Way(th[t])[1] = a
      OBVIOUS
    <2> QED
      BY <1>1, <2>1
  <1>3. \A a, b : Way(th[t]) = <<a, b>> => a \in live /\ b \in live
    <2> SUFFICES ASSUME NEW a, NEW b, Way(th[t]) = <<a, b>>
                 PROVE  a \in live /\ b \in live
      OBVIOUS
    <2>1. /\ 1 \in DOMAIN Way(th[t]) /\ Way(th[t])[1] = a
          /\ 2 \in DOMAIN Way(th[t]) /\ Way(th[t])[2] = b
      OBVIOUS
    <2> QED
      BY <1>1, <2>1
  <1>4. th[t].then \in {"idle", "forward", "opened"}
    BY <1>1 DEF ThreadRec
  <1>5. th[t].at \in {"name", "look", "acquire", "step"} => th[t].cur \in live
    BY <1>1, <1>2, <1>3, WayForm
  <1>6. th[t].at \in {"step", "forward", "opened"} => th[t].next \in live
    BY <1>1, <1>2, <1>3, WayForm
  <1>7. th[t].at = "relax" => th[t].end \in live
    BY <1>1, <1>2, <1>3, WayForm
  <1>8. th[t].at \in {"relax", "close"} /\ th[t].then # "idle" => th[t].next \in live
    BY <1>1, <1>2, <1>3, <1>4, WayForm
  <1> QED
    BY <1>5, <1>6, <1>7, <1>8

\* "." in a path.
LEMMA ThisFolderStep ==
  ASSUME TreeInv, NEW t \in Openers, I!ThisFolder(t)
  PROVE  TreeInv'
  <1>1. /\ th[t] \in ThreadRec /\ Shape(th[t]) /\ th \in [Openers -> ThreadRec]
        /\ th[t].at = "name" /\ th[t].path # <<>> /\ Head(th[t].path) = Dot
    BY ThreadFacts DEF I!ThisFolder, TreeInv, TreeType
  <1>2. /\ th'[t] \in ThreadRec /\ Moves(t)
        /\ th'[t].at = "step" /\ th'[t].next = th[t].cur
        /\ th'[t].cur = th[t].cur /\ th'[t].path = th[t].path
    BY <1>1 DEF I!ThisFolder, Moves, ThreadRec
  <1>3. Tail(th[t].path) # <<>>
    BY <1>1, PathForm, ThreadFacts
  <1>4. Shape(th'[t])
    BY <1>1, <1>2, <1>3 DEF Shape
  <1>5. Way(th'[t]) = Way(th[t])
    BY <1>1, <1>2, WayForm
  <1> QED
    BY <1>2, <1>4, <1>5, StillStep DEF I!ThisFolder, TreeInv, TreeType

\* The last reference but one to a folder goes: the thread relaxes it.
LEMMA RelaxingStep ==
  ASSUME TreeInv, NEW t \in Openers, th[t].at \in {"name", "look"},
         th' = I!Relaxing(t, th[t].cur, "idle"),
         UNCHANGED <<live, table, ref, files, slock>>,
         xlock' = xlock \/ (th[t].at = "look" /\ xlock' = [xlock EXCEPT ![th[t].cur] = Nil])
  PROVE  TreeInv'
  <1>1. /\ th[t] \in ThreadRec /\ Shape(th[t]) /\ th \in [Openers -> ThreadRec]
        /\ th[t].cur \in Node
        /\ th[t].at = "look" => xlock[th[t].cur] = t
        /\ xlock \in [Node -> Openers \cup {Nil}]
    BY ThreadFacts DEF TreeInv, TreeType, Shape
  <1>2. /\ th'[t] \in ThreadRec /\ Moves(t)
        /\ th'[t].at = "relax" /\ th'[t].end = th[t].cur
        /\ th'[t].then = "idle"
    BY <1>1 DEF I!Relaxing, Moves, ThreadRec
  <1>3. Shape(th'[t])
    BY <1>1, <1>2 DEF Shape
  <1>4. Way(th'[t]) = Way(th[t])
    BY <1>1, <1>2, WayForm
  <1>5. /\ xlock' \in [Node -> Openers \cup {Nil}]
        /\ \A n \in Node : xlock[n] \in Openers \ {t} => xlock'[n] = xlock[n]
    BY <1>1
  <1>6. slock' \in [Node -> SUBSET Openers]
    BY DEF TreeInv, TreeType
  <1> QED
    BY <1>2, <1>3, <1>4, <1>5, <1>6, StillStep

\* ".." in a path, which fails in the root.
LEMMA ParentFolderStep ==
  ASSUME TreeInv, NEW t \in Openers, I!ParentFolder(t)
  PROVE  TreeInv'
  <1>1. /\ th[t] \in ThreadRec /\ Shape(th[t]) /\ th \in [Openers -> ThreadRec]
        /\ th[t].at = "name" /\ th[t].path # <<>> /\ th[t].cur \in Node
    BY ThreadFacts DEF I!ParentFolder, TreeInv, TreeType, Shape
  <1>2. CASE Parent[th[t].cur] = Nil
    <2>1. th' = I!Relaxing(t, th[t].cur, "idle")
      BY <1>2 DEF I!ParentFolder
    <2> QED
      BY <2>1, <1>1, RelaxingStep DEF I!ParentFolder
  <1>3. CASE Parent[th[t].cur] # Nil
    <2>1. Parent[th[t].cur] \in Node /\ th[t].cur # Root
      BY <1>1, <1>3, TreeAssumption
    <2>2. th' = [th EXCEPT ![t].at = "acquire", ![t].next = Parent[th[t].cur]]
      BY <1>3 DEF I!ParentFolder
    <2>3. /\ th'[t] \in ThreadRec /\ Moves(t)
          /\ th'[t].at = "acquire" /\ th'[t].next = Parent[th[t].cur]
          /\ th'[t].cur = th[t].cur /\ th'[t].path = th[t].path
      BY <1>1, <2>1, <2>2 DEF Moves, ThreadRec
    <2>4. Shape(th'[t])
      BY <1>1, <2>1, <2>3 DEF Shape
    <2>5. Way(th'[t]) = Way(th[t])
      BY <1>1, <2>3, WayForm
    <2> QED
      BY <2>3, <2>4, <2>5, StillStep DEF I!ParentFolder, TreeInv, TreeType
  <1> QED
    BY <1>2, <1>3

\* folder_instance::open takes the lock of the folder.
LEMMA LockFolderStep ==
  ASSUME TreeInv, NEW t \in Openers, I!LockFolder(t)
  PROVE  TreeInv'
  <1>1. /\ th[t] \in ThreadRec /\ Shape(th[t]) /\ th \in [Openers -> ThreadRec]
        /\ th[t].at = "name" /\ th[t].path # <<>> /\ th[t].cur \in Node
        /\ Head(th[t].path) \in Node
        /\ xlock \in [Node -> Openers \cup {Nil}]
    BY ThreadFacts DEF I!LockFolder, TreeInv, TreeType, Shape
  <1>2. /\ th'[t] \in ThreadRec /\ Moves(t)
        /\ th'[t].at = "look" /\ th'[t].cur = th[t].cur
        /\ th'[t].path = th[t].path
    BY <1>1 DEF I!LockFolder, Moves, ThreadRec
  <1>3. Shape(th'[t])
    BY <1>1, <1>2 DEF Shape
  <1>4. Way(th'[t]) = Way(th[t])
    BY <1>1, <1>2, WayForm
  <1>5. /\ xlock' \in [Node -> Openers \cup {Nil}]
        /\ \A n \in Node : xlock[n] \in Openers \ {t} => xlock'[n] = xlock[n]
        /\ xlock'[th'[t].cur] = t
    <2>1. xlock' = [xlock EXCEPT ![th[t].cur] = t] /\ xlock[th[t].cur] = Nil
      BY DEF I!LockFolder, I!CanX
    <2>2. Nil \notin Openers
      BY TreeAssumption
    <2> QED
      BY <1>1, <1>2, <2>1, <2>2
  <1> QED
    BY <1>2, <1>3, <1>4, <1>5, StillStep DEF I!LockFolder, TreeInv, TreeType

\* The folder has no such record, or it cannot be read.
LEMMA OpenFailsStep ==
  ASSUME TreeInv, NEW t \in Openers, I!OpenFails(t)
  PROVE  TreeInv'
  BY RelaxingStep DEF I!OpenFails

\* The next folder is locked before the one behind is relaxed; the last one
\* is the result.
LEMMA StepStep ==
  ASSUME TreeInv, NEW t \in Openers, I!Step(t)
  PROVE  TreeInv'
  <1> DEFINE n == th[t].next
             rest == Tail(th[t].path)
  <1>1. /\ th[t] \in ThreadRec /\ Shape(th[t]) /\ th \in [Openers -> ThreadRec]
        /\ th[t].at = "step" /\ th[t].path # <<>> /\ th[t].cur \in Node
        /\ n \in Node /\ (n = th[t].cur => rest # <<>>) /\ rest \in Ways
        /\ slock \in [Node -> SUBSET Openers]
    BY ThreadFacts, PathForm DEF I!Step, TreeInv, TreeType, Shape
  <1>2. ASSUME NEW a \in {"opened", "forward"}, th' = I!Relaxing(t, th[t].cur, a),
               n # th[t].cur, slock' \in [Node -> SUBSET Openers]
        PROVE  TreeInv'
    <2>1. /\ th'[t] \in ThreadRec /\ Moves(t)
          /\ th'[t].at = "relax" /\ th'[t].end = th[t].cur /\ th'[t].then = a
          /\ th'[t].next = n /\ th'[t].path = th[t].path
      BY <1>1, <1>2 DEF I!Relaxing, Moves, ThreadRec
    <2>2. Shape(th'[t])
      BY <1>1, <2>1 DEF Shape
    <2>3. Way(th'[t]) = Way(th[t])
      BY <1>1, <1>2, <2>1, WayForm
    <2> QED
      BY <1>2, <2>1, <2>2, <2>3, StillStep DEF I!Step, TreeInv, TreeType
  <1>3. CASE rest = <<>>
    BY <1>1, <1>2, <1>3 DEF I!Step
  <1>4. CASE rest # <<>> /\ n = th[t].cur
    <2>1. /\ th' = [th EXCEPT ![t].at = "name", ![t].path = rest, ![t].next = Nil]
          /\ slock' = slock
      BY <1>4 DEF I!Step
    <2>2. /\ th'[t] \in ThreadRec /\ Moves(t)
          /\ th'[t].at = "name" /\ th'[t].cur = th[t].cur
      BY <1>1, <2>1 DEF Moves, ThreadRec
    <2>3. Shape(th'[t])
      BY <1>1, <2>2 DEF Shape
    <2>4. Way(th'[t]) = Way(th[t])
      BY <1>1, <1>4, <2>2, WayForm
    <2> QED
      BY <2>1, <2>2, <2>3, <2>4, StillStep DEF I!Step, TreeInv, TreeType
  <1>5. CASE rest # <<>> /\ n # th[t].cur
    <2>1. /\ th' = I!Relaxing(t, th[t].cur, "forward")
          /\ slock' = [slock EXCEPT ![n] = @ \cup {t}]
      BY <1>5 DEF I!Step
    <2> QED
      BY <1>1, <1>2, <1>5, <2>1
  <1> QED
    BY <1>3, <1>4, <1>5

\* imp_open goes on in the next folder.
LEMMA ForwardStep ==
  ASSUME TreeInv, NEW t \in Openers, I!Forward(t)
  PROVE  TreeInv'
  <1>1. /\ th[t] \in ThreadRec /\ Shape(th[t]) /\ th \in [Openers -> ThreadRec]
        /\ th[t].at = "forward" /\ th[t].path # <<>> /\ th[t].next \in Node
        /\ Tail(th[t].path) \in Ways
        /\ slock \in [Node -> SUBSET Openers]
    BY ThreadFacts, PathForm DEF I!Forward, TreeInv, TreeType, Shape
  <1>2. /\ th'[t] \in ThreadRec /\ Moves(t)
        /\ th'[t].at = "name" /\ th'[t].cur = th[t].next
    BY <1>1 DEF I!Forward, Moves, ThreadRec
  <1>3. Shape(th'[t])
    BY <1>1, <1>2 DEF Shape
  <1>4. Way(th'[t]) = Way(th[t])
    BY <1>1, <1>2, WayForm
  <1>5. slock' \in [Node -> SUBSET Openers]
    BY <1>1 DEF I!Forward
  <1> QED
    BY <1>2, <1>3, <1>4, <1>5, StillStep DEF I!Forward, TreeInv, TreeType

\* A failed open, and the end of a file object.
LEMMA BackStep2 ==
  ASSUME TreeInv, NEW t \in Openers, I!Back(t)
  PROVE  TreeInv'
  <1>1. /\ th[t] \in ThreadRec /\ th \in [Openers -> ThreadRec]
        /\ th[t].at = "idle"
    BY ThreadFacts DEF I!Back, TreeInv, TreeType
  <1>2. th'[t] = I!Idle /\ Moves(t)
    BY <1>1, IdleRec DEF I!Back, Moves
  <1>3. Shape(th'[t]) /\ Way(th'[t]) = Way(th[t]) /\ th'[t].at = "idle"
    BY <1>1, <1>2, IdleRec, WayForm
  <1> QED
    BY <1>2, <1>3, StillStep DEF I!Back, TreeInv, TreeType

\* A thread that works on an instance without a way of its own.
LEMMA BusyRec ==
  ASSUME NEW a \in {"update", "path"}, NEW n \in Node, NEW q,
         q = [I!Idle EXCEPT !.at = a, !.cur = n]
  PROVE  /\ q \in ThreadRec /\ q.at = a /\ q.cur = n /\ Shape(q)
         /\ Way(q) = <<>>
  <1>1. q \in ThreadRec /\ q.at = a /\ q.cur = n
    BY IdleRec DEF ThreadRec, I!Idle
  <1> QED
    BY <1>1, WayForm DEF Shape

\* worker_write locks the instance.
LEMMA WriteStep ==
  ASSUME TreeInv, NEW t \in Openers, NEW n \in Node, I!Write(t, n)
  PROVE  TreeInv'
  <1>1. /\ th \in [Openers -> ThreadRec] /\ th[t] = I!Idle /\ xlock[n] = Nil
        /\ xlock \in [Node -> Openers \cup {Nil}] /\ Nil \notin Openers
    BY TreeAssumption DEF I!Write, TreeInv, TreeType, I!CanX
  <1>2. th' = [th EXCEPT ![t] = [I!Idle EXCEPT !.at = "update", !.cur = n]]
    BY DEF I!Write
  <1>3. th'[t] = [I!Idle EXCEPT !.at = "update", !.cur = n]
    BY <1>1, <1>2
  <1>4. /\ th'[t] \in ThreadRec /\ th'[t].at = "update" /\ th'[t].cur = n
        /\ Shape(th'[t]) /\ Way(th'[t]) = <<>>
    <2>2. PICK q : q = th'[t]
      OBVIOUS
    <2>3. q = [I!Idle EXCEPT !.at = "update", !.cur = n]
      BY <1>3, <2>2
    <2>4. q \in ThreadRec /\ q.at = "update" /\ q.cur = n
      BY <2>3, IdleRec DEF ThreadRec, I!Idle
    <2>5. Shape(q) /\ Way(q) = <<>>
      BY <2>4, WayForm DEF Shape
    <2> QED
      BY <2>2, <2>4, <2>5
  <1>5. Moves(t)
    BY <1>1, <1>2, <1>4 DEF Moves
  <1>6. Way(th'[t]) = Way(th[t])
    BY <1>1, <1>4, IdleRec
  <1>7. /\ xlock' \in [Node -> Openers \cup {Nil}] /\ xlock'[n] = t
        /\ \A m \in Node : xlock[m] \in Openers \ {t} => xlock'[m] = xlock[m]
    BY <1>1 DEF I!Write
  <1> QED
    BY <1>4, <1>5, <1>6, <1>7, StillStep DEF I!Write, TreeInv, TreeType

\* update_chain under the lock of the folder.
LEMMA UpdateStep ==
  ASSUME TreeInv, NEW t \in Openers, I!Update(t)
  PROVE  TreeInv'
  <1>1. /\ th[t] \in ThreadRec /\ th \in [Openers -> ThreadRec]
        /\ th[t].at = "update"
        /\ xlock[th[t].cur] = t /\ th[t].cur \in Node
        /\ xlock \in [Node -> Openers \cup {Nil}]
    BY ThreadFacts DEF I!Update, TreeInv, TreeType, Shape
  <1>2. th'[t] = I!Idle /\ Moves(t)
    BY <1>1, IdleRec DEF I!Update, Moves
  <1>3. Shape(th'[t]) /\ Way(th'[t]) = Way(th[t]) /\ th'[t].at = "idle"
    BY <1>1, <1>2, IdleRec, WayForm
  <1>4. /\ xlock' \in [Node -> Openers \cup {Nil}]
        /\ \A m \in Node : xlock[m] \in Openers \ {t} => xlock'[m] = xlock[m]
    BY <1>1 DEF I!Update
  <1> QED
    BY <1>2, <1>3, <1>4, StillStep DEF I!Update, TreeInv, TreeType

\* get_path locks the instance.
LEMMA GetPathStep ==
  ASSUME TreeInv, NEW t \in Openers, NEW n \in Node, I!GetPath(t, n)
  PROVE  TreeInv'
  <1>1. /\ th \in [Openers -> ThreadRec] /\ th[t] = I!Idle
        /\ slock \in [Node -> SUBSET Openers]
    BY DEF I!GetPath, TreeInv, TreeType
  <1>2. th' = [th EXCEPT ![t] = [I!Idle EXCEPT !.at = "path", !.cur = n]]
    BY DEF I!GetPath
  <1>3. th'[t] = [I!Idle EXCEPT !.at = "path", !.cur = n]
    BY <1>1, <1>2
  <1>4. /\ th'[t] \in ThreadRec /\ th'[t].at = "path"
        /\ Shape(th'[t]) /\ Way(th'[t]) = <<>>
    BY <1>3, BusyRec
  <1>5. Moves(t)
    BY <1>1, <1>2, <1>4 DEF Moves
  <1>6. Way(th'[t]) = Way(th[t])
    BY <1>1, <1>4, IdleRec
  <1>7. slock' \in [Node -> SUBSET Openers]
    BY <1>1 DEF I!GetPath
  <1> QED
    BY <1>4, <1>5, <1>6, <1>7, StillStep DEF I!GetPath, TreeInv, TreeType

\* get_path locks the folder above, or ends at the root.
LEMMA PathUpStep ==
  ASSUME TreeInv, NEW t \in Openers, I!PathUp(t)
  PROVE  TreeInv'
  <1>1. /\ th[t] \in ThreadRec /\ th \in [Openers -> ThreadRec]
        /\ th[t].at = "path"
        /\ th[t].cur \in Node /\ slock \in [Node -> SUBSET Openers]
    BY ThreadFacts DEF I!PathUp, TreeInv, TreeType, Shape
  <1>2. slock' \in [Node -> SUBSET Openers]
    BY <1>1, TreeAssumption DEF I!PathUp
  <1>3. CASE Parent[th[t].cur] = Nil
    <2>1. th'[t] = I!Idle /\ Moves(t)
      BY <1>1, <1>3, IdleRec DEF I!PathUp, Moves
    <2>2. Shape(th'[t]) /\ Way(th'[t]) = Way(th[t]) /\ th'[t].at = "idle"
      BY <1>1, <2>1, IdleRec, WayForm
    <2> QED
      BY <1>2, <2>1, <2>2, StillStep DEF I!PathUp, TreeInv, TreeType
  <1>4. CASE Parent[th[t].cur] # Nil
    <2>1. Parent[th[t].cur] \in Node
      BY <1>1, <1>4, TreeAssumption
    <2>2. /\ th'[t] \in ThreadRec /\ Moves(t)
          /\ th'[t].at = "path" /\ th'[t].cur \in Node
      BY <1>1, <1>4, <2>1 DEF I!PathUp, Moves, ThreadRec
    <2>3. Shape(th'[t]) /\ Way(th'[t]) = Way(th[t])
      BY <1>1, <2>2, WayForm DEF Shape
    <2> QED
      BY <1>2, <2>2, <2>3, StillStep DEF I!PathUp, TreeInv, TreeType
  <1> QED
    BY <1>3, <1>4

\* The way begins at the root or at a work directory, which is acquired.
LEMMA OpenStep ==
  ASSUME TreeInv, NEW t \in Openers, NEW n \in Node, NEW p \in Ways,
         NEW m \in SUBSET {"file", "folder"}, th[t] = I!Idle, I!Open(t, n, p, m)
  PROVE  TreeInv'
  <1>1. /\ th \in [Openers -> ThreadRec] /\ th[t] = I!Idle /\ xlock[n] = Nil
        /\ ref \in [Node -> Int] /\ files \in [Node -> Nat]
        /\ Nil \notin Openers
    BY TreeAssumption DEF I!Open, TreeInv, TreeType, I!CanX
  <1>2. n \in live
    BY DEF I!Open, TreeInv, LiveOK
  <1>3. th' = [th EXCEPT ![t] = [I!Idle EXCEPT !.at = "name", !.path = p, !.mode = m, !.cur = n]]
    BY DEF I!Open
  <1>4. /\ th'[t] \in ThreadRec /\ Moves(t)
        /\ th'[t].at = "name" /\ th'[t].cur = n
    BY <1>1, <1>3 DEF Moves, ThreadRec, I!Idle
  <1>5. Shape(th'[t])
    BY <1>4 DEF Shape
  <1>6. Way(th'[t]) = <<n>> /\ Way(th[t]) = <<>>
    BY <1>1, <1>4, WayForm, IdleRec
  <1>7. \A k \in DOMAIN Way(th'[t]) : Way(th'[t])[k] \in live
    BY <1>2, <1>6
  <1>8. /\ ref' = [ref EXCEPT ![n] = @ + 1] /\ files' = files
        /\ UNCHANGED <<live, table, xlock, slock>>
    BY DEF I!Open
  <1>9. \A k \in Node : ref'[k] + files[k] + Num(th[t], k)
                         = ref[k] + files'[k] + Num(th'[t], k)
    <2> SUFFICES ASSUME NEW k \in Node
                 PROVE  ref'[k] + files[k] + Num(th[t], k)
                         = ref[k] + files'[k] + Num(th'[t], k)
      OBVIOUS
    <2>1. Num(th[t], k) = 0 /\ Num(th'[t], k) = IF n = k THEN 1 ELSE 0
      BY <1>6, NumForm
    <2>2. ref[k] \in Int /\ files[k] \in Nat /\ files'[k] = files[k]
      BY <1>1, <1>8
    <2>3. ref'[k] = IF n = k THEN ref[k] + 1 ELSE ref[k]
      BY <1>1, <1>8
    <2> QED
      BY <2>1, <2>2, <2>3
  <1>10. /\ ref' \in [Node -> Int] /\ files' \in [Node -> Nat]
         /\ xlock' \in [Node -> Openers \cup {Nil}]
         /\ slock' \in [Node -> SUBSET Openers]
         /\ \A k \in Node : files'[k] > 0 => k \in live
         /\ \A k \in Node : xlock[k] \in Openers \ {t} =>
                             xlock'[k] = xlock[k] /\ ref'[k] = ref[k]
    BY <1>1, <1>8 DEF TreeInv, TreeType, LiveOK
  <1> QED
    BY <1>4, <1>5, <1>7, <1>8, <1>9, <1>10, CountStep

\* An empty rest of the path names the folder.
LEMMA EndOfPathStep ==
  ASSUME TreeInv, NEW t \in Openers, I!EndOfPath(t)
  PROVE  TreeInv'
  <1>1. /\ th[t] \in ThreadRec /\ th \in [Openers -> ThreadRec]
        /\ th[t].at = "name"
        /\ th[t].cur \in Node /\ th[t].cur \in live
        /\ ref \in [Node -> Int] /\ files \in [Node -> Nat]
    BY ThreadFacts, RefersToLive DEF I!EndOfPath, TreeInv, TreeType, Shape
  <1>2. CASE "folder" \in th[t].mode
    <2>1. /\ files' = [files EXCEPT ![th[t].cur] = @ + 1]
          /\ th' = [th EXCEPT ![t] = I!Idle]
          /\ UNCHANGED <<live, table, ref, xlock, slock>>
      BY <1>2 DEF I!EndOfPath
    <2>2. th'[t] = I!Idle /\ Moves(t)
      BY <1>1, <2>1, IdleRec DEF Moves
    <2>3. Shape(th'[t]) /\ Way(th'[t]) = <<>> /\ th'[t].at = "idle"
      BY <2>2, IdleRec
    <2>4. Way(th[t]) = <<th[t].cur>>
      BY <1>1, WayForm
    <2>5. \A k \in Node : ref'[k] + files[k] + Num(th[t], k)
                           = ref[k] + files'[k] + Num(th'[t], k)
      <3> SUFFICES ASSUME NEW k \in Node
                   PROVE  ref'[k] + files[k] + Num(th[t], k)
                           = ref[k] + files'[k] + Num(th'[t], k)
        OBVIOUS
      <3>1. Num(th'[t], k) = 0 /\ Num(th[t], k) = IF th[t].cur = k THEN 1 ELSE 0
        BY <2>3, <2>4, NumForm
      <3>2. ref[k] \in Int /\ files[k] \in Nat /\ ref'[k] = ref[k]
        BY <1>1, <2>1
      <3>3. files'[k] = IF th[t].cur = k THEN files[k] + 1 ELSE files[k]
        BY <1>1, <2>1
      <3> QED
        BY <3>1, <3>2, <3>3
    <2>6. /\ ref' \in [Node -> Int] /\ files' \in [Node -> Nat]
          /\ xlock' \in [Node -> Openers \cup {Nil}]
          /\ slock' \in [Node -> SUBSET Openers]
          /\ \A k \in Node : files'[k] > 0 => k \in live
          /\ \A k \in Node : xlock[k] \in Openers \ {t} =>
                              xlock'[k] = xlock[k] /\ ref'[k] = ref[k]
      BY <1>1, <2>1 DEF TreeInv, TreeType, LiveOK
    <2>7. \A k \in DOMAIN Way(th'[t]) : Way(th'[t])[k] \in live
      BY <2>3
    <2> QED
      BY <2>1, <2>2, <2>3, <2>5, <2>6, <2>7, CountStep
  <1>3. CASE "folder" \notin th[t].mode
    <2>1. th' = I!Relaxing(t, th[t].cur, "idle")
      BY <1>3 DEF I!EndOfPath
    <2>2. UNCHANGED <<live, table, ref, files, slock, xlock>>
      BY <1>3 DEF I!EndOfPath
    <2> QED
      BY <1>1, <2>1, <2>2, RelaxingStep
  <1> QED
    BY <1>2, <1>3

\* The reference of the thread becomes the one of the file object.
LEMMA OpenedStep ==
  ASSUME TreeInv, NEW t \in Openers, I!Opened(t)
  PROVE  TreeInv'
  <1>1. /\ th[t] \in ThreadRec /\ th \in [Openers -> ThreadRec]
        /\ th[t].at = "opened"
        /\ th[t].next \in Node /\ th[t].next \in live
        /\ ref \in [Node -> Int] /\ files \in [Node -> Nat]
    BY ThreadFacts, RefersToLive DEF I!Opened, TreeInv, TreeType, Shape
  <1>2. /\ files' = [files EXCEPT ![th[t].next] = @ + 1]
        /\ th' = [th EXCEPT ![t] = I!Idle]
        /\ UNCHANGED <<live, table, ref, xlock, slock>>
    BY DEF I!Opened
  <1>3. th'[t] = I!Idle /\ Moves(t)
    BY <1>1, <1>2, IdleRec DEF Moves
  <1>4. Shape(th'[t]) /\ Way(th'[t]) = <<>> /\ th'[t].at = "idle"
    BY <1>3, IdleRec
  <1>5. Way(th[t]) = <<th[t].next>>
    BY <1>1, WayForm
  <1>6. \A k \in Node : ref'[k] + files[k] + Num(th[t], k)
                         = ref[k] + files'[k] + Num(th'[t], k)
    <2> SUFFICES ASSUME NEW k \in Node
                 PROVE  ref'[k] + files[k] + Num(th[t], k)
                         = ref[k] + files'[k] + Num(th'[t], k)
      OBVIOUS
    <2>1. Num(th'[t], k) = 0 /\ Num(th[t], k) = IF th[t].next = k THEN 1 ELSE 0
      BY <1>4, <1>5, NumForm
    <2>2. ref[k] \in Int /\ files[k] \in Nat /\ ref'[k] = ref[k]
      BY <1>1, <1>2
    <2>3. files'[k] = IF th[t].next = k THEN files[k] + 1 ELSE files[k]
      BY <1>1, <1>2
    <2> QED
      BY <2>1, <2>2, <2>3
  <1>7. /\ ref' \in [Node -> Int] /\ files' \in [Node -> Nat]
        /\ xlock' \in [Node -> Openers \cup {Nil}]
        /\ slock' \in [Node -> SUBSET Openers]
        /\ \A k \in Node : files'[k] > 0 => k \in live
        /\ \A k \in Node : xlock[k] \in Openers \ {t} =>
                            xlock'[k] = xlock[k] /\ ref'[k] = ref[k]
    BY <1>1, <1>2 DEF TreeInv, TreeType, LiveOK
  <1>8. \A k \in DOMAIN Way(th'[t]) : Way(th'[t])[k] \in live
    BY <1>4
  <1> QED
    BY <1>2, <1>3, <1>4, <1>6, <1>7, <1>8, CountStep

\* The folder above is acquired: it exists, for its instance below does.
LEMMA AcquireParentStep ==
  ASSUME TreeInv, NEW t \in Openers, I!AcquireParent(t)
  PROVE  TreeInv'
  <1> DEFINE n == th[t].next
  <1>1. /\ th[t] \in ThreadRec /\ Shape(th[t]) /\ th \in [Openers -> ThreadRec]
        /\ th[t].at = "acquire" /\ th[t].cur \in live /\ th[t].cur \in Node
        /\ th[t].path # <<>> /\ n = Parent[th[t].cur] /\ th[t].cur # Root
        /\ ref \in [Node -> Int] /\ files \in [Node -> Nat]
        /\ Nil \notin Openers
        /\ xlock[n] = Nil
    BY ThreadFacts, RefersToLive, TreeAssumption
       DEF I!AcquireParent, TreeInv, TreeType, Shape, I!CanX
  <1>2. n \in live /\ n # th[t].cur /\ n \in Node
    BY <1>1 DEF TreeInv, LiveOK, TreeType
  <1>3. /\ ref' = [ref EXCEPT ![n] = @ + 1]
        /\ th' = [th EXCEPT ![t].at = "step"]
        /\ UNCHANGED <<live, table, files, xlock, slock>>
    BY DEF I!AcquireParent
  <1>4. /\ th'[t] \in ThreadRec /\ Moves(t) /\ th'[t].at = "step"
        /\ th'[t].cur = th[t].cur /\ th'[t].next = n
        /\ th'[t].path = th[t].path
    BY <1>1, <1>3 DEF Moves, ThreadRec
  <1>5. Shape(th'[t])
    BY <1>1, <1>2, <1>4 DEF Shape
  <1>6. Way(th'[t]) = <<th[t].cur, n>> /\ Way(th[t]) = <<th[t].cur>>
    BY <1>1, <1>2, <1>4, WayForm
  <1>7. \A k \in DOMAIN Way(th'[t]) : Way(th'[t])[k] \in live
    BY <1>1, <1>2, <1>6
  <1>8. \A k \in Node : ref'[k] + files[k] + Num(th[t], k)
                         = ref[k] + files'[k] + Num(th'[t], k)
    <2> SUFFICES ASSUME NEW k \in Node
                 PROVE  ref'[k] + files[k] + Num(th[t], k)
                         = ref[k] + files'[k] + Num(th'[t], k)
      OBVIOUS
    <2>1. /\ Num(th[t], k) = IF th[t].cur = k THEN 1 ELSE 0
          /\ Num(th'[t], k) = (IF th[t].cur = k THEN 1 ELSE 0) + (IF n = k THEN 1 ELSE 0)
      BY <1>6, NumForm
    <2>2. ref[k] \in Int /\ files[k] \in Nat /\ files'[k] = files[k]
      BY <1>1, <1>3
    <2>3. ref'[k] = IF n = k THEN ref[k] + 1 ELSE ref[k]
      BY <1>1, <1>3
    <2> QED
      BY <2>1, <2>2, <2>3
  <1>9. /\ ref' \in [Node -> Int] /\ files' \in [Node -> Nat]
        /\ xlock' \in [Node -> Openers \cup {Nil}]
        /\ slock' \in [Node -> SUBSET Openers]
        /\ \A k \in Node : files'[k] > 0 => k \in live
        /\ \A k \in Node : xlock[k] \in Openers \ {t} =>
                            xlock'[k] = xlock[k] /\ ref'[k] = ref[k]
    BY <1>1, <1>2, <1>3 DEF TreeInv, TreeType, LiveOK
  <1> QED
    BY <1>3, <1>4, <1>5, <1>7, <1>8, <1>9, CountStep

\* The instance in file_table is acquired under the locks of the folder and
\* its own.
LEMMA OpenTableStep ==
  ASSUME TreeInv, NEW t \in Openers, I!OpenTable(t)
  PROVE  TreeInv'
  <1> DEFINE n == Head(th[t].path)
             c == th[t].cur
  <1>1. /\ th[t] \in ThreadRec /\ Shape(th[t]) /\ th \in [Openers -> ThreadRec]
        /\ th[t].at = "look" /\ c \in live /\ c \in Node /\ xlock[c] = t
        /\ th[t].path # <<>> /\ n \in Node /\ n \in table /\ Parent[n] = c
        /\ ref \in [Node -> Int] /\ files \in [Node -> Nat]
        /\ Nil \notin Openers
        /\ xlock \in [Node -> Openers \cup {Nil}]
    BY ThreadFacts, RefersToLive, TreeAssumption
       DEF I!OpenTable, TreeInv, TreeType, Shape, I!InTable, I!Wanted
  <1>2. n \in live /\ n # c
    BY <1>1 DEF TreeInv, LiveOK
  <1>3. CASE ~I!Allowed(t)
    <2>1. /\ th' = I!Relaxing(t, th[t].cur, "idle")
          /\ xlock' = [xlock EXCEPT ![c] = Nil]
          /\ UNCHANGED <<live, table, ref, files, slock>>
      BY <1>3 DEF I!OpenTable
    <2> QED
      BY <1>1, <2>1, RelaxingStep
  <1>4. CASE I!Allowed(t)
    <2>1. /\ ref' = [ref EXCEPT ![n] = @ + 1]
          /\ th' = [th EXCEPT ![t].at = "step", ![t].next = n]
          /\ xlock' = [xlock EXCEPT ![c] = Nil]
          /\ UNCHANGED <<live, table, files, slock>>
          /\ xlock[n] = Nil
      BY <1>4 DEF I!OpenTable, I!Wanted, I!CanX
    <2>2. /\ th'[t] \in ThreadRec /\ Moves(t) /\ th'[t].at = "step"
          /\ th'[t].cur = c /\ th'[t].next = n /\ th'[t].path = th[t].path
      BY <1>1, <2>1 DEF Moves, ThreadRec
    <2>3. Shape(th'[t])
      BY <1>1, <1>2, <2>2 DEF Shape
    <2>4. Way(th'[t]) = <<c, n>> /\ Way(th[t]) = <<c>>
      BY <1>1, <1>2, <2>2, WayForm
    <2>5. \A k \in DOMAIN Way(th'[t]) : Way(th'[t])[k] \in live
      BY <1>1, <1>2, <2>4
    <2>6. \A k \in Node : ref'[k] + files[k] + Num(th[t], k)
                           = ref[k] + files'[k] + Num(th'[t], k)
      <3> SUFFICES ASSUME NEW k \in Node
                   PROVE  ref'[k] + files[k] + Num(th[t], k)
                           = ref[k] + files'[k] + Num(th'[t], k)
        OBVIOUS
      <3>1. /\ Num(th[t], k) = IF c = k THEN 1 ELSE 0
            /\ Num(th'[t], k) = (IF c = k THEN 1 ELSE 0) + (IF n = k THEN 1 ELSE 0)
        BY <2>4, NumForm
      <3>2. ref[k] \in Int /\ files[k] \in Nat /\ files'[k] = files[k]
        BY <1>1, <2>1
      <3>3. ref'[k] = IF n = k THEN ref[k] + 1 ELSE ref[k]
        BY <1>1, <2>1
      <3> QED
        BY <3>1, <3>2, <3>3
    <2>7. /\ ref' \in [Node -> Int] /\ files' \in [Node -> Nat]
          /\ slock' \in [Node -> SUBSET Openers]
          /\ \A k \in Node : files'[k] > 0 => k \in live
      BY <1>1, <2>1 DEF TreeInv, TreeType, LiveOK
    <2>8. /\ xlock' \in [Node -> Openers \cup {Nil}]
          /\ \A k \in Node : xlock[k] \in Openers \ {t} =>
                              xlock'[k] = xlock[k] /\ ref'[k] = ref[k]
      BY <1>1, <2>1
    <2> QED
      BY <2>1, <2>2, <2>3, <2>5, <2>6, <2>7, <2>8, CountStep
  <1> QED
    BY <1>3, <1>4

\* The reference of the file object becomes the one of the thread that
\* relaxes it.
LEMMA CloseFileStep ==
  ASSUME TreeInv, NEW t \in Openers, NEW n \in Node, I!CloseFile(t, n)
  PROVE  TreeInv'
  <1>1. /\ th \in [Openers -> ThreadRec] /\ th[t] = I!Idle /\ files[n] > 0
        /\ ref \in [Node -> Int] /\ files \in [Node -> Nat]
    BY DEF I!CloseFile, TreeInv, TreeType
  <1>2. n \in live
    BY <1>1 DEF TreeInv, LiveOK
  <1>3. /\ files' = [files EXCEPT ![n] = @ - 1]
        /\ th' = I!Relaxing(t, n, "idle")
        /\ UNCHANGED <<live, table, ref, xlock, slock>>
    BY DEF I!CloseFile
  <1>4. /\ th'[t] \in ThreadRec /\ Moves(t)
        /\ th'[t].at = "relax" /\ th'[t].end = n /\ th'[t].then = "idle"
    BY <1>1, <1>3, IdleRec DEF Moves, ThreadRec, I!Relaxing
  <1>5. Shape(th'[t])
    BY <1>4 DEF Shape
  <1>6. Way(th'[t]) = <<n>> /\ Way(th[t]) = <<>>
    BY <1>1, <1>4, WayForm, IdleRec
  <1>7. \A k \in DOMAIN Way(th'[t]) : Way(th'[t])[k] \in live
    BY <1>2, <1>6
  <1>8. \A k \in Node : ref'[k] + files[k] + Num(th[t], k)
                         = ref[k] + files'[k] + Num(th'[t], k)
    <2> SUFFICES ASSUME NEW k \in Node
                 PROVE  ref'[k] + files[k] + Num(th[t], k)
                         = ref[k] + files'[k] + Num(th'[t], k)
      OBVIOUS
    <2>1. Num(th[t], k) = 0 /\ Num(th'[t], k) = IF n = k THEN 1 ELSE 0
      BY <1>6, NumForm
    <2>2. ref[k] \in Int /\ files[k] \in Nat /\ ref'[k] = ref[k]
      BY <1>1, <1>3
    <2>3. files'[k] = IF n = k THEN files[k] - 1 ELSE files[k]
      BY <1>1, <1>3
    <2> QED
      BY <2>1, <2>2, <2>3
  <1>9. /\ ref' \in [Node -> Int] /\ files' \in [Node -> Nat]
        /\ xlock' \in [Node -> Openers \cup {Nil}]
        /\ slock' \in [Node -> SUBSET Openers]
        /\ \A k \in Node : files'[k] > 0 => k \in live
        /\ \A k \in Node : xlock[k] \in Openers \ {t} =>
                            xlock'[k] = xlock[k] /\ ref'[k] = ref[k]
    BY <1>1, <1>3 DEF TreeInv, TreeType, LiveOK
  <1> QED
    BY <1>3, <1>4, <1>5, <1>7, <1>8, <1>9, CountStep

\* file::duplicate takes one more reference.
LEMMA DuplicateStep ==
  ASSUME TreeInv, NEW t \in Openers, NEW n \in Node, I!Duplicate(t, n)
  PROVE  TreeInv'
  <1>1. /\ th \in [Openers -> ThreadRec] /\ th[t] = I!Idle /\ files[n] > 0
        /\ ref \in [Node -> Int] /\ files \in [Node -> Nat]
        /\ xlock[n] = Nil /\ Nil \notin Openers
    BY TreeAssumption DEF I!Duplicate, TreeInv, TreeType, I!CanX
  <1>2. n \in live
    BY <1>1 DEF TreeInv, LiveOK
  <1>3. /\ files' = [files EXCEPT ![n] = @ + 1]
        /\ ref' = [ref EXCEPT ![n] = @ + 1]
        /\ UNCHANGED <<live, table, xlock, slock, th>>
    BY DEF I!Duplicate
  <1>4. Moves(t) /\ th'[t] = I!Idle
    BY <1>1, <1>3 DEF Moves
  <1>5. Shape(th'[t]) /\ Way(th'[t]) = <<>> /\ th'[t].at = "idle"
    BY <1>4, IdleRec
  <1>7. \A k \in DOMAIN Way(th'[t]) : Way(th'[t])[k] \in live
    BY <1>5
  <1>8. \A k \in Node : ref'[k] + files[k] + Num(th[t], k)
                         = ref[k] + files'[k] + Num(th'[t], k)
    <2> SUFFICES ASSUME NEW k \in Node
                 PROVE  ref'[k] + files[k] + Num(th[t], k)
                         = ref[k] + files'[k] + Num(th'[t], k)
      OBVIOUS
    <2>1. Num(th[t], k) = Num(th'[t], k) /\ Num(th[t], k) \in Nat
      BY <1>3 DEF Num
    <2>2. ref[k] \in Int /\ files[k] \in Nat
      BY <1>1
    <2>3. /\ files'[k] = IF n = k THEN files[k] + 1 ELSE files[k]
          /\ ref'[k] = IF n = k THEN ref[k] + 1 ELSE ref[k]
      BY <1>1, <1>3
    <2> QED
      BY <2>1, <2>2, <2>3
  <1>9. /\ ref' \in [Node -> Int] /\ files' \in [Node -> Nat]
        /\ xlock' \in [Node -> Openers \cup {Nil}]
        /\ slock' \in [Node -> SUBSET Openers]
        /\ \A k \in Node : files'[k] > 0 => k \in live
        /\ \A k \in Node : xlock[k] \in Openers \ {t} =>
                            xlock'[k] = xlock[k] /\ ref'[k] = ref[k]
    BY <1>1, <1>2, <1>3 DEF TreeInv, TreeType, LiveOK
  <1> QED
    BY <1>3, <1>4, <1>5, <1>7, <1>8, <1>9, CountStep

\* A thread refers to two instances at most.
LEMMA WayDomain ==
  ASSUME NEW q \in ThreadRec
  PROVE  DOMAIN Way(q) \subseteq {1, 2}
  BY DEF Way, ThreadRec

\* What ref_count counts.
LEMMA Counted ==
  ASSUME TreeInv, NEW n \in Node
  PROVE  /\ ref[n] = files[n] + Cardinality(Kids(n)) + Cardinality(Refs(n))
                     + (IF n = Root THEN 1 ELSE 0)
         /\ files[n] \in Nat /\ ref[n] \in Int
         /\ Cardinality(Kids(n)) \in Nat /\ Cardinality(Refs(n)) \in Nat
         /\ IsFiniteSet(Kids(n))
         /\ Cardinality(Kids(n)) = 0 => Kids(n) = {}
         /\ Kids(n) = {} => Cardinality(Kids(n)) = 0
         /\ Cardinality(Refs(n)) = 0 => Refs(n) = {}
         /\ Refs(n) = {} => Cardinality(Refs(n)) = 0
         /\ \A t \in Openers : Cardinality(Refs(n)) >= Num(th[t], n)
  <1>1. IsFiniteSet(Kids(n))
    <2>1. IsFiniteSet(Node) /\ Kids(n) \subseteq Node
      BY TreeAssumption DEF Kids, TreeInv, TreeType
    <2> QED
      BY <2>1, FS_Subset
  <1>2. \A q : Num(q, n) \in Nat
    BY DEF Num
  <1>3. ASSUME NEW t \in Openers
        PROVE  /\ IsFiniteSet(Refs(n)) /\ Cardinality(Refs(n)) >= Num(th[t], n)
    <2> DEFINE A == {at \in Openers \X {1, 2} : at[1] # t /\ Has(th[at[1]], at[2], n)}
    <2>1. /\ IsFiniteSet(Refs(n)) /\ IsFiniteSet(A)
          /\ Cardinality(Refs(n)) = Cardinality(A) + Num(th[t], n)
      BY SplitRefs DEF Refs, TreeInv, TreeType
    <2> HIDE DEF A
    <2>2. Cardinality(A) \in Nat
      BY <2>1, FS_CardinalityType
    <2> QED
      BY <1>2, <2>1, <2>2
  <1>4. IsFiniteSet(Refs(n))
    <2>1. CASE Openers = {}
      <3>1. Refs(n) = {}
        BY <2>1 DEF Refs
      <3> QED
        BY <3>1, FS_EmptySet
    <2>2. CASE Openers # {}
      BY <1>3, <2>2
    <2> QED
      BY <2>1, <2>2
  <1>5. files[n] \in Nat /\ ref[n] \in Int
    BY DEF TreeInv, TreeType
  <1>6. ref[n] = files[n] + Cardinality(Kids(n)) + Cardinality(Refs(n))
                 + (IF n = Root THEN 1 ELSE 0)
    BY DEF TreeInv, RefOK
  <1> QED
    BY <1>1, <1>3, <1>4, <1>5, <1>6, FS_CardinalityType, FS_EmptySet

\* relax: the last reference leaves an instance in the table that nobody
\* else refers to, under its lock.
LEMMA RelaxStep2 ==
  ASSUME TreeInv, NEW t \in Openers, I!Relax(t)
  PROVE  TreeInv'
  <1> DEFINE n == th[t].end
             next == th[t].next
  <1>1. /\ th[t] \in ThreadRec /\ Shape(th[t]) /\ th \in [Openers -> ThreadRec]
        /\ th[t].at = "relax" /\ n \in Node /\ n \in live
        /\ th[t].then \in {"idle", "forward", "opened"}
        /\ ref \in [Node -> Int] /\ files \in [Node -> Nat]
        /\ Nil \notin Openers
        /\ xlock \in [Node -> Openers \cup {Nil}] /\ xlock[n] = Nil
    BY ThreadFacts, RefersToLive, TreeAssumption
       DEF I!Relax, TreeInv, TreeType, Shape, I!CanX, ThreadRec
  <1>2. /\ ref' = [ref EXCEPT ![n] = @ - 1]
        /\ UNCHANGED <<live, table, slock, files>>
    BY DEF I!Relax
  <1>3. Way(th[t]) = IF th[t].then = "idle" THEN <<n>> ELSE <<n, next>>
    BY <1>1, WayForm
  <1>4. /\ Moves(t) /\ Shape(th'[t]) /\ th'[t] \in ThreadRec
        /\ Way(th'[t]) = IF th[t].then = "idle" THEN <<>> ELSE <<next>>
        /\ th'[t].at \notin {"look", "update"}
        /\ \/ ref[n] > 1 /\ th'[t].at # "close" /\ xlock' = xlock
           \/ /\ ~(ref[n] > 1) /\ th'[t].at = "close" /\ th'[t].end = n
              /\ xlock' = [xlock EXCEPT ![n] = t]
    <2>1. CASE ref[n] > 1
      <3>1. th' = [th EXCEPT ![t].at = th[t].then, ![t].end = Nil] /\ xlock' = xlock
        BY <2>1 DEF I!Relax
      <3>2. /\ th'[t] \in ThreadRec /\ Moves(t) /\ th'[t].at = th[t].then
            /\ th'[t].next = next /\ th'[t].path = th[t].path
        BY <1>1, <3>1 DEF Moves, ThreadRec
      <3>3. Shape(th'[t])
        BY <1>1, <3>2 DEF Shape
      <3>4. Way(th'[t]) = IF th[t].then = "idle" THEN <<>> ELSE <<next>>
        BY <1>1, <3>2, WayForm
      <3> QED
        BY <1>1, <2>1, <3>1, <3>2, <3>3, <3>4
    <2>2. CASE ~(ref[n] > 1)
      <3>1. th' = [th EXCEPT ![t].at = "close"] /\ xlock' = [xlock EXCEPT ![n] = t]
        BY <2>2 DEF I!Relax
      <3>2. /\ th'[t] \in ThreadRec /\ Moves(t) /\ th'[t].at = "close"
            /\ th'[t].next = next /\ th'[t].path = th[t].path /\ th'[t].end = n
            /\ th'[t].then = th[t].then
        BY <1>1, <3>1 DEF Moves, ThreadRec
      <3>3. Shape(th'[t])
        BY <1>1, <3>2 DEF Shape
      <3>4. Way(th'[t]) = IF th[t].then = "idle" THEN <<>> ELSE <<next>>
        BY <1>1, <3>2, WayForm
      <3> QED
        BY <1>1, <2>2, <3>1, <3>2, <3>3, <3>4
    <2> QED
      BY <2>1, <2>2
  <1>5. \A k \in DOMAIN Way(th'[t]) : Way(th'[t])[k] \in live
    <2>1. th[t].then # "idle" => next \in live
      BY <1>1, RefersToLive
    <2> QED
      BY <1>4, <2>1
  <1>6. \A k \in Node : ref'[k] + files[k] + Num(th[t], k)
                         = ref[k] + files'[k] + Num(th'[t], k)
    <2> SUFFICES ASSUME NEW k \in Node
                 PROVE  ref'[k] + files[k] + Num(th[t], k)
                         = ref[k] + files'[k] + Num(th'[t], k)
      OBVIOUS
    <2>1. Num(th[t], k) = Num(th'[t], k) + (IF n = k THEN 1 ELSE 0)
      <3>1. CASE th[t].then = "idle"
        BY <1>3, <1>4, <3>1, NumForm
      <3>2. CASE th[t].then # "idle"
        <4>1. /\ Num(th[t], k) = (IF n = k THEN 1 ELSE 0) + (IF next = k THEN 1 ELSE 0)
              /\ Num(th'[t], k) = IF next = k THEN 1 ELSE 0
          BY <1>3, <1>4, <3>2, NumForm
        <4> QED
          BY <4>1
      <3> QED
        BY <3>1, <3>2
    <2>2. ref[k] \in Int /\ files[k] \in Nat /\ files'[k] = files[k]
      BY <1>1, <1>2
    <2>3. ref'[k] = IF n = k THEN ref[k] - 1 ELSE ref[k]
      BY <1>1, <1>2
    <2>4. Num(th'[t], k) \in Nat
      BY DEF Num
    <2> QED
      BY <2>1, <2>2, <2>3, <2>4
  <1>7. Num(th[t], n) >= 1
    <2>1. CASE th[t].then = "idle"
      BY <1>3, <2>1, NumForm
    <2>2. CASE th[t].then # "idle"
      <3>1. Num(th[t], n) = 1 + (IF next = n THEN 1 ELSE 0)
        BY <1>3, <2>2, NumForm
      <3> QED
        BY <3>1
    <2> QED
      BY <2>1, <2>2
  <1>8. ref[n] >= 1 /\ (n = Root => ref[n] > 1)
    <2>1. Num(th[t], n) \in Nat
      BY DEF Num
    <2> QED
      BY <1>1, <1>7, <2>1, Counted
  <1>9. /\ ref' \in [Node -> Int] /\ files' \in [Node -> Nat]
        /\ slock' \in [Node -> SUBSET Openers]
        /\ \A k \in Node : files'[k] > 0 => k \in live
    BY <1>1, <1>2 DEF TreeInv, TreeType, LiveOK
  <1>10. /\ xlock' \in [Node -> Openers \cup {Nil}]
         /\ \A k \in Node : xlock[k] \in Openers \ {t} =>
                             xlock'[k] = xlock[k] /\ ref'[k] = ref[k]
    BY <1>1, <1>2, <1>4
  <1>11. th'[t].at = "close" => /\ xlock'[th'[t].end] = t
                                /\ ref'[th'[t].end] = 0 /\ th'[t].end \in table
    <2> SUFFICES ASSUME th'[t].at = "close"
                 PROVE  /\ xlock'[th'[t].end] = t
                        /\ ref'[th'[t].end] = 0 /\ th'[t].end \in table
      OBVIOUS
    <2>1. /\ ~(ref[n] > 1) /\ th'[t].end = n
          /\ xlock' = [xlock EXCEPT ![n] = t]
      BY <1>4
    <2>2. ref[n] = 1 /\ n # Root
      BY <2>1, <1>1, <1>8
    <2>3. n \in table
      BY <1>1, <2>2 DEF TreeInv, LiveOK
    <2> QED
      BY <1>1, <1>2, <2>1, <2>2, <2>3
  <1> QED
    BY <1>2, <1>4, <1>5, <1>6, <1>9, <1>10, <1>11, CountStep

\* Nothing refers to an instance that does not exist.
LEMMA NotLive ==
  ASSUME TreeInv, NEW n \in Node, n \notin live
  PROVE  ref[n] = 0 /\ files[n] = 0 /\ Kids(n) = {} /\ Refs(n) = {}
  <1>1. files[n] = 0
    BY Counted DEF TreeInv, LiveOK
  <1>2. Kids(n) = {}
    BY DEF Kids, TreeInv, LiveOK
  <1>3. Refs(n) = {}
    <2> SUFFICES ASSUME NEW at \in Refs(n) PROVE FALSE
      OBVIOUS
    <2>1. at[1] \in Openers /\ Has(th[at[1]], at[2], n)
      BY DEF Refs
    <2> QED
      BY <2>1, ThreadFacts DEF Has
  <1>4. n # Root
    BY DEF TreeInv, LiveOK
  <1> QED
    BY <1>1, <1>2, <1>3, <1>4, Counted

\* A new instance: in the table, with one reference, and one more to its
\* folder.
LEMMA OpenRecordStep ==
  ASSUME TreeInv, NEW t \in Openers, I!OpenRecord(t)
  PROVE  TreeInv'
  <1> DEFINE n == Head(th[t].path)
             c == th[t].cur
  <1>1. /\ th[t] \in ThreadRec /\ Shape(th[t]) /\ th \in [Openers -> ThreadRec]
        /\ th[t].at = "look" /\ c \in live /\ c \in Node /\ xlock[c] = t
        /\ th[t].path # <<>> /\ n \in Node /\ n \notin table /\ Parent[n] = c
        /\ ref \in [Node -> Int] /\ files \in [Node -> Nat]
        /\ Nil \notin Openers
        /\ xlock \in [Node -> Openers \cup {Nil}]
    BY ThreadFacts, RefersToLive, TreeAssumption
       DEF I!OpenRecord, TreeInv, TreeType, Shape, I!Wanted
  <1>2. n # Root /\ n \notin live /\ n # c
    <2>1. c # Nil /\ Parent[Root] = Nil
      BY <1>1, TreeAssumption
    <2> QED
      BY <1>1, <2>1 DEF TreeInv, LiveOK
  <1>3. /\ live' = live \cup {n} /\ table' = table \cup {n}
        /\ ref' = [ref EXCEPT ![n] = 1, ![c] = @ + 1]
        /\ th' = [th EXCEPT ![t].at = "step", ![t].next = n]
        /\ xlock' = [xlock EXCEPT ![c] = Nil]
        /\ UNCHANGED <<slock, files>>
    BY DEF I!OpenRecord, I!Wanted
  <1>4. /\ th'[t] \in ThreadRec /\ Moves(t) /\ th'[t].at = "step"
        /\ th'[t].cur = c /\ th'[t].next = n /\ th'[t].path = th[t].path
    BY <1>1, <1>3 DEF Moves, ThreadRec
  <1>5. Shape(th'[t])
    BY <1>1, <1>2, <1>4 DEF Shape
  <1>6. Way(th'[t]) = <<c, n>> /\ Way(th[t]) = <<c>>
    BY <1>1, <1>2, <1>4, WayForm
  <1>7. ref[n] = 0 /\ Kids(n) = {}
    BY <1>1, <1>2, NotLive
  <1>8. \A k \in Node : ref'[k] = ref[k] + (IF k \in {n, c} THEN 1 ELSE 0)
    BY <1>1, <1>2, <1>3, <1>7
  <1>9. TreeType'
    BY <1>1, <1>3, <1>4 DEF TreeInv, TreeType, Moves
  <1>10. LiveOK'
    BY <1>1, <1>2, <1>3 DEF TreeInv, LiveOK
  <1>11. ThreadsOK'
    <2>1. \A k \in DOMAIN Way(th'[t]) : Way(th'[t])[k] \in live'
      <3>1. c \in live' /\ n \in live'
        BY <1>1, <1>3
      <3> HIDE DEF c, n
      <3> QED
        BY <1>6, <3>1
    <2>2. \A u \in Openers \ {t} : \A k \in DOMAIN Way(th[u]) : Way(th[u])[k] \in live'
      BY <1>3 DEF TreeInv, ThreadsOK
    <2>3. \A m \in table : xlock[m] \in Openers \ {t} =>
                            ref'[m] = ref[m] /\ m \in table'
      <3> SUFFICES ASSUME NEW m \in table, xlock[m] \in Openers \ {t}
                   PROVE  ref'[m] = ref[m] /\ m \in table'
        OBVIOUS
      <3>1. m \in Node /\ m # n /\ m # c
        BY <1>1 DEF TreeInv, TreeType
      <3>2. ref[m] \in Int /\ m \notin {n, c} /\ m \in table'
        BY <1>1, <1>3, <3>1
      <3>3. ref'[m] = ref[m] + 0
        BY <1>8, <3>1, <3>2
      <3> QED
        BY <3>2, <3>3
    <2>4. \A m \in Node : xlock[m] \in Openers \ {t} => xlock'[m] = xlock[m]
      BY <1>1, <1>3
    <2> QED
      BY <1>4, <1>5, <2>1, <2>2, <2>3, <2>4, OthersKept
  <1>12. RefOK'
    <2> SUFFICES ASSUME NEW k \in Node
                 PROVE  ref'[k] = files'[k] + Cardinality(Kids(k)')
                                + Cardinality(Refs(k)') + (IF k = Root THEN 1 ELSE 0)
      BY DEF RefOK
    <2>1. /\ Cardinality(Refs(k)') \in Nat
          /\ Cardinality(Refs(k)') = Cardinality(Refs(k)) + (IF k = n THEN 1 ELSE 0)
      <3>1. /\ Cardinality(Refs(k)) \in Nat /\ Cardinality(Refs(k)') \in Nat
            /\ Cardinality(Refs(k)') + Num(th[t], k)
                 = Cardinality(Refs(k)) + Num(th'[t], k)
        BY <1>4, RefsStep DEF TreeInv
      <3>2. /\ Num(th[t], k) = IF c = k THEN 1 ELSE 0
            /\ Num(th'[t], k) = (IF c = k THEN 1 ELSE 0) + (IF n = k THEN 1 ELSE 0)
        BY <1>6, NumForm
      <3> QED
        BY <3>1, <3>2
    <2>2. Cardinality(Kids(k)') = Cardinality(Kids(k)) + (IF k = c THEN 1 ELSE 0)
      <3>1. CASE k = c
        <4>1. Kids(k)' = Kids(k) \cup {n} /\ n \notin Kids(k)
          BY <1>1, <1>3, <3>1 DEF Kids
        <4>2. IsFiniteSet(Kids(k)) /\ Cardinality(Kids(k)) \in Nat
          BY Counted
        <4> QED
          BY <3>1, <4>1, <4>2, FS_AddElement
      <3>2. CASE k # c
        <4>1. Kids(k)' = Kids(k)
          BY <1>1, <1>3, <3>2 DEF Kids
        <4>2. Cardinality(Kids(k)) \in Nat
          BY Counted
        <4> QED
          BY <3>2, <4>1, <4>2
      <3> QED
        BY <3>1, <3>2
    <2>3. files'[k] = files[k]
      BY <1>3
    <2>4. ref'[k] = ref[k] + (IF k = n THEN 1 ELSE 0) + (IF k = c THEN 1 ELSE 0)
      <3>1. ref[k] \in Int /\ n # c
        BY <1>1, <1>2
      <3> QED
        BY <1>8, <3>1
    <2> QED
      BY <2>1, <2>2, <2>3, <2>4, Counted
  <1> QED
    BY <1>9, <1>10, <1>11, <1>12 DEF TreeInv

\* The end of an instance takes its reference to the folder, which may end
\* too.
LEMMA CloseInstanceStep ==
  ASSUME TreeInv, NEW t \in Openers, I!CloseInstance(t)
  PROVE  TreeInv'
  <1> DEFINE n == th[t].end
             p == Parent[n]
             next == th[t].next
  <1>1. /\ th[t] \in ThreadRec /\ Shape(th[t]) /\ th \in [Openers -> ThreadRec]
        /\ th[t].at = "close" /\ n \in Node /\ n \in table /\ xlock[n] = t
        /\ ref[n] = 0 /\ th[t].then \in {"idle", "forward", "opened"}
        /\ ref \in [Node -> Int] /\ files \in [Node -> Nat]
        /\ Nil \notin Openers
        /\ xlock \in [Node -> Openers \cup {Nil}] /\ xlock[p] = Nil
    BY ThreadFacts, TreeAssumption
       DEF I!CloseInstance, TreeInv, TreeType, Shape, I!CanX, ThreadRec
  <1>2. p \in live /\ p # n /\ n # Root /\ p \in Node
    BY <1>1 DEF TreeInv, LiveOK, TreeType
  <1>3. /\ live' = live \ {n} /\ table' = table \ {n}
        /\ ref' = [ref EXCEPT ![p] = @ - 1]
        /\ UNCHANGED <<slock, files>>
    BY DEF I!CloseInstance
  <1>4. files[n] = 0 /\ Kids(n) = {} /\ Refs(n) = {}
    <2> HIDE DEF n
    <2>1. /\ files[n] + Cardinality(Kids(n)) + Cardinality(Refs(n)) = 0
          /\ files[n] \in Nat /\ Cardinality(Kids(n)) \in Nat
          /\ Cardinality(Refs(n)) \in Nat
      BY <1>1, <1>2, Counted
    <2>2. files[n] = 0 /\ Cardinality(Kids(n)) = 0 /\ Cardinality(Refs(n)) = 0
      BY <2>1
    <2> QED
      BY <1>1, <2>2, Counted
  <1>5. Way(th[t]) = IF th[t].then = "idle" THEN <<>> ELSE <<next>>
    BY <1>1, WayForm
  <1>6. /\ Moves(t) /\ Shape(th'[t]) /\ th'[t] \in ThreadRec
        /\ Way(th'[t]) = Way(th[t])
        /\ th'[t].at \notin {"look", "update"}
        /\ \/ ref[p] > 1 /\ th'[t].at # "close" /\ xlock' = [xlock EXCEPT ![n] = Nil]
           \/ /\ ~(ref[p] > 1) /\ th'[t].at = "close" /\ th'[t].end = p
              /\ xlock' = [xlock EXCEPT ![n] = Nil, ![p] = t]
    <2>1. CASE ref[p] > 1
      <3>1. /\ th' = [th EXCEPT ![t].at = th[t].then, ![t].end = Nil]
            /\ xlock' = [xlock EXCEPT ![n] = Nil]
        BY <2>1 DEF I!CloseInstance
      <3>2. /\ th'[t] \in ThreadRec /\ Moves(t) /\ th'[t].at = th[t].then
            /\ th'[t].next = next /\ th'[t].path = th[t].path
        BY <1>1, <3>1 DEF Moves, ThreadRec
      <3>3. Shape(th'[t])
        BY <1>1, <3>2 DEF Shape
      <3>4. Way(th'[t]) = IF th[t].then = "idle" THEN <<>> ELSE <<next>>
        BY <1>1, <3>2, WayForm
      <3> QED
        BY <1>1, <1>5, <2>1, <3>1, <3>2, <3>3, <3>4
    <2>2. CASE ~(ref[p] > 1)
      <3>1. /\ th' = [th EXCEPT ![t].end = p]
            /\ xlock' = [xlock EXCEPT ![n] = Nil, ![p] = t]
        BY <2>2 DEF I!CloseInstance
      <3>2. /\ th'[t] \in ThreadRec /\ Moves(t) /\ th'[t].at = "close"
            /\ th'[t].next = next /\ th'[t].path = th[t].path /\ th'[t].end = p
            /\ th'[t].then = th[t].then
        BY <1>1, <1>2, <3>1 DEF Moves, ThreadRec
      <3>3. Shape(th'[t])
        BY <1>1, <1>2, <3>2 DEF Shape
      <3>4. Way(th'[t]) = IF th[t].then = "idle" THEN <<>> ELSE <<next>>
        BY <1>1, <3>2, WayForm
      <3> QED
        BY <1>1, <1>5, <2>2, <3>1, <3>2, <3>3, <3>4
    <2> QED
      BY <2>1, <2>2
  <1>7. ref[p] >= 1 /\ (p = Root => ref[p] > 1)
    <2>1. n \in Kids(p)
      BY <1>1 DEF Kids
    <2>2. Cardinality(Kids(p)) # 0 /\ Cardinality(Kids(p)) \in Nat
      BY <1>2, <2>1, Counted
    <2> QED
      BY <1>2, <2>2, Counted
  <1>8. TreeType'
    BY <1>1, <1>2, <1>3, <1>6 DEF TreeInv, TreeType, Moves
  <1>9. LiveOK'
    <2>1. \A m \in table : Parent[m] # n
      BY <1>4 DEF Kids
    <2> QED
      BY <1>1, <1>2, <1>3, <1>4, <2>1 DEF TreeInv, LiveOK
  <1>10. \A u \in Openers : \A k \in DOMAIN Way(th[u]) : Way(th[u])[k] \in live'
    <2> SUFFICES ASSUME NEW u \in Openers, NEW k \in DOMAIN Way(th[u])
                 PROVE  Way(th[u])[k] \in live'
      OBVIOUS
    <2>1. k \in {1, 2} /\ Way(th[u])[k] \in live
      BY ThreadFacts, WayDomain
    <2>2. Way(th[u])[k] # n
      <3> SUFFICES ASSUME Way(th[u])[k] = n PROVE FALSE
        OBVIOUS
      <3>1. Has(th[<<u, k>>[1]], <<u, k>>[2], n)
        BY DEF Has
      <3>2. <<u, k>> \in Refs(n)
        BY <2>1, <3>1 DEF Refs
      <3> QED
        BY <1>4, <3>2
    <2> QED
      BY <1>3, <2>1, <2>2
  <1>11. ThreadsOK'
    <2>1. \A k \in DOMAIN Way(th'[t]) : Way(th'[t])[k] \in live'
      BY <1>6, <1>10
    <2>2. \A m \in table : xlock[m] \in Openers \ {t} =>
                            ref'[m] = ref[m] /\ m \in table'
      <3> SUFFICES ASSUME NEW m \in table, xlock[m] \in Openers \ {t}
                   PROVE  ref'[m] = ref[m] /\ m \in table'
        OBVIOUS
      <3>1. m \in Node /\ m # n /\ m # p
        BY <1>1 DEF TreeInv, TreeType
      <3> QED
        BY <1>1, <1>3, <3>1
    <2>3. \A m \in Node : xlock[m] \in Openers \ {t} => xlock'[m] = xlock[m]
      <3> SUFFICES ASSUME NEW m \in Node, xlock[m] \in Openers \ {t}
                   PROVE  xlock'[m] = xlock[m]
        OBVIOUS
      <3>1. m # n /\ m # p
        BY <1>1
      <3> QED
        BY <1>1, <1>6, <3>1
    <2>4. th'[t].at = "close" => /\ xlock'[th'[t].end] = t
                                 /\ ref'[th'[t].end] = 0
                                 /\ th'[t].end \in table'
      <3> SUFFICES ASSUME th'[t].at = "close"
                   PROVE  /\ xlock'[th'[t].end] = t
                          /\ ref'[th'[t].end] = 0 /\ th'[t].end \in table'
        OBVIOUS
      <3>1. /\ ~(ref[p] > 1) /\ th'[t].end = p
            /\ xlock' = [xlock EXCEPT ![n] = Nil, ![p] = t]
        BY <1>6
      <3>2. ref[p] = 1 /\ p # Root
        BY <1>1, <1>2, <1>7, <3>1
      <3>3. p \in table'
        BY <1>2, <1>3, <3>2 DEF TreeInv, LiveOK
      <3> QED
        BY <1>1, <1>2, <1>3, <3>1, <3>2, <3>3
    <2> QED
      BY <1>6, <1>10, <2>1, <2>2, <2>3, <2>4, OthersKept
  <1>12. RefOK'
    <2> SUFFICES ASSUME NEW k \in Node
                 PROVE  ref'[k] = files'[k] + Cardinality(Kids(k)')
                                + Cardinality(Refs(k)') + (IF k = Root THEN 1 ELSE 0)
      BY DEF RefOK
    <2>1. Cardinality(Refs(k)') = Cardinality(Refs(k))
      <3>1. /\ Cardinality(Refs(k)) \in Nat /\ Cardinality(Refs(k)') \in Nat
            /\ Cardinality(Refs(k)') + Num(th[t], k)
                 = Cardinality(Refs(k)) + Num(th'[t], k)
        BY <1>6, RefsStep DEF TreeInv
      <3>2. Num(th'[t], k) = Num(th[t], k) /\ Num(th[t], k) \in Nat
        BY <1>6 DEF Num, Has
      <3> QED
        BY <3>1, <3>2
    <2>2. Cardinality(Kids(k)') = Cardinality(Kids(k)) - (IF k = p THEN 1 ELSE 0)
      <3>1. CASE k = p
        <4>1. Kids(k)' = Kids(k) \ {n} /\ n \in Kids(k)
          BY <1>1, <1>3, <3>1 DEF Kids
        <4>2. IsFiniteSet(Kids(k)) /\ Cardinality(Kids(k)) \in Nat
          BY Counted
        <4> QED
          <5> HIDE DEF n
          <5>1. Cardinality(Kids(k) \ {n}) = Cardinality(Kids(k)) - 1
            BY <4>1, <4>2, FS_RemoveElement
          <5> QED
            BY <3>1, <4>1, <5>1
      <3>2. CASE k # p
        <4>1. Kids(k)' = Kids(k)
          BY <1>1, <1>3, <3>2 DEF Kids
        <4>2. Cardinality(Kids(k)) \in Nat
          BY Counted
        <4> QED
          BY <3>2, <4>1, <4>2
      <3> QED
        BY <3>1, <3>2
    <2>3. files'[k] = files[k]
      BY <1>3
    <2>4. ref'[k] = ref[k] - (IF k = p THEN 1 ELSE 0)
      <3>1. ref[k] \in Int
        BY <1>1
      <3> QED
        BY <1>1, <1>2, <1>3, <3>1
    <2> QED
      BY <2>1, <2>2, <2>3, <2>4, Counted
  <1> QED
    BY <1>8, <1>9, <1>11, <1>12 DEF TreeInv

\* Only the root exists at first.
LEMMA InitTree == I!Init => TreeInv
  <1> SUFFICES ASSUME I!Init PROVE TreeInv
    OBVIOUS
  <1>1. TreeType
    BY IdleRec, TreeAssumption DEF I!Init, TreeType
  <1>2. LiveOK
    BY TreeAssumption DEF I!Init, LiveOK
  <1>3. \A t \in Openers : th[t] = I!Idle
    BY DEF I!Init
  <1>4. ThreadsOK
    BY <1>3, IdleRec DEF ThreadsOK
  <1>5. \A n : Kids(n) = {} /\ Refs(n) = {}
    <2>1. \A n : Kids(n) = {}
      BY DEF Kids, I!Init
    <2>2. \A t \in Openers : \A n, k : ~Has(th[t], k, n)
      BY <1>3, IdleRec DEF Has
    <2>3. ASSUME NEW n, NEW at \in Refs(n) PROVE FALSE
      <3>1. at[1] \in Openers /\ Has(th[at[1]], at[2], n)
        BY <2>3 DEF Refs
      <3> QED
        BY <2>2, <3>1
    <2> QED
      BY <2>1, <2>3
  <1>6. RefOK
    <2> SUFFICES ASSUME NEW n \in Node
                 PROVE  ref[n] = files[n] + Cardinality(Kids(n)) + Cardinality(Refs(n))
                           + (IF n = Root THEN 1 ELSE 0)
      BY DEF RefOK
    <2>1. Cardinality(Kids(n)) = 0 /\ Cardinality(Refs(n)) = 0
      BY <1>5, FS_EmptySet
    <2>2. ref[n] = (IF n = Root THEN 1 ELSE 0) /\ files[n] = 0
      BY DEF I!Init
    <2> QED
      BY <2>1, <2>2
  <1> QED
    BY <1>1, <1>2, <1>4, <1>6 DEF TreeInv

\* Every step of a thread keeps the invariant.
LEMMA GoTree ==
  ASSUME TreeInv, NEW t \in Openers, I!Go(t)
  PROVE  TreeInv'
  BY EndOfPathStep, ThisFolderStep, ParentFolderStep, AcquireParentStep,
     LockFolderStep, OpenTableStep, OpenRecordStep, OpenFailsStep, StepStep,
     RelaxStep2, CloseInstanceStep, ForwardStep, OpenedStep, BackStep2,
     UpdateStep, PathUpStep DEF I!Go

\* Every step of the tree keeps the invariant, when no path ends in ".".
LEMMA NextTree ==
  ASSUME NoDotAtEnd, TreeInv, I!Next
  PROVE  TreeInv'
  <1>1. CASE \E t \in Openers : I!Go(t)
    BY <1>1, GoTree
  <1>2. ASSUME NEW t \in Openers, NEW n \in Node,
               I!Duplicate(t, n) \/ I!CloseFile(t, n) \/ I!Write(t, n) \/ I!GetPath(t, n)
        PROVE  TreeInv'
    BY <1>2, DuplicateStep, CloseFileStep, WriteStep, GetPathStep
  <1>3. ASSUME NEW t \in Openers, NEW n \in Node, NEW p \in Paths,
               NEW m \in {{"file"}, {"folder"}, {"file", "folder"}},
               th[t] = I!Idle, I!Open(t, n, p, m)
        PROVE  TreeInv'
    <2>1. p \in Ways /\ m \in SUBSET {"file", "folder"}
      BY DEF NoDotAtEnd
    <2> QED
      BY <1>3, <2>1, OpenStep
  <1> QED
    BY <1>1, <1>2, <1>3 DEF I!Next

\* The instance of the tree counts as this module does.
LEMMA SameCount == \A s : I!Cardinality(s) = Cardinality(s)
  <1>1. \A s : I!IsFiniteSet(s) = IsFiniteSet(s)
    BY DEF I!IsFiniteSet, IsFiniteSet
  <1> QED
    BY <1>1 DEF I!Cardinality, Cardinality

\* The invariant says what TreeSound says.
LEMMA TreeShows == TreeInv => I!TreeSound
  <1> SUFFICES ASSUME TreeInv PROVE I!TreeSound
    OBVIOUS
  <1>1. \A t \in Openers : I!OnTheWay(t) = Way(th[t])
    BY DEF I!OnTheWay, Way
  <1>2. table \subseteq live /\ live \ table = {Root}
    BY DEF TreeInv, LiveOK
  <1>3. \A n \in live \ {Root} : Parent[n] \in live
    BY DEF TreeInv, LiveOK
  <1>4. \A n \in Node : files[n] > 0 => n \in live
    BY DEF TreeInv, LiveOK
  <1>5. \A t \in Openers, k \in 1..2 : k \in DOMAIN I!OnTheWay(t) => I!OnTheWay(t)[k] \in live
    BY <1>1 DEF TreeInv, ThreadsOK
  <1>6. ASSUME NEW n \in live
        PROVE  ref[n] = files[n] + Cardinality({m \in table : Parent[m] = n})
                + Cardinality({at \in Openers \X {1, 2} :
                                 /\ at[2] \in DOMAIN I!OnTheWay(at[1])
                                 /\ I!OnTheWay(at[1])[at[2]] = n})
                + (IF n = Root THEN 1 ELSE 0)
    <2>1. {at \in Openers \X {1, 2} :
                                 /\ at[2] \in DOMAIN I!OnTheWay(at[1])
                                 /\ I!OnTheWay(at[1])[at[2]] = n} = Refs(n)
      <3>1. \A at \in Openers \X {1, 2} : I!OnTheWay(at[1]) = Way(th[at[1]])
        BY <1>1
      <3> QED
        BY <3>1 DEF Refs, Has
    <2>2. {m \in table : Parent[m] = n} = Kids(n)
      BY DEF Kids
    <2>3. n \in Node
      BY DEF TreeInv, TreeType
    <2> QED
      BY <2>1, <2>2, <2>3 DEF TreeInv, RefOK
  <1> QED
    BY <1>2, <1>3, <1>4, <1>5, <1>6, SameCount DEF I!TreeSound

\* The invariant holds in every behaviour of the storage components.
LEMMA TreeAlways == ASSUME NoDotAtEnd PROVE StorageSpec => []TreeInv
  <1>1. StorageInit => TreeInv
    BY InitTree DEF StorageInit
  <1>2. TreeInv /\ [StorageNext]_storage => TreeInv'
    <2>1. ASSUME TreeInv, UNCHANGED tree PROVE TreeInv'
      BY <2>1 DEF tree, TreeInv, TreeType, LiveOK, ThreadsOK, RefOK, Kids, Refs
    <2>2. ASSUME TreeInv, I!Next PROVE TreeInv'
      BY <2>2, NextTree
    <2> QED
      BY <2>1, <2>2 DEF StorageNext, storage
  <1> QED
    BY <1>1, <1>2, PTL DEF StorageSpec

(* For every tree of folders, any number of threads and of file objects:   *)
(* as long as no path that is opened ends in ".", ref_count of every       *)
(* instance is the number of its file objects, of the instances in its     *)
(* file_table and of the threads that hold it, and what a thread is at,    *)
(* the folders above it included, exists. The hypothesis is needed:        *)
(* imp_open returns the folder of a final "." with one reference too few   *)
(* (run storage_dot).                                                      *)
THEOREM TreeStaysSound == NoDotAtEnd => (StorageSpec => []TreeSound)
  <1>1. TreeInv => TreeSound
    BY TreeShows DEF TreeSound
  <1> SUFFICES ASSUME NoDotAtEnd PROVE StorageSpec => []TreeSound
    OBVIOUS
  <1>2. StorageSpec => []TreeInv
    BY TreeAlways
  <1> QED
    BY <1>1, <1>2, PTL

(***************************************************************************)
(* The chains of clusters. A chain is not stored as such, it is what the   *)
(* FAT tells from the first cluster on; so the invariant names the         *)
(* clusters of each file, n[f] of them, as a function of their index.      *)
(***************************************************************************)
Lengths == [Files -> Nat]
Trails == [Files -> [Nat -> Cluster]]
Line == [index : Nat, cluster : Cluster \cup {0}]
Stages == {"idle", "get", "missed", "follow", "lock", "alloc", "put", "link",
           "record", "again"}
WorkerRec == [pc : Stages, index : Nat, expand : BOOLEAN, at : Line,
              new : Cluster \cup {0}, sector : Nat \cup {-1}, ans : Nat]

\* The clusters are marked and in one place of one file.
Placed(n, c) ==
  /\ \A f \in Files : \A i \in Nat : i < n[f] => c[f][i] \in taken
  /\ \A f, g \in Files : \A i, j \in Nat :
       i < n[f] /\ j < n[g] /\ c[f][i] = c[g][j] => f = g /\ i = j

\* The FAT leads from each cluster of a file to the next one, and nowhere
\* from those of a file without a chain.
Connected(n, c) ==
  \A f \in Files :
    /\ first[f] = IF n[f] = 0 THEN 0 ELSE c[f][0]
    /\ \A i \in Nat : i < n[f] =>
         fat[c[f][i]] = IF f \in Linear THEN 0
                        ELSE IF i + 1 = n[f] THEN C!EndMark ELSE c[f][i + 1]

\* The files without a chain are as they were laid out.
AsLaid(n, c) ==
  \A f \in Linear : /\ n[f] = Len(Layout[f])
                    /\ \A i \in Nat : i < n[f] => c[f][i] = Layout[f][i + 1]

\* A line tells where the chain of f is.
OnPath(n, c, f, l) == l.index < n[f] /\ l.cluster = c[f][l.index]

\* The lines s and the order q of their use
LinesFine(n, c, f, s, q) ==
  /\ s \in Seq(Line) /\ q \in Seq(Nat) /\ Len(q) = Len(s)
  /\ f \in Linear => s = <<>>
  /\ \A k \in 1..Len(s) : s[k].index > 0 /\ OnPath(n, c, f, s[k])
  /\ \A j, k \in 1..Len(s) : j < k => s[k].index < s[j].index
  /\ \A j, k \in 1..Len(q) : q[j] = q[k] => j = k
  /\ \A k \in 1..Len(s) : \E j \in 1..Len(q) : q[j] = s[k].index
  /\ \A j \in 1..Len(q) : \E k \in 1..Len(s) : q[j] = s[k].index

\* a is the last cluster of f, or there is none
AtTail(n, c, f, a) ==
  IF n[f] = 0 THEN a.cluster = 0 ELSE OnPath(n, c, f, a) /\ a.index + 1 = n[f]

\* A cluster that is marked and belongs to no file
Fresh(n, c, grow) ==
  /\ grow \in taken \cap Cluster
  /\ \A g \in Files : \A i \in Nat : i < n[g] => c[g][i] # grow

Growing == {"lock", "alloc", "put", "link"}

\* The answer a of get_lba for the index i: the cluster of f there, but for a
\* file without a chain that is asked for more than it has.
AnswerFine(n, c, f, i, a) ==
  IF f \in Linear THEN i < n[f] => a = c[f][i] ELSE i < n[f] /\ a = c[f][i]

\* What the worker of f knows at each stage
WorkFine(n, c, f, v) ==
  /\ v \in WorkerRec
  /\ v.pc # "idle" => v.ans = 0
  /\ v.ans # 0 => AnswerFine(n, c, f, v.index, v.ans)
  /\ v.pc = "get" =>
       /\ f \notin Linear /\ OnPath(n, c, f, v.at) /\ v.at.index < v.index
       /\ \A k \in 1..Len(cache_line[f]) : cache_line[f][k].index # v.index
  /\ v.pc = "missed" => (v.index = 0 => n[f] = 0)
  /\ v.pc \in Growing => v.index >= n[f]
  /\ v.pc \in {"follow"} \cup Growing => f \notin Linear
  /\ v.pc = "follow" =>
       /\ v.at.index < v.index
       /\ \/ OnPath(n, c, f, v.at)
          \/ n[f] = 0 /\ v.at.cluster = 0 /\ v.sector = C!NoSector
  /\ v.pc \in Growing => AtTail(n, c, f, v.at)
  /\ v.pc \in {"put", "link"} => Fresh(n, c, v.new)
  /\ v.pc = "link" => n[f] > 0 /\ fat[v.new] = C!EndMark
  /\ v.sector # C!NoSector => v.pc \in {"get", "follow"} \cup Growing

\* bmp_lock belongs to the worker that allocates.
BitmapOwned ==
  /\ bmp_lock \in Files \cup {0}
  /\ \A f \in Files : bmp_lock = f <=> w[f].pc \in {"alloc", "put", "link"}

\* The bits before bmp_last_index, in its own sector, are set.
Behind ==
  /\ taken \subseteq Cluster /\ last \in 0..Clusters - 1
  /\ \A p \in 0..last - 1 : p >= (last \div PerSector) * PerSector => p + 2 \in taken

ChainTypes ==
  /\ fat \in [Cluster -> Cluster \cup {0, C!EndMark}]
  /\ first \in [Files -> Cluster \cup {0}]
  /\ cache_line \in [Files -> Seq(Line)] /\ lru_queue \in [Files -> Seq(Nat)]
  /\ w \in [Files -> WorkerRec]

ChainsFine(n, c) ==
  /\ Placed(n, c) /\ Connected(n, c) /\ AsLaid(n, c)
  /\ \A f \in Files : /\ LinesFine(n, c, f, cache_line[f], lru_queue[f])
                      /\ Len(cache_line[f]) <= Lines
  /\ \A f \in Files : WorkFine(n, c, f, w[f])

ChainInv ==
  /\ ChainTypes /\ BitmapOwned /\ Behind
  /\ \E n \in Lengths, c \in Trails : ChainsFine(n, c)

\* A set of natural numbers has a least one.
LEMMA LeastOfSet ==
  ASSUME NEW S, S \subseteq Nat, S # {}
  PROVE  \E k \in S : \A j \in S : k <= j
  <1>1. PICK k \in S : \A j \in S : ~ (<<j, k>> \in OpToRel(<, Nat))
    BY NatLessThanWellFounded, WFMin, Zenon
  <1>2. \A j \in S : ~ (j < k)
    BY <1>1 DEF OpToRel
  <1> QED
    BY <1>2


(***************************************************************************)
(* Sequences                                                               *)
(***************************************************************************)
\* A sequence without the element at p.
LEMMA RemoveForm ==
  ASSUME NEW S, NEW s \in Seq(S), NEW p \in 1..Len(s)
  PROVE  /\ C!RemoveAt(s, p) \in Seq(S) /\ Len(C!RemoveAt(s, p)) = Len(s) - 1
         /\ \A k \in 1..Len(s) - 1 :
              C!RemoveAt(s, p)[k] = IF k < p THEN s[k] ELSE s[k + 1]
  <1> DEFINE a == SubSeq(s, 1, p - 1)
             b == SubSeq(s, p + 1, Len(s))
  <1>1. /\ a \in Seq(S) /\ Len(a) = p - 1 /\ \A k \in 1..p - 1 : a[k] = s[k]
    OBVIOUS
  <1>2. /\ b \in Seq(S) /\ Len(b) = Len(s) - p
        /\ \A k \in 1..Len(s) - p : b[k] = s[p + k]
    OBVIOUS
  <1> HIDE DEF a, b
  <1>3. /\ a \o b \in Seq(S) /\ Len(a \o b) = Len(s) - 1
        /\ \A k \in 1..Len(s) - 1 :
             (a \o b)[k] = IF k <= Len(a) THEN a[k] ELSE b[k - Len(a)]
    BY <1>1, <1>2
  <1>4. ASSUME NEW k \in 1..Len(s) - 1
        PROVE  (a \o b)[k] = IF k < p THEN s[k] ELSE s[k + 1]
    <2>1. CASE k < p
      BY <2>1, <1>1, <1>3
    <2>2. CASE ~ (k < p)
      <3>1. k - (p - 1) \in 1..Len(s) - p /\ p + (k - (p - 1)) = k + 1
        BY <2>2
      <3>2. b[k - (p - 1)] = s[k + 1]
        BY <3>1, <1>2
      <3> QED
        BY <2>2, <3>2, <1>1, <1>3
    <2> QED
      BY <2>1, <2>2
  <1> QED
    BY <1>3, <1>4 DEF C!RemoveAt, a, b

\* A sequence with e in front of the element at p.
LEMMA InsertForm ==
  ASSUME NEW S, NEW s \in Seq(S), NEW e \in S, NEW p \in 1..Len(s) + 1
  PROVE  /\ C!InsertAt(s, p, e) \in Seq(S) /\ Len(C!InsertAt(s, p, e)) = Len(s) + 1
         /\ \A k \in 1..Len(s) + 1 :
              C!InsertAt(s, p, e)[k] = IF k < p THEN s[k] ELSE IF k = p THEN e
                                       ELSE s[k - 1]
  <1> DEFINE a == SubSeq(s, 1, p - 1)
             b == SubSeq(s, p, Len(s))
             h == a \o <<e>>
  <1>1. /\ a \in Seq(S) /\ Len(a) = p - 1 /\ \A k \in 1..p - 1 : a[k] = s[k]
    OBVIOUS
  <1>2. /\ b \in Seq(S) /\ Len(b) = Len(s) - p + 1
        /\ \A k \in 1..Len(s) - p + 1 : b[k] = s[p + k - 1]
    OBVIOUS
  <1> HIDE DEF a, b
  <1>3. /\ h \in Seq(S) /\ Len(h) = p
        /\ \A k \in 1..p - 1 : h[k] = s[k]
        /\ h[p] = e
    BY <1>1
  <1> HIDE DEF h
  <1>4. /\ h \o b \in Seq(S) /\ Len(h \o b) = Len(s) + 1
        /\ \A k \in 1..Len(s) + 1 :
             (h \o b)[k] = IF k <= Len(h) THEN h[k] ELSE b[k - Len(h)]
    BY <1>2, <1>3
  <1>5. ASSUME NEW k \in 1..Len(s) + 1
        PROVE  (h \o b)[k] = IF k < p THEN s[k] ELSE IF k = p THEN e ELSE s[k - 1]
    <2>1. CASE k <= p
      BY <2>1, <1>3, <1>4
    <2>2. CASE ~ (k <= p)
      <3>1. k - p \in 1..Len(s) - p + 1 /\ p + (k - p) - 1 = k - 1
        BY <2>2
      <3>2. b[k - p] = s[k - 1]
        BY <3>1, <1>2
      <3> QED
        BY <2>2, <3>2, <1>3, <1>4
    <2> QED
      BY <2>1, <2>2
  <1> QED
    BY <1>4, <1>5 DEF C!InsertAt, h, a, b

\* A sequence with e at its front, and one without its last element.
LEMMA ConsForm ==
  ASSUME NEW S, NEW s \in Seq(S), NEW e \in S
  PROVE  /\ <<e>> \o s \in Seq(S) /\ Len(<<e>> \o s) = Len(s) + 1
         /\ \A k \in 1..Len(s) + 1 : (<<e>> \o s)[k] = IF k = 1 THEN e ELSE s[k - 1]
  OBVIOUS

\* Likewise.
LEMMA FrontForm ==
  ASSUME NEW S, NEW s \in Seq(S), Len(s) > 0
  PROVE  /\ C!Front(s) \in Seq(S) /\ Len(C!Front(s)) = Len(s) - 1
         /\ \A k \in 1..Len(s) - 1 : C!Front(s)[k] = s[k]
  <1>1. Len(s) \in Nat /\ Len(s) - 1 \in 0..Len(s)
    OBVIOUS
  <1>2. PICK m \in 0..Len(s) : m = Len(s) - 1
    BY <1>1
  <1>3. /\ SubSeq(s, 1, m) \in Seq(S) /\ Len(SubSeq(s, 1, m)) = m
        /\ \A k \in 1..m : SubSeq(s, 1, m)[k] = s[k]
    OBVIOUS
  <1> QED
    BY <1>2, <1>3 DEF C!Front

(***************************************************************************)
(* The lines of a chain                                                    *)
(***************************************************************************)
\* The clusters are numbers from 2 on, apart from what marks an end.
LEMMA ClusterFacts ==
  /\ Clusters \in Nat /\ Clusters >= 1 /\ PerSector \in Nat /\ PerSector >= 1
  /\ Lines \in Nat /\ Lines >= 1
  /\ Linear \subseteq Files /\ 0 \notin Files
  /\ Cluster = 2..Clusters + 1 /\ Cluster \subseteq Nat /\ 2 \in Cluster
  /\ 0 \notin Cluster /\ C!EndMark \notin Cluster /\ C!EndMark = -1
  /\ C!None = 0 /\ C!NoSector = -1 /\ C!Cluster = Cluster
  BY ChainAssumption DEF Cluster, C!Cluster, C!EndMark, C!None, C!NoSector

\* The place of an index, in lines with decreasing indices.
LEMMA PlaceForm ==
  ASSUME NEW f, NEW i \in Nat, cache_line[f] \in Seq(Line),
         \A j, k \in 1..Len(cache_line[f]) :
           j < k => cache_line[f][k].index < cache_line[f][j].index
  PROVE  /\ C!Place(f, i) \in 1..Len(cache_line[f]) + 1
         /\ \A k \in 1..C!Place(f, i) - 1 : cache_line[f][k].index >= i
         /\ \A k \in C!Place(f, i)..Len(cache_line[f]) : cache_line[f][k].index < i
  <1>s. PICK s : s = cache_line[f]
    OBVIOUS
  <1> DEFINE T == {m \in 1..Len(s) : s[m].index < i}
             Fits(p) == /\ \A k \in 1..p - 1 : s[k].index >= i
                        /\ p <= Len(s) => s[p].index < i
  <1>t. /\ s \in Seq(Line)
        /\ \A j, k \in 1..Len(s) : j < k => s[k].index < s[j].index
    BY <1>s
  <1>0. Len(s) \in Nat /\ \A k \in 1..Len(s) : s[k] \in Line /\ s[k].index \in Nat
    <2>1. Len(s) \in Nat /\ \A k \in 1..Len(s) : s[k] \in Line
      BY <1>t
    <2>2. \A l \in Line : l.index \in Nat
      BY DEF Line
    <2> QED
      BY <2>1, <2>2
  <1>1. \E p \in 1..Len(s) + 1 : Fits(p)
    <2>1. CASE T = {}
      <3>1. \A k \in 1..Len(s) : s[k].index >= i
        BY <2>1, <1>0
      <3>2. Fits(Len(s) + 1)
        BY <3>1, <1>0
      <3> QED
        BY <3>2, <1>0
    <2>2. CASE T # {}
      <3>1. PICK p \in T : \A m \in T : p <= m
        <4>1. T \subseteq Nat
          BY <1>0
        <4> HIDE DEF T
        <4> QED
          BY <2>2, <4>1, LeastOfSet
      <3>2. p \in 1..Len(s) /\ s[p].index < i
        BY <3>1
      <3>3. \A k \in 1..p - 1 : s[k].index >= i
        BY <3>1, <3>2, <1>0
      <3> QED
        BY <3>2, <3>3, <1>0
    <2> QED
      BY <2>1, <2>2
  <1>2. C!Place(f, i) \in 1..Len(s) + 1 /\ Fits(C!Place(f, i))
    <2>1. C!Place(f, i) = CHOOSE p \in 1..Len(s) + 1 : Fits(p)
      BY <1>s DEF C!Place
    <2> HIDE DEF Fits
    <2> QED
      BY <1>1, <2>1
  <1>3. PICK p : p = C!Place(f, i)
    OBVIOUS
  <1>4. ASSUME NEW k \in p..Len(s)
        PROVE  s[k].index < i
    <2>1. p \in 1..Len(s) /\ s[p].index < i /\ k \in 1..Len(s)
      BY <1>0, <1>2, <1>3
    <2>2. CASE k = p
      BY <2>1, <2>2
    <2>3. CASE p < k
      <3>1. s[k].index < s[p].index
        BY <2>1, <2>3, <1>t
      <3>2. s[k].index \in Nat /\ s[p].index \in Nat
        BY <2>1, <1>0
      <3> QED
        BY <3>1, <3>2, <2>1
    <2> QED
      BY <2>1, <2>2, <2>3
  <1> QED
    BY <1>s, <1>2, <1>3, <1>4

\* The walk to an index starts at a cluster of the chain before it.
LEMMA NearestForm ==
  ASSUME NEW n, NEW c, NEW f, NEW i \in Nat, i > 0, n[f] \in Nat, n[f] > 0,
         LinesFine(n, c, f, cache_line[f], lru_queue[f]),
         first[f] = c[f][0], c[f][0] \in Cluster
  PROVE  /\ OnPath(n, c, f, C!Nearest(f, i)) /\ C!Nearest(f, i).index < i
         /\ C!Nearest(f, i) \in Line
  <1> DEFINE s == cache_line[f]
             p == C!Place(f, i)
  <1>1. /\ s \in Seq(Line)
        /\ \A j, k \in 1..Len(s) : j < k => s[k].index < s[j].index
        /\ \A k \in 1..Len(s) : OnPath(n, c, f, s[k])
    BY DEF LinesFine
  <1>2. p \in 1..Len(s) + 1 /\ \A k \in p..Len(s) : s[k].index < i
    BY <1>1, PlaceForm
  <1>3. CASE p > Len(s)
    <2>1. C!Nearest(f, i) = [index |-> 0, cluster |-> c[f][0]]
      BY <1>3 DEF C!Nearest
    <2> QED
      BY <2>1 DEF OnPath, Line
  <1>4. CASE ~ (p > Len(s))
    <2>1. C!Nearest(f, i) = s[p] /\ p \in 1..Len(s) /\ p \in p..Len(s)
      BY <1>2, <1>4 DEF C!Nearest
    <2> QED
      BY <2>1, <1>1, <1>2
  <1> QED
    BY <1>3, <1>4

\* The line of an index is about the cluster there.
HitFine(n, c, f, i) == i < n[f] /\ C!LineAt(f, i).cluster = c[f][i]

\* What get finds in the cache is the cluster of the chain.
LEMMA LineAtForm ==
  ASSUME NEW n, NEW c, NEW f, NEW i, C!Cached(f, i),
         LinesFine(n, c, f, cache_line[f], lru_queue[f])
  PROVE  HitFine(n, c, f, i)
  <1> DEFINE s == cache_line[f]
  <1>1. s \in Seq(Line) /\ \A k \in 1..Len(s) : OnPath(n, c, f, s[k])
    BY DEF LinesFine
  <1>2. DOMAIN s = 1..Len(s)
    BY <1>1
  <1>3. \E l \in {s[k] : k \in DOMAIN s} : l.index = i
    BY DEF C!Cached
  <1>4. PICK k \in DOMAIN s : C!LineAt(f, i) = s[k] /\ s[k].index = i
    BY <1>3 DEF C!LineAt
  <1> QED
    BY <1>1, <1>2, <1>4 DEF OnPath, HitFine

\* A hit changes the order of use only.
LEMMA TouchedForm ==
  ASSUME NEW n, NEW c, NEW f, NEW i, C!Cached(f, i),
         LinesFine(n, c, f, cache_line[f], lru_queue[f])
  PROVE  LinesFine(n, c, f, cache_line[f], C!Touched(f, i))
  <1>1. PICK s : s = cache_line[f]
    OBVIOUS
  <1>2. PICK q : q = lru_queue[f]
    OBVIOUS
  <1>3. LinesFine(n, c, f, s, q)
    BY <1>1, <1>2
  <1>4. s \in Seq(Line) /\ q \in Seq(Nat) /\ Len(q) = Len(s)
        /\ DOMAIN s = 1..Len(s) /\ DOMAIN q = 1..Len(q) /\ Len(q) \in Nat
    BY <1>3 DEF LinesFine
  <1>5. \E p \in 1..Len(q) : q[p] = i
    <2>1. PICK k \in 1..Len(s) : s[k].index = i
      BY <1>1, <1>4 DEF C!Cached
    <2>2. \E j \in 1..Len(q) : q[j] = s[k].index
      BY <1>3 DEF LinesFine
    <2> QED
      BY <2>1, <2>2
  <1>6. PICK p : p = CHOOSE h \in DOMAIN lru_queue[f] : lru_queue[f][h] = i
    OBVIOUS
  <1>7. p \in 1..Len(q) /\ q[p] = i
    BY <1>2, <1>4, <1>5, <1>6
  <1>8. PICK m : m = C!RemoveAt(q, p)
    OBVIOUS
  <1>9. m \in Seq(Nat) /\ Len(m) = Len(q) - 1
        /\ \A k \in 1..Len(q) - 1 : m[k] = IF k < p THEN q[k] ELSE q[k + 1]
    BY <1>4, <1>7, <1>8, RemoveForm
  <1>10. i \in Nat
    BY <1>4, <1>7
  <1>11. PICK res : res = <<i>> \o m
    OBVIOUS
  <1>12. res \in Seq(Nat) /\ Len(res) = Len(q)
         /\ \A k \in 1..Len(q) : res[k] = IF k = 1 THEN i ELSE m[k - 1]
    <2>1. /\ res \in Seq(Nat) /\ Len(res) = Len(m) + 1
          /\ \A k \in 1..Len(m) + 1 : res[k] = IF k = 1 THEN i ELSE m[k - 1]
      BY <1>9, <1>10, <1>11, ConsForm
    <2>2. Len(m) + 1 = Len(q)
      BY <1>4, <1>9
    <2> QED
      BY <2>1, <2>2
  <1>13. \A k \in 1..Len(q) : res[k] = IF k = 1 THEN q[p] ELSE IF k <= p THEN q[k - 1] ELSE q[k]
    <2> SUFFICES ASSUME NEW k \in 1..Len(q)
                 PROVE  res[k] = IF k = 1 THEN q[p] ELSE IF k <= p THEN q[k - 1] ELSE q[k]
      OBVIOUS
    <2>1. CASE k = 1
      BY <2>1, <1>7, <1>12
    <2>2. CASE k # 1
      <3>1. k - 1 \in 1..Len(q) - 1 /\ (k - 1) + 1 = k /\ res[k] = m[k - 1]
        BY <2>2, <1>4, <1>12
      <3>2. m[k - 1] = IF k - 1 < p THEN q[k - 1] ELSE q[k]
        BY <3>1, <1>9
      <3> QED
        BY <2>2, <3>1, <3>2, <1>4, <1>7
    <2> QED
      BY <2>1, <2>2
  <1>14. \A j, k \in 1..Len(res) : res[j] = res[k] => j = k
    <2>1. \A j, k \in 1..Len(q) : q[j] = q[k] => j = k
      BY <1>3 DEF LinesFine
    <2> SUFFICES ASSUME NEW j \in 1..Len(q), NEW k \in 1..Len(q), res[j] = res[k]
                 PROVE  j = k
      BY <1>12
    <2> DEFINE was(h) == IF h = 1 THEN p ELSE IF h <= p THEN h - 1 ELSE h
    <2>2. res[j] = q[was(j)] /\ res[k] = q[was(k)]
      BY <1>13
    <2>3. was(j) \in 1..Len(q) /\ was(k) \in 1..Len(q)
      BY <1>4, <1>7
    <2>4. was(j) = was(k)
      BY <2>1, <2>2, <2>3
    <2> QED
      BY <2>4, <1>4, <1>7
  <1>15. \A k \in 1..Len(s) : \E j \in 1..Len(res) : res[j] = s[k].index
    <2> SUFFICES ASSUME NEW k \in 1..Len(s)
                 PROVE  \E j \in 1..Len(res) : res[j] = s[k].index
      OBVIOUS
    <2>1. PICK h \in 1..Len(q) : q[h] = s[k].index
      BY <1>3 DEF LinesFine
    <2>2. CASE h = p
      <3>1. 1 \in 1..Len(q) /\ res[1] = q[p]
        BY <1>4, <1>7, <1>13
      <3> QED
        BY <2>1, <2>2, <3>1, <1>12
    <2>3. CASE h < p
      <3>1. h + 1 \in 1..Len(q) /\ h + 1 # 1 /\ h + 1 <= p /\ (h + 1) - 1 = h
        BY <2>3, <1>4, <1>7
      <3>2. res[h + 1] = q[h]
        BY <3>1, <1>13
      <3> QED
        BY <2>1, <3>1, <3>2, <1>12
    <2>4. CASE h > p
      <3>1. res[h] = q[h]
        BY <2>4, <1>4, <1>7, <1>13
      <3> QED
        BY <2>1, <3>1, <1>12
    <2> QED
      BY <2>2, <2>3, <2>4, <1>4, <1>7
  <1>16. \A j \in 1..Len(res) : \E k \in 1..Len(s) : res[j] = s[k].index
    <2> SUFFICES ASSUME NEW j \in 1..Len(q)
                 PROVE  \E k \in 1..Len(s) : res[j] = s[k].index
      BY <1>12
    <2>1. \E h \in 1..Len(q) : res[j] = q[h]
      <3>1. /\ p \in 1..Len(q)
            /\ j # 1 => j - 1 \in 1..Len(q)
        BY <1>4, <1>7
      <3> QED
        BY <3>1, <1>13
    <2> QED
      BY <2>1, <1>3 DEF LinesFine
  <1>17. LinesFine(n, c, f, s, res)
    BY <1>3, <1>4, <1>12, <1>14, <1>15, <1>16 DEF LinesFine
  <1>18. C!Touched(f, i) = res
    BY <1>2, <1>6, <1>8, <1>11 DEF C!Touched
  <1> QED
    BY <1>1, <1>17, <1>18

\* A new line takes its place among the others.
LEMMA InsertLine ==
  ASSUME NEW n, NEW c, NEW f, NEW s, NEW q, NEW l \in Line, NEW p \in 1..Len(s) + 1,
         LinesFine(n, c, f, s, q), f \notin Linear,
         l.index > 0, OnPath(n, c, f, l),
         \A k \in 1..p - 1 : s[k].index > l.index,
         \A k \in p..Len(s) : s[k].index < l.index
  PROVE  LinesFine(n, c, f, C!InsertAt(s, p, l), <<l.index>> \o q)
  <1>1. /\ s \in Seq(Line) /\ q \in Seq(Nat) /\ Len(q) = Len(s) /\ Len(s) \in Nat
    BY DEF LinesFine
  <1>a. \A k \in 1..Len(s) : s[k].index > 0 /\ OnPath(n, c, f, s[k])
    BY DEF LinesFine
  <1>b. \A j, k \in 1..Len(s) : j < k => s[k].index < s[j].index
    BY DEF LinesFine
  <1>c. \A j, k \in 1..Len(q) : q[j] = q[k] => j = k
    BY DEF LinesFine
  <1>d. \A k \in 1..Len(s) : \E j \in 1..Len(q) : q[j] = s[k].index
    BY DEF LinesFine
  <1>e. \A j \in 1..Len(q) : \E k \in 1..Len(s) : q[j] = s[k].index
    BY DEF LinesFine
  <1>2. PICK res : res = C!InsertAt(s, p, l)
    OBVIOUS
  <1>3. /\ res \in Seq(Line) /\ Len(res) = Len(s) + 1
        /\ \A k \in 1..Len(s) + 1 :
             res[k] = IF k < p THEN s[k] ELSE IF k = p THEN l ELSE s[k - 1]
    <2>1. /\ C!InsertAt(s, p, l) \in Seq(Line) /\ Len(C!InsertAt(s, p, l)) = Len(s) + 1
          /\ \A k \in 1..Len(s) + 1 :
               C!InsertAt(s, p, l)[k] = IF k < p THEN s[k] ELSE IF k = p THEN l
                                        ELSE s[k - 1]
      BY <1>1, InsertForm
    <2> QED
      BY <1>2, <2>1
  <1>i. /\ l.index \in Nat
        /\ \A k \in 1..Len(s) : s[k].index \in Nat
    <2>1. \A m \in Line : m.index \in Nat
      BY DEF Line
    <2>2. \A k \in 1..Len(s) : s[k] \in Line
      BY <1>1
    <2> QED
      BY <2>1, <2>2
  <1>4. PICK u : u = <<l.index>> \o q
    OBVIOUS
  <1>5. /\ u \in Seq(Nat) /\ Len(u) = Len(q) + 1
        /\ \A k \in 1..Len(q) + 1 : u[k] = IF k = 1 THEN l.index ELSE q[k - 1]
    BY <1>1, <1>i, <1>4, ConsForm
  <1>6. \A k \in 1..Len(s) : s[k].index # l.index
    <2> SUFFICES ASSUME NEW k \in 1..Len(s) PROVE s[k].index # l.index
      OBVIOUS
    <2>1. k \in 1..p - 1 \/ k \in p..Len(s)
      BY <1>1
    <2> QED
      BY <2>1, <1>i
  <1>7. ASSUME NEW k \in 1..Len(res)
        PROVE  \/ k < p /\ k \in 1..Len(s) /\ res[k] = s[k]
               \/ k = p /\ res[k] = l
               \/ k > p /\ k - 1 \in 1..Len(s) /\ res[k] = s[k - 1]
    BY <1>1, <1>3
  <1>8. \A k \in 1..Len(res) : res[k].index > 0 /\ OnPath(n, c, f, res[k])
    BY <1>a, <1>7
  <1>9. ASSUME NEW j \in 1..Len(res), NEW k \in 1..Len(res), j < k
        PROVE  res[k].index < res[j].index
    <2>1. CASE k < p
      <3>1. j < p
        BY <2>1, <1>9, <1>1, <1>3
      <3>2. res[k] = s[k] /\ k \in 1..Len(s) /\ res[j] = s[j] /\ j \in 1..Len(s)
        BY <2>1, <3>1, <1>7
      <3> QED
        BY <1>9, <3>2, <1>b
    <2>2. CASE k = p
      <3>1. j \in 1..p - 1 /\ res[j] = s[j] /\ res[k] = l
        BY <2>2, <1>9, <1>1, <1>3, <1>7
      <3>2. s[j].index > l.index /\ s[j].index \in Nat
        <4>1. j \in 1..Len(s)
          BY <3>1, <1>1
        <4> QED
          BY <3>1, <4>1, <1>i
      <3> QED
        BY <3>1, <3>2, <1>i
    <2>3. CASE k > p
      <3>1. k - 1 \in 1..Len(s) /\ res[k] = s[k - 1]
        BY <2>3, <1>1, <1>3
      <3>2. CASE j < p
        <4>1. j \in 1..Len(s) /\ res[j] = s[j] /\ j < k - 1
          BY <3>2, <2>3, <1>7, <1>1, <1>3
        <4> QED
          BY <3>1, <4>1, <1>b
      <3>3. CASE j = p
        <4>1. k - 1 \in p..Len(s) /\ res[j] = l
          BY <3>1, <3>3, <2>3, <1>1, <1>3
        <4> QED
          BY <3>1, <4>1
      <3>4. CASE j > p
        <4>1. j - 1 \in 1..Len(s) /\ res[j] = s[j - 1] /\ j - 1 < k - 1
          BY <3>4, <1>9, <1>1, <1>3
        <4> QED
          BY <3>1, <4>1, <1>b
      <3> QED
        BY <3>2, <3>3, <3>4, <1>1, <1>3
    <2> QED
      BY <2>1, <2>2, <2>3, <1>1, <1>3
  <1>10. ASSUME NEW j \in 1..Len(u), NEW k \in 1..Len(u), u[j] = u[k]
         PROVE  j = k
    <2>1. \A h \in 1..Len(q) : q[h] # l.index
      BY <1>e, <1>6
    <2>2. ASSUME NEW h \in 1..Len(u)
          PROVE  (h = 1 /\ u[h] = l.index) \/ (h - 1 \in 1..Len(q) /\ u[h] = q[h - 1])
      BY <1>1, <1>5
    <2>3. \/ j = 1 /\ k = 1
          \/ j - 1 \in 1..Len(q) /\ k - 1 \in 1..Len(q) /\ q[j - 1] = q[k - 1]
      BY <1>10, <2>1, <2>2
    <2>4. (j = 1 /\ k = 1) \/ j - 1 = k - 1
      BY <2>3, <1>c
    <2> QED
      BY <2>4, <1>1, <1>5
  <1>11. ASSUME NEW k \in 1..Len(res)
         PROVE  \E j \in 1..Len(u) : u[j] = res[k].index
    <2>1. CASE res[k] = l
      <3>1. 1 \in 1..Len(q) + 1 /\ 1 \in 1..Len(u)
        BY <1>1, <1>5
      <3>2. u[1] = l.index
        BY <3>1, <1>5
      <3> QED
        BY <2>1, <3>1, <3>2
    <2>2. ASSUME NEW h \in 1..Len(s), res[k] = s[h]
          PROVE  \E j \in 1..Len(u) : u[j] = res[k].index
      <3>1. PICK g \in 1..Len(q) : q[g] = s[h].index
        BY <1>d
      <3>2. g + 1 \in 1..Len(u) /\ g + 1 # 1 /\ (g + 1) - 1 = g
        BY <1>1, <1>5
      <3>3. u[g + 1] = q[g]
        BY <3>2, <1>1, <1>5
      <3> QED
        BY <2>2, <3>1, <3>2, <3>3
    <2> QED
      BY <2>1, <2>2, <1>7
  <1>12. ASSUME NEW j \in 1..Len(u)
         PROVE  \E k \in 1..Len(res) : u[j] = res[k].index
    <2>1. CASE j = 1
      <3>1. p \in 1..Len(res) /\ res[p] = l
        BY <1>1, <1>3
      <3> QED
        BY <2>1, <3>1, <1>1, <1>5
    <2>2. CASE j # 1
      <3>1. j - 1 \in 1..Len(q) /\ u[j] = q[j - 1]
        BY <2>2, <1>1, <1>5
      <3>2. PICK h \in 1..Len(s) : q[j - 1] = s[h].index
        BY <3>1, <1>e
      <3>3. \E k \in 1..Len(res) : res[k] = s[h]
        <4>1. CASE h < p
          <5>1. h \in 1..Len(res) /\ res[h] = s[h]
            BY <4>1, <1>1, <1>3
          <5> QED
            BY <5>1
        <4>2. CASE ~ (h < p)
          <5>1. h + 1 \in 1..Len(s) + 1 /\ ~ (h + 1 < p) /\ h + 1 # p /\ (h + 1) - 1 = h
            BY <4>2, <1>1
          <5>2. h + 1 \in 1..Len(res) /\ res[h + 1] = s[h]
            BY <5>1, <1>3
          <5> QED
            BY <5>2
        <4> QED
          BY <4>1, <4>2
      <3> QED
        BY <3>1, <3>2, <3>3
    <2> QED
      BY <2>1, <2>2
  <1>13. LinesFine(n, c, f, res, u)
    <2>1. Len(u) = Len(res)
      BY <1>1, <1>3, <1>5
    <2> QED
      BY <2>1, <1>3, <1>5, <1>8, <1>9, <1>10, <1>11, <1>12 DEF LinesFine
  <1> QED
    BY <1>2, <1>4, <1>13

\* The line that was not used for longest is removed.
LEMMA RemoveLine ==
  ASSUME NEW n, NEW c, NEW f, NEW s, NEW q, LinesFine(n, c, f, s, q),
         NEW p \in 1..Len(s), s[p].index = q[Len(q)]
  PROVE  LinesFine(n, c, f, C!RemoveAt(s, p), C!Front(q))
  <1>1. /\ s \in Seq(Line) /\ q \in Seq(Nat) /\ Len(q) = Len(s) /\ Len(s) \in Nat
    BY DEF LinesFine
  <1>a. \A k \in 1..Len(s) : s[k].index > 0 /\ OnPath(n, c, f, s[k])
    BY DEF LinesFine
  <1>b. \A j, k \in 1..Len(s) : j < k => s[k].index < s[j].index
    BY DEF LinesFine
  <1>c. \A j, k \in 1..Len(q) : q[j] = q[k] => j = k
    BY DEF LinesFine
  <1>d. \A k \in 1..Len(s) : \E j \in 1..Len(q) : q[j] = s[k].index
    BY DEF LinesFine
  <1>e. \A j \in 1..Len(q) : \E k \in 1..Len(s) : q[j] = s[k].index
    BY DEF LinesFine
  <1>2. PICK res : res = C!RemoveAt(s, p)
    OBVIOUS
  <1>3. /\ res \in Seq(Line) /\ Len(res) = Len(s) - 1
        /\ \A k \in 1..Len(s) - 1 : res[k] = IF k < p THEN s[k] ELSE s[k + 1]
    BY <1>1, <1>2, RemoveForm
  <1>i. \A k \in 1..Len(s) : s[k].index \in Nat
    <2>1. \A m \in Line : m.index \in Nat
      BY DEF Line
    <2>2. \A k \in 1..Len(s) : s[k] \in Line
      BY <1>1
    <2> QED
      BY <2>1, <2>2
  <1>j. \A j, k \in 1..Len(s) : s[j].index = s[k].index => j = k
    <2> SUFFICES ASSUME NEW j \in 1..Len(s), NEW k \in 1..Len(s), s[j].index = s[k].index
                 PROVE  j = k
      OBVIOUS
    <2>1. ~ (j < k) /\ ~ (k < j)
      BY <1>b, <1>i
    <2> QED
      BY <2>1, <1>1
  <1>4. PICK u : u = C!Front(q)
    OBVIOUS
  <1>5. /\ u \in Seq(Nat) /\ Len(u) = Len(q) - 1
        /\ \A k \in 1..Len(q) - 1 : u[k] = q[k]
    <2>1. Len(q) > 0
      BY <1>1
    <2> QED
      BY <2>1, <1>1, <1>4, FrontForm
  <1>6. f \notin Linear
    <2>1. s # <<>>
      BY <1>1
    <2> QED
      BY <2>1 DEF LinesFine
  <1>7. ASSUME NEW k \in 1..Len(res)
        PROVE  \E h \in 1..Len(s) : res[k] = s[h] /\ h # p /\ (k < p => h = k)
                                    /\ (~ (k < p) => h = k + 1)
    <2>1. CASE k < p
      <3>1. k \in 1..Len(s) /\ k # p /\ res[k] = s[k]
        BY <2>1, <1>1, <1>3
      <3> QED
        BY <2>1, <3>1
    <2>2. CASE ~ (k < p)
      <3>1. k + 1 \in 1..Len(s) /\ k + 1 # p /\ res[k] = s[k + 1]
        BY <2>2, <1>1, <1>3
      <3> QED
        BY <2>2, <3>1
    <2> QED
      BY <2>1, <2>2
  <1>8. \A k \in 1..Len(res) : res[k].index > 0 /\ OnPath(n, c, f, res[k])
    BY <1>a, <1>7
  <1>9. ASSUME NEW j \in 1..Len(res), NEW k \in 1..Len(res), j < k
        PROVE  res[k].index < res[j].index
    <2>1. PICK g \in 1..Len(s) : res[j] = s[g] /\ (j < p => g = j) /\ (~ (j < p) => g = j + 1)
      BY <1>7
    <2>2. PICK h \in 1..Len(s) : res[k] = s[h] /\ (k < p => h = k) /\ (~ (k < p) => h = k + 1)
      BY <1>7
    <2>3. g < h
      <3>1. j \in Nat /\ k \in Nat /\ p \in Nat
        BY <1>1, <1>3
      <3>2. g = (IF j < p THEN j ELSE j + 1) /\ h = (IF k < p THEN k ELSE k + 1)
        BY <2>1, <2>2
      <3> QED
        BY <1>9, <3>1, <3>2
    <2> QED
      BY <2>1, <2>2, <2>3, <1>b
  <1>10. \A j, k \in 1..Len(u) : u[j] = u[k] => j = k
    <2>1. \A k \in 1..Len(u) : k \in 1..Len(q) /\ u[k] = q[k]
      BY <1>1, <1>5
    <2> QED
      BY <2>1, <1>c
  <1>11. ASSUME NEW k \in 1..Len(res)
         PROVE  \E j \in 1..Len(u) : u[j] = res[k].index
    <2>1. PICK h \in 1..Len(s) : res[k] = s[h] /\ h # p
      BY <1>7
    <2>2. PICK j \in 1..Len(q) : q[j] = s[h].index
      BY <1>d
    <2>3. j # Len(q)
      BY <2>1, <2>2, <1>j
    <2>4. j \in 1..Len(u) /\ u[j] = q[j]
      BY <2>3, <1>1, <1>5
    <2> QED
      BY <2>1, <2>2, <2>4
  <1>12. ASSUME NEW j \in 1..Len(u)
         PROVE  \E k \in 1..Len(res) : u[j] = res[k].index
    <2>1. j \in 1..Len(q) /\ j # Len(q) /\ u[j] = q[j] /\ Len(q) \in 1..Len(q)
      <3>1. j \in 1..Len(q) - 1 /\ Len(q) \in Nat
        BY <1>1, <1>5
      <3>2. u[j] = q[j]
        BY <3>1, <1>5
      <3> QED
        BY <3>1, <3>2
    <2>2. PICK h \in 1..Len(s) : q[j] = s[h].index
      BY <2>1, <1>e
    <2>3. h # p
      BY <2>1, <2>2, <1>c
    <2>4. \E k \in 1..Len(res) : res[k] = s[h]
      <3>1. CASE h < p
        <4>1. h \in 1..Len(res) /\ res[h] = s[h]
          BY <3>1, <1>1, <1>3
        <4> QED
          BY <4>1
      <3>2. CASE h > p
        <4>1. h - 1 \in 1..Len(s) - 1 /\ ~ (h - 1 < p) /\ (h - 1) + 1 = h
          BY <3>2, <1>1
        <4>2. h - 1 \in 1..Len(res) /\ res[h - 1] = s[h]
          BY <4>1, <1>3
        <4> QED
          BY <4>2
      <3> QED
        BY <2>3, <3>1, <3>2, <1>1
    <2> QED
      BY <2>1, <2>2, <2>4
  <1>13. LinesFine(n, c, f, res, u)
    <2>1. Len(u) = Len(res)
      BY <1>1, <1>3, <1>5
    <2> QED
      BY <2>1, <1>3, <1>5, <1>6, <1>8, <1>9, <1>10, <1>11, <1>12 DEF LinesFine
  <1> QED
    BY <1>2, <1>4, <1>13

\* What get enters into the cache: one line more, or as many as before.
LEMMA EnteredForm ==
  ASSUME NEW n, NEW c, NEW f \in Files, NEW l \in Line, C!Entered(f, l),
         LinesFine(n, c, f, cache_line[f], lru_queue[f]),
         Len(cache_line[f]) <= Lines, f \notin Linear,
         l.index > 0, OnPath(n, c, f, l),
         \A k \in 1..Len(cache_line[f]) : cache_line[f][k].index # l.index
  PROVE  \E s, q : /\ LinesFine(n, c, f, s, q) /\ Len(s) <= Lines
                   /\ cache_line' = [cache_line EXCEPT ![f] = s]
                   /\ lru_queue' = [lru_queue EXCEPT ![f] = q]
  <1>1. PICK s : s = cache_line[f]
    OBVIOUS
  <1>2. PICK q : q = lru_queue[f]
    OBVIOUS
  <1>3. /\ LinesFine(n, c, f, s, q) /\ s \in Seq(Line) /\ q \in Seq(Nat) /\ Len(q) = Len(s)
        /\ Len(s) \in Nat /\ Len(s) <= Lines /\ l.index \in Nat
        /\ \A j, k \in 1..Len(s) : j < k => s[k].index < s[j].index
        /\ \A k \in 1..Len(s) : s[k].index # l.index
    BY <1>1, <1>2 DEF LinesFine, Line
  <1>4. PICK p : p = C!Place(f, l.index)
    OBVIOUS
  <1>5. /\ p \in 1..Len(s) + 1
        /\ \A k \in 1..p - 1 : s[k].index >= l.index
        /\ \A k \in p..Len(s) : s[k].index < l.index
    <2> HIDE DEF Line
    <2> QED
      BY <1>1, <1>3, <1>4, PlaceForm
  <1>6. \A k \in 1..p - 1 : s[k].index > l.index
    <2> SUFFICES ASSUME NEW k \in 1..p - 1 PROVE s[k].index > l.index
      OBVIOUS
    <2>1. k \in 1..Len(s)
      BY <1>3, <1>5
    <2>2. s[k] \in Line
      BY <2>1, <1>3
    <2>3. s[k].index \in Nat
      BY <2>2 DEF Line
    <2> QED
      BY <2>1, <2>3, <1>3, <1>5
  <1>7. PICK a : a = C!InsertAt(s, p, l)
    OBVIOUS
  <1>8. PICK b : b = <<l.index>> \o q
    OBVIOUS
  <1>9. LinesFine(n, c, f, a, b)
    BY <1>3, <1>5, <1>6, <1>7, <1>8, InsertLine
  <1>10. /\ a \in Seq(Line) /\ b \in Seq(Nat) /\ Len(b) = Len(a) /\ Len(a) = Len(s) + 1
         /\ DOMAIN a = 1..Len(a)
    BY <1>3, <1>5, <1>7, <1>9, InsertForm DEF LinesFine
  <1>11. CASE Len(b) > Lines
    <2>1. \E k \in DOMAIN a : a[k].index = b[Len(b)]
      <3>1. Len(b) \in 1..Len(b)
        BY <1>3, <1>10
      <3>2. \E k \in 1..Len(a) : b[Len(b)] = a[k].index
        BY <3>1, <1>9 DEF LinesFine
      <3> QED
        BY <3>2, <1>10
    <2>2. PICK k : k = CHOOSE h \in DOMAIN a : a[h].index = b[Len(b)]
      OBVIOUS
    <2>3. k \in 1..Len(a) /\ a[k].index = b[Len(b)]
      BY <2>1, <2>2, <1>10
    <2>4. LinesFine(n, c, f, C!RemoveAt(a, k), C!Front(b))
      BY <2>3, <1>9, RemoveLine
    <2>5. Len(C!RemoveAt(a, k)) <= Lines
      BY <2>3, <1>3, <1>10, RemoveForm
    <2>6. /\ cache_line' = [cache_line EXCEPT ![f] = C!RemoveAt(a, k)]
          /\ lru_queue' = [lru_queue EXCEPT ![f] = C!Front(b)]
      BY <1>1, <1>2, <1>4, <1>7, <1>8, <1>11, <2>2 DEF C!Entered
    <2> QED
      BY <2>4, <2>5, <2>6
  <1>12. CASE ~ (Len(b) > Lines)
    <2>1. /\ cache_line' = [cache_line EXCEPT ![f] = a]
          /\ lru_queue' = [lru_queue EXCEPT ![f] = b]
      BY <1>1, <1>2, <1>4, <1>7, <1>8, <1>12 DEF C!Entered
    <2>2. Len(a) <= Lines
      BY <1>3, <1>10, <1>12, ClusterFacts
    <2> QED
      BY <2>1, <2>2, <1>9
  <1> QED
    BY <1>11, <1>12

(***************************************************************************)
(* Steps that leave the chains alone                                       *)
(***************************************************************************)
Allocating == {"alloc", "put", "link"}

\* The worker of f moves and nothing changes but its lines.
LEMMA StepOfWorker ==
  ASSUME NEW n \in Lengths, NEW c \in Trails, NEW f \in Files, NEW v, NEW s, NEW q,
         ChainTypes, Behind, ChainsFine(n, c), BitmapOwned',
         UNCHANGED <<fat, taken, last, first>>,
         w' = [w EXCEPT ![f] = v],
         cache_line' = [cache_line EXCEPT ![f] = s],
         lru_queue' = [lru_queue EXCEPT ![f] = q],
         LinesFine(n, c, f, s, q), Len(s) <= Lines, WorkFine(n, c, f, v)'
  PROVE  ChainInv'
  <1>1. v \in WorkerRec /\ s \in Seq(Line) /\ q \in Seq(Nat)
    BY DEF WorkFine, LinesFine
  <1>2. ChainTypes'
    BY <1>1 DEF ChainTypes
  <1>3. Behind'
    BY DEF Behind
  <1>4. Placed(n, c)' /\ Connected(n, c)' /\ AsLaid(n, c)'
    <2>1. Placed(n, c)'
      BY DEF ChainsFine, Placed
    <2>2. Connected(n, c)'
      BY DEF ChainsFine, Connected
    <2>3. AsLaid(n, c)'
      BY DEF ChainsFine, AsLaid
    <2> QED
      BY <2>1, <2>2, <2>3
  <1>5. ASSUME NEW g \in Files
        PROVE  LinesFine(n, c, g, cache_line'[g], lru_queue'[g]) /\ Len(cache_line'[g]) <= Lines
    <2>1. CASE g = f
      <3>1. cache_line'[g] = s /\ lru_queue'[g] = q
        BY <2>1 DEF ChainTypes
      <3> QED
        BY <2>1, <3>1
    <2>2. CASE g # f
      <3>1. cache_line'[g] = cache_line[g] /\ lru_queue'[g] = lru_queue[g]
        BY <2>2 DEF ChainTypes
      <3>2. LinesFine(n, c, g, cache_line[g], lru_queue[g]) /\ Len(cache_line[g]) <= Lines
        BY DEF ChainsFine
      <3> QED
        BY <3>1, <3>2
    <2> QED
      BY <2>1, <2>2
  <1>6. ASSUME NEW g \in Files
        PROVE  WorkFine(n, c, g, w[g])'
    <2>1. CASE g = f
      <3>1. w'[g] = v
        BY <2>1 DEF ChainTypes
      <3> QED
        BY <2>1, <3>1
    <2>2. CASE g # f
      <3>1. cache_line'[g] = cache_line[g] /\ w'[g] = w[g]
        BY <2>2 DEF ChainTypes
      <3>2. WorkFine(n, c, g, w[g])
        BY DEF ChainsFine
      <3>3. PICK u : u = w[g]
        OBVIOUS
      <3>4. \A y : Fresh(n, c, y) => Fresh(n, c, y)'
        BY DEF Fresh
      <3>5. WorkFine(n, c, g, u)'
        BY <3>1, <3>2, <3>3, <3>4 DEF WorkFine
      <3> QED
        BY <3>1, <3>3, <3>5
    <2> QED
      BY <2>1, <2>2
  <1>7. \A g \in Files : /\ LinesFine(n, c, g, cache_line[g], lru_queue[g])'
                         /\ (Len(cache_line[g]) <= Lines)'
    BY <1>5 DEF LinesFine, OnPath
  <1>8. ChainsFine(n, c)'
    BY <1>4, <1>6, <1>7 DEF ChainsFine
  <1> QED
    BY <1>2, <1>3, <1>8 DEF ChainInv, Lengths, Trails

\* ... and not even those.
LEMMA MoveOfWorker ==
  ASSUME NEW n \in Lengths, NEW c \in Trails, NEW f \in Files, NEW v,
         ChainTypes, Behind, ChainsFine(n, c), BitmapOwned',
         UNCHANGED <<fat, taken, last, first, cache_line, lru_queue>>,
         w' = [w EXCEPT ![f] = v], WorkFine(n, c, f, v)
  PROVE  ChainInv'
  <1>1. /\ LinesFine(n, c, f, cache_line[f], lru_queue[f])
        /\ Len(cache_line[f]) <= Lines
    BY DEF ChainsFine
  <1>2. PICK s : s = cache_line[f]
    OBVIOUS
  <1>3. PICK q : q = lru_queue[f]
    OBVIOUS
  <1>4. /\ cache_line' = [cache_line EXCEPT ![f] = s]
        /\ lru_queue' = [lru_queue EXCEPT ![f] = q]
    BY <1>2, <1>3 DEF ChainTypes
  <1>5. \A y : Fresh(n, c, y) => Fresh(n, c, y)'
    BY DEF Fresh
  <1>6. WorkFine(n, c, f, v)'
    BY <1>5 DEF WorkFine
  <1> QED
    BY <1>1, <1>2, <1>3, <1>4, <1>6, StepOfWorker

\* bmp_lock stays where it is, or the worker of f unlocks it.
LEMMA BitmapKept ==
  ASSUME NEW f \in Files, NEW v, ChainTypes, BitmapOwned,
         w' = [w EXCEPT ![f] = v], bmp_lock' = bmp_lock,
         v.pc \in Allocating <=> w[f].pc \in Allocating
  PROVE  BitmapOwned'
  <1>1. w \in [Files -> WorkerRec]
    BY DEF ChainTypes
  <1>2. \A g \in Files : w'[g] = IF g = f THEN v ELSE w[g]
    BY <1>1
  <1> QED
    BY <1>2 DEF BitmapOwned, Allocating

\* Likewise.
LEMMA BitmapLeft ==
  ASSUME NEW f \in Files, NEW v, ChainTypes, BitmapOwned,
         w' = [w EXCEPT ![f] = v], bmp_lock' = C!Unlocked(f),
         v.pc \notin Allocating
  PROVE  BitmapOwned'
  <1>1. w \in [Files -> WorkerRec]
    BY DEF ChainTypes
  <1>2. \A g \in Files : w'[g] = IF g = f THEN v ELSE w[g]
    BY <1>1
  <1>3. 0 \notin Files
    BY ClusterFacts
  <1>4. bmp_lock' = IF bmp_lock = f THEN 0 ELSE bmp_lock
    BY DEF C!Unlocked, C!None
  <1> QED
    BY <1>2, <1>3, <1>4 DEF BitmapOwned, Allocating

\* The fields of a worker, at rest and when get_lba has returned.
LEMMA WorkerFields ==
  ASSUME NEW v \in WorkerRec
  PROVE  /\ v.pc \in Stages /\ v.index \in Nat
         /\ v.expand \in BOOLEAN /\ v.at \in Line /\ v.new \in Cluster \cup {0}
         /\ v.sector \in Nat \cup {-1} /\ v.ans \in Nat
         /\ v.at.index \in Nat /\ v.at.cluster \in Cluster \cup {0}
  BY ClusterFacts DEF WorkerRec, Line

\* The worker of a file whose get_lba has answered.
Rested(i, a) == [C!Worker0 EXCEPT !.index = i, !.ans = a]

\* Likewise.
LEMMA RestFine ==
  ASSUME NEW n \in Lengths, NEW c \in Trails, NEW f \in Files, NEW i \in Nat, NEW a \in Nat,
         a # 0 => AnswerFine(n, c, f, i, a)
  PROVE  /\ WorkFine(n, c, f, Rested(i, a)) /\ Rested(i, a).pc = "idle"
         /\ Rested(i, a).index = i /\ Rested(i, a).ans = a
         /\ Rested(i, a).sector = C!NoSector
  <1>1. PICK u : u = [C!Worker0 EXCEPT !.index = i, !.ans = a]
    OBVIOUS
  <1>2. u = [pc |-> "idle", index |-> i, expand |-> FALSE,
             at |-> [index |-> 0, cluster |-> 0], new |-> 0, sector |-> -1, ans |-> a]
    BY <1>1, ClusterFacts DEF C!Worker0
  <1>3. [index |-> 0, cluster |-> 0] \in Line
    BY DEF Line
  <1>4. u \in WorkerRec
    BY <1>2, <1>3, ClusterFacts DEF WorkerRec, Stages
  <1>5. u.pc = "idle" /\ u.index = i /\ u.ans = a /\ u.sector = C!NoSector
    BY <1>2, ClusterFacts
  <1>6. WorkFine(n, c, f, u)
    BY <1>4, <1>5 DEF WorkFine, Growing
  <1>7. u = Rested(i, a)
    BY <1>1 DEF Rested
  <1> QED
    BY <1>5, <1>6, <1>7

\* get_lba returns.
LEMMA ReturnStep ==
  ASSUME NEW n \in Lengths, NEW c \in Trails, NEW f \in Files, NEW i \in Nat, NEW a \in Nat,
         ChainTypes, Behind, ChainsFine(n, c), BitmapOwned,
         UNCHANGED <<fat, taken, last, first, cache_line, lru_queue>>,
         w' = C!Returned(f, i, a),
         \/ bmp_lock' = C!Unlocked(f)
         \/ bmp_lock' = bmp_lock /\ w[f].pc \notin Allocating,
         a # 0 => AnswerFine(n, c, f, i, a)
  PROVE  ChainInv'
  <1>1. PICK v : v = Rested(i, a)
    OBVIOUS
  <1>2. WorkFine(n, c, f, v) /\ v.pc = "idle"
    BY <1>1, RestFine
  <1>3. w' = [w EXCEPT ![f] = v]
    BY <1>1 DEF C!Returned, Rested
  <1>4. v.pc \notin Allocating
    BY <1>2 DEF Allocating
  <1>5. BitmapOwned'
    BY <1>3, <1>4, BitmapKept, BitmapLeft
  <1> QED
    BY <1>2, <1>3, <1>5, MoveOfWorker

\* The invariant with the chains that it is about.
ChainState(n, c) ==
  /\ n \in Lengths /\ c \in Trails
  /\ ChainTypes /\ BitmapOwned /\ Behind /\ ChainsFine(n, c)

\* What is known of the worker of f.
LEMMA WorkerNow ==
  ASSUME NEW n, NEW c, ChainState(n, c), NEW f \in Files
  PROVE  /\ WorkFine(n, c, f, w[f]) /\ w[f] \in WorkerRec
         /\ w \in [Files -> WorkerRec] /\ n[f] \in Nat
         /\ LinesFine(n, c, f, cache_line[f], lru_queue[f])
         /\ Len(cache_line[f]) <= Lines
         /\ first[f] = IF n[f] = 0 THEN 0 ELSE c[f][0]
         /\ \A i \in Nat : c[f][i] \in Cluster
  BY DEF ChainState, ChainsFine, ChainTypes, Lengths, Trails, Connected

\* ... without an answer.
LEMMA FailStep ==
  ASSUME NEW n, NEW c, ChainState(n, c), NEW f \in Files, w' = C!Failed(f),
         UNCHANGED <<fat, taken, last, first, cache_line, lru_queue>>,
         \/ bmp_lock' = C!Unlocked(f)
         \/ bmp_lock' = bmp_lock /\ w[f].pc \notin Allocating
  PROVE  ChainInv'
  <1>1. w[f] \in WorkerRec
    BY WorkerNow
  <1>2. w[f].index \in Nat
    BY <1>1, WorkerFields
  <1> QED
    BY <1>2, ReturnStep DEF ChainState, C!Failed

\* fat_reader::load gives its slot back.
LEMMA UnloadStep ==
  ASSUME NEW n, NEW c, ChainState(n, c), NEW f \in Files, C!Unload(f)
  PROVE  ChainInv'
  <1>1. WorkFine(n, c, f, w[f]) /\ w[f] \in WorkerRec
    BY WorkerNow
  <1>2. PICK u : u = w[f]
    OBVIOUS
  <1>3. PICK v : v = [u EXCEPT !.sector = C!NoSector]
    OBVIOUS
  <1>4. w' = [w EXCEPT ![f] = v]
    BY <1>2, <1>3 DEF C!Unload
  <1>5. /\ v \in WorkerRec /\ v.pc = u.pc /\ v.index = u.index /\ v.at = u.at
        /\ v.new = u.new /\ v.ans = u.ans /\ v.sector = C!NoSector
    BY <1>1, <1>2, <1>3, ClusterFacts DEF WorkerRec
  <1>6. WorkFine(n, c, f, v)
    BY <1>1, <1>2, <1>5 DEF WorkFine
  <1>7. BitmapOwned'
    BY <1>2, <1>4, <1>5, BitmapKept DEF ChainState, C!Unload
  <1> QED
    BY <1>4, <1>6, <1>7, MoveOfWorker DEF ChainState, C!Unload

\* fat_reader::load waits for the slot of the sector that is wanted.
LEMMA FatLoadStep ==
  ASSUME NEW n, NEW c, ChainState(n, c), NEW f \in Files, C!Load(f)
  PROVE  ChainInv'
  <1>1. WorkFine(n, c, f, w[f]) /\ w[f] \in WorkerRec /\ w \in [Files -> WorkerRec]
    BY WorkerNow
  <1>2. PICK u : u = w[f]
    OBVIOUS
  <1>3. CASE C!Wanted(f) \in Cluster
    <2>1. PICK m : m = C!Sector(C!Wanted(f))
      OBVIOUS
    <2>2. m \in Nat
      <3>1. \A y \in Nat : y \div PerSector \in Nat
        BY ClusterFacts
      <3> QED
        BY <1>3, <2>1, <3>1, ClusterFacts DEF C!Sector
    <2>3. PICK v : v = [u EXCEPT !.sector = m]
      OBVIOUS
    <2>4. w' = [w EXCEPT ![f] = v]
      BY <1>2, <1>3, <2>1, <2>3, ClusterFacts DEF C!Load
    <2>5. /\ v \in WorkerRec /\ v.pc = u.pc /\ v.index = u.index /\ v.at = u.at
          /\ v.new = u.new /\ v.ans = u.ans /\ v.sector = m
      BY <1>1, <1>2, <2>2, <2>3 DEF WorkerRec
    <2>6. u.pc \in {"get", "follow"} \cup Growing
      BY <1>2 DEF C!Load, C!UsesFat, Growing
    <2>7. u.pc = "follow" => OnPath(n, c, f, u.at)
      <3>1. u.pc = "follow" => u.at.cluster \in Cluster
        BY <1>2, <1>3 DEF C!Wanted
      <3> QED
        BY <3>1, <1>1, <1>2, ClusterFacts DEF WorkFine
    <2>8. WorkFine(n, c, f, v)
      BY <1>1, <1>2, <2>5, <2>6, <2>7 DEF WorkFine
    <2>9. BitmapOwned'
      BY <1>2, <2>4, <2>5, BitmapKept DEF ChainState, C!Load
    <2> QED
      BY <2>4, <2>8, <2>9, MoveOfWorker DEF ChainState, C!Load
  <1>4. CASE C!Wanted(f) \notin Cluster
    <2>1. UNCHANGED <<fat, taken, last, bmp_lock, first, cache_line, lru_queue, w>>
      BY <1>4, ClusterFacts DEF C!Load
    <2>2. w' = [w EXCEPT ![f] = u]
      BY <2>1, <1>1, <1>2
    <2>3. BitmapOwned'
      BY <2>1 DEF ChainState, BitmapOwned
    <2> QED
      BY <1>1, <1>2, <2>1, <2>2, <2>3, MoveOfWorker DEF ChainState
  <1> QED
    BY <1>3, <1>4

\* The worker starts another stage of get_lba from its beginning.
LEMMA StageRec ==
  ASSUME NEW p \in Stages, NEW i \in Nat, NEW grow \in BOOLEAN, NEW a \in Line, NEW v,
         v = [pc |-> p, index |-> i, expand |-> grow, at |-> a, new |-> 0, sector |-> -1,
              ans |-> 0]
  PROVE  /\ v \in WorkerRec /\ v.pc = p /\ v.index = i /\ v.expand = grow /\ v.at = a
         /\ v.ans = 0 /\ v.sector = C!NoSector
  BY DEF WorkerRec, C!NoSector

\* What it has to know then.
LEMMA StageFine ==
  ASSUME NEW n \in Lengths, NEW c \in Trails, NEW f \in Files, NEW v \in WorkerRec,
         v.pc \in {"missed", "get", "record", "again"}, v.ans = 0, v.sector = C!NoSector,
         v.pc = "missed" => (v.index = 0 => n[f] = 0),
         v.pc = "get" => /\ f \notin Linear /\ OnPath(n, c, f, v.at) /\ v.at.index < v.index
                         /\ \A k \in 1..Len(cache_line[f]) : cache_line[f][k].index # v.index
  PROVE  WorkFine(n, c, f, v)
  BY DEF WorkFine, Growing

\* The same, at a cluster that is not known yet.
LEMMA AtRec ==
  ASSUME NEW p \in Stages, NEW i \in Nat, NEW grow \in BOOLEAN, NEW v, v = C!At(p, i, grow)
  PROVE  /\ v \in WorkerRec /\ v.pc = p /\ v.index = i /\ v.ans = 0
         /\ v.sector = C!NoSector
  <1>1. v = [pc |-> p, index |-> i, expand |-> grow, at |-> [index |-> 0, cluster |-> 0],
             new |-> 0, sector |-> -1, ans |-> 0]
    BY DEF C!At, C!Worker0, C!None, C!NoSector
  <1>2. [index |-> 0, cluster |-> 0] \in Line
    BY DEF Line
  <1> QED
    BY <1>1, <1>2, StageRec

\* expand returned true, and the worker looks again.
LEMMA ExpandedStep ==
  ASSUME NEW n, NEW c, ChainState(n, c), NEW f \in Files, w' = C!Expanded(f),
         w[f].pc \notin Allocating,
         UNCHANGED <<fat, taken, last, bmp_lock, first, cache_line, lru_queue>>
  PROVE  ChainInv'
  <1>0. n \in Lengths /\ c \in Trails /\ ChainTypes /\ BitmapOwned /\ Behind
        /\ ChainsFine(n, c)
    BY DEF ChainState
  <1>1. w[f] \in WorkerRec
    BY WorkerNow
  <1>2. PICK i : i = w[f].index
    OBVIOUS
  <1>3. i \in Nat
    BY <1>1, <1>2, WorkerFields
  <1>4. PICK p : p = IF i = 0 THEN "record" ELSE "again"
    OBVIOUS
  <1>5. PICK grow \in BOOLEAN : grow = TRUE
    OBVIOUS
  <1>6. PICK v : v = C!At(p, i, grow)
    OBVIOUS
  <1>7. w' = [w EXCEPT ![f] = v]
    BY <1>2, <1>4, <1>5, <1>6 DEF C!Expanded
  <1>8. p \in Stages
    BY <1>4 DEF Stages
  <1>9. v \in WorkerRec /\ v.pc = p /\ v.ans = 0 /\ v.sector = C!NoSector
    BY <1>3, <1>6, <1>8, AtRec
  <1>10. WorkFine(n, c, f, v)
    BY <1>0, <1>4, <1>9, StageFine
  <1>11. v.pc \notin Allocating
    BY <1>4, <1>9 DEF Allocating
  <1>12. BitmapOwned'
    BY <1>0, <1>7, <1>11, BitmapKept
  <1> QED
    BY <1>0, <1>7, <1>10, <1>12, MoveOfWorker

\* A sector cannot be read: get has found nothing, expand gives everything back.
LEMMA FatFailsStep ==
  ASSUME NEW n, NEW c, ChainState(n, c), NEW f \in Files, C!ReadFails(f)
  PROVE  ChainInv'
  <1>0. n \in Lengths /\ c \in Trails /\ ChainTypes /\ BitmapOwned /\ Behind
        /\ ChainsFine(n, c)
    BY DEF ChainState
  <1>1. WorkFine(n, c, f, w[f]) /\ w[f] \in WorkerRec
    BY WorkerNow
  <1>2. PICK u : u = w[f]
    OBVIOUS
  <1>3. UNCHANGED <<fat, taken, last, first, cache_line, lru_queue>>
        /\ bmp_lock' = C!Unlocked(f)
    BY DEF C!ReadFails
  <1>4. CASE u.pc = "get"
    <2>1. /\ u.at.index < u.index /\ u.at.index \in Nat /\ u.index \in Nat
          /\ u.expand \in BOOLEAN
      BY <1>1, <1>2, <1>4, WorkerFields DEF WorkFine
    <2>2. PICK v : v = C!At("missed", u.index, u.expand)
      OBVIOUS
    <2>3. w' = [w EXCEPT ![f] = v]
      BY <1>2, <1>4, <2>2 DEF C!ReadFails
    <2>4. "missed" \in Stages
      BY DEF Stages
    <2>5. v \in WorkerRec /\ v.pc = "missed" /\ v.index = u.index /\ v.ans = 0
          /\ v.sector = C!NoSector
      BY <2>1, <2>2, <2>4, AtRec
    <2>6. u.index # 0
      BY <2>1
    <2>7. WorkFine(n, c, f, v)
      BY <1>0, <2>5, <2>6, StageFine
    <2>8. BitmapOwned'
      BY <1>0, <1>3, <2>3, <2>5, BitmapLeft DEF Allocating
    <2> QED
      BY <1>0, <1>3, <2>3, <2>7, <2>8, MoveOfWorker
  <1>5. CASE u.pc # "get"
    <2>1. w' = C!Failed(f)
      BY <1>2, <1>5 DEF C!ReadFails
    <2> QED
      BY <1>3, <2>1, FailStep
  <1> QED
    BY <1>4, <1>5

\* What get_lba is asked for.
Index == Nat

\* cluster_chain::get as far as it needs no FAT, at the start of get_lba and
\* when it looks again.
LEMMA LookStep ==
  ASSUME NEW n, NEW c, ChainState(n, c), NEW f \in Files,
         w[f].pc \in {"idle", "again"},
         NEW i \in Index, NEW grow \in BOOLEAN, C!Look(f, i, grow),
         UNCHANGED <<fat, taken, last, bmp_lock, first, cache_line>>
  PROVE  ChainInv'
  <1>1. /\ n[f] \in Nat /\ LinesFine(n, c, f, cache_line[f], lru_queue[f])
        /\ Len(cache_line[f]) <= Lines
        /\ first[f] = IF n[f] = 0 THEN 0 ELSE c[f][0]
        /\ \A j \in Nat : c[f][j] \in Cluster
    BY WorkerNow
  <1>0. n \in Lengths /\ c \in Trails /\ ChainTypes /\ BitmapOwned /\ Behind
        /\ ChainsFine(n, c)
    BY DEF ChainState
  <1>y. LinesFine(n, c, f, cache_line[f], lru_queue[f])
    BY <1>1
  <1>z. w[f].pc \notin Allocating /\ i \in Nat
    BY DEF Allocating, Index
  <1>2. CASE first[f] = 0
    <2>1. PICK v : v = C!At("missed", i, grow)
      OBVIOUS
    <2>3. n[f] = 0
      BY <1>1, <1>2, ClusterFacts
    <2>4. WorkFine(n, c, f, v) /\ v.pc = "missed"
      <3>1. "missed" \in Stages
        BY DEF Stages
      <3>2. v \in WorkerRec /\ v.pc = "missed" /\ v.ans = 0 /\ v.sector = C!NoSector
        BY <2>1, <3>1, <1>z, AtRec
      <3> QED
        BY <2>3, <3>2, <1>0, StageFine
    <2>5. w' = [w EXCEPT ![f] = v] /\ lru_queue' = lru_queue
      BY <1>2, <2>1 DEF C!Look
    <2>6. BitmapOwned'
      BY <2>4, <2>5, <1>0, <1>z, BitmapKept DEF Allocating
    <2> QED
      BY <2>4, <2>5, <2>6, <1>0, MoveOfWorker
  <1>3. CASE first[f] # 0 /\ (f \in Linear \/ i = 0 \/ C!Cached(f, i))
    <2>1. PICK y : y = IF f \in Linear THEN first[f] + i
                       ELSE IF i = 0 THEN first[f] ELSE C!LineAt(f, i).cluster
      OBVIOUS
    <2>a. PICK a : a = C!InHeap(y)
      OBVIOUS
    <2>2. n[f] > 0 /\ first[f] = c[f][0] /\ first[f] \in Nat
      BY <1>1, <1>3, ClusterFacts
    <2>b. y \in Cluster => a = y
      BY <2>a, ClusterFacts DEF C!InHeap
    <2>3. AnswerFine(n, c, f, i, a)
      <3>1. CASE f \in Linear
        <4>1. /\ n[f] = Len(Layout[f])
              /\ \A j \in Nat : j < n[f] => c[f][j] = Layout[f][j + 1]
          BY <1>0, <3>1 DEF ChainsFine, AsLaid
        <4>2. ASSUME i < n[f] PROVE a = c[f][i]
          <5>1. i + 1 \in 1..Len(Layout[f])
            BY <4>1, <4>2, <1>1, <1>z
          <5>2. Layout[f][i + 1] = Layout[f][1] + (i + 1) - 1
            BY <3>1, <5>1, ChainAssumption
          <5>3. c[f][0] = Layout[f][1] /\ c[f][i] = Layout[f][i + 1]
            BY <4>1, <4>2, <2>2, <1>z
          <5>4. y = c[f][i] /\ y \in Cluster
            BY <2>1, <2>2, <3>1, <5>2, <5>3, <1>1, <1>z
          <5> QED
            BY <5>4, <2>b
        <4> QED
          BY <3>1, <4>2 DEF AnswerFine
      <3>2. CASE f \notin Linear /\ i = 0
        <4>1. y = c[f][0] /\ y \in Cluster
          BY <2>1, <2>2, <3>2, <1>1
        <4> QED
          BY <4>1, <2>2, <2>b, <3>2, <1>1 DEF AnswerFine
      <3>3. CASE f \notin Linear /\ i # 0
        <4>1. C!Cached(f, i)
          BY <1>3, <3>3
        <4>2. i < n[f] /\ C!LineAt(f, i).cluster = c[f][i]
          <5>1. HitFine(n, c, f, i)
            BY <4>1, <1>y, LineAtForm, Zenon
          <5> QED
            BY <5>1 DEF HitFine
        <4>3. y = c[f][i] /\ y \in Cluster
          BY <2>1, <3>3, <4>2, <1>1, <1>z
        <4> QED
          BY <2>b, <3>3, <4>2, <4>3 DEF AnswerFine
      <3> QED
        BY <3>1, <3>2, <3>3
    <2>4. a \in Nat
      BY <2>a, ClusterFacts DEF C!InHeap
    <2>5. PICK v : v = Rested(i, a)
      OBVIOUS
    <2>6. WorkFine(n, c, f, v) /\ v.pc = "idle"
      BY <2>3, <2>4, <2>5, <1>0, <1>z, RestFine
    <2>7. w' = [w EXCEPT ![f] = v]
      <3>1. w' = C!Returned(f, i, C!InHeap(IF f \in Linear THEN first[f] + i
                           ELSE IF i = 0 THEN first[f] ELSE C!LineAt(f, i).cluster))
        BY <1>3 DEF C!Look
      <3>2. w' = C!Returned(f, i, a)
        BY <3>1, <2>1, <2>a
      <3> QED
        BY <3>2, <2>5 DEF C!Returned, Rested
    <2>8. BitmapOwned'
      BY <2>6, <2>7, <1>0, <1>z, BitmapKept DEF Allocating
    <2>9. PICK q : q = IF C!Cached(f, i) THEN C!Touched(f, i) ELSE lru_queue[f]
      OBVIOUS
    <2>10. LinesFine(n, c, f, cache_line[f], q)
      BY <2>9, <1>1, TouchedForm
    <2>11. lru_queue' = [lru_queue EXCEPT ![f] = q]
      BY <2>9, <1>3, <1>0 DEF C!Look, ChainTypes
    <2>12. PICK s : s = cache_line[f]
      OBVIOUS
    <2>13. cache_line' = [cache_line EXCEPT ![f] = s]
      BY <2>12, <1>0 DEF ChainTypes
    <2>14. WorkFine(n, c, f, v)'
      <3>1. \A m : Fresh(n, c, m) => Fresh(n, c, m)'
        BY DEF Fresh
      <3> QED
        BY <2>6, <3>1 DEF WorkFine
    <2> QED
      BY <2>7, <2>8, <2>10, <2>11, <2>12, <2>13, <2>14, <1>0, <1>1, StepOfWorker
  <1>4. CASE first[f] # 0 /\ f \notin Linear /\ i # 0 /\ ~ C!Cached(f, i)
    <2>1. PICK a : a = C!Nearest(f, i)
      OBVIOUS
    <2>2. n[f] > 0 /\ first[f] = c[f][0] /\ n[f] \in Nat /\ c[f][0] \in Cluster /\ i > 0
      BY <1>1, <1>4, <1>z
    <2>3. OnPath(n, c, f, a) /\ a.index < i /\ a \in Line
      BY <2>1, <2>2, <1>y, <1>z, NearestForm, Zenon
    <2>4. \A k \in 1..Len(cache_line[f]) : cache_line[f][k].index # i
      <3>1. DOMAIN cache_line[f] = 1..Len(cache_line[f])
        BY <1>0 DEF ChainTypes
      <3> QED
        BY <1>4, <3>1 DEF C!Cached
    <2>5. PICK v : v = [C!At("get", i, grow) EXCEPT !.at = a]
      OBVIOUS
    <2>6. WorkFine(n, c, f, v) /\ v.pc = "get"
      <3>1. v = [pc |-> "get", index |-> i, expand |-> grow, at |-> a, new |-> 0,
                 sector |-> -1, ans |-> 0]
        BY <2>5 DEF C!At, C!Worker0, C!None, C!NoSector
      <3>2. v \in WorkerRec /\ v.pc = "get" /\ v.index = i /\ v.at = a /\ v.ans = 0
            /\ v.sector = C!NoSector
        <4>1. "get" \in Stages
          BY DEF Stages
        <4> QED
          BY <2>3, <3>1, <4>1, <1>z, StageRec
      <3> QED
        BY <2>3, <2>4, <3>2, <1>0, <1>4, StageFine
    <2>7. w' = [w EXCEPT ![f] = v] /\ lru_queue' = lru_queue
      BY <2>1, <2>5, <1>4 DEF C!Look
    <2>8. BitmapOwned'
      BY <2>6, <2>7, <1>0, <1>z, BitmapKept DEF Allocating
    <2> QED
      BY <2>6, <2>7, <2>8, <1>0, MoveOfWorker
  <1> QED
    BY <1>2, <1>3, <1>4

\* What the FAT says of a cluster of a chain.
LEMMA NextOnPath ==
  ASSUME NEW n, NEW c, ChainState(n, c), NEW f \in Files, f \notin Linear,
         NEW l \in Line, OnPath(n, c, f, l)
  PROVE  /\ l.index \in Nat /\ n[f] \in Nat
         /\ \/ l.index + 1 = n[f] /\ fat[l.cluster] = C!EndMark
            \/ /\ l.index + 1 < n[f] /\ fat[l.cluster] = c[f][l.index + 1]
               /\ fat[l.cluster] \in Cluster
  <1>1. l.index \in Nat /\ l.index < n[f] /\ l.cluster = c[f][l.index] /\ n[f] \in Nat
        /\ \A i \in Nat : c[f][i] \in Cluster
    BY DEF OnPath, Line, ChainState, Lengths, Trails
  <1>2. fat[l.cluster] = IF l.index + 1 = n[f] THEN C!EndMark ELSE c[f][l.index + 1]
    BY <1>1 DEF ChainState, ChainsFine, Connected
  <1>3. l.index + 1 \in Nat /\ (l.index + 1 = n[f] \/ l.index + 1 < n[f])
    BY <1>1
  <1> QED
    BY <1>1, <1>2, <1>3

\* An entry of the FAT is followed.
LEMMA GetStep ==
  ASSUME NEW n, NEW c, ChainState(n, c), NEW f \in Files, C!Get(f)
  PROVE  ChainInv'
  <1>0. n \in Lengths /\ c \in Trails /\ ChainTypes /\ BitmapOwned /\ Behind
        /\ ChainsFine(n, c)
    BY DEF ChainState
  <1>1. WorkFine(n, c, f, w[f]) /\ w[f] \in WorkerRec
        /\ LinesFine(n, c, f, cache_line[f], lru_queue[f]) /\ Len(cache_line[f]) <= Lines
    BY WorkerNow
  <1>2. PICK u : u = w[f]
    OBVIOUS
  <1>3. u.pc = "get" /\ u \in WorkerRec
    BY <1>1, <1>2 DEF C!Get
  <1>4. /\ f \notin Linear /\ OnPath(n, c, f, u.at) /\ u.at.index < u.index /\ u.ans = 0
        /\ \A k \in 1..Len(cache_line[f]) : cache_line[f][k].index # u.index
    BY <1>1, <1>2, <1>3 DEF WorkFine
  <1>5. u.index \in Nat /\ u.at \in Line /\ u.at.index \in Nat
        /\ u.expand \in BOOLEAN
    BY <1>3, WorkerFields
  <1>6. PICK next : next = fat[u.at.cluster]
    OBVIOUS
  <1>7. /\ n[f] \in Nat
        /\ \/ u.at.index + 1 = n[f] /\ next = C!EndMark
           \/ u.at.index + 1 < n[f] /\ next = c[f][u.at.index + 1] /\ next \in Cluster
    BY <1>4, <1>5, <1>6, NextOnPath
  <1>8. CASE next = C!EndMark
    <2>1. PICK v : v = C!At("missed", u.index, u.expand)
      OBVIOUS
    <2>2. /\ w' = [w EXCEPT ![f] = v]
          /\ UNCHANGED <<fat, taken, last, bmp_lock, first, cache_line, lru_queue>>
      BY <1>2, <1>6, <1>8, <2>1 DEF C!Get
    <2>3. v \in WorkerRec /\ v.pc = "missed" /\ v.index = u.index /\ v.ans = 0
          /\ v.sector = C!NoSector
      <3>1. "missed" \in Stages
        BY DEF Stages
      <3> QED
        BY <2>1, <3>1, <1>5, AtRec
    <2>4. u.index # 0
      BY <1>4, <1>5
    <2>5. WorkFine(n, c, f, v)
      BY <2>3, <2>4, <1>0, StageFine
    <2>6. BitmapOwned'
      BY <2>2, <2>3, <1>0, <1>2, <1>3, BitmapKept DEF Allocating
    <2> QED
      BY <2>2, <2>5, <2>6, <1>0, MoveOfWorker
  <1>9. CASE next # C!EndMark
    <2>1. PICK l : l = [index |-> u.at.index + 1, cluster |-> next]
      OBVIOUS
    <2>2. /\ l \in Line /\ l.index = u.at.index + 1 /\ l.index > 0 /\ OnPath(n, c, f, l)
          /\ next \notin {0, C!EndMark}
      BY <2>1, <1>5, <1>7, <1>9, ClusterFacts DEF Line, OnPath
    <2>3. CASE l.index < u.index
      <3>1. PICK v : v = [u EXCEPT !.at = l]
        OBVIOUS
      <3>2. /\ w' = [w EXCEPT ![f] = v]
            /\ UNCHANGED <<fat, taken, last, bmp_lock, first, cache_line, lru_queue>>
        BY <1>2, <1>6, <2>1, <2>2, <2>3, <3>1 DEF C!Get
      <3>3. /\ v \in WorkerRec /\ v.pc = "get" /\ v.index = u.index /\ v.at = l /\ v.ans = 0
        BY <3>1, <2>2, <1>3, <1>4 DEF WorkerRec
      <3>4. WorkFine(n, c, f, v)
        BY <3>3, <2>2, <2>3, <1>4 DEF WorkFine, Growing
      <3>5. BitmapOwned'
        BY <3>2, <3>3, <1>0, <1>2, <1>3, BitmapKept DEF Allocating
      <3> QED
        BY <3>2, <3>4, <3>5, <1>0, MoveOfWorker
    <2>4. CASE ~ (l.index < u.index)
      <3>1. /\ C!Entered(f, l) /\ w' = C!Returned(f, u.index, C!InHeap(next))
            /\ UNCHANGED <<fat, taken, last, bmp_lock, first>>
        BY <1>2, <1>6, <2>1, <2>2, <2>4 DEF C!Get
      <3>2. l.index = u.index
        BY <2>2, <2>4, <1>4, <1>5
      <3>3. PICK s, q : /\ LinesFine(n, c, f, s, q) /\ Len(s) <= Lines
                        /\ cache_line' = [cache_line EXCEPT ![f] = s]
                        /\ lru_queue' = [lru_queue EXCEPT ![f] = q]
        BY <3>1, <3>2, <2>2, <1>1, <1>4, EnteredForm
      <3>a. C!InHeap(next) = next
        BY <1>7, <1>9, ClusterFacts DEF C!InHeap
      <3>6. next \in Nat /\ AnswerFine(n, c, f, u.index, next)
        BY <2>2, <3>2, <1>4, <1>7, <1>9, ClusterFacts DEF AnswerFine
      <3>4. PICK v : v = Rested(u.index, next)
        OBVIOUS
      <3>5. w' = [w EXCEPT ![f] = v]
        BY <3>1, <3>4, <3>a DEF C!Returned, Rested
      <3>7. WorkFine(n, c, f, v) /\ v.pc = "idle" /\ v.index = u.index /\ v.ans = next
            /\ v.sector = C!NoSector
        BY <3>4, <3>6, <1>0, <1>5, RestFine
      <3>8. WorkFine(n, c, f, v)'
        BY <3>7 DEF WorkFine, Growing
      <3>9. BitmapOwned'
        BY <3>1, <3>5, <3>7, <1>0, <1>2, <1>3, BitmapKept DEF Allocating
      <3> QED
        BY <3>1, <3>3, <3>5, <3>8, <3>9, <1>0, StepOfWorker
    <2> QED
      BY <2>3, <2>4
  <1> QED
    BY <1>8, <1>9

\* get found nothing: expand starts at the last cluster that is known.
LEMMA ExpandStep ==
  ASSUME NEW n, NEW c, ChainState(n, c), NEW f \in Files, C!Expand(f)
  PROVE  ChainInv'
  <1>0. n \in Lengths /\ c \in Trails /\ ChainTypes /\ BitmapOwned /\ Behind
        /\ ChainsFine(n, c)
    BY DEF ChainState
  <1>1. /\ WorkFine(n, c, f, w[f]) /\ w[f] \in WorkerRec /\ n[f] \in Nat
        /\ LinesFine(n, c, f, cache_line[f], lru_queue[f])
        /\ first[f] = IF n[f] = 0 THEN 0 ELSE c[f][0]
        /\ \A i \in Nat : c[f][i] \in Cluster
    BY WorkerNow
  <1>2. PICK u : u = w[f]
    OBVIOUS
  <1>3. u.pc = "missed" /\ u \in WorkerRec
        /\ UNCHANGED <<fat, taken, last, bmp_lock, first, cache_line, lru_queue>>
    BY <1>1, <1>2 DEF C!Expand
  <1>4. (u.index = 0 => n[f] = 0) /\ u.ans = 0 /\ u.index \in Nat
        /\ u.sector = C!NoSector
    BY <1>1, <1>2, <1>3, WorkerFields DEF WorkFine, Growing
  <1>a. w[f].pc \notin Allocating
    BY <1>2, <1>3 DEF Allocating
  <1>5. CASE ~u.expand \/ f \in Linear
    <2>1. w' = C!Failed(f)
      BY <1>2, <1>5 DEF C!Expand
    <2> QED
      BY <2>1, <1>a, <1>3, FailStep
  <1>6. CASE u.expand /\ f \notin Linear /\ u.index = 0
    <2>1. PICK a : a = [index |-> 0, cluster |-> first[f]]
      OBVIOUS
    <2>2. PICK v : v = [u EXCEPT !.pc = "lock", !.at = a]
      OBVIOUS
    <2>3. w' = [w EXCEPT ![f] = v]
      BY <1>2, <1>6, <2>1, <2>2 DEF C!Expand
    <2>4. n[f] = 0 /\ a \in Line /\ a.cluster = 0
      BY <1>1, <1>4, <1>6, <2>1 DEF Line
    <2>5. /\ v \in WorkerRec /\ v.pc = "lock" /\ v.index = u.index /\ v.at = a /\ v.ans = 0
          /\ v.sector = C!NoSector
      <3>1. "lock" \in Stages
        BY DEF Stages
      <3> QED
        BY <2>2, <2>4, <3>1, <1>3, <1>4 DEF WorkerRec
    <2>6. AtTail(n, c, f, a) /\ v.index >= n[f]
      BY <2>4, <2>5, <1>6 DEF AtTail
    <2>7. WorkFine(n, c, f, v)
      BY <2>5, <2>6, <1>4, <1>6 DEF WorkFine, Growing
    <2>8. BitmapOwned'
      BY <2>3, <2>5, <1>0, <1>2, <1>3, BitmapKept DEF Allocating
    <2> QED
      BY <2>3, <2>7, <2>8, <1>0, <1>3, MoveOfWorker
  <1>7. CASE u.expand /\ f \notin Linear /\ u.index # 0
    <2>1. PICK a : a = IF cache_line[f] = <<>> THEN [index |-> 0, cluster |-> first[f]]
                       ELSE cache_line[f][1]
      OBVIOUS
    <2>a. w' = IF a.index >= u.index THEN C!Expanded(f)
               ELSE [w EXCEPT ![f].pc = "follow", ![f].at = a]
      BY <1>2, <1>7, <2>1 DEF C!Expand
    <2>b. CASE a.index >= u.index
      BY <2>a, <2>b, <1>a, <1>3, ExpandedStep
    <2>c. CASE ~ (a.index >= u.index)
      <3>2. PICK v : v = [u EXCEPT !.pc = "follow", !.at = a]
        OBVIOUS
      <3>3. w' = [w EXCEPT ![f] = v]
        BY <1>2, <2>a, <2>c, <3>2
      <3>4. a \in Line /\ (OnPath(n, c, f, a) \/ (n[f] = 0 /\ a.cluster = 0))
        <4>1. CASE cache_line[f] = <<>>
          <5>1. a = [index |-> 0, cluster |-> first[f]]
            BY <2>1, <4>1
          <5> QED
            BY <5>1, <1>1 DEF Line, OnPath
        <4>2. CASE cache_line[f] # <<>>
          <5>1. PICK s : s = cache_line[f]
            OBVIOUS
          <5>2. s \in Seq(Line) /\ s # <<>> /\ \A k \in 1..Len(s) : OnPath(n, c, f, s[k])
            BY <5>1, <1>1, <4>2 DEF LinesFine
          <5>3. 1 \in 1..Len(s) /\ s[1] \in Line
            BY <5>2
          <5> QED
            BY <2>1, <4>2, <5>1, <5>2, <5>3
        <4> QED
          BY <4>1, <4>2
      <3>5. /\ v \in WorkerRec /\ v.pc = "follow" /\ v.index = u.index /\ v.at = a /\ v.ans = 0
            /\ v.sector = C!NoSector
        <4>1. "follow" \in Stages
          BY DEF Stages
        <4> QED
          BY <3>2, <3>4, <4>1, <1>3, <1>4 DEF WorkerRec
      <3>d. a.index < u.index
        BY <2>c, <3>4, <1>4 DEF Line
      <3>6. WorkFine(n, c, f, v)
        BY <3>4, <3>5, <3>d, <1>4, <1>7 DEF WorkFine, Growing
      <3>7. BitmapOwned'
        BY <3>3, <3>5, <1>0, <1>2, <1>3, BitmapKept DEF Allocating
      <3> QED
        BY <3>3, <3>6, <3>7, <1>0, <1>3, MoveOfWorker
    <2> QED
      BY <2>b, <2>c
  <1> QED
    BY <1>5, <1>6, <1>7

\* The search for the tail.
LEMMA FollowStep ==
  ASSUME NEW n, NEW c, ChainState(n, c), NEW f \in Files, C!Follow(f)
  PROVE  ChainInv'
  <1>0. n \in Lengths /\ c \in Trails /\ ChainTypes /\ BitmapOwned /\ Behind
        /\ ChainsFine(n, c)
    BY DEF ChainState
  <1>1. WorkFine(n, c, f, w[f]) /\ w[f] \in WorkerRec
    BY WorkerNow
  <1>2. PICK u : u = w[f]
    OBVIOUS
  <1>3. /\ u.pc = "follow" /\ u \in WorkerRec /\ u.sector = u.at.cluster \div PerSector
        /\ UNCHANGED <<fat, taken, last, bmp_lock, first, cache_line, lru_queue>>
    BY <1>1, <1>2 DEF C!Follow, C!Loaded, C!Wanted, C!Sector
  <1>4. /\ u.index \in Nat /\ u.at \in Line /\ u.at.index \in Nat
        /\ u.at.cluster \in Cluster \cup {0}
    BY <1>3, WorkerFields
  <1>5. f \notin Linear /\ OnPath(n, c, f, u.at) /\ u.ans = 0 /\ u.at.index < u.index
    <2>1. \A y \in Nat : y \div PerSector # -1
      BY ClusterFacts
    <2>2. u.sector # C!NoSector
      BY <2>1, <1>3, <1>4, ClusterFacts
    <2> QED
      BY <2>2, <1>1, <1>2, <1>3 DEF WorkFine, Growing
  <1>6. PICK next : next = fat[u.at.cluster]
    OBVIOUS
  <1>7. /\ n[f] \in Nat
        /\ \/ u.at.index + 1 = n[f] /\ next = C!EndMark
           \/ u.at.index + 1 < n[f] /\ next = c[f][u.at.index + 1] /\ next \in Cluster
    BY <1>4, <1>5, <1>6, NextOnPath
  <1>8. CASE next = C!EndMark
    <2>1. PICK v : v = [u EXCEPT !.pc = "lock"]
      OBVIOUS
    <2>2. w' = [w EXCEPT ![f] = v]
      BY <1>2, <1>6, <1>8, <2>1, ClusterFacts DEF C!Follow
    <2>3. v \in WorkerRec /\ v.pc = "lock" /\ v.index = u.index /\ v.at = u.at /\ v.ans = 0
      <3>1. "lock" \in Stages
        BY DEF Stages
      <3> QED
        BY <2>1, <3>1, <1>3, <1>5 DEF WorkerRec
    <2>4. AtTail(n, c, f, u.at) /\ u.index >= n[f]
      BY <1>4, <1>5, <1>7, <1>8, ClusterFacts DEF AtTail
    <2>5. WorkFine(n, c, f, v)
      BY <2>3, <2>4, <1>5 DEF WorkFine, Growing
    <2>6. BitmapOwned'
      BY <2>2, <2>3, <1>0, <1>2, <1>3, BitmapKept DEF Allocating
    <2> QED
      BY <2>2, <2>5, <2>6, <1>0, <1>3, MoveOfWorker
  <1>9. CASE next # C!EndMark
    <2>1. PICK l : l = [index |-> u.at.index + 1, cluster |-> next]
      OBVIOUS
    <2>2. l \in Line /\ OnPath(n, c, f, l) /\ next # 0
      BY <2>1, <1>4, <1>7, <1>9, ClusterFacts DEF Line, OnPath
    <2>3. w' = IF u.at.index + 1 >= u.index THEN C!Expanded(f) ELSE [w EXCEPT ![f].at = l]
      BY <1>2, <1>6, <1>9, <2>1, <2>2 DEF C!Follow
    <2>4. CASE u.at.index + 1 >= u.index
      <3>1. w[f].pc \notin Allocating
        BY <1>2, <1>3 DEF Allocating
      <3> QED
        BY <2>3, <2>4, <3>1, <1>3, ExpandedStep
    <2>5. CASE ~ (u.at.index + 1 >= u.index)
      <3>1. PICK v : v = [u EXCEPT !.at = l]
        OBVIOUS
      <3>2. w' = [w EXCEPT ![f] = v]
        BY <1>2, <2>3, <2>5, <3>1
      <3>3. v \in WorkerRec /\ v.pc = "follow" /\ v.index = u.index /\ v.at = l /\ v.ans = 0
        BY <2>2, <3>1, <1>3, <1>5 DEF WorkerRec
      <3>4. l.index < u.index
        BY <2>1, <2>5, <1>4
      <3>5. WorkFine(n, c, f, v)
        BY <2>2, <3>3, <3>4, <1>5 DEF WorkFine, Growing
      <3>6. BitmapOwned'
        BY <3>2, <3>3, <1>0, <1>2, <1>3, BitmapKept DEF Allocating
      <3> QED
        BY <3>2, <3>5, <3>6, <1>0, <1>3, MoveOfWorker
    <2> QED
      BY <2>4, <2>5
  <1> QED
    BY <1>8, <1>9

\* The allocator is entered.
LEMMA LockBitmapStep ==
  ASSUME NEW n, NEW c, ChainState(n, c), NEW f \in Files, C!LockBitmap(f)
  PROVE  ChainInv'
  <1>0. n \in Lengths /\ c \in Trails /\ ChainTypes /\ BitmapOwned /\ Behind
        /\ ChainsFine(n, c)
    BY DEF ChainState
  <1>1. WorkFine(n, c, f, w[f]) /\ w[f] \in WorkerRec /\ w \in [Files -> WorkerRec]
    BY WorkerNow
  <1>2. PICK u : u = w[f]
    OBVIOUS
  <1>3. /\ u.pc = "lock" /\ u \in WorkerRec /\ bmp_lock = 0 /\ bmp_lock' = f
        /\ UNCHANGED <<fat, taken, last, first, cache_line, lru_queue>>
    BY <1>1, <1>2, ClusterFacts DEF C!LockBitmap
  <1>4. PICK v : v = [u EXCEPT !.pc = "alloc"]
    OBVIOUS
  <1>5. w' = [w EXCEPT ![f] = v]
    BY <1>2, <1>4 DEF C!LockBitmap
  <1>6. v \in WorkerRec /\ v.pc = "alloc" /\ v.index = u.index /\ v.at = u.at
        /\ v.ans = u.ans
    <2>1. "alloc" \in Stages
      BY DEF Stages
    <2> QED
      BY <1>3, <1>4, <2>1 DEF WorkerRec
  <1>7. WorkFine(n, c, f, v)
    BY <1>1, <1>2, <1>3, <1>6 DEF WorkFine, Growing
  <1>8. BitmapOwned'
    <2>1. \A g \in Files : w'[g] = IF g = f THEN v ELSE w[g]
      BY <1>1, <1>5
    <2>2. \A g \in Files : w[g].pc \notin {"alloc", "put", "link"}
      BY <1>0, <1>3, ClusterFacts DEF BitmapOwned
    <2> QED
      BY <2>1, <2>2, <1>3, <1>6 DEF BitmapOwned
  <1> QED
    BY <1>0, <1>3, <1>5, <1>7, <1>8, MoveOfWorker

\* The directory record of the first cluster.
LEMMA RecordStep ==
  ASSUME NEW n, NEW c, ChainState(n, c), NEW f \in Files, C!Record(f)
  PROVE  ChainInv'
  <1>0. n \in Lengths /\ c \in Trails /\ ChainTypes /\ BitmapOwned /\ Behind
        /\ ChainsFine(n, c)
    BY DEF ChainState
  <1>1. WorkFine(n, c, f, w[f]) /\ w[f] \in WorkerRec
    BY WorkerNow
  <1>2. PICK u : u = w[f]
    OBVIOUS
  <1>3. /\ u.pc = "record" /\ u \in WorkerRec
        /\ UNCHANGED <<fat, taken, last, bmp_lock, first, cache_line, lru_queue>>
    BY <1>1, <1>2 DEF C!Record
  <1>4. CASE w' = C!Failed(f)
    <2>1. w[f].pc \notin Allocating
      BY <1>2, <1>3 DEF Allocating
    <2> QED
      BY <1>3, <1>4, <2>1, FailStep
  <1>5. CASE w' = [w EXCEPT ![f].pc = "again"]
    <2>1. PICK v : v = [u EXCEPT !.pc = "again"]
      OBVIOUS
    <2>2. w' = [w EXCEPT ![f] = v]
      BY <1>2, <1>5, <2>1
    <2>3. v \in WorkerRec /\ v.pc = "again" /\ v.ans = 0 /\ v.sector = C!NoSector
      <3>1. "again" \in Stages
        BY DEF Stages
      <3>2. u.ans = 0 /\ u.sector = C!NoSector
        BY <1>1, <1>2, <1>3 DEF WorkFine, Growing
      <3> QED
        BY <2>1, <3>1, <3>2, <1>3 DEF WorkerRec
    <2>4. WorkFine(n, c, f, v)
      BY <2>3, <1>0, StageFine
    <2>5. BitmapOwned'
      BY <2>2, <2>3, <1>0, <1>2, <1>3, BitmapKept DEF Allocating
    <2> QED
      BY <2>2, <2>4, <2>5, <1>0, <1>3, MoveOfWorker
  <1> QED
    BY <1>4, <1>5 DEF C!Record

(***************************************************************************)
(* The allocator                                                           *)
(***************************************************************************)
\* Sectors of the bitmap: the first bit of a sector, and of a later one.
LEMMA SectorStart ==
  ASSUME NEW a \in Nat, NEW b \in Nat, a <= b
  PROVE  /\ (a \div PerSector) * PerSector \in Nat
         /\ (a \div PerSector) * PerSector <= a
         /\ (a \div PerSector) * PerSector <= (b \div PerSector) * PerSector
  <1>0. PerSector \in Nat /\ PerSector >= 1
    BY ClusterFacts
  <1>1. PICK y \in Nat : y = a \div PerSector
    BY <1>0
  <1>2. PICK y2 \in Nat : y2 = b \div PerSector
    BY <1>0
  <1>3. PICK m \in Nat : m = PerSector
    BY <1>0
  <1>4. /\ y * m <= a /\ a < (y + 1) * m
        /\ y2 * m <= b /\ b < (y2 + 1) * m
    <2>1. a = m * (a \div m) + (a % m) /\ 0 <= a % m /\ a % m < m
      BY <1>0, <1>3
    <2>2. b = m * (b \div m) + (b % m) /\ 0 <= b % m /\ b % m < m
      BY <1>0, <1>3
    <2>3. /\ a = m * y + (a % m) /\ b = m * y2 + (b % m) /\ a % m \in Nat /\ b % m \in Nat
      BY <2>1, <2>2, <1>0, <1>1, <1>2, <1>3
    <2>4. m * y = y * m /\ m * y2 = y2 * m /\ (y + 1) * m = y * m + m
          /\ (y2 + 1) * m = y2 * m + m /\ y * m \in Nat /\ y2 * m \in Nat
      OBVIOUS
    <2> QED
      BY <2>1, <2>2, <2>3, <2>4
  <1>5. y <= y2
    <2> SUFFICES ASSUME y2 + 1 <= y PROVE FALSE
      BY y \in Nat, y2 \in Nat
    <2>1. PICK k \in Nat : y = y2 + 1 + k
      <3>1. y - (y2 + 1) \in Nat /\ y = y2 + 1 + (y - (y2 + 1))
        OBVIOUS
      <3> QED
        BY <3>1
    <2>2. y * m = (y2 + 1) * m + k * m /\ k * m \in Nat /\ (y2 + 1) * m \in Nat
      BY <2>1
    <2> QED
      BY <2>2, <1>4
  <1>6. y * m <= y2 * m
    <2>1. PICK k \in Nat : y2 = y + k
      <3>1. y2 - y \in Nat /\ y2 = y + (y2 - y)
        BY <1>5
      <3> QED
        BY <3>1
    <2>2. y2 * m = y * m + k * m /\ k * m \in Nat /\ y * m \in Nat
      BY <2>1
    <2> QED
      BY <2>2
  <1>7. y * m \in Nat
    OBVIOUS
  <1> QED
    BY <1>1, <1>2, <1>3, <1>4, <1>6, <1>7

\* The bits in the order in which they are looked at.
LEMMA ScannedForm ==
  ASSUME Behind
  PROVE  \E z \in 0..last :
           /\ z = (last \div PerSector) * PerSector
           /\ DOMAIN C!Scanned = 1..Clusters - (last - z)
           /\ \A k \in 1..Clusters - (last - z) :
                C!Scanned[k] = IF last + k - 1 < Clusters THEN last + k - 1
                               ELSE last + k - 1 - Clusters
  <1>0. Clusters \in Nat /\ Clusters >= 1 /\ last \in Nat /\ last < Clusters
    BY ClusterFacts DEF Behind
  <1>1. PICK z : z = (last \div PerSector) * PerSector
    OBVIOUS
  <1>2. z \in 0..last
    BY <1>0, <1>1, SectorStart
  <1>3. C!Scanned = [k \in 1..Clusters - (last - z) |-> (last + k - 1) % Clusters]
    BY <1>1 DEF C!Scanned
  <1>4. ASSUME NEW k \in 1..Clusters - (last - z)
        PROVE  (last + k - 1) % Clusters = IF last + k - 1 < Clusters THEN last + k - 1
                                           ELSE last + k - 1 - Clusters
    <2>1. PICK y \in Nat : y = last + k - 1 /\ y < 2 * Clusters
      BY <1>0, <1>2
    <2>2. CASE y < Clusters
      <3>1. y % Clusters = y
        BY <1>0, <2>2
      <3> QED
        BY <2>1, <2>2, <3>1
    <2>3. CASE ~ (y < Clusters)
      <3>1. y % Clusters = y - Clusters
        <4>1. PICK m \in Nat : m = Clusters /\ m >= 1
          BY <1>0
        <4>2. PICK y2 \in Int : y2 = y \div m
          BY <4>1
        <4>3. y = m * y2 + (y % m) /\ 0 <= y % m /\ y % m < m /\ y % m \in Int
          BY <4>1, <4>2
        <4>4. y2 = 1
          <5>1. y >= m /\ y < m + m
            BY <2>1, <2>3, <4>1
          <5>2. CASE y2 <= 0
            <6>1. m * y2 <= 0
              BY <5>2, <4>1
            <6> QED
              BY <6>1, <5>1, <4>3, <4>1
          <5>3. CASE y2 >= 2
            <6>1. m * y2 >= m * 2
              BY <5>3, <4>1
            <6> QED
              BY <6>1, <5>1, <4>3, <4>1
          <5> QED
            BY <5>2, <5>3
        <4> QED
          BY <4>1, <4>3, <4>4
      <3>2. PICK y3 : y3 = y % Clusters
        OBVIOUS
      <3>3. y3 = (last + k - 1) % Clusters
        BY <2>1, <3>2
      <3>4. y3 = last + k - 1 - Clusters /\ ~ (last + k - 1 < Clusters)
        BY <2>1, <2>3, <3>1, <3>2, <1>0
      <3> QED
        BY <3>3, <3>4
    <2> QED
      BY <2>2, <2>3
  <1>5. DOMAIN C!Scanned = 1..Clusters - (last - z)
    BY <1>3
  <1>6. \A k \in 1..Clusters - (last - z) :
          C!Scanned[k] = IF last + k - 1 < Clusters THEN last + k - 1
                         ELSE last + k - 1 - Clusters
    BY <1>3, <1>4
  <1> QED
    BY <1>1, <1>2, <1>5, <1>6

\* What the search finds: the first free bit, with none before it in its sector.
LEMMA FoundForm ==
  ASSUME Behind, NEW ks, ks = {k \in DOMAIN C!Scanned : C!Free(C!Scanned[k])}, ks # {},
         NEW pos, pos = C!Scanned[CHOOSE k \in ks : \A j \in ks : k <= j]
  PROVE  /\ pos \in 0..Clusters - 1 /\ pos + 2 \in Cluster /\ pos + 2 \notin taken
         /\ \A p \in 0..pos - 1 : p >= (pos \div PerSector) * PerSector => p + 2 \in taken
  <1>0. Clusters \in Nat /\ Clusters >= 1 /\ last \in Nat /\ last < Clusters
    BY ClusterFacts DEF Behind
  <1>1. PICK z \in 0..last :
           /\ z = (last \div PerSector) * PerSector
           /\ DOMAIN C!Scanned = 1..Clusters - (last - z)
           /\ \A k \in 1..Clusters - (last - z) :
                C!Scanned[k] = IF last + k - 1 < Clusters THEN last + k - 1
                               ELSE last + k - 1 - Clusters
    BY ScannedForm
  <1>2. \E k \in ks : \A j \in ks : k <= j
    <2>1. ks \subseteq Nat
      BY <1>0, <1>1
    <2> QED
      BY <2>1, LeastOfSet
  <1>3. PICK k : k = CHOOSE h \in ks : \A j \in ks : h <= j
    OBVIOUS
  <1>4. k \in ks /\ \A j \in ks : k <= j
    BY <1>2, <1>3
  <1>5. /\ k \in 1..Clusters - (last - z) /\ pos = C!Scanned[k] /\ pos + 2 \notin taken
    BY <1>1, <1>3, <1>4 DEF C!Free
  <1>6. pos = IF last + k - 1 < Clusters THEN last + k - 1 ELSE last + k - 1 - Clusters
    BY <1>1, <1>5
  <1>7. pos \in 0..Clusters - 1 /\ pos + 2 \in Cluster
    BY <1>0, <1>5, <1>6 DEF Cluster
  <1>8. ASSUME NEW j \in 1..k - 1
        PROVE  C!Scanned[j] + 2 \in taken
    <2>2. j \in 1..Clusters - (last - z) /\ ~ (k <= j)
      BY <1>0, <1>5
    <2>1. j \in DOMAIN C!Scanned /\ j \notin ks
      BY <2>2, <1>1, <1>4
    <2> QED
      BY <2>1 DEF C!Free
  <1>9. ASSUME NEW p \in 0..pos - 1, p >= (pos \div PerSector) * PerSector
        PROVE  p + 2 \in taken
    <2>1. CASE last + k - 1 < Clusters
      <3>1. pos = last + k - 1 /\ pos \in Nat /\ last <= pos
        BY <2>1, <1>0, <1>5, <1>6
      <3>2. CASE p >= last
        <4>1. PICK j : j = p - last + 1
          OBVIOUS
        <4>2. j \in 1..k - 1 /\ last + j - 1 = p /\ p < Clusters /\ j \in 1..Clusters - (last - z)
          BY <3>1, <3>2, <4>1, <2>1, <1>0, <1>5
        <4>3. C!Scanned[j] = p
          BY <4>2, <1>1
        <4> QED
          BY <4>2, <4>3, <1>8
      <3>3. CASE p < last
        <4>1. (last \div PerSector) * PerSector <= (pos \div PerSector) * PerSector
              /\ (last \div PerSector) * PerSector \in Nat /\ (pos \div PerSector) * PerSector \in Nat
          BY <3>1, <1>0, SectorStart
        <4>2. p \in 0..last - 1 /\ p >= (last \div PerSector) * PerSector
          BY <4>1, <3>3, <1>9, <1>0
        <4> QED
          BY <4>2 DEF Behind
      <3> QED
        BY <3>2, <3>3, <1>0
    <2>2. CASE ~ (last + k - 1 < Clusters)
      <3>1. pos = last + k - 1 - Clusters
        BY <2>2, <1>6
      <3>2. PICK j : j = p + Clusters - last + 1
        OBVIOUS
      <3>3. /\ j \in 1..k - 1 /\ ~ (last + j - 1 < Clusters) /\ last + j - 1 - Clusters = p
            /\ j \in 1..Clusters - (last - z)
        BY <3>1, <3>2, <1>0, <1>5
      <3>4. C!Scanned[j] = p
        BY <3>3, <1>1
      <3> QED
        BY <3>3, <3>4, <1>8
    <2> QED
      BY <2>1, <2>2
  <1> QED
    BY <1>5, <1>7, <1>9

\* The others do not hold the lock that f has.
LEMMA OthersWait ==
  ASSUME BitmapOwned, NEW f \in Files, w[f].pc \in Allocating, NEW g \in Files, g # f
  PROVE  w[g].pc \notin Allocating
  BY DEF BitmapOwned, Allocating

\* A cluster is taken from the bitmap.
LEMMA AllocStep ==
  ASSUME NEW n, NEW c, ChainState(n, c), NEW f \in Files, C!Alloc(f)
  PROVE  ChainInv'
  <1>0. n \in Lengths /\ c \in Trails /\ ChainTypes /\ BitmapOwned /\ Behind
        /\ ChainsFine(n, c)
    BY DEF ChainState
  <1>1. WorkFine(n, c, f, w[f]) /\ w[f] \in WorkerRec /\ w \in [Files -> WorkerRec]
    BY WorkerNow
  <1>2. PICK u : u = w[f]
    OBVIOUS
  <1>3. u.pc = "alloc" /\ u \in WorkerRec
        /\ UNCHANGED <<fat, first, cache_line, lru_queue>>
    BY <1>1, <1>2 DEF C!Alloc
  <1>4. PICK ks : ks = {k \in DOMAIN C!Scanned : C!Free(C!Scanned[k])}
    OBVIOUS
  <1>5. CASE ks = {}
    <2>1. w' = C!Failed(f) /\ bmp_lock' = C!Unlocked(f) /\ UNCHANGED <<taken, last>>
      BY <1>4, <1>5 DEF C!Alloc
    <2> QED
      BY <2>1, <1>3, FailStep
  <1>6. CASE ks # {}
    <2>1. PICK pos : pos = C!Scanned[CHOOSE k \in ks : \A j \in ks : k <= j]
      OBVIOUS
    <2>2. /\ taken' = taken \cup {pos + 2} /\ last' = pos /\ bmp_lock' = bmp_lock
          /\ w' = [w EXCEPT ![f].pc = "put", ![f].new = pos + 2]
      BY <1>4, <1>6, <2>1 DEF C!Alloc
    <2>3. /\ pos \in 0..Clusters - 1 /\ pos + 2 \in Cluster /\ pos + 2 \notin taken
          /\ \A p \in 0..pos - 1 : p >= (pos \div PerSector) * PerSector => p + 2 \in taken
      BY <1>0, <1>4, <1>6, <2>1, FoundForm
    <2>4. Behind'
      <3>1. taken' \subseteq Cluster
        BY <2>2, <2>3, <1>0 DEF Behind
      <3>2. \A p \in 0..last' - 1 : p >= (last' \div PerSector) * PerSector => p + 2 \in taken'
        BY <2>2, <2>3
      <3> QED
        BY <3>1, <3>2, <2>2, <2>3 DEF Behind
    <2>5. PICK v : v = [u EXCEPT !.pc = "put", !.new = pos + 2]
      OBVIOUS
    <2>6. w' = [w EXCEPT ![f] = v]
      BY <1>2, <2>2, <2>5
    <2>7. /\ v \in WorkerRec /\ v.pc = "put" /\ v.index = u.index /\ v.at = u.at
          /\ v.new = pos + 2 /\ v.ans = u.ans
      <3>1. "put" \in Stages
        BY DEF Stages
      <3> QED
        BY <2>3, <2>5, <3>1, <1>3 DEF WorkerRec
    <2>8. Fresh(n, c, pos + 2)'
      <3>1. \A g \in Files : \A i \in Nat : i < n[g] => c[g][i] \in taken
        BY <1>0 DEF ChainsFine, Placed
      <3> QED
        BY <3>1, <2>2, <2>3 DEF Fresh
    <2>9. WorkFine(n, c, f, v)'
      BY <1>1, <1>2, <1>3, <2>7, <2>8 DEF WorkFine, Growing
    <2>10. \A g \in Files : w'[g] = IF g = f THEN v ELSE w[g]
      BY <1>1, <2>6
    <2>11. BitmapOwned'
      BY <1>0, <1>2, <1>3, <2>2, <2>6, <2>7, BitmapKept DEF Allocating
    <2>12. ASSUME NEW g \in Files
           PROVE  WorkFine(n, c, g, w[g])'
      <3>1. CASE g = f
        BY <3>1, <2>9, <2>10
      <3>2. CASE g # f
        <4>1. w[g].pc \notin Allocating
          BY <3>2, <1>0, <1>2, <1>3, OthersWait DEF Allocating
        <4>2. WorkFine(n, c, g, w[g])
          BY <1>0 DEF ChainsFine
        <4>3. PICK y : y = w[g]
          OBVIOUS
        <4>4. WorkFine(n, c, g, y)'
          BY <4>1, <4>2, <4>3, <1>3 DEF WorkFine, Allocating
        <4>5. w'[g] = y
          BY <3>2, <4>3, <2>10
        <4> QED
          BY <4>4, <4>5
      <3> QED
        BY <3>1, <3>2
    <2>13. Placed(n, c)' /\ Connected(n, c)' /\ AsLaid(n, c)'
      <3>1. Placed(n, c)'
        BY <1>0, <2>2 DEF ChainsFine, Placed
      <3>2. Connected(n, c)'
        BY <1>0, <1>3 DEF ChainsFine, Connected
      <3>3. AsLaid(n, c)'
        BY <1>0 DEF ChainsFine, AsLaid
      <3> QED
        BY <3>1, <3>2, <3>3
    <2>14. \A g \in Files : /\ LinesFine(n, c, g, cache_line[g], lru_queue[g])'
                            /\ (Len(cache_line[g]) <= Lines)'
      <3>1. ASSUME NEW g \in Files
            PROVE  /\ LinesFine(n, c, g, cache_line'[g], lru_queue'[g])
                   /\ Len(cache_line'[g]) <= Lines
        BY <1>0, <1>3 DEF ChainsFine
      <3> QED
        BY <3>1 DEF LinesFine, OnPath
    <2>15. ChainTypes'
      BY <1>0, <1>1, <1>3, <2>6, <2>7 DEF ChainTypes
    <2> QED
      BY <1>0, <2>4, <2>11, <2>12, <2>13, <2>14, <2>15 DEF ChainInv, ChainsFine, Lengths, Trails
  <1> QED
    BY <1>5, <1>6

(***************************************************************************)
(* A chain grows                                                           *)
(***************************************************************************)
\* The chains when f has got the cluster y.
LongerBy(n, f) == [n EXCEPT ![f] = n[f] + 1]
PathTo(n, c, f, y) == [c EXCEPT ![f] = [c[f] EXCEPT ![n[f]] = y]]

\* What was a cluster of a chain still is one.
LEMMA PathGrows ==
  ASSUME NEW n \in Lengths, NEW c \in Trails, NEW f \in Files, NEW y \in Cluster,
         NEW n2, n2 = LongerBy(n, f), NEW c2, c2 = PathTo(n, c, f, y)
  PROVE  /\ n2 \in Lengths /\ c2 \in Trails
         /\ \A g \in Files : n2[g] = IF g = f THEN n[f] + 1 ELSE n[g]
         /\ \A g \in Files : \A i \in Nat :
              c2[g][i] = IF g = f /\ i = n[f] THEN y ELSE c[g][i]
         /\ \A g \in Files : \A l \in Line : OnPath(n, c, g, l) => OnPath(n2, c2, g, l)
         /\ \A g \in Files : g # f => n2[g] = n[g] /\ c2[g] = c[g]
  <1>1. n \in [Files -> Nat] /\ c \in [Files -> [Nat -> Cluster]] /\ n[f] \in Nat
    BY DEF Lengths, Trails
  <1>2. n2 \in [Files -> Nat] /\ \A g \in Files : n2[g] = IF g = f THEN n[f] + 1 ELSE n[g]
    BY <1>1 DEF LongerBy
  <1>3. PICK e : e = [c[f] EXCEPT ![n[f]] = y]
    OBVIOUS
  <1>4. e \in [Nat -> Cluster] /\ \A i \in Nat : e[i] = IF i = n[f] THEN y ELSE c[f][i]
    BY <1>1, <1>3
  <1>5. c2 = [c EXCEPT ![f] = e]
    BY <1>3 DEF PathTo
  <1>6. c2 \in [Files -> [Nat -> Cluster]] /\ \A g \in Files : c2[g] = IF g = f THEN e ELSE c[g]
    BY <1>1, <1>4, <1>5
  <1>7. \A g \in Files : \A i \in Nat :
          c2[g][i] = IF g = f /\ i = n[f] THEN y ELSE c[g][i]
    BY <1>4, <1>6
  <1>8. ASSUME NEW g \in Files, NEW l \in Line, OnPath(n, c, g, l)
        PROVE  OnPath(n2, c2, g, l)
    <2>1. l.index \in Nat /\ l.index < n[g] /\ l.cluster = c[g][l.index]
      BY <1>8 DEF Line, OnPath
    <2>2. l.index < n2[g]
      BY <2>1, <1>1, <1>2
    <2>3. c2[g][l.index] = c[g][l.index]
      BY <2>1, <1>1, <1>7
    <2> QED
      BY <2>1, <2>2, <2>3 DEF OnPath
  <1> QED
    BY <1>2, <1>6, <1>7, <1>8 DEF Lengths, Trails

\* Nor does the cache of a chain lose its truth.
LEMMA LinesGrow ==
  ASSUME NEW n, NEW c, NEW n2, NEW c2, NEW g, NEW s, NEW q, LinesFine(n, c, g, s, q),
         \A l \in Line : OnPath(n, c, g, l) => OnPath(n2, c2, g, l)
  PROVE  LinesFine(n2, c2, g, s, q)
  <1>1. s \in Seq(Line)
    BY DEF LinesFine
  <1>2. \A k \in 1..Len(s) : s[k] \in Line
    BY <1>1
  <1>3. \A k \in 1..Len(s) : s[k].index > 0 /\ OnPath(n2, c2, g, s[k])
    BY <1>2 DEF LinesFine
  <1> QED
    BY <1>3 DEF LinesFine

\* The new cluster is in one place.
LEMMA PlacedGrows ==
  ASSUME NEW n \in Lengths, NEW c \in Trails, NEW f \in Files, NEW y \in Cluster,
         NEW n2, n2 = LongerBy(n, f), NEW c2, c2 = PathTo(n, c, f, y),
         Placed(n, c), Fresh(n, c, y), taken' = taken
  PROVE  Placed(n2, c2)'
  <1>1. /\ \A g \in Files : n2[g] = IF g = f THEN n[f] + 1 ELSE n[g]
        /\ \A g \in Files : \A i \in Nat :
             c2[g][i] = IF g = f /\ i = n[f] THEN y ELSE c[g][i]
    BY PathGrows
  <1>2. \A g \in Files : n[g] \in Nat
    BY DEF Lengths
  <1>3. ASSUME NEW g \in Files, NEW i \in Nat, i < n2[g]
        PROVE  (g = f /\ i = n[f] /\ c2[g][i] = y) \/ (i < n[g] /\ c2[g][i] = c[g][i])
    BY <1>1, <1>2, <1>3
  <1>4. \A g \in Files : \A i \in Nat : i < n2[g] => c2[g][i] \in taken
    BY <1>3 DEF Placed, Fresh
  <1>5. ASSUME NEW g \in Files, NEW h \in Files, NEW i \in Nat, NEW j \in Nat,
               i < n2[g], j < n2[h], c2[g][i] = c2[h][j]
        PROVE  g = h /\ i = j
    <2>1. /\ (g = f /\ i = n[f] /\ c2[g][i] = y) \/ (i < n[g] /\ c2[g][i] = c[g][i])
          /\ (h = f /\ j = n[f] /\ c2[h][j] = y) \/ (j < n[h] /\ c2[h][j] = c[h][j])
      BY <1>3, <1>5
    <2>2. i < n[g] => c[g][i] # y
      BY DEF Fresh
    <2>3. j < n[h] => c[h][j] # y
      BY DEF Fresh
    <2>4. i < n[g] /\ j < n[h] /\ c[g][i] = c[h][j] => g = h /\ i = j
      BY DEF Placed
    <2> QED
      BY <2>1, <2>2, <2>3, <2>4, <1>5
  <1> QED
    BY <1>4, <1>5 DEF Placed

\* The FAT leads to the new cluster and ends there.
LEMMA LinkedGrows ==
  ASSUME NEW n \in Lengths, NEW c \in Trails, NEW f \in Files, f \notin Linear,
         NEW y \in Cluster,
         NEW n2, n2 = LongerBy(n, f), NEW c2, c2 = PathTo(n, c, f, y),
         ChainTypes, Placed(n, c), Connected(n, c), Fresh(n, c, y),
         fat'[y] = C!EndMark,
         n[f] > 0 => fat'[c[f][n[f] - 1]] = y,
         \A m \in Cluster : m # y /\ (n[f] > 0 => m # c[f][n[f] - 1]) => fat'[m] = fat[m],
         first' = IF n[f] = 0 THEN [first EXCEPT ![f] = y] ELSE first
  PROVE  Connected(n2, c2)'
  <1>1. /\ \A g \in Files : n2[g] = IF g = f THEN n[f] + 1 ELSE n[g]
        /\ \A g \in Files : \A i \in Nat :
             c2[g][i] = IF g = f /\ i = n[f] THEN y ELSE c[g][i]
    BY PathGrows
  <1>2. \A g \in Files : n[g] \in Nat /\ \A i \in Nat : c[g][i] \in Cluster
    BY DEF Lengths, Trails
  <1>3. ASSUME NEW g \in Files
        PROVE  first'[g] = IF n2[g] = 0 THEN 0 ELSE c2[g][0]
    <2>1. first[g] = IF n[g] = 0 THEN 0 ELSE c[g][0]
      BY DEF Connected
    <2>2. first \in [Files -> Cluster \cup {0}]
      BY DEF ChainTypes
    <2>3. CASE g = f /\ n[f] = 0
      <3>1. first'[g] = y
        BY <2>2, <2>3
      <3>2. n2[g] # 0 /\ c2[g][0] = y
        BY <2>3, <1>1
      <3> QED
        BY <3>1, <3>2
    <2>4. CASE ~ (g = f /\ n[f] = 0)
      <3>1. first'[g] = first[g]
        BY <2>2, <2>4
      <3>2. (n2[g] = 0 <=> n[g] = 0) /\ c2[g][0] = c[g][0]
        BY <2>4, <1>1, <1>2
      <3> QED
        BY <2>1, <3>1, <3>2
    <2> QED
      BY <2>3, <2>4
  <1>4. ASSUME NEW g \in Files, NEW i \in Nat, i < n2[g]
        PROVE  fat'[c2[g][i]] = IF g \in Linear THEN 0
                                ELSE IF i + 1 = n2[g] THEN C!EndMark ELSE c2[g][i + 1]
    <2>1. CASE g = f /\ i = n[f]
      <3>1. c2[g][i] = y /\ i + 1 = n2[g]
        BY <2>1, <1>1
      <3> QED
        BY <2>1, <3>1
    <2>2. CASE ~ (g = f /\ i = n[f])
      <3>1. i < n[g] /\ c2[g][i] = c[g][i] /\ c[g][i] \in Cluster
        BY <2>2, <1>1, <1>2, <1>4
      <3>2. fat[c[g][i]] = IF g \in Linear THEN 0
                           ELSE IF i + 1 = n[g] THEN C!EndMark ELSE c[g][i + 1]
        BY <3>1 DEF Connected
      <3>3. c[g][i] # y
        BY <3>1 DEF Fresh
      <3>4. CASE g = f /\ i + 1 = n[f]
        <4>1. n[f] > 0 /\ i = n[f] - 1
          BY <3>4, <1>2
        <4>2. fat'[c[g][i]] = y
          BY <3>4, <4>1
        <4>3. i + 1 # n2[g] /\ c2[g][i + 1] = y
          BY <3>4, <1>1, <1>2
        <4> QED
          BY <3>1, <3>4, <4>2, <4>3
      <3>5. CASE ~ (g = f /\ i + 1 = n[f])
        <4>1. n[f] > 0 => c[g][i] # c[f][n[f] - 1]
          <5> SUFFICES ASSUME n[f] > 0, c[g][i] = c[f][n[f] - 1] PROVE FALSE
            OBVIOUS
          <5>1. n[f] - 1 \in Nat /\ n[f] - 1 < n[f]
            BY <1>2
          <5>2. g = f /\ i = n[f] - 1
            BY <5>1, <3>1 DEF Placed
          <5> QED
            BY <5>2, <3>5, <1>2
        <4>2. fat'[c[g][i]] = fat[c[g][i]]
          BY <4>1, <3>1, <3>3
        <4>3. (i + 1 = n2[g] <=> i + 1 = n[g]) /\ (i + 1 # n[g] => c2[g][i + 1] = c[g][i + 1])
          BY <3>1, <3>5, <1>1, <1>2
        <4> QED
          BY <3>1, <3>2, <4>2, <4>3
      <3> QED
        BY <3>4, <3>5
    <2> QED
      BY <2>1, <2>2
  <1> QED
    BY <1>3, <1>4 DEF Connected

\* The worker of f goes on with a longer chain.
LEMMA GrowStep ==
  ASSUME NEW n, NEW c, ChainState(n, c), NEW f \in Files, f \notin Linear,
         NEW y, y = w[f].new, w[f].pc \in {"put", "link"}, C!Grown(f),
         n[f] > 0 => w[f].at.index + 1 = n[f],
         fat' \in [Cluster -> Cluster \cup {0, C!EndMark}],
         fat'[y] = C!EndMark,
         n[f] > 0 => fat'[c[f][n[f] - 1]] = y,
         \A m \in Cluster : m # y /\ (n[f] > 0 => m # c[f][n[f] - 1]) => fat'[m] = fat[m],
         UNCHANGED <<taken, last, cache_line, lru_queue>>
  PROVE  ChainInv'
  <1>0. n \in Lengths /\ c \in Trails /\ ChainTypes /\ BitmapOwned /\ Behind
        /\ ChainsFine(n, c)
    BY DEF ChainState
  <1>1. /\ WorkFine(n, c, f, w[f]) /\ w[f] \in WorkerRec /\ w \in [Files -> WorkerRec]
        /\ n[f] \in Nat /\ first[f] = IF n[f] = 0 THEN 0 ELSE c[f][0]
        /\ \A i \in Nat : c[f][i] \in Cluster
    BY WorkerNow
  <1>2. PICK u : u = w[f]
    OBVIOUS
  <1>3. /\ u \in WorkerRec /\ u.pc \in {"put", "link"} /\ u.index >= n[f] /\ u.ans = 0
        /\ Fresh(n, c, y) /\ y \in Cluster /\ y = u.new
        /\ u.index \in Nat /\ u.at.index \in Nat
    <2>1. u.index \in Nat /\ u.at.index \in Nat
      BY <1>1, <1>2, WorkerFields
    <2>2. u.pc \in Growing /\ u.pc # "idle"
      BY <1>2 DEF Growing
    <2>3. u.index >= n[f] /\ u.ans = 0 /\ Fresh(n, c, y)
      BY <1>1, <1>2, <2>2 DEF WorkFine
    <2> QED
      BY <1>1, <1>2, <2>1, <2>3 DEF Fresh
  <1>4. PICK n2 : n2 = LongerBy(n, f)
    OBVIOUS
  <1>5. PICK c2 : c2 = PathTo(n, c, f, y)
    OBVIOUS
  <1>6. /\ n2 \in Lengths /\ c2 \in Trails
        /\ \A g \in Files : n2[g] = IF g = f THEN n[f] + 1 ELSE n[g]
        /\ \A g \in Files : \A i \in Nat :
             c2[g][i] = IF g = f /\ i = n[f] THEN y ELSE c[g][i]
        /\ \A g \in Files : \A l \in Line : OnPath(n, c, g, l) => OnPath(n2, c2, g, l)
        /\ \A g \in Files : g # f => n2[g] = n[g] /\ c2[g] = c[g]
    BY <1>0, <1>3, <1>4, <1>5, PathGrows
  <1>7. PICK i : i = IF first[f] = 0 THEN 0 ELSE u.at.index + 1
    OBVIOUS
  <1>8. i = n[f] /\ (first[f] = 0 <=> n[f] = 0)
    BY <1>1, <1>2, <1>7, ClusterFacts
  <1>9. first' = IF n[f] = 0 THEN [first EXCEPT ![f] = y] ELSE first
    BY <1>2, <1>3, <1>8 DEF C!Grown
  <1>10. Placed(n2, c2)'
    BY <1>0, <1>3, <1>4, <1>5, PlacedGrows DEF ChainsFine
  <1>11. Connected(n2, c2)'
    BY <1>0, <1>3, <1>4, <1>5, <1>9, LinkedGrows DEF ChainsFine
  <1>12. AsLaid(n2, c2)'
    <2>1. AsLaid(n, c)
      BY <1>0 DEF ChainsFine
    <2>2. \A g \in Linear : g \in Files /\ g # f
      BY ClusterFacts
    <2>3. \A g \in Linear : n2[g] = n[g] /\ c2[g] = c[g]
      BY <2>2, <1>6
    <2> QED
      BY <2>1, <2>3 DEF AsLaid
  <1>13. ASSUME NEW g \in Files
         PROVE  LinesFine(n2, c2, g, cache_line'[g], lru_queue'[g]) /\ Len(cache_line'[g]) <= Lines
    <2>1. LinesFine(n, c, g, cache_line[g], lru_queue[g]) /\ Len(cache_line[g]) <= Lines
      BY <1>0 DEF ChainsFine
    <2>2. LinesFine(n2, c2, g, cache_line[g], lru_queue[g])
      BY <2>1, <1>6, LinesGrow
    <2> QED
      BY <2>1, <2>2
  <1>14. \A g \in Files : /\ LinesFine(n2, c2, g, cache_line[g], lru_queue[g])'
                          /\ (Len(cache_line[g]) <= Lines)'
    BY <1>13 DEF LinesFine, OnPath
  <1>15. \E v : /\ w' = [w EXCEPT ![f] = v] /\ WorkFine(n2, c2, f, v)' /\ BitmapOwned'
    <2>1. CASE i < u.index
      <3>1. PICK a : a = [index |-> i, cluster |-> y]
        OBVIOUS
      <3>2. PICK v : v = [u EXCEPT !.pc = "alloc", !.at = a]
        OBVIOUS
      <3>3. w' = [w EXCEPT ![f] = v] /\ bmp_lock' = bmp_lock
        BY <1>2, <1>3, <1>7, <2>1, <3>1, <3>2 DEF C!Grown
      <3>4. a \in Line /\ a.index = n[f] /\ a.cluster = y
        BY <1>1, <1>3, <1>8, <3>1 DEF Line
      <3>5. /\ v \in WorkerRec /\ v.pc = "alloc" /\ v.index = u.index /\ v.at = a /\ v.ans = 0
        <4>1. "alloc" \in Stages
          BY DEF Stages
        <4> QED
          BY <3>2, <3>4, <4>1, <1>3 DEF WorkerRec
      <3>6. AtTail(n2, c2, f, a)
        <4>1. n2[f] = n[f] + 1 /\ c2[f][n[f]] = y
          BY <1>1, <1>6
        <4> QED
          BY <4>1, <3>4, <1>1 DEF AtTail, OnPath
      <3>7. v.index >= n2[f]
        BY <3>5, <2>1, <1>1, <1>3, <1>6, <1>8
      <3>8. WorkFine(n2, c2, f, v)'
        BY <3>5, <3>6, <3>7 DEF WorkFine, Growing, AtTail, OnPath
      <3>9. BitmapOwned'
        BY <3>3, <3>5, <1>0, <1>2, <1>3, BitmapKept DEF Allocating
      <3> QED
        BY <3>3, <3>8, <3>9
    <2>2. CASE ~ (i < u.index)
      <3>1. PICK p : p = IF u.index = 0 THEN "record" ELSE "again"
        OBVIOUS
      <3>a. PICK grow \in BOOLEAN : grow = TRUE
        OBVIOUS
      <3>2. PICK v : v = C!At(p, u.index, grow)
        OBVIOUS
      <3>3. w' = [w EXCEPT ![f] = v] /\ bmp_lock' = C!Unlocked(f)
        BY <1>2, <1>7, <2>2, <3>1, <3>a, <3>2 DEF C!Grown, C!Expanded
      <3>4. /\ v \in WorkerRec /\ v.pc = p /\ v.ans = 0 /\ v.sector = C!NoSector
        <4>1. p \in Stages
          BY <3>1 DEF Stages
        <4> QED
          BY <4>1, <3>2, <1>3, AtRec
      <3>5. WorkFine(n2, c2, f, v)
        BY <3>1, <3>4, <1>6, StageFine
      <3>6. WorkFine(n2, c2, f, v)'
        BY <3>1, <3>4 DEF WorkFine, Growing
      <3>7. BitmapOwned'
        <4>1. v.pc \notin Allocating
          BY <3>1, <3>4 DEF Allocating
        <4> QED
          BY <3>3, <4>1, <1>0, BitmapLeft
      <3> QED
        BY <3>3, <3>6, <3>7
    <2> QED
      BY <2>1, <2>2
  <1>16. PICK v : w' = [w EXCEPT ![f] = v] /\ WorkFine(n2, c2, f, v)' /\ BitmapOwned'
    BY <1>15
  <1>17. \A g \in Files : w'[g] = IF g = f THEN v ELSE w[g]
    BY <1>1, <1>16
  <1>18. ASSUME NEW g \in Files
         PROVE  WorkFine(n2, c2, g, w[g])'
    <2>1. CASE g = f
      BY <2>1, <1>16, <1>17
    <2>2. CASE g # f
      <3>1. w[g].pc \notin Allocating
        BY <2>2, <1>0, <1>2, <1>3, OthersWait DEF Allocating
      <3>2. WorkFine(n, c, g, w[g])
        BY <1>0 DEF ChainsFine
      <3>3. PICK t : t = w[g]
        OBVIOUS
      <3>4. n2[g] = n[g] /\ c2[g] = c[g]
        BY <2>2, <1>6
      <3>5. WorkFine(n2, c2, g, t)'
        BY <3>1, <3>2, <3>3, <3>4 DEF WorkFine, AnswerFine, Allocating, OnPath, AtTail
      <3>6. w'[g] = t
        BY <2>2, <3>3, <1>17
      <3> QED
        BY <3>5, <3>6
    <2> QED
      BY <2>1, <2>2
  <1>19. ChainTypes'
    <2>1. first' \in [Files -> Cluster \cup {0}]
      BY <1>0, <1>3, <1>9 DEF ChainTypes
    <2>2. v \in WorkerRec
      BY <1>16 DEF WorkFine
    <2>3. w' \in [Files -> WorkerRec]
      BY <2>2, <1>1, <1>16
    <2> QED
      BY <2>1, <2>3, <1>0 DEF ChainTypes
  <1>20. Behind'
    BY <1>0 DEF Behind
  <1>21. ChainsFine(n2, c2)'
    BY <1>10, <1>11, <1>12, <1>14, <1>18 DEF ChainsFine
  <1> QED
    BY <1>6, <1>16, <1>19, <1>20, <1>21 DEF ChainInv, Lengths, Trails

\* The entry of the new cluster is written.
LEMMA PutStep ==
  ASSUME NEW n, NEW c, ChainState(n, c), NEW f \in Files, C!Put(f)
  PROVE  ChainInv'
  <1>0. n \in Lengths /\ c \in Trails /\ ChainTypes /\ BitmapOwned /\ Behind
        /\ ChainsFine(n, c)
    BY DEF ChainState
  <1>1. /\ WorkFine(n, c, f, w[f]) /\ w[f] \in WorkerRec /\ w \in [Files -> WorkerRec]
        /\ n[f] \in Nat /\ \A i \in Nat : c[f][i] \in Cluster
    BY WorkerNow
  <1>2. PICK u : u = w[f]
    OBVIOUS
  <1>3. PICK y : y = u.new
    OBVIOUS
  <1>4. /\ u.pc = "put" /\ u \in WorkerRec /\ fat' = [fat EXCEPT ![y] = C!EndMark]
        /\ UNCHANGED <<taken, last, cache_line, lru_queue>>
    BY <1>1, <1>2, <1>3 DEF C!Put
  <1>5. /\ f \notin Linear /\ AtTail(n, c, f, u.at) /\ Fresh(n, c, y) /\ y \in Cluster
        /\ u.ans = 0 /\ u.index >= n[f]
    <2>1. f \notin Linear /\ AtTail(n, c, f, u.at) /\ Fresh(n, c, y) /\ u.ans = 0
          /\ u.index >= n[f]
      BY <1>1, <1>2, <1>3, <1>4 DEF WorkFine, Growing
    <2> QED
      BY <2>1 DEF Fresh
  <1>6. fat \in [Cluster -> Cluster \cup {0, C!EndMark}]
    BY <1>0 DEF ChainTypes
  <1>7. /\ fat' \in [Cluster -> Cluster \cup {0, C!EndMark}] /\ fat'[y] = C!EndMark
        /\ \A m \in Cluster : m # y => fat'[m] = fat[m]
    BY <1>4, <1>5, <1>6
  <1>8. u.at \in Line /\ u.at.index \in Nat
    BY <1>4, WorkerFields
  <1>9. CASE u.at.cluster = 0
    <2>1. n[f] = 0
      BY <1>1, <1>5, <1>8, <1>9, ClusterFacts DEF AtTail, OnPath
    <2>2. C!Grown(f)
      BY <1>2, <1>9 DEF C!Put
    <2>3. ~ (n[f] > 0)
      BY <2>1
    <2> QED
      BY <2>2, <2>3, <1>2, <1>3, <1>4, <1>5, <1>7, GrowStep
  <1>10. CASE u.at.cluster # 0
    <2>1. PICK v : v = [u EXCEPT !.pc = "link"]
      OBVIOUS
    <2>2. w' = [w EXCEPT ![f] = v] /\ UNCHANGED <<first, bmp_lock>>
      BY <1>2, <1>10, <2>1 DEF C!Put
    <2>3. /\ v \in WorkerRec /\ v.pc = "link" /\ v.index = u.index /\ v.at = u.at
          /\ v.new = y /\ v.ans = 0
      <3>1. "link" \in Stages
        BY DEF Stages
      <3> QED
        BY <2>1, <3>1, <1>3, <1>4, <1>5 DEF WorkerRec
    <2>4. n[f] > 0
      BY <1>1, <1>5, <1>10 DEF AtTail
    <2>5. WorkFine(n, c, f, v)'
      <3>1. Fresh(n, c, y)'
        BY <1>4, <1>5 DEF Fresh
      <3> QED
        BY <3>1, <2>3, <2>4, <1>5, <1>7 DEF WorkFine, Growing, AtTail, OnPath
    <2>6. BitmapOwned'
      BY <2>2, <2>3, <1>0, <1>2, <1>4, BitmapKept DEF Allocating
    <2>7. \A g \in Files : w'[g] = IF g = f THEN v ELSE w[g]
      BY <1>1, <2>2
    <2>8. ASSUME NEW g \in Files
          PROVE  WorkFine(n, c, g, w[g])'
      <3>1. CASE g = f
        BY <3>1, <2>5, <2>7
      <3>2. CASE g # f
        <4>1. w[g].pc \notin Allocating
          BY <3>2, <1>0, <1>2, <1>4, OthersWait DEF Allocating
        <4>2. WorkFine(n, c, g, w[g])
          BY <1>0 DEF ChainsFine
        <4>3. PICK t : t = w[g]
          OBVIOUS
        <4>4. WorkFine(n, c, g, t)'
          BY <4>1, <4>2, <4>3, <1>4 DEF WorkFine, Allocating
        <4>5. w'[g] = t
          BY <3>2, <4>3, <2>7
        <4> QED
          BY <4>4, <4>5
      <3> QED
        BY <3>1, <3>2
    <2>9. Placed(n, c)'
      BY <1>0, <1>4 DEF ChainsFine, Placed
    <2>10. Connected(n, c)'
      <3>1. Connected(n, c)
        BY <1>0 DEF ChainsFine
      <3>2. \A g \in Files : \A i \in Nat : i < n[g] => fat'[c[g][i]] = fat[c[g][i]]
        <4>1. \A g \in Files : \A i \in Nat : c[g][i] \in Cluster
          BY <1>0 DEF Trails
        <4> QED
          BY <4>1, <1>5, <1>7 DEF Fresh
      <3> QED
        BY <3>1, <3>2, <2>2 DEF Connected
    <2>11. AsLaid(n, c)'
      BY <1>0 DEF ChainsFine, AsLaid
    <2>12. \A g \in Files : /\ LinesFine(n, c, g, cache_line[g], lru_queue[g])'
                            /\ (Len(cache_line[g]) <= Lines)'
      <3>1. ASSUME NEW g \in Files
            PROVE  /\ LinesFine(n, c, g, cache_line'[g], lru_queue'[g])
                   /\ Len(cache_line'[g]) <= Lines
        BY <1>0, <1>4 DEF ChainsFine
      <3> QED
        BY <3>1 DEF LinesFine, OnPath
    <2>13. ChainTypes'
      BY <1>0, <1>1, <1>4, <1>7, <2>2, <2>3 DEF ChainTypes
    <2>14. Behind'
      BY <1>0, <1>4 DEF Behind
    <2> QED
      BY <1>0, <2>6, <2>8, <2>9, <2>10, <2>11, <2>12, <2>13, <2>14
      DEF ChainInv, ChainsFine, Lengths, Trails
  <1> QED
    BY <1>9, <1>10

\* The entry of the tail is written, which is still the tail.
LEMMA LinkStep ==
  ASSUME NEW n, NEW c, ChainState(n, c), NEW f \in Files, C!Link(f)
  PROVE  ChainInv'
  <1>0. n \in Lengths /\ c \in Trails /\ ChainTypes /\ BitmapOwned /\ Behind
        /\ ChainsFine(n, c)
    BY DEF ChainState
  <1>1. /\ WorkFine(n, c, f, w[f]) /\ w[f] \in WorkerRec
        /\ n[f] \in Nat /\ \A i \in Nat : c[f][i] \in Cluster
    BY WorkerNow
  <1>2. PICK u : u = w[f]
    OBVIOUS
  <1>3. PICK y : y = u.new
    OBVIOUS
  <1>4. /\ u.pc = "link" /\ u \in WorkerRec
        /\ UNCHANGED <<taken, last, cache_line, lru_queue>>
    BY <1>1, <1>2 DEF C!Link
  <1>5. /\ f \notin Linear /\ AtTail(n, c, f, u.at) /\ Fresh(n, c, y) /\ y \in Cluster
        /\ n[f] > 0 /\ fat[y] = C!EndMark
    <2>1. f \notin Linear /\ AtTail(n, c, f, u.at) /\ Fresh(n, c, y) /\ n[f] > 0
          /\ fat[y] = C!EndMark
      BY <1>1, <1>2, <1>3, <1>4 DEF WorkFine, Growing
    <2> QED
      BY <2>1 DEF Fresh
  <1>6. /\ u.at \in Line /\ u.at.index \in Nat /\ OnPath(n, c, f, u.at)
        /\ u.at.index + 1 = n[f]
    BY <1>4, <1>5, WorkerFields DEF AtTail
  <1>7. fat[u.at.cluster] = C!EndMark
    <2>1. ~ (u.at.index + 1 < n[f])
      BY <1>1, <1>6
    <2> QED
      BY <1>5, <1>6, <2>1, NextOnPath
  <1>8. u.at.cluster = c[f][n[f] - 1] /\ u.at.cluster \in Cluster
    <2>1. u.at.index = n[f] - 1
      BY <1>1, <1>6
    <2> QED
      BY <2>1, <1>1, <1>6 DEF OnPath
  <1>9. fat' = [fat EXCEPT ![u.at.cluster] = y] /\ C!Grown(f)
    BY <1>2, <1>3, <1>7 DEF C!Link
  <1>10. u.at.cluster # y
    BY <1>5, <1>6 DEF Fresh, OnPath
  <1>11. fat \in [Cluster -> Cluster \cup {0, C!EndMark}]
    BY <1>0 DEF ChainTypes
  <1>12. /\ fat' \in [Cluster -> Cluster \cup {0, C!EndMark}]
         /\ fat'[y] = C!EndMark /\ fat'[c[f][n[f] - 1]] = y
         /\ \A m \in Cluster : m # y /\ m # c[f][n[f] - 1] => fat'[m] = fat[m]
    BY <1>5, <1>8, <1>9, <1>10, <1>11
  <1> QED
    BY <1>2, <1>3, <1>4, <1>5, <1>6, <1>9, <1>12, GrowStep

(***************************************************************************)
(* The volume as it is mounted                                             *)
(***************************************************************************)
\* The files have their clusters once each, and no more than there are.
LEMMA LaidFacts ==
  ASSUME NEW f \in Files
  PROVE  /\ Layout[f] \in Seq(Cluster) /\ Len(Layout[f]) \in Nat
         /\ Len(Layout[f]) <= Clusters
         /\ \A i \in 1..Len(Layout[f]) : Layout[f][i] \in Laid(f) /\ Layout[f][i] \in Cluster
         /\ \A y \in Laid(f) : \E i \in 1..Len(Layout[f]) : y = Layout[f][i]
         /\ \A i, j \in 1..Len(Layout[f]) : Layout[f][i] = Layout[f][j] => i = j
  <1>1. PICK s : s = Layout[f]
    OBVIOUS
  <1>2. s \in Seq(Cluster) /\ Cardinality(Laid(f)) = Len(s)
    BY <1>1, ChainAssumption
  <1>3. Len(s) \in Nat /\ s \in [1..Len(s) -> Cluster] /\ \A i \in 1..Len(s) : s[i] \in Cluster
    BY <1>2
  <1>4. PICK T : T = Laid(f)
    OBVIOUS
  <1>5. T = {s[i] : i \in 1..Len(s)}
    BY <1>1, <1>4 DEF Laid
  <1>6. s \in Surjection(1..Len(s), T)
    BY <1>3, <1>5 DEF Surjection
  <1>7. IsFiniteSet(1..Len(s)) /\ Cardinality(1..Len(s)) = Len(s)
    <2>1. Len(s) \in Int /\ 1 \in Int
      BY <1>3
    <2>2. IsFiniteSet(1..Len(s)) /\ Cardinality(1..Len(s)) = IF 1 > Len(s) THEN 0 ELSE Len(s) - 1 + 1
      BY <2>1, FS_Interval
    <2> QED
      BY <2>2, <1>3
  <1>8. s \in Injection(1..Len(s), T)
    BY <1>2, <1>4, <1>6, <1>7, FS_Surjection
  <1>9. \A i, j \in 1..Len(s) : s[i] = s[j] => i = j
    <2>1. DOMAIN s = 1..Len(s)
      BY <1>3
    <2> QED
      BY <1>8, <2>1 DEF Injection, IsInjective
  <1>10. Len(s) <= Clusters
    <2>1. IsFiniteSet(Cluster) /\ Cardinality(Cluster) = Clusters
      <3>1. Clusters + 1 \in Int /\ 2 \in Int /\ Clusters \in Nat /\ Clusters >= 1
        BY ClusterFacts
      <3>2. /\ IsFiniteSet(2..Clusters + 1)
            /\ Cardinality(2..Clusters + 1) = IF 2 > Clusters + 1 THEN 0 ELSE Clusters + 1 - 2 + 1
        BY <3>1, FS_Interval
      <3>3. IF 2 > Clusters + 1 THEN 0 = Clusters ELSE (Clusters + 1) - 2 + 1 = Clusters
        BY <3>1
      <3> QED
        BY <3>1, <3>2, <3>3 DEF Cluster
    <2>2. T \in SUBSET Cluster
      BY <1>3, <1>5
    <2>3. Cardinality(T) <= Cardinality(Cluster)
      BY <2>1, <2>2, FS_Subset
    <2> QED
      BY <2>1, <2>3, <1>2, <1>4
  <1> QED
    BY <1>1, <1>2, <1>3, <1>4, <1>5, <1>9, <1>10

\* No cluster is in the layout of two files.
LEMMA LaidApart ==
  ASSUME NEW f \in Files, NEW g \in Files, NEW y \in Laid(f), y \in Laid(g)
  PROVE  f = g
  <1>1. f # g => Laid(f) \cap Laid(g) = {}
    BY ChainAssumption
  <1> QED
    BY <1>1

\* The FAT of such a volume.
LEMMA InitFat ==
  ASSUME C!Init, NEW f \in Files, NEW i \in 1..Len(Layout[f])
  PROVE  fat[Layout[f][i]] = IF f \in Linear THEN 0
                             ELSE IF i = Len(Layout[f]) THEN C!EndMark ELSE Layout[f][i + 1]
  <1>1. PICK y : y = Layout[f][i]
    OBVIOUS
  <1>2. y \in Cluster /\ y \in Laid(f) /\ Len(Layout[f]) \in Nat /\ Len(Layout[f]) <= Clusters
    BY <1>1, LaidFacts
  <1> DEFINE Chained == \E h \in Files \ Linear, j \in 1..Clusters :
                          j <= Len(Layout[h]) /\ Layout[h][j] = y
             Of == CHOOSE g \in Files : y \in Laid(g)
             At == CHOOSE j \in 1..Len(Layout[Of]) : Layout[Of][j] = y
  <1>3. fat[y] = IF Chained THEN IF At = Len(Layout[Of]) THEN C!EndMark ELSE Layout[Of][At + 1]
                  ELSE 0
    BY <1>2, ClusterFacts DEF C!Init, C!Laid, Laid
  <1>4. Chained <=> f \notin Linear
    <2>1. ASSUME f \notin Linear PROVE Chained
      <3>1. i \in 1..Clusters /\ i <= Len(Layout[f])
        BY <1>2, ClusterFacts
      <3> QED
        BY <2>1, <3>1, <1>1
    <2>2. ASSUME Chained PROVE f \notin Linear
      <3>1. PICK h \in Files \ Linear, j \in 1..Clusters :
              j <= Len(Layout[h]) /\ Layout[h][j] = y
        BY <2>2
      <3>2. Len(Layout[h]) \in Nat
        BY LaidFacts
      <3>3. j \in 1..Len(Layout[h])
        BY <3>1, <3>2, ClusterFacts
      <3>4. y \in Laid(h)
        BY <3>1, <3>3, LaidFacts
      <3>5. h = f
        BY <3>4, <1>2, LaidApart
      <3> QED
        BY <3>1, <3>5
    <2> QED
      BY <2>1, <2>2
  <1>5. Of = f
    <2>1. Of \in Files /\ y \in Laid(Of)
      BY <1>2
    <2> HIDE DEF Of
    <2> QED
      BY <2>1, <1>2, LaidApart
  <1>6. At = i
    <2>1. At = CHOOSE j \in 1..Len(Layout[f]) : Layout[f][j] = y
      BY <1>5
    <2>2. PICK k : k = CHOOSE j \in 1..Len(Layout[f]) : Layout[f][j] = y
      OBVIOUS
    <2>3. k \in 1..Len(Layout[f]) /\ Layout[f][k] = y
      BY <2>2, <1>1
    <2>4. k = i
      BY <2>3, <1>1, LaidFacts
    <2> QED
      BY <2>1, <2>2, <2>4
  <1> HIDE DEF Chained, Of, At
  <1> QED
    BY <1>1, <1>3, <1>4, <1>5, <1>6

\* Its entries are clusters and marks.
LEMMA InitFatType ==
  ASSUME C!Init
  PROVE  fat \in [Cluster -> Cluster \cup {0, C!EndMark}]
  <1>1. fat = [y \in Cluster |-> fat[y]]
    BY ClusterFacts DEF C!Init
  <1>2. ASSUME NEW y \in Cluster PROVE fat[y] \in Cluster \cup {0, C!EndMark}
    <2>1. CASE \E f \in Files : y \in Laid(f)
      <3>1. PICK f \in Files : y \in Laid(f)
        BY <2>1
      <3>2. PICK i \in 1..Len(Layout[f]) : y = Layout[f][i]
        BY <3>1, LaidFacts
      <3>3. Len(Layout[f]) \in Nat
        BY LaidFacts
      <3>4. i # Len(Layout[f]) => i + 1 \in 1..Len(Layout[f])
        BY <3>3
      <3>5. i # Len(Layout[f]) => Layout[f][i + 1] \in Cluster
        BY <3>4, LaidFacts
      <3> QED
        BY <3>2, <3>5, InitFat
    <2>2. CASE ~ \E f \in Files : y \in Laid(f)
      <3>1. ~ \E h \in Files \ Linear, j \in 1..Clusters : j <= Len(Layout[h]) /\ Layout[h][j] = y
        <4> SUFFICES ASSUME NEW h \in Files \ Linear, NEW j \in 1..Clusters,
                            j <= Len(Layout[h]), Layout[h][j] = y
                     PROVE  FALSE
          OBVIOUS
        <4>1. Len(Layout[h]) \in Nat
          BY LaidFacts
        <4>2. j \in 1..Len(Layout[h])
          BY <4>1, ClusterFacts
        <4>3. y \in Laid(h)
          BY <4>2, LaidFacts
        <4> QED
          BY <4>3, <2>2
      <3>2. fat[y] = 0
        BY <3>1, ClusterFacts DEF C!Init
      <3> QED
        BY <3>2
    <2> QED
      BY <2>1, <2>2
  <1> QED
    BY <1>1, <1>2

\* The invariant holds when the volume is mounted.
LEMMA InitChains ==
  ASSUME C!Init
  PROVE  ChainInv
  <1>1. PICK n : n = [f \in Files |-> Len(Layout[f])]
    OBVIOUS
  <1>2. PICK c : c = [f \in Files |-> [i \in Nat |-> IF i < Len(Layout[f]) THEN Layout[f][i + 1] ELSE 2]]
    OBVIOUS
  <1>3. \A f \in Files : n[f] = Len(Layout[f]) /\ n[f] \in Nat
    BY <1>1, LaidFacts
  <1>4. ASSUME NEW f \in Files, NEW i \in Nat, i < n[f]
        PROVE  i + 1 \in 1..Len(Layout[f]) /\ c[f][i] = Layout[f][i + 1]
    BY <1>2, <1>3, <1>4
  <1>5. n \in Lengths
    BY <1>1, <1>3 DEF Lengths
  <1>6. c \in Trails
    <2>1. ASSUME NEW f \in Files
          PROVE  [i \in Nat |-> IF i < Len(Layout[f]) THEN Layout[f][i + 1] ELSE 2] \in [Nat -> Cluster]
      <3>1. ASSUME NEW i \in Nat, i < Len(Layout[f]) PROVE Layout[f][i + 1] \in Cluster
        <4>1. i + 1 \in 1..Len(Layout[f])
          BY <3>1, LaidFacts
        <4> QED
          BY <4>1, LaidFacts
      <3> QED
        BY <3>1, ClusterFacts
    <2> QED
      BY <1>2, <2>1 DEF Trails
  <1>7. taken = UNION {Laid(f) : f \in Files}
    <2>1. \A f : C!Laid(f) = Laid(f)
      BY DEF C!Laid, Laid
    <2> QED
      BY <2>1 DEF C!Init
  <1>8. Placed(n, c)
    <2>1. ASSUME NEW f \in Files, NEW i \in Nat, i < n[f]
          PROVE  c[f][i] \in Laid(f) /\ c[f][i] \in taken
      BY <2>1, <1>4, <1>7, LaidFacts
    <2>2. ASSUME NEW f \in Files, NEW g \in Files, NEW i \in Nat, NEW j \in Nat,
                 i < n[f], j < n[g], c[f][i] = c[g][j]
          PROVE  f = g /\ i = j
      <3>1. c[f][i] \in Laid(f) /\ c[f][i] \in Laid(g)
        BY <2>1, <2>2
      <3>2. f = g
        BY <3>1, LaidApart
      <3>3. i + 1 \in 1..Len(Layout[f]) /\ j + 1 \in 1..Len(Layout[f])
            /\ Layout[f][i + 1] = Layout[f][j + 1]
        BY <3>2, <2>2, <1>4
      <3>4. i + 1 = j + 1
        BY <3>3, LaidFacts
      <3> QED
        BY <3>2, <3>4
    <2> QED
      BY <2>1, <2>2 DEF Placed
  <1>9. Connected(n, c)
    <2>1. ASSUME NEW f \in Files PROVE first[f] = IF n[f] = 0 THEN 0 ELSE c[f][0]
      <3>1. first[f] = IF Layout[f] = <<>> THEN 0 ELSE Layout[f][1]
        BY DEF C!Init
      <3>2. Layout[f] = <<>> <=> n[f] = 0
        <4>1. Layout[f] \in Seq(Cluster)
          BY LaidFacts
        <4>2. Layout[f] = <<>> <=> Len(Layout[f]) = 0
          BY <4>1
        <4> QED
          BY <4>2, <1>3
      <3>3. n[f] # 0 => c[f][0] = Layout[f][1]
        BY <1>3, <1>4
      <3> QED
        BY <3>1, <3>2, <3>3
    <2>2. ASSUME NEW f \in Files, NEW i \in Nat, i < n[f]
          PROVE  fat[c[f][i]] = IF f \in Linear THEN 0
                                ELSE IF i + 1 = n[f] THEN C!EndMark ELSE c[f][i + 1]
      <3>1. i + 1 \in 1..Len(Layout[f]) /\ c[f][i] = Layout[f][i + 1]
        BY <2>2, <1>4
      <3>2. fat[c[f][i]] = IF f \in Linear THEN 0
                           ELSE IF i + 1 = Len(Layout[f]) THEN C!EndMark ELSE Layout[f][(i + 1) + 1]
        BY <3>1, InitFat
      <3>3. i + 1 # n[f] => c[f][i + 1] = Layout[f][(i + 1) + 1]
        <4>1. i + 1 # n[f] => i + 1 \in Nat /\ i + 1 < n[f]
          BY <2>2, <1>3
        <4> QED
          BY <4>1, <1>4
      <3> QED
        BY <3>2, <3>3, <1>3
    <2> QED
      BY <2>1, <2>2 DEF Connected
  <1>10. AsLaid(n, c)
    BY <1>3, <1>4, ClusterFacts DEF AsLaid
  <1>11. ASSUME NEW f \in Files
         PROVE  LinesFine(n, c, f, cache_line[f], lru_queue[f]) /\ Len(cache_line[f]) <= Lines
    <2>1. cache_line[f] = <<>> /\ lru_queue[f] = <<>>
      BY DEF C!Init
    <2>2. LinesFine(n, c, f, <<>>, <<>>)
      BY DEF LinesFine
    <2>3. Len(<<>>) <= Lines
      BY ClusterFacts
    <2> QED
      BY <2>1, <2>2, <2>3
  <1>12. ASSUME NEW f \in Files
         PROVE  w[f] = C!Worker0 /\ WorkFine(n, c, f, w[f]) /\ w[f].pc = "idle"
    <2>1. w[f] = C!Worker0
      BY DEF C!Init
    <2>2. [index |-> 0, cluster |-> 0] \in Line /\ "idle" \in Stages
      BY ClusterFacts DEF Line, Stages
    <2>3. w[f] = [pc |-> "idle", index |-> 0, expand |-> FALSE,
                  at |-> [index |-> 0, cluster |-> 0], new |-> 0, sector |-> -1, ans |-> 0]
      BY <2>1 DEF C!Worker0, C!None, C!NoSector
    <2>4. PICK grow \in BOOLEAN : grow = FALSE
      OBVIOUS
    <2>6. w[f] = [pc |-> "idle", index |-> 0, expand |-> grow,
                  at |-> [index |-> 0, cluster |-> 0], new |-> 0, sector |-> -1, ans |-> 0]
      BY <2>3, <2>4
    <2>5. w[f] \in WorkerRec /\ w[f].pc = "idle" /\ w[f].ans = 0 /\ w[f].sector = C!NoSector
      BY <2>2, <2>6, StageRec
    <2> QED
      BY <2>1, <2>5 DEF WorkFine, Growing
  <1>13. ChainTypes
    <2>1. first \in [Files -> Cluster \cup {0}]
      <3>1. first = [f \in Files |-> first[f]]
        BY DEF C!Init
      <3>2. \A f \in Files : first[f] \in Cluster \cup {0}
        BY <1>6, <1>9 DEF Connected, Trails
      <3> QED
        BY <3>1, <3>2
    <2>2. cache_line \in [Files -> Seq(Line)] /\ lru_queue \in [Files -> Seq(Nat)]
      BY DEF C!Init
    <2>3. w \in [Files -> WorkerRec]
      <3>1. w = [f \in Files |-> w[f]]
        BY DEF C!Init
      <3>2. \A f \in Files : w[f] \in WorkerRec
        BY <1>12 DEF WorkFine
      <3> QED
        BY <3>1, <3>2
    <2> QED
      BY <2>1, <2>2, <2>3, InitFatType DEF ChainTypes
  <1>14. BitmapOwned
    <2>1. bmp_lock = 0 /\ 0 \notin Files
      BY ClusterFacts DEF C!Init
    <2> QED
      BY <2>1, <1>12 DEF BitmapOwned
  <1>15. Behind
    <2>1. last = 0 /\ Clusters \in Nat /\ Clusters >= 1
      BY ClusterFacts DEF C!Init
    <2>2. taken \subseteq Cluster
      <3>1. \A f \in Files : Laid(f) \subseteq Cluster
        BY LaidFacts
      <3> QED
        BY <3>1, <1>7
    <2>3. 0..last - 1 = {} /\ last \in 0..Clusters - 1
      BY <2>1
    <2> QED
      BY <2>2, <2>3 DEF Behind
  <1>16. ChainsFine(n, c)
    BY <1>8, <1>9, <1>10, <1>11, <1>12 DEF ChainsFine
  <1> QED
    BY <1>5, <1>6, <1>13, <1>14, <1>15, <1>16 DEF ChainInv

\* Every step of a worker keeps it.
LEMMA NextChains ==
  ASSUME ChainInv, NEW f \in Files,
         C!Work(f) \/ \E i \in 0..MaxIndex[f], grow \in BOOLEAN : C!GetLba(f, i, grow)
  PROVE  ChainInv'
  <1>1. PICK n, c : ChainState(n, c)
    BY DEF ChainInv, ChainState
  <1>2. 0..MaxIndex[f] \subseteq Nat
    BY ChainAssumption
  <1>3. ASSUME NEW i \in 0..MaxIndex[f], NEW grow \in BOOLEAN, C!GetLba(f, i, grow)
        PROVE  ChainInv'
    BY <1>1, <1>2, <1>3, LookStep DEF C!GetLba, Index
  <1>4. ASSUME C!Again(f) PROVE ChainInv'
    <2>1. w[f] \in WorkerRec
      BY <1>1, WorkerNow
    <2>2. w[f].index \in Nat
      BY <2>1, WorkerFields
    <2>3. PICK grow \in BOOLEAN : grow = TRUE
      OBVIOUS
    <2>4. C!Look(f, w[f].index, grow) /\ w[f].pc \in {"idle", "again"}
          /\ UNCHANGED <<fat, taken, last, bmp_lock, first, cache_line>>
      BY <1>4, <2>3 DEF C!Again
    <2> QED
      BY <1>1, <2>2, <2>4, LookStep DEF Index
  <1> QED
    BY <1>1, <1>3, <1>4, UnloadStep, FatLoadStep, FatFailsStep, GetStep, ExpandStep,
       FollowStep, LockBitmapStep, AllocStep, PutStep, LinkStep, RecordStep DEF C!Work

\* The chains are as the invariant says in all behaviours.
LEMMA ChainsAlways == StorageSpec => []ChainInv
  <1>1. StorageInit => ChainInv
    BY InitChains DEF StorageInit
  <1>2. ChainInv /\ [StorageNext]_storage => ChainInv'
    <2>1. ASSUME ChainInv,
                 UNCHANGED <<fat, taken, last, bmp_lock, first, cache_line, lru_queue, w>>
          PROVE  ChainInv'
      <3>1. PICK n \in Lengths, c \in Trails : ChainsFine(n, c)
        BY <2>1 DEF ChainInv
      <3>2. ChainTypes' /\ BitmapOwned' /\ Behind'
        BY <2>1 DEF ChainInv, ChainTypes, BitmapOwned, Behind
      <3>3. Placed(n, c)' /\ Connected(n, c)' /\ AsLaid(n, c)'
        BY <3>1, <2>1 DEF ChainsFine, Placed, Connected, AsLaid
      <3>4. ASSUME NEW g \in Files
            PROVE  /\ LinesFine(n, c, g, cache_line'[g], lru_queue'[g])
                   /\ Len(cache_line'[g]) <= Lines
        BY <3>1, <2>1 DEF ChainsFine
      <3>5. \A g \in Files : /\ LinesFine(n, c, g, cache_line[g], lru_queue[g])'
                             /\ (Len(cache_line[g]) <= Lines)'
        BY <3>4 DEF LinesFine, OnPath
      <3>6. ASSUME NEW g \in Files
            PROVE  WorkFine(n, c, g, w[g])'
        <4>1. PICK t : t = w[g]
          OBVIOUS
        <4>2. WorkFine(n, c, g, t)
          BY <3>1, <4>1 DEF ChainsFine
        <4>3. WorkFine(n, c, g, t)'
          BY <2>1, <4>2 DEF WorkFine, Fresh
        <4> QED
          BY <2>1, <4>1, <4>3
      <3>7. ChainsFine(n, c)'
        BY <3>3, <3>5, <3>6 DEF ChainsFine
      <3> QED
        BY <3>2, <3>7 DEF ChainInv, Lengths, Trails
    <2>2. ASSUME ChainInv, C!Next PROVE ChainInv'
      BY <2>1, <2>2, NextChains DEF C!Next, C!SlotLost
    <2> QED
      BY <2>1, <2>2 DEF StorageNext, storage, chains
  <1> QED
    BY <1>1, <1>2, PTL DEF StorageSpec

(***************************************************************************)
(* What the invariant says of the properties                               *)
(***************************************************************************)
\* No chain is longer than the volume.
LEMMA ChainFits ==
  ASSUME NEW n, NEW c, ChainState(n, c), NEW f \in Files
  PROVE  n[f] \in Nat /\ n[f] <= Clusters
  <1>1. n[f] \in Nat /\ \A i \in Nat : c[f][i] \in Cluster
    BY WorkerNow
  <1>2. Clusters \in Nat /\ Clusters >= 1 /\ Cluster = 2..Clusters + 1
    BY ClusterFacts
  <1>3. SUFFICES ASSUME n[f] > Clusters PROVE FALSE
    BY <1>1, <1>2
  <1>4. PICK S : S = 1..Clusters + 1
    OBVIOUS
  <1>5. IsFiniteSet(S) /\ Cardinality(S) = Clusters + 1
    <2>1. /\ IsFiniteSet(1..Clusters + 1)
          /\ Cardinality(1..Clusters + 1) = IF 1 > Clusters + 1 THEN 0 ELSE Clusters + 1 - 1 + 1
      <3>1. 1 \in Int /\ Clusters + 1 \in Int
        BY <1>2
      <3> QED
        BY <3>1, <1>2, FS_Interval
    <2> QED
      BY <2>1, <1>2, <1>4
  <1>6. IsFiniteSet(Cluster) /\ Cardinality(Cluster) = Clusters
    <2>1. /\ IsFiniteSet(2..Clusters + 1)
          /\ Cardinality(2..Clusters + 1) = IF 2 > Clusters + 1 THEN 0 ELSE Clusters + 1 - 2 + 1
      <3>1. 2 \in Int /\ Clusters + 1 \in Int
        BY <1>2
      <3> QED
        BY <3>1, <1>2, FS_Interval
    <2> QED
      BY <2>1, <1>2
  <1>7. PICK e : e = [k \in S |-> c[f][k - 1]]
    OBVIOUS
  <1>8. \A k \in S : k \in Int /\ k - 1 \in Nat /\ k - 1 < n[f]
    BY <1>1, <1>2, <1>3, <1>4
  <1>9. e \in [S -> Cluster]
    BY <1>1, <1>7, <1>8
  <1>10. PICK j \in S, k \in S : j # k /\ e[j] = e[k]
    <2>1. Cardinality(Cluster) < Cardinality(S)
      BY <1>2, <1>5, <1>6
    <2> QED
      BY <2>1, <1>5, <1>6, <1>9, FS_PigeonHole
  <1>11. j - 1 = k - 1
    <2>1. c[f][j - 1] = c[f][k - 1] /\ j - 1 \in Nat /\ k - 1 \in Nat /\ j - 1 < n[f] /\ k - 1 < n[f]
      BY <1>7, <1>8, <1>10
    <2> QED
      BY <2>1 DEF ChainState, ChainsFine, Placed
  <1> QED
    BY <1>8, <1>10, <1>11

\* As many entries of the FAT lead to clusters: one, at most, of a file
\* without a chain.
Reach(n, f) == IF f \in Linear /\ n[f] > 1 THEN 1 ELSE n[f]

\* What Chain(f) is, as a function of the index.
Told(n, c, f) ==
  [m \in 0..Clusters |-> IF m < Reach(n, f) THEN c[f][m]
                         ELSE IF m = n[f] /\ m # 0 /\ f \notin Linear THEN C!EndMark ELSE 0]

\* It satisfies the equation that defines Chain(f), ...
LEMMA ToldStep ==
  ASSUME NEW n, NEW c, ChainState(n, c), NEW f \in Files, NEW m \in 0..Clusters
  PROVE  Told(n, c, f)[m] =
           IF m = 0 THEN first[f]
           ELSE IF Told(n, c, f)[m - 1] \in Cluster THEN fat[Told(n, c, f)[m - 1]] ELSE 0
  <1>1. /\ n[f] \in Nat /\ \A i \in Nat : c[f][i] \in Cluster
        /\ first[f] = IF n[f] = 0 THEN 0 ELSE c[f][0]
    BY WorkerNow
  <1>2. \A i \in Nat : i < n[f] =>
          fat[c[f][i]] = IF f \in Linear THEN 0
                         ELSE IF i + 1 = n[f] THEN C!EndMark ELSE c[f][i + 1]
    BY DEF ChainState, ChainsFine, Connected
  <1>3. Clusters \in Nat /\ 0 \notin Cluster /\ C!EndMark \notin Cluster
    BY ClusterFacts
  <1>4. PICK t : t = Told(n, c, f)
    OBVIOUS
  <1>5. \A k \in 0..Clusters :
          t[k] = IF k < Reach(n, f) THEN c[f][k]
                 ELSE IF k = n[f] /\ k # 0 /\ f \notin Linear THEN C!EndMark ELSE 0
    BY <1>4 DEF Told
  <1>6. PICK z : z = Reach(n, f)
    OBVIOUS
  <1>7. z \in Nat /\ z <= n[f] /\ (z = 0 <=> n[f] = 0) /\ (f \notin Linear => z = n[f])
        /\ (f \in Linear => z <= 1)
    BY <1>1, <1>6 DEF Reach
  <1>8. CASE m = 0
    <2>1. t[m] = IF 0 < z THEN c[f][0] ELSE 0
      BY <1>3, <1>5, <1>6, <1>8
    <2> QED
      BY <2>1, <1>1, <1>4, <1>7, <1>8
  <1>9. CASE m # 0
    <2>1. m \in Nat /\ m - 1 \in 0..Clusters /\ m - 1 \in Nat /\ (m - 1) + 1 = m
      BY <1>3, <1>9
    <2>2. /\ t[m - 1] = IF m - 1 < z THEN c[f][m - 1]
                        ELSE IF m - 1 = n[f] /\ m - 1 # 0 /\ f \notin Linear THEN C!EndMark ELSE 0
          /\ t[m] = IF m < z THEN c[f][m]
                    ELSE IF m = n[f] /\ f \notin Linear THEN C!EndMark ELSE 0
      BY <2>1, <1>5, <1>6, <1>9
    <2>3. CASE m - 1 < z
      <3>1. t[m - 1] = c[f][m - 1] /\ c[f][m - 1] \in Cluster /\ m - 1 < n[f]
        BY <2>1, <2>2, <2>3, <1>1, <1>7
      <3>2. fat[c[f][m - 1]] = IF f \in Linear THEN 0
                               ELSE IF m = n[f] THEN C!EndMark ELSE c[f][m]
        BY <2>1, <3>1, <1>2
      <3>3. t[m] = fat[c[f][m - 1]]
        <4>1. CASE f \in Linear
          <5>1. ~ (m < z)
            BY <4>1, <2>1, <1>7, <1>9
          <5> QED
            BY <4>1, <5>1, <3>2, <2>2
        <4>2. CASE f \notin Linear
          <5>1. m < z <=> m # n[f]
            BY <4>2, <2>1, <3>1, <1>1, <1>7
          <5> QED
            BY <4>2, <5>1, <3>2, <2>2
        <4> QED
          BY <4>1, <4>2
      <3> QED
        BY <3>1, <3>3, <1>4, <1>9
    <2>4. CASE ~ (m - 1 < z)
      <3>1. t[m - 1] \notin Cluster
        BY <2>2, <2>4, <1>3
      <3>2. ~ (m < z) /\ (f \notin Linear => m # n[f])
        BY <2>1, <2>4, <1>1, <1>7
      <3>3. t[m] = 0
        BY <2>2, <3>2
      <3> QED
        BY <3>1, <3>3, <1>4, <1>9
    <2> QED
      BY <2>3, <2>4
  <1> QED
    BY <1>8, <1>9

\* ... which has no other solution.
LEMMA ChainForm ==
  ASSUME NEW n, NEW c, ChainState(n, c), NEW f \in Files
  PROVE  C!Chain(f) = Told(n, c, f)
  <1> DEFINE Body(h) == [m \in 0..Clusters |->
                           IF m = 0 THEN first[f]
                           ELSE IF h[m - 1] \in Cluster THEN fat[h[m - 1]] ELSE 0]
  <1>1. PICK t : t = Told(n, c, f)
    OBVIOUS
  <1>2. t = Body(t)
    <2>1. t = [m \in 0..Clusters |-> t[m]]
      BY <1>1 DEF Told
    <2>2. \A m \in 0..Clusters :
            t[m] = IF m = 0 THEN first[f]
                   ELSE IF t[m - 1] \in Cluster THEN fat[t[m - 1]] ELSE 0
      BY <1>1, ToldStep
    <2> QED
      BY <2>1, <2>2
  <1>3. C!Chain(f) = CHOOSE h : h = Body(h)
    BY ClusterFacts DEF C!Chain
  <1>4. PICK e : e = C!Chain(f)
    OBVIOUS
  <1>5. e = Body(e)
    <2> HIDE DEF Body
    <2> QED
      BY <1>2, <1>3, <1>4
  <1>6. \A m \in 0..Clusters : e[m] = t[m]
    <2> SUFFICES ASSUME \E m \in 0..Clusters : e[m] # t[m] PROVE FALSE
      OBVIOUS
    <2>1. PICK S : S = {m \in 0..Clusters : e[m] # t[m]}
      OBVIOUS
    <2>2. Clusters \in Nat
      BY ClusterFacts
    <2>3. S \subseteq Nat /\ S # {}
      BY <2>1, <2>2
    <2>4. PICK m \in S : \A j \in S : m <= j
      BY <2>3, LeastOfSet
    <2>5. m \in 0..Clusters /\ m \in Nat /\ e[m] # t[m]
      BY <2>1, <2>2, <2>4
    <2>6. /\ e[m] = IF m = 0 THEN first[f]
                    ELSE IF e[m - 1] \in Cluster THEN fat[e[m - 1]] ELSE 0
          /\ t[m] = IF m = 0 THEN first[f]
                    ELSE IF t[m - 1] \in Cluster THEN fat[t[m - 1]] ELSE 0
      <3>1. ASSUME NEW h, h = Body(h)
            PROVE  h[m] = IF m = 0 THEN first[f]
                          ELSE IF h[m - 1] \in Cluster THEN fat[h[m - 1]] ELSE 0
        BY <2>5, <3>1
      <3> HIDE DEF Body
      <3> QED
        BY <3>1, <1>2, <1>5
    <2>7. m # 0
      BY <2>5, <2>6
    <2>8. m - 1 \in 0..Clusters /\ ~ (m <= m - 1)
      BY <2>2, <2>5, <2>7
    <2>9. e[m - 1] = t[m - 1]
      BY <2>1, <2>4, <2>8
    <2> QED
      BY <2>5, <2>6, <2>9
  <1>7. e = [m \in 0..Clusters |-> e[m]] /\ t = [m \in 0..Clusters |-> t[m]]
    <2>1. e = [m \in 0..Clusters |-> e[m]]
      BY <1>5
    <2>2. t = [m \in 0..Clusters |-> t[m]]
      BY <1>2
    <2> QED
      BY <2>1, <2>2
  <1>8. e = t
    BY <1>6, <1>7
  <1> QED
    BY <1>1, <1>4, <1>8

\* The clusters of a chain are those that its entries of the FAT lead to.
LEMMA MembersForm ==
  ASSUME NEW n, NEW c, ChainState(n, c), NEW f \in Files
  PROVE  /\ \A y \in C!Members(f) : y \in Cluster /\ \E i \in Nat : i < n[f] /\ y = c[f][i]
         /\ f \notin Linear => \A i \in Nat : i < n[f] => c[f][i] \in C!Members(f)
  <1>1. n[f] \in Nat /\ n[f] <= Clusters /\ Clusters \in Nat
        /\ \A i \in Nat : c[f][i] \in Cluster
    BY ChainFits, WorkerNow, ClusterFacts
  <1>2. PICK t : t = Told(n, c, f)
    OBVIOUS
  <1>3. C!Members(f) = {t[m] : m \in 0..Clusters} \cap Cluster
    BY <1>2, ChainForm, ClusterFacts DEF C!Members
  <1>4. \A k \in 0..Clusters :
          t[k] = IF k < Reach(n, f) THEN c[f][k]
                 ELSE IF k = n[f] /\ k # 0 /\ f \notin Linear THEN C!EndMark ELSE 0
    BY <1>2 DEF Told
  <1>5. Reach(n, f) \in Nat /\ Reach(n, f) <= n[f] /\ (f \notin Linear => Reach(n, f) = n[f])
    BY <1>1 DEF Reach
  <1>6. ASSUME NEW y \in C!Members(f)
        PROVE  y \in Cluster /\ \E i \in Nat : i < n[f] /\ y = c[f][i]
    <2>1. PICK m \in 0..Clusters : y = t[m] /\ y \in Cluster
      BY <1>3
    <2>2. m < Reach(n, f)
      BY <2>1, <1>4, ClusterFacts
    <2>3. m \in Nat /\ m < n[f] /\ y = c[f][m]
      BY <2>1, <2>2, <1>1, <1>4, <1>5
    <2> QED
      BY <2>1, <2>3
  <1>7. ASSUME f \notin Linear, NEW i \in Nat, i < n[f]
        PROVE  c[f][i] \in C!Members(f)
    <2>1. i \in 0..Clusters /\ i < Reach(n, f)
      BY <1>1, <1>5, <1>7
    <2>2. t[i] = c[f][i]
      BY <2>1, <1>4
    <2> QED
      BY <2>1, <2>2, <1>1, <1>3
  <1> QED
    BY <1>6, <1>7

\* A file without a chain is where it was laid out.
LEMMA LaidForm ==
  ASSUME NEW n, NEW c, ChainState(n, c), NEW f \in Linear
  PROVE  /\ \A y \in C!Laid(f) : \E i \in Nat : i < n[f] /\ y = c[f][i]
         /\ \A i \in Nat : i < n[f] => c[f][i] \in C!Laid(f)
  <1>1. /\ n[f] = Len(Layout[f]) /\ \A i \in Nat : i < n[f] => c[f][i] = Layout[f][i + 1]
    BY DEF ChainState, ChainsFine, AsLaid
  <1>2. C!Laid(f) = {Layout[f][i] : i \in 1..Len(Layout[f])}
    BY DEF C!Laid
  <1>3. Len(Layout[f]) \in Nat
    BY LaidFacts, ClusterFacts
  <1>4. ASSUME NEW y \in C!Laid(f)
        PROVE  \E i \in Nat : i < n[f] /\ y = c[f][i]
    <2>1. PICK j \in 1..Len(Layout[f]) : y = Layout[f][j]
      BY <1>2
    <2>2. j - 1 \in Nat /\ j - 1 < n[f] /\ (j - 1) + 1 = j
      BY <1>1, <1>3
    <2>3. y = c[f][j - 1]
      BY <2>1, <2>2, <1>1
    <2> QED
      BY <2>2, <2>3
  <1>5. ASSUME NEW i \in Nat, i < n[f]
        PROVE  c[f][i] \in C!Laid(f)
    <2>1. i + 1 \in 1..Len(Layout[f])
      BY <1>1, <1>3, <1>5
    <2> QED
      BY <2>1, <1>1, <1>2, <1>5
  <1> QED
    BY <1>4, <1>5

\* Files do not share clusters.
LEMMA DisjointShown ==
  ASSUME NEW n, NEW c, ChainState(n, c)
  PROVE  C!ChainsDisjoint
  <1>0. Placed(n, c)
    BY DEF ChainState, ChainsFine
  <1>1. SUFFICES ASSUME NEW f \in Files \ Linear
                 PROVE  /\ C!Members(f) \subseteq taken
                        /\ first[f] # 0 => \E m \in 1..Clusters : C!Chain(f)[m] = C!EndMark
                        /\ \A g \in Files \ {f} :
                             C!Members(f) \cap (C!Members(g) \cup (IF g \in Linear THEN C!Laid(g) ELSE {})) = {}
    BY DEF C!ChainsDisjoint
  <1>2. C!Members(f) \subseteq taken
    <2>1. \A y \in C!Members(f) : \E i \in Nat : i < n[f] /\ y = c[f][i]
      BY MembersForm
    <2> QED
      BY <2>1, <1>0 DEF Placed
  <1>3. ASSUME first[f] # 0
        PROVE  \E m \in 1..Clusters : C!Chain(f)[m] = C!EndMark
    <2>1. n[f] \in Nat /\ n[f] <= Clusters /\ Clusters \in Nat /\ n[f] # 0
      BY <1>3, ChainFits, WorkerNow, ClusterFacts
    <2>2. n[f] \in 1..Clusters /\ n[f] \in 0..Clusters /\ ~ (n[f] < Reach(n, f))
      BY <2>1 DEF Reach
    <2>3. Told(n, c, f)[n[f]] = C!EndMark
      BY <2>1, <2>2 DEF Told
    <2>4. C!Chain(f) = Told(n, c, f)
      BY ChainForm
    <2> QED
      BY <2>2, <2>3, <2>4
  <1>4. ASSUME NEW g \in Files \ {f}, NEW y,
               y \in C!Members(f), y \in C!Members(g) \cup (IF g \in Linear THEN C!Laid(g) ELSE {})
        PROVE  FALSE
    <2>1. PICK i \in Nat : i < n[f] /\ y = c[f][i]
      BY <1>4, MembersForm
    <2>2. PICK j \in Nat : j < n[g] /\ y = c[g][j]
      <3>1. CASE y \in C!Members(g)
        BY <3>1, MembersForm
      <3>2. CASE g \in Linear /\ y \in C!Laid(g)
        BY <3>2, LaidForm
      <3> QED
        BY <1>4, <3>1, <3>2
    <2>3. f = g
      BY <2>1, <2>2, <1>0 DEF Placed
    <2> QED
      BY <2>3
  <1> QED
    BY <1>2, <1>3, <1>4

\* The cache of a chain tells what the FAT says.
LEMMA CacheShown ==
  ASSUME NEW n, NEW c, ChainState(n, c)
  PROVE  C!CacheIsTrue
  <1> DEFINE Fine(f, s, q) ==
               /\ \A k \in DOMAIN s : /\ s[k].cluster = C!Chain(f)[s[k].index]
                                      /\ s[k].index > 0
                                      /\ k > 1 => s[k].index < s[k - 1].index
               /\ Len(q) = Len(s) /\ Len(s) <= Lines
               /\ {q[k] : k \in DOMAIN q} = {s[k].index : k \in DOMAIN s}
  <1>0. ASSUME \A f \in Files : Fine(f, cache_line[f], lru_queue[f])
        PROVE  C!CacheIsTrue
    BY <1>0 DEF C!CacheIsTrue
  <1>1. SUFFICES ASSUME NEW f \in Files, NEW s, s = cache_line[f], NEW q, q = lru_queue[f]
                 PROVE  Fine(f, s, q)
    <2> HIDE DEF Fine
    <2> QED
      BY <1>0
  <1>2. LinesFine(n, c, f, s, q) /\ Len(s) <= Lines
    BY <1>1, WorkerNow
  <1>3. s \in Seq(Line) /\ q \in Seq(Nat) /\ Len(q) = Len(s) /\ DOMAIN s = 1..Len(s)
        /\ DOMAIN q = 1..Len(q) /\ Len(s) \in Nat
    BY <1>2 DEF LinesFine
  <1>4. ASSUME NEW k \in DOMAIN s
        PROVE  /\ s[k].cluster = C!Chain(f)[s[k].index] /\ s[k].index > 0
               /\ k > 1 => s[k].index < s[k - 1].index
    <2>1. k \in 1..Len(s) /\ s[k] \in Line /\ s[k].index > 0 /\ OnPath(n, c, f, s[k])
      <3>1. k \in 1..Len(s)
        BY <1>3
      <3>2. s[k] \in Line
        BY <3>1, <1>3
      <3> QED
        BY <3>1, <3>2, <1>2 DEF LinesFine
    <2>2. s[k].index \in Nat /\ s[k].index < n[f] /\ s[k].cluster = c[f][s[k].index]
      BY <2>1 DEF Line, OnPath
    <2>3. f \notin Linear
      <3>1. s # <<>>
        BY <2>1, <1>3
      <3> QED
        BY <3>1, <1>2 DEF LinesFine
    <2>4. n[f] \in Nat /\ n[f] <= Clusters /\ Clusters \in Nat
      BY ChainFits, ClusterFacts
    <2>5. s[k].index \in 0..Clusters /\ s[k].index < Reach(n, f)
      BY <2>2, <2>3, <2>4 DEF Reach
    <2>6. Told(n, c, f)[s[k].index] = c[f][s[k].index]
      BY <2>5 DEF Told
    <2>7. C!Chain(f) = Told(n, c, f)
      BY ChainForm
    <2>8. k > 1 => s[k].index < s[k - 1].index
      <3>1. k > 1 => k - 1 \in 1..Len(s) /\ k - 1 < k
        BY <2>1, <1>3
      <3> QED
        BY <3>1, <2>1, <1>2 DEF LinesFine
    <2> QED
      BY <2>1, <2>2, <2>6, <2>7, <2>8
  <1>5. {q[k] : k \in DOMAIN q} = {s[k].index : k \in DOMAIN s}
    <2>1. \A k \in 1..Len(s) : \E j \in 1..Len(q) : q[j] = s[k].index
      BY <1>2 DEF LinesFine
    <2>2. \A j \in 1..Len(q) : \E k \in 1..Len(s) : q[j] = s[k].index
      BY <1>2 DEF LinesFine
    <2>3. ASSUME NEW y
          PROVE  y \in {q[k] : k \in 1..Len(q)} <=> y \in {s[k].index : k \in 1..Len(s)}
      BY <2>1, <2>2
    <2>4. {q[k] : k \in 1..Len(q)} = {s[k].index : k \in 1..Len(s)}
      BY <2>3
    <2> QED
      BY <2>4, <1>3, Zenon
  <1> QED
    BY <1>2, <1>3, <1>4, <1>5

\* get_lba answers with the cluster that was asked for.
LEMMA AnswerShown ==
  ASSUME NEW n, NEW c, ChainState(n, c)
  PROVE  C!AnswerIsOwn
  <1>1. SUFFICES ASSUME NEW f \in Files, NEW v, v = w[f], v.ans # 0
                 PROVE  IF f \in Linear
                        THEN v.index < Len(Layout[f]) => v.ans = Layout[f][v.index + 1]
                        ELSE v.ans = C!Chain(f)[v.index]
    BY DEF C!AnswerIsOwn
  <1>2. AnswerFine(n, c, f, v.index, v.ans) /\ v.index \in Nat
    <2>1. WorkFine(n, c, f, w[f]) /\ w[f] \in WorkerRec
      BY WorkerNow
    <2> QED
      BY <2>1, <1>1, WorkerFields DEF WorkFine
  <1>3. CASE f \in Linear
    <2>1. /\ n[f] = Len(Layout[f])
          /\ \A j \in Nat : j < n[f] => c[f][j] = Layout[f][j + 1]
      BY <1>3 DEF ChainState, ChainsFine, AsLaid
    <2> QED
      BY <1>2, <1>3, <2>1 DEF AnswerFine
  <1>4. CASE f \notin Linear
    <2>1. v.index < n[f] /\ v.ans = c[f][v.index]
      BY <1>2, <1>4 DEF AnswerFine
    <2>2. n[f] \in Nat /\ n[f] <= Clusters /\ Clusters \in Nat
      BY ChainFits, ClusterFacts
    <2>3. v.index \in 0..Clusters /\ v.index < Reach(n, f)
      BY <2>1, <2>2, <1>2, <1>4 DEF Reach
    <2>4. Told(n, c, f)[v.index] = c[f][v.index]
      BY <2>3 DEF Told
    <2>5. C!Chain(f) = Told(n, c, f)
      BY ChainForm
    <2> QED
      BY <1>4, <2>1, <2>4, <2>5
  <1> QED
    BY <1>3, <1>4

\* A search without result has found the volume full.
LEMMA FullShown ==
  ASSUME Behind
  PROVE  C!FullMeansFull
  <1>0. Clusters \in Nat /\ Clusters >= 1 /\ last \in Nat /\ last < Clusters
        /\ taken \subseteq Cluster /\ Cluster = 2..Clusters + 1
    BY ClusterFacts DEF Behind
  <1>1. PICK z \in 0..last :
           /\ z = (last \div PerSector) * PerSector
           /\ DOMAIN C!Scanned = 1..Clusters - (last - z)
           /\ \A k \in 1..Clusters - (last - z) :
                C!Scanned[k] = IF last + k - 1 < Clusters THEN last + k - 1
                               ELSE last + k - 1 - Clusters
    BY ScannedForm
  <1>2. SUFFICES ASSUME \A k \in DOMAIN C!Scanned : ~C!Free(C!Scanned[k])
                 PROVE  Cluster \subseteq taken
    BY <1>0, ClusterFacts DEF C!FullMeansFull
  <1>3. \A k \in 1..Clusters - (last - z) : C!Scanned[k] + 2 \in taken
    BY <1>1, <1>2 DEF C!Free
  <1>4. ASSUME NEW p \in 0..Clusters - 1
        PROVE  p + 2 \in taken
    <2>1. CASE p >= last
      <3>1. PICK k : k = p - last + 1
        OBVIOUS
      <3>2. k \in 1..Clusters - (last - z) /\ last + k - 1 = p /\ last + k - 1 < Clusters
        BY <2>1, <3>1, <1>0
      <3>3. C!Scanned[k] = p
        BY <3>2, <1>1
      <3> QED
        BY <3>2, <3>3, <1>3
    <2>2. CASE p < last /\ p >= z
      <3>1. p \in 0..last - 1
        BY <2>2, <1>0
      <3> QED
        BY <3>1, <2>2, <1>1 DEF Behind
    <2>3. CASE p < z
      <3>1. PICK k : k = p + Clusters - last + 1
        OBVIOUS
      <3>2. /\ k \in 1..Clusters - (last - z) /\ ~ (last + k - 1 < Clusters)
            /\ last + k - 1 - Clusters = p
        BY <2>3, <3>1, <1>0
      <3>3. C!Scanned[k] = p
        BY <3>2, <1>1
      <3> QED
        BY <3>2, <3>3, <1>3
    <2> QED
      BY <2>1, <2>2, <2>3, <1>0
  <1>5. ASSUME NEW y \in Cluster
        PROVE  y \in taken
    <2>1. y - 2 \in 0..Clusters - 1 /\ (y - 2) + 2 = y
      BY <1>0
    <2> QED
      BY <2>1, <1>4
  <1> QED
    BY <1>5

(***************************************************************************)
(* Cluster chains under concurrent expansion.  Files do not share          *)
(* clusters, and what a chain runs through is marked in the bitmap; the    *)
(* cache of a chain tells what the FAT says; get_lba answers with the      *)
(* cluster at the index that was asked for, unless a file without a chain  *)
(* ends before it; an allocation fails only when the volume is full.  For  *)
(* any number of files, clusters and lines, any layout of the volume,      *)
(* whatever indices are asked for and whichever reads fail, those after    *)
(* which a write goes on into expand included.                             *)
(***************************************************************************)
THEOREM ChainsStaySound == StorageSpec => []ChainsSound
  <1>1. ChainInv => ChainsSound
    <2> SUFFICES ASSUME ChainInv PROVE ChainsSound
      OBVIOUS
    <2>1. PICK n, c : ChainState(n, c)
      BY DEF ChainInv, ChainState
    <2>2. C!FullMeansFull
      BY FullShown DEF ChainInv
    <2> QED
      BY <2>1, <2>2, DisjointShown, CacheShown, AnswerShown DEF ChainsSound
  <1>2. StorageSpec => []ChainInv
    BY ChainsAlways
  <1> QED
    BY <1>1, <1>2, PTL

(***************************************************************************)
(* Workers that expand chains block each other for good in one way only:   *)
(* the owner of bmp_lock waits for a sector of the FAT whose slot is kept  *)
(* by a worker that waits for bmp_lock.  Where nobody can go on otherwise, *)
(* somebody waits for a page in a slot that a failed dm.get left locked.   *)
(***************************************************************************)
THEOREM WorkersBlockAtFatOnly == StorageSpec => []C!OnlyFatDeadlock
  <1>1. ChainInv => C!OnlyFatDeadlock
    <2> SUFFICES ASSUME ChainInv, C!Busy # {}, \A f \in C!Busy : C!Blocked(f),
                        ~ \E f \in C!Busy, s \in stuck : C!Needs(f, s)
                 PROVE  \E f, g \in C!Busy :
                          /\ bmp_lock = f /\ w[g].pc = "lock"
                          /\ w[g].sector # C!NoSector /\ C!Needs(f, w[g].sector)
      BY DEF C!OnlyFatDeadlock
    <2>1. PICK n, c : ChainState(n, c)
      BY DEF ChainInv, ChainState
    <2>2. ASSUME NEW f \in C!Busy
          PROVE  \/ \E g \in Files : w[g].sector # C!NoSector /\ C!Needs(f, w[g].sector)
                 \/ w[f].pc = "lock" /\ bmp_lock # 0
      BY ClusterFacts DEF C!Blocked
    <2>3. ASSUME NEW f \in Files, NEW g \in Files, w[g].sector # C!NoSector,
                 C!Needs(f, w[g].sector)
          PROVE  C!UsesFat(f) /\ w[f].sector = C!NoSector
      <3>1. w[g] \in WorkerRec
        BY <2>1, WorkerNow
      <3>2. w[g].sector \in Nat \cup {-1}
        BY <3>1, WorkerFields
      <3>3. w[g].sector # C!Bitmap
        BY <3>2 DEF C!Bitmap
      <3> QED
        BY <2>3, <3>3 DEF C!Needs
    <2>4. ASSUME NEW g \in Files, w[g].sector # C!NoSector
          PROVE  g \in C!Busy /\ w[g].pc = "lock" /\ bmp_lock # 0
      <3>1. WorkFine(n, c, g, w[g])
        BY <2>1, WorkerNow
      <3>2. w[g].pc # "idle"
        BY <3>1, <2>4 DEF WorkFine, Growing
      <3>3. g \in C!Busy
        BY <3>2 DEF C!Busy
      <3> QED
        BY <2>2, <2>3, <2>4, <3>3
    <2>5. bmp_lock # 0
      <3>1. PICK f \in C!Busy : TRUE
        OBVIOUS
      <3> QED
        BY <2>2, <2>4
    <2>6. PICK h : h = bmp_lock
      OBVIOUS
    <2>7. h \in Files /\ w[h].pc \in {"alloc", "put", "link"}
      BY <2>5, <2>6 DEF ChainInv, BitmapOwned
    <2>8. h \in C!Busy
      BY <2>7 DEF C!Busy
    <2>9. PICK g \in Files : w[g].sector # C!NoSector /\ C!Needs(h, w[g].sector)
      BY <2>2, <2>7, <2>8
    <2> QED
      BY <2>4, <2>6, <2>8, <2>9
  <1>2. StorageSpec => []ChainInv
    BY ChainsAlways
  <1> QED
    BY <1>1, <1>2, PTL
=============================================================================
