------------------------------ MODULE DiskCache ------------------------------
(***************************************************************************)
(* kernel/dev/disk_interface.cpp: the write back cache of disk sectors.    *)
(* get() looks for the page without a lock, locks the slot that seems to   *)
(* have it and looks again, or takes over another slot; the caller works   *)
(* on a locked slot and gives it back with relax().                        *)
(* Slots are written back when they are taken over, by relax(flush), and   *)
(* by a thread that runs every four seconds.                               *)
(*                                                                         *)
(* The lock of a slot is only taken EXCLUSIVE.  A disk operation takes     *)
(* time: while a slot is reloaded others see that it is not valid.  The    *)
(* timestamps are left out: any slot that nobody has may be the oldest.    *)
(* What a slot held before it was taken over is shown as zero, nobody can  *)
(* read it.  A failing disk operation leaves the slot locked, since get()  *)
(* returns nullptr without unlocking.  What is written into a sector tells *)
(* the sector and its page, so that contents that get mixed up would show. *)
(***************************************************************************)
EXTENDS StorageConstants

VARIABLES
  disk,    \* the sectors on the disk
  slot,    \* per slot: lba, valid, dirty, data, locked
  pc,      \* per client, where it is: "idle", "scan", "lock", "take",
           \* "wait", "io" (reading the page in), "use"
  req,     \* per client: the page, the sectors, whether get(write), the
           \* index of the scan, the target, and the slot it has
  faults, calls, halt,
  written, \* ghost: what a client that reads after all writes should see
  twice    \* ghost: the sectors, as <<page, sector>>, that have not been
           \* written since their page was in two slots

vars == <<disk, slot, pc, req, faults, calls, halt, written, twice>>

Slot == 1..Slots
Sector == 1..Sectors
NoReq == [page |-> NULL, sectors |-> {}, write |-> FALSE, index |-> 1,
          target |-> 0, has |-> 0]

\* what a sector may hold: zero, or a value written into this sector
Zero == << >>
OwnOf(p, s) == {Zero} \cup {<<p, s, v>> : v \in Values}
Blanked == [s \in Sector |-> Zero]

Init ==
  /\ disk = [p \in DiskPages |-> Blanked]
  /\ slot = [i \in Slot |-> [lba |-> NULL, valid |-> {}, dirty |-> {},
                             data |-> Blanked, locked |-> FALSE]]
  /\ pc = [c \in Clients |-> "idle"]
  /\ req = [c \in Clients |-> NoReq]
  /\ faults = 0 /\ calls = 0 /\ halt = FALSE
  /\ written = disk /\ twice = {}

match(i, p) == slot[i].valid # {} /\ slot[i].lba = p

Goto(c, where) == pc' = [pc EXCEPT ![c] = where]

\* the sectors of the pages that two slots hold
Doubled(sl) ==
  {p \in DiskPages : \E i, j \in Slot :
     /\ i # j /\ sl[i].lba = p /\ sl[j].lba = p
     /\ sl[i].valid # {} /\ sl[j].valid # {}} \X Sector

\* the slots change, and the sectors in fresh are written
Rewrite(sl, fresh) == slot' = sl /\ twice' = (twice \ fresh) \cup Doubled(sl)
SetSlots(sl) == Rewrite(sl, {})

\* the disk after the dirty sectors of slot i were written
Flushed(i) ==
  IF slot[i].dirty = {} THEN disk
  ELSE [disk EXCEPT ![slot[i].lba] =
          [s \in Sector |-> IF s \in slot[i].dirty THEN slot[i].data[s] ELSE @[s]]]

\* get() is called for some sectors of a page
Get(c, p, sectors, write) ==
  /\ ~halt /\ pc[c] = "idle" /\ calls < MaxCalls
  /\ req' = [req EXCEPT ![c] = [NoReq EXCEPT !.page = p, !.sectors = sectors,
                                             !.write = write]]
  /\ Goto(c, "scan") /\ calls' = calls + 1
  /\ UNCHANGED <<disk, slot, faults, halt, written, twice>>

\* one round of the loop over the slots: a match is locked, otherwise the
\* slot is a candidate if nobody has it
Candidates(c, i) ==
  (IF slot[i].locked THEN {} ELSE {i})
    \cup (IF slot[i].locked \/ req[c].target # 0 THEN {req[c].target} ELSE {})

Scan(c) ==
  LET i == req[c].index IN
  /\ ~halt /\ pc[c] = "scan"
  /\ IF i > Slots THEN Goto(c, "take") /\ UNCHANGED req
     ELSE IF match(i, req[c].page) THEN Goto(c, "lock") /\ UNCHANGED req
     ELSE /\ \E t \in Candidates(c, i) :
            req' = [req EXCEPT ![c].index = @ + 1, ![c].target = t]
          /\ UNCHANGED pc
  /\ UNCHANGED <<disk, slot, faults, calls, halt, written, twice>>

\* Faulty: the sectors that were dirty are forgotten when a slot changes hands.
storeDropsDirty(c, i) ==
  LET p == req[c].page
      moved == slot[i].lba # p
      dirty == (IF moved THEN {} ELSE slot[i].dirty) \cup req[c].sectors
      valid == (IF moved THEN {} ELSE slot[i].valid) \cup dirty
  IN /\ SetSlots([slot EXCEPT ![i].locked = TRUE, ![i].lba = p, ![i].dirty = dirty,
          ![i].valid = valid,
          ![i].data = [s \in Sector |->
                         IF s \in req[c].sectors \/ moved THEN Zero ELSE @[s]]])
     /\ Goto(c, "use")
     /\ UNCHANGED <<disk, halt>>

\* slot::store: the old page is flushed, the sectors are zeroed and dirty
store(c, i) ==
  LET p == req[c].page
      moved == slot[i].lba # p
      dirty == (IF moved THEN {} ELSE slot[i].dirty) \cup req[c].sectors
      valid == (IF moved THEN {} ELSE slot[i].valid) \cup dirty
  IN /\ disk' = IF moved THEN Flushed(i) ELSE disk
     /\ SetSlots([slot EXCEPT ![i].locked = TRUE, ![i].lba = p, ![i].dirty = dirty,
          ![i].valid = valid,
          ![i].data = [s \in Sector |->
                         IF s \in req[c].sectors \/ moved THEN Zero ELSE @[s]]])
     /\ Goto(c, "use")
     /\ UNCHANGED halt

\* slot::reload up to the read command: the page is flushed and not valid
reload(c, i) ==
  /\ disk' = Flushed(i)
  /\ SetSlots([slot EXCEPT ![i].lba = req[c].page, ![i].dirty = {}, ![i].valid = {},
                           ![i].data = Blanked, ![i].locked = TRUE])
  /\ Goto(c, "io")
  /\ UNCHANGED <<halt>>

\* Faulty: what is valid in the slot counts as the whole page.
loadPartial(c, i) ==
  /\ SetSlots([slot EXCEPT ![i].locked = TRUE]) /\ Goto(c, "use")
  /\ UNCHANGED <<disk, halt>>

\* slot::load: a page that is partly valid is expected to be dirty
load(c, i) ==
  IF slot[i].valid = Sector
  THEN /\ SetSlots([slot EXCEPT ![i].locked = TRUE]) /\ Goto(c, "use")
       /\ UNCHANGED <<disk, halt>>
  ELSE IF slot[i].dirty = {}
  THEN halt' = TRUE /\ UNCHANGED <<disk, slot, pc, twice>>
  ELSE reload(c, i)

\* the slot that matched is locked and looked at again
Lock(c) ==
  LET i == req[c].index IN
  /\ ~halt /\ pc[c] = "lock"
  /\ ~slot[i].locked
  /\ IF match(i, req[c].page)
     THEN /\ req' = [req EXCEPT ![c].has = i]
          /\ IF req[c].write THEN store(c, i) ELSE load(c, i)
     ELSE /\ \E t \in Candidates(c, i) :
            req' = [req EXCEPT ![c].index = @ + 1, ![c].target = t]
          /\ Goto(c, "scan")
          /\ UNCHANGED <<disk, slot, halt, twice>>
  /\ UNCHANGED <<faults, calls, written>>

\* no slot has the page: the target is taken over, or the client waits
Take(c) ==
  LET t == req[c].target IN
  /\ ~halt /\ pc[c] = "take"
  /\ IF t # 0 /\ ~slot[t].locked
     THEN /\ req' = [req EXCEPT ![c].has = t]
          /\ IF req[c].write THEN store(c, t) ELSE reload(c, t)
     ELSE /\ Goto(c, "wait") /\ UNCHANGED <<req, disk, slot, halt, twice>>
  /\ UNCHANGED <<faults, calls, written>>

\* sleep(0), or a signal of slot_guard: the scan begins again
Again(c) ==
  /\ ~halt /\ pc[c] = "wait"
  /\ req' = [req EXCEPT ![c].index = 1, ![c].target = 0]
  /\ Goto(c, "scan")
  /\ UNCHANGED <<disk, slot, faults, calls, halt, written, twice>>

\* the page has been read
ReadIn(c) ==
  LET i == req[c].has IN
  /\ ~halt /\ pc[c] = "io"
  /\ SetSlots([slot EXCEPT ![i].locked = TRUE, ![i].valid = Sector,
                                   ![i].data = disk[req[c].page]])
  /\ Goto(c, "use")
  /\ UNCHANGED <<disk, req, faults, calls, halt, written>>

\* the read fails: get() returns nullptr and the slot stays locked
ReadFails(c) ==
  /\ ~halt /\ pc[c] = "io" /\ faults < MaxFaults
  /\ faults' = faults + 1
  /\ Goto(c, "idle") /\ req' = [req EXCEPT ![c] = NoReq]
  /\ UNCHANGED <<disk, slot, calls, halt, written, twice>>

\* the dirty sectors of the slot to take over or to reload cannot be written:
\* the same
WriteFails(c) ==
  LET i == IF pc[c] = "take" THEN req[c].target ELSE req[c].index IN
  /\ ~halt /\ faults < MaxFaults
  /\ \/ pc[c] = "take" /\ i # 0
     \/ pc[c] = "lock" /\ match(i, req[c].page) /\ ~req[c].write
                       /\ slot[i].valid # Sector
  /\ ~slot[i].locked /\ slot[i].dirty # {}
  /\ faults' = faults + 1
  /\ SetSlots([slot EXCEPT ![i].locked = TRUE])
  /\ Goto(c, "idle") /\ req' = [req EXCEPT ![c] = NoReq]
  /\ UNCHANGED <<disk, calls, halt, written>>

\* The caller fills the sectors.  After get(write) they are dirty; a page that
\* was read in is changed after upgrade(), which makes them dirty.
Fill(c, v) ==
  LET i == req[c].has
      p == req[c].page
      into(old) == [s \in Sector |->
                      IF s \in req[c].sectors THEN <<p, s, v>> ELSE old[s]] IN
  /\ ~halt /\ pc[c] = "use"
  /\ Rewrite([slot EXCEPT ![i].dirty = @ \cup req[c].sectors,
                          ![i].data = into(@)], {p} \X req[c].sectors)
  /\ written' = [written EXCEPT ![p] = into(@)]
  /\ halt' = ~(req[c].sectors \subseteq slot[i].valid)
  /\ req' = [req EXCEPT ![c].write = FALSE]
  /\ UNCHANGED <<disk, pc, faults, calls>>

\* relax(), with or without a flush; a slot of get(write) has been filled
Relax(c, flush) ==
  LET i == req[c].has IN
  /\ ~halt /\ pc[c] = "use" /\ ~req[c].write
  /\ disk' = IF flush THEN Flushed(i) ELSE disk
  /\ SetSlots([slot EXCEPT ![i].locked = FALSE,
                           ![i].dirty = IF flush THEN {} ELSE @])
  /\ Goto(c, "idle") /\ req' = [req EXCEPT ![c] = NoReq]
  /\ UNCHANGED <<faults, calls, halt, written>>

\* thread_flush: a slot that nobody has is written back
FlushSlot(i) ==
  /\ ~halt /\ ~slot[i].locked /\ slot[i].dirty # {}
  /\ disk' = Flushed(i)
  /\ SetSlots([slot EXCEPT ![i].dirty = {}])
  /\ UNCHANGED <<pc, req, faults, calls, halt, written>>

\* the sectors that are asked for: a part of a page or the whole page
Runs == {{s \in Sector : s <= b} : b \in Sector}

Next ==
  \/ \E c \in Clients :
       \/ \E p \in DiskPages, r \in Runs, w \in BOOLEAN : Get(c, p, r, w)
       \/ Scan(c) \/ Lock(c) \/ Take(c) \/ Again(c) \/ ReadIn(c) \/ ReadFails(c)
       \/ WriteFails(c)
       \/ \E v \in Values : Fill(c, v)
       \/ \E flush \in BOOLEAN : Relax(c, flush)
  \/ \E i \in Slot : FlushSlot(i)

Spec == Init /\ [][Next]_vars

(***************************************************************************)
(* Properties                                                              *)
(***************************************************************************)
\* what a reader of sector s of page p finds
Visible(p, s) ==
  IF \E i \in Slot : slot[i].lba = p /\ s \in slot[i].valid
  THEN slot[CHOOSE i \in Slot : slot[i].lba = p /\ s \in slot[i].valid].data[s]
  ELSE disk[p][s]

\* a sector that get(write) has zeroed and its caller has not filled yet
Pending(p, s) == \E c \in Clients : /\ pc[c] = "use" /\ req[c].write
                                    /\ req[c].page = p /\ s \in req[c].sectors

(* The cache is transparent: a reader finds what was written last,         *)
(* whatever was evicted, flushed, reloaded or failed in between.  Only two *)
(* misses at once, which bring one page into two slots, can undo a write,  *)
(* and that ends for a sector with the next write to it after the page is  *)
(* back in one slot.                                                       *)
VisibleIsWritten ==
  \A p \in DiskPages, s \in Sector :
    <<p, s>> \in twice \/ Pending(p, s) \/ Visible(p, s) = written[p][s]

(* Whatever happens, pages in two slots included, a sector in the cache or *)
(* on the disk is zero or holds what was once written into this sector:    *)
(* nothing comes from another page, from another sector or from a slot     *)
(* that changed hands.                                                     *)
ContentsAreOwn ==
  /\ \A p \in DiskPages, s \in Sector : disk[p][s] \in OwnOf(p, s)
  /\ \A i \in Slot : \A s \in slot[i].valid :
       slot[i].data[s] \in OwnOf(slot[i].lba, s)

(* A client works on the page that it asked for, in a slot that no other   *)
(* client has, with the sectors it asked for valid.                        *)
SlotIsOwned ==
  \A c \in Clients : pc[c] = "use" =>
    LET i == req[c].has IN
    /\ slot[i].locked /\ slot[i].lba = req[c].page
    /\ req[c].sectors \subseteq slot[i].valid
    /\ \A d \in Clients \ {c} : pc[d] \in {"use", "io"} => req[d].has # i

(* slot::load asserts that a page that is partly valid is dirty: "non-0xFF *)
(* page must come from previous writes".  The assertion fails, but only    *)
(* where a reader meets such a page after it was written back, and then    *)
(* nothing is lost: the disk has what the slot has.  No other assertion of *)
(* the cache fails.                                                        *)
StopIsKnown ==
  halt => \E c \in Clients :
    LET i == req[c].index IN
    /\ pc[c] = "lock" /\ ~req[c].write /\ match(i, req[c].page)
    /\ slot[i].valid # Sector /\ ~slot[i].locked
    /\ \A s \in slot[i].valid : \/ <<slot[i].lba, s>> \in twice
                               \/ slot[i].data[s] = disk[slot[i].lba][s]
=============================================================================
