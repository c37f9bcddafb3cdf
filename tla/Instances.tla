------------------------------ MODULE Instances ------------------------------
(***************************************************************************)
(* The tree of file_instance and folder_instance objects of                *)
(* kernel/filesystem/instance.cpp, as file::open, imp_open, get_path and   *)
(* relax of file.cpp and the workers use it.                               *)
(*                                                                         *)
(* An instance counts its references; it exists while a file object, a     *)
(* thread on its way along a path, or an instance in its file_table        *)
(* refers to it.  Each has an rwlock.  An opener locks a folder and then   *)
(* the instance it finds in it; a writer, a reader of the path and the end *)
(* of an instance lock the instance and then its folder.                   *)
(*                                                                         *)
(* A node stands for its instance: there is never a second one.  The       *)
(* search of a record on the disk is in FolderRecords.                     *)
(***************************************************************************)
EXTENDS StorageConstants

VARIABLES
  live,     \* nodes that have an instance
  table,    \* those that are in the file_table of their folder
  ref,      \* ref_count
  xlock,    \* per node, the thread that holds its lock EXCLUSIVE, or Nil
  slock,    \* per node, the threads that hold it SHARED
  files,    \* per node, its file objects (and work directories)
  th        \* per thread: what it does

vars == <<live, table, ref, xlock, slock, files, th>>

(***************************************************************************)
(* th[t]: where the thread is (at); the rest of the path and the kinds of  *)
(* node that are allowed; the folder it has reached (cur) and the one it   *)
(* goes to (next); the instance that it relaxes (end) and what follows     *)
(* (then).                                                                 *)
(***************************************************************************)
Idle == [at |-> "idle", path |-> <<>>, mode |-> {}, cur |-> Nil, next |-> Nil,
         end |-> Nil, then |-> "idle"]

Init ==
  /\ live = {Root} /\ table = {}
  /\ ref = [n \in Node |-> IF n = Root THEN 1 ELSE 0]
  /\ xlock = [n \in Node |-> Nil]
  /\ slock = [n \in Node |-> {}]
  /\ files = [n \in Node |-> 0]
  /\ th = [t \in Openers |-> Idle]

CanX(n) == xlock[n] = Nil /\ slock[n] = {}
CanS(n) == xlock[n] = Nil

(***************************************************************************)
(* file::open and imp_open                                                 *)
(***************************************************************************)
\* the way begins at the root or at the work directory, which is acquired
Open(t, n, path, mode) ==
  /\ th[t].at = "idle"
  /\ n = Root \/ (files[n] > 0 /\ n \in Folder)
  /\ CanX(n)
  /\ ref' = [ref EXCEPT ![n] = @ + 1]
  /\ th' = [th EXCEPT ![t] = [Idle EXCEPT !.at = "name", !.path = path, !.mode = mode, !.cur = n]]
  /\ UNCHANGED <<live, table, xlock, slock, files>>

\* the instance is relaxed, and the thread goes on
Relaxing(t, n, then) == [th EXCEPT ![t].at = "relax", ![t].end = n, ![t].then = then]

\* nothing is left of the path: a folder, if that is allowed
EndOfPath(t) ==
  /\ th[t].at = "name" /\ th[t].path = <<>>
  /\ IF "folder" \in th[t].mode
     THEN files' = [files EXCEPT ![th[t].cur] = @ + 1] /\ th' = [th EXCEPT ![t] = Idle]
     ELSE th' = Relaxing(t, th[t].cur, "idle") /\ UNCHANGED files
  /\ UNCHANGED <<live, table, ref, xlock, slock>>

\* "." is the folder itself
ThisFolder(t) ==
  /\ th[t].at = "name" /\ th[t].path # <<>> /\ Head(th[t].path) = Dot
  /\ th' = [th EXCEPT ![t].at = "step", ![t].next = th[t].cur]
  /\ UNCHANGED <<live, table, ref, xlock, slock, files>>

\* ".." is read from the instance under its lock; the root has none
ParentFolder(t) ==
  /\ th[t].at = "name" /\ th[t].path # <<>> /\ Head(th[t].path) = Up
  /\ CanS(th[t].cur)
  /\ th' = IF Parent[th[t].cur] = Nil THEN Relaxing(t, th[t].cur, "idle")
           ELSE [th EXCEPT ![t].at = "acquire", ![t].next = Parent[th[t].cur]]
  /\ UNCHANGED <<live, table, ref, xlock, slock, files>>

\* file_instance::acquire of the folder above
AcquireParent(t) ==
  /\ th[t].at = "acquire" /\ CanX(th[t].next)
  /\ ref' = [ref EXCEPT ![th[t].next] = @ + 1]
  /\ th' = [th EXCEPT ![t].at = "step"]
  /\ UNCHANGED <<live, table, xlock, slock, files>>

\* folder_instance::open locks the folder ...
LockFolder(t) ==
  /\ th[t].at = "name" /\ th[t].path # <<>> /\ Head(th[t].path) \in Node
  /\ CanX(th[t].cur)
  /\ xlock' = [xlock EXCEPT ![th[t].cur] = t]
  /\ th' = [th EXCEPT ![t].at = "look"]
  /\ UNCHANGED <<live, table, ref, slock, files>>

Wanted(t) == Head(th[t].path)
InTable(t) == Wanted(t) \in table /\ Parent[Wanted(t)] = th[t].cur
Allowed(t) == (IF Wanted(t) \in Folder THEN "folder" ELSE "file")
                \in (IF Len(th[t].path) = 1 THEN th[t].mode ELSE {"folder"})

\* ... acquires the instance that is in file_table, under its lock ...
OpenTable(t) ==
  /\ th[t].at = "look" /\ InTable(t)
  /\ IF Allowed(t)
     THEN /\ CanX(Wanted(t))
          /\ ref' = [ref EXCEPT ![Wanted(t)] = @ + 1]
          /\ th' = [th EXCEPT ![t].at = "step", ![t].next = Wanted(t)]
     ELSE /\ th' = Relaxing(t, th[t].cur, "idle")
          /\ UNCHANGED ref
  /\ xlock' = [xlock EXCEPT ![th[t].cur] = Nil]
  /\ UNCHANGED <<live, table, slock, files>>

\* Faulty: the new instance does not count as a reference to its folder.
OpenRecordUncounted(t) ==
  /\ th[t].at = "look" /\ Wanted(t) \notin table
  /\ Parent[Wanted(t)] = th[t].cur /\ Allowed(t)
  /\ live' = live \cup {Wanted(t)} /\ table' = table \cup {Wanted(t)}
  /\ ref' = [ref EXCEPT ![Wanted(t)] = 1]
  /\ th' = [th EXCEPT ![t].at = "step", ![t].next = Wanted(t)]
  /\ xlock' = [xlock EXCEPT ![th[t].cur] = Nil]
  /\ UNCHANGED <<slock, files>>

\* ... or makes one from the record that it finds ...
OpenRecord(t) ==
  /\ th[t].at = "look" /\ Wanted(t) \notin table
  /\ Parent[Wanted(t)] = th[t].cur /\ Allowed(t)
  /\ live' = live \cup {Wanted(t)} /\ table' = table \cup {Wanted(t)}
  /\ ref' = [ref EXCEPT ![Wanted(t)] = 1, ![th[t].cur] = @ + 1]
  /\ th' = [th EXCEPT ![t].at = "step", ![t].next = Wanted(t)]
  /\ xlock' = [xlock EXCEPT ![th[t].cur] = Nil]
  /\ UNCHANGED <<slock, files>>

\* ... or finds none, or cannot read it
OpenFails(t) ==
  /\ th[t].at = "look" /\ ~InTable(t)
  /\ th' = Relaxing(t, th[t].cur, "idle")
  /\ xlock' = [xlock EXCEPT ![th[t].cur] = Nil]
  /\ UNCHANGED <<live, table, ref, slock, files>>

\* the last name gives the result, another one the next folder, which is
\* locked SHARED while the one before is relaxed
Step(t) ==
  /\ th[t].at = "step"
  /\ LET n == th[t].next
         rest == Tail(th[t].path)
     IN IF rest = <<>>
        THEN th' = Relaxing(t, th[t].cur, "opened") /\ UNCHANGED slock
        ELSE IF n = th[t].cur
        THEN th' = [th EXCEPT ![t].at = "name", ![t].path = rest, ![t].next = Nil]
             /\ UNCHANGED slock
        ELSE /\ CanS(n)
             /\ slock' = [slock EXCEPT ![n] = @ \cup {t}]
             /\ th' = Relaxing(t, th[t].cur, "forward")
  /\ UNCHANGED <<live, table, ref, xlock, files>>

\* file_instance::relax: the last reference ends the instance, which keeps
\* its lock
Relax(t) ==
  /\ th[t].at = "relax" /\ CanX(th[t].end)
  /\ ref' = [ref EXCEPT ![th[t].end] = @ - 1]
  /\ IF ref[th[t].end] > 1
     THEN th' = [th EXCEPT ![t].at = th[t].then, ![t].end = Nil] /\ UNCHANGED xlock
     ELSE /\ xlock' = [xlock EXCEPT ![th[t].end] = t]
          /\ th' = [th EXCEPT ![t].at = "close"]
  /\ UNCHANGED <<live, table, slock, files>>

\* Faulty: folder_instance::close does not take the instance out of the table.
CloseKeepsEntry(t) ==
  /\ th[t].at = "close" /\ Parent[th[t].end] # Nil /\ CanX(Parent[th[t].end])
  /\ LET n == th[t].end
         p == Parent[n]
     IN /\ live' = live \ {n} /\ UNCHANGED table
        /\ ref' = [ref EXCEPT ![p] = @ - 1]
        /\ IF ref[p] > 1
           THEN /\ xlock' = [xlock EXCEPT ![n] = Nil]
                /\ th' = [th EXCEPT ![t].at = th[t].then, ![t].end = Nil]
           ELSE /\ xlock' = [xlock EXCEPT ![n] = Nil, ![p] = t]
                /\ th' = [th EXCEPT ![t].end = p]
  /\ UNCHANGED <<slock, files>>

\* ~file_instance: folder_instance::close takes it out of its folder, whose
\* last reference it may have been
CloseInstance(t) ==
  /\ th[t].at = "close" /\ Parent[th[t].end] # Nil /\ CanX(Parent[th[t].end])
  /\ LET n == th[t].end
         p == Parent[n]
     IN /\ live' = live \ {n} /\ table' = table \ {n}
        /\ ref' = [ref EXCEPT ![p] = @ - 1]
        /\ IF ref[p] > 1
           THEN /\ xlock' = [xlock EXCEPT ![n] = Nil]
                /\ th' = [th EXCEPT ![t].at = th[t].then, ![t].end = Nil]
           ELSE /\ xlock' = [xlock EXCEPT ![n] = Nil, ![p] = t]
                /\ th' = [th EXCEPT ![t].end = p]
  /\ UNCHANGED <<slock, files>>

\* imp_open goes on in the next folder
Forward(t) ==
  /\ th[t].at = "forward"
  /\ slock' = [slock EXCEPT ![th[t].next] = @ \ {t}]
  /\ th' = [th EXCEPT ![t].at = "name", ![t].path = Tail(@), ![t].cur = th[t].next, ![t].next = Nil]
  /\ UNCHANGED <<live, table, ref, xlock, files>>

\* file::open makes a file object of the instance
Opened(t) ==
  /\ th[t].at = "opened"
  /\ files' = [files EXCEPT ![th[t].next] = @ + 1]
  /\ th' = [th EXCEPT ![t] = Idle]
  /\ UNCHANGED <<live, table, ref, xlock, slock>>

\* a failed open, and the end of a file object
Back(t) ==
  /\ th[t].at = "idle" /\ th[t] # Idle
  /\ th' = [th EXCEPT ![t] = Idle]
  /\ UNCHANGED <<live, table, ref, xlock, slock, files>>

(***************************************************************************)
(* Operations on a file object                                             *)
(***************************************************************************)
\* file::~file
CloseFile(t, n) ==
  /\ th[t] = Idle /\ files[n] > 0
  /\ files' = [files EXCEPT ![n] = @ - 1]
  /\ th' = Relaxing(t, n, "idle")
  /\ UNCHANGED <<live, table, ref, xlock, slock>>

\* file::duplicate
Duplicate(t, n) ==
  /\ th[t] = Idle /\ files[n] > 0 /\ CanX(n)
  /\ files' = [files EXCEPT ![n] = @ + 1]
  /\ ref' = [ref EXCEPT ![n] = @ + 1]
  /\ UNCHANGED <<live, table, xlock, slock, th>>

\* worker_write locks the instance; set_size and update_chain its folder
Write(t, n) ==
  /\ th[t] = Idle /\ files[n] > 0 /\ n \notin Folder /\ CanX(n)
  /\ xlock' = [xlock EXCEPT ![n] = t]
  /\ th' = [th EXCEPT ![t] = [Idle EXCEPT !.at = "update", !.cur = n]]
  /\ UNCHANGED <<live, table, ref, slock, files>>

Update(t) ==
  /\ th[t].at = "update" /\ CanX(Parent[th[t].cur])
  /\ xlock' = [xlock EXCEPT ![th[t].cur] = Nil]
  /\ th' = [th EXCEPT ![t] = Idle]
  /\ UNCHANGED <<live, table, ref, slock, files>>

\* get_path locks the instance and all the folders above it, one by one
GetPath(t, n) ==
  /\ th[t] = Idle /\ files[n] > 0 /\ CanS(n)
  /\ slock' = [slock EXCEPT ![n] = @ \cup {t}]
  /\ th' = [th EXCEPT ![t] = [Idle EXCEPT !.at = "path", !.cur = n]]
  /\ UNCHANGED <<live, table, ref, xlock, files>>

PathUp(t) ==
  /\ th[t].at = "path"
  /\ IF Parent[th[t].cur] = Nil
     THEN slock' = [n \in Node |-> slock[n] \ {t}] /\ th' = [th EXCEPT ![t] = Idle]
     ELSE /\ CanS(Parent[th[t].cur])
          /\ slock' = [slock EXCEPT ![Parent[th[t].cur]] = @ \cup {t}]
          /\ th' = [th EXCEPT ![t].cur = Parent[@]]
  /\ UNCHANGED <<live, table, ref, xlock, files>>

Go(t) == \/ EndOfPath(t) \/ ThisFolder(t) \/ ParentFolder(t) \/ AcquireParent(t) \/ LockFolder(t)
         \/ OpenTable(t) \/ OpenRecord(t) \/ OpenFails(t) \/ Step(t) \/ Relax(t)
         \/ CloseInstance(t) \/ Forward(t) \/ Opened(t) \/ Back(t) \/ Update(t) \/ PathUp(t)

Next ==
  \/ \E t \in Openers : Go(t)
  \/ \E t \in Openers, n \in Node :
       \/ files[n] < MaxOpen /\ Duplicate(t, n)
       \/ CloseFile(t, n) \/ Write(t, n) \/ GetPath(t, n)
       \/ \E p \in Paths, m \in {{"file"}, {"folder"}, {"file", "folder"}} :
            (\A k \in Node : files[k] < MaxOpen) /\ th[t] = Idle /\ Open(t, n, p, m)

Spec == Init /\ [][Next]_vars

(***************************************************************************)
(* Properties                                                              *)
(***************************************************************************)
\* the references of threads on their way
OnTheWay(t) ==
  CASE th[t].at \in {"name", "look", "acquire"} -> <<th[t].cur>>
    [] th[t].at = "step" -> IF th[t].next = th[t].cur THEN <<th[t].cur>> ELSE <<th[t].cur, th[t].next>>
    [] th[t].at = "relax" -> IF th[t].then \in {"forward", "opened"}
                             THEN <<th[t].end, th[t].next>> ELSE <<th[t].end>>
    [] th[t].at = "close" -> IF th[t].then \in {"forward", "opened"} THEN <<th[t].next>> ELSE <<>>
    [] th[t].at \in {"forward", "opened"} -> <<th[t].next>>
    [] OTHER -> <<>>

(* ref_count is the number of file objects, of instances in file_table and *)
(* of threads that refer to the instance; an instance in the table, and    *)
(* one that a thread is at, exists; a folder outlives what it holds.       *)
(* Threads that open, close, write and walk along ".." at the same time    *)
(* never use an instance that another one has deleted.                     *)
TreeSound ==
  /\ table \subseteq live /\ live \ table = {Root}
  /\ \A n \in live \ {Root} : Parent[n] \in live
  /\ \A n \in Node : files[n] > 0 => n \in live
  /\ \A t \in Openers, k \in 1..2 : k \in DOMAIN OnTheWay(t) => OnTheWay(t)[k] \in live
  /\ \A n \in live :
       ref[n] = files[n] + Cardinality({m \in table : Parent[m] = n})
                + Cardinality({at \in Openers \X {1, 2} :
                                 /\ at[2] \in DOMAIN OnTheWay(at[1])
                                 /\ OnTheWay(at[1])[at[2]] = n})
                + (IF n = Root THEN 1 ELSE 0)

(* relax never finds an instance without references: the assertion at its  *)
(* beginning, once it has the lock.                                        *)
RelaxFindsReference ==
  \A t \in Openers : th[t].at = "relax" /\ CanX(th[t].end) => ref[th[t].end] > 0

\* the instance whose lock the thread waits for
WaitsFor(t) ==
  CASE th[t].at = "look" /\ InTable(t) /\ Allowed(t) /\ ~CanX(Wanted(t)) -> Wanted(t)
    [] th[t].at = "name" /\ th[t].path # <<>> /\ Head(th[t].path) \in Node /\ ~CanX(th[t].cur) -> th[t].cur
    [] th[t].at = "name" /\ th[t].path # <<>> /\ Head(th[t].path) = Up /\ ~CanS(th[t].cur) -> th[t].cur
    [] th[t].at = "acquire" /\ ~CanX(th[t].next) -> th[t].next
    [] th[t].at = "step" /\ Tail(th[t].path) # <<>> /\ th[t].next # th[t].cur /\ ~CanS(th[t].next) -> th[t].next
    [] th[t].at = "relax" /\ ~CanX(th[t].end) -> th[t].end
    [] th[t].at = "close" /\ ~CanX(Parent[th[t].end]) -> Parent[th[t].end]
    [] th[t].at = "update" /\ ~CanX(Parent[th[t].cur]) -> Parent[th[t].cur]
    [] th[t].at = "path" /\ Parent[th[t].cur] # Nil /\ ~CanS(Parent[th[t].cur]) -> Parent[th[t].cur]
    [] OTHER -> Nil
Holds(t, n) == xlock[n] = t \/ t \in slock[n]

(* Threads that wait for each other's locks for good do so across one step *)
(* of the tree: one holds a folder and waits for an instance in it, the    *)
(* other holds this instance and waits for the folder; or a thread that    *)
(* has passed ".." closes the folder it came from into the one that it     *)
(* holds SHARED itself.                                                    *)
OnlyUpDownDeadlock ==
  LET busy == {t \in Openers : th[t] # Idle}
  IN (busy # {} /\ \A t \in busy : WaitsFor(t) # Nil) =>
       \/ \E t, u \in busy : /\ Parent[WaitsFor(t)] = WaitsFor(u)
                             /\ Holds(u, WaitsFor(t)) /\ Holds(t, WaitsFor(u))
       \/ \E t \in busy : /\ th[t].at = "close" /\ th[t].then = "forward"
                          /\ Holds(t, WaitsFor(t))
=============================================================================
