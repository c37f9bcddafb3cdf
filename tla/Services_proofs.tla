-------------------------- MODULE Services_proofs --------------------------
(***************************************************************************)
(* Why service calls do not wait for each other in a circle, and why what  *)
(* get() returned exists as long as it is used, for any number of threads  *)
(* and objects: NobodyInCircle and NothingIsLost, from the inductive       *)
(* invariant IInv.                                                         *)
(*                                                                         *)
(* A call is a script of steps. Good(s, h) says which scripts s may be     *)
(* left to a thread that holds the locks h: it never wants the handle      *)
(* table or the address space EXCLUSIVE while it keeps it SHARED, and who  *)
(* is inside process::objlock does nothing but open files until it leaves. *)
(* Every call of service.cpp starts with such a script (CallsAreGood), and *)
(* what a step leaves of one is one again (GoodTail).                      *)
(*                                                                         *)
(* IInv adds what is known of objects: one that is being created or        *)
(* destroyed has no handle and belongs to one thread, and all others that  *)
(* are used have one that nobody can close, because the user holds the     *)
(* table SHARED, or are slept on.                                          *)
(***************************************************************************)
EXTENDS Services, SequenceTheorems, TLAPS

Table == <<"handles", "SHARED">>
Space == <<"vspace", "SHARED">>
Guard == <<"process", "EXCLUSIVE">>

\* What the constants are to be: the worker is no thread of the process, and
\* NULL is neither an object nor a lock.
Distinct ==
  /\ Worker \notin Clients
  /\ NULL \notin Object /\ NULL # <<"handles", "EXCLUSIVE">>

(***************************************************************************)
(* What is before a thread                                                 *)
(***************************************************************************)
\* the steps after which a call has no other, or starts a new sequence
Ending == {"leave", "wait", "asleep", "again", "halted"}
Alone == {"asleep", "again", "halted"}
Going == {"check", "change", "commit", "open", "size", "enter", "exit",
          "spin", "load", "put", "unlock", "get", "create", "expose",
          "close", "relax", "signal"}

\* from k on s leaves the section that process::objlock guards
Leaves(s, k) ==
  \E e \in k..Len(s) : /\ s[e] \in {"exit", "leave"}
                       /\ \A j \in k..e - 1 : s[j] = "open"

\* what holds of the i-th step of s when the locks h are held now
StepGood(s, h, i) ==
  /\ s[i] \in Going => i + 1 \in 1..Len(s)
  /\ s[i] \in Alone => i = 1
  /\ s[i] \in {"change", "commit", "put", "expose", "close"} =>
       \/ i # 1 /\ s[i - 1] = "unlock"
       \/ Table \notin h /\ \A j \in 1..i - 1 : s[j] # "get"
  /\ s[i] \in {"change", "commit"} =>
       Space \notin h /\ \A j \in 1..i - 1 : s[j] # "check"
  /\ s[i] = "enter" => Leaves(s, i + 1)
  /\ s[i] = "close" => s[i + 1] = "relax"
  /\ s[i] = "create" => s[i + 1] \in {"relax", "expose"}
  /\ s[i] \in {"relax", "expose"} /\ i # 1 => s[i - 1] \in {"close", "create"}

Good(s, h) ==
  /\ s \in Seq(Going \cup Ending) /\ s # <<>>
  /\ \A i \in 1..Len(s) : StepGood(s, h, i)
  /\ Guard \in h => Leaves(s, 1)

\* a script that a call starts with
Fresh(s) == Good(s, {}) /\ s[1] \notin {"relax", "expose"} \cup Alone

\* The explicit scripts.
LEMMA Flat ==
  /\ Fresh(<<"leave">>)
  /\ Fresh(<<"check", "leave">>)
  /\ Fresh(<<"put", "leave">>)
  /\ Fresh(<<"get", "leave">>)
  /\ Fresh(<<"change", "commit", "spin", "put", "leave">>)
  /\ Fresh(<<"get", "wait">>)
  /\ Fresh(<<"get", "spin", "wait">>)
  /\ Fresh(<<"get", "signal", "leave">>)
  /\ Fresh(<<"get", "check", "leave">>)
  /\ Fresh(<<"get", "spin", "leave">>)
  /\ Fresh(<<"close", "relax", "leave">>)
  /\ Fresh(<<"create", "expose", "leave">>)
  /\ Fresh(<<"create", "relax", "leave">>)
  /\ Fresh(<<"change", "leave">>)
  /\ Fresh(<<"get", "check", "size", "leave">>)
  /\ Fresh(<<"check", "get", "size", "leave">>)
  /\ Fresh(<<"check", "enter", "open", "open", "exit", "leave">>)
  BY DEF Fresh, Good, StepGood, Leaves, Going, Ending, Alone, Table, Space,
         Guard

(* The parts that the longer scripts are put together from: nothing in     *)
(* them unlocks, and who enters the guarded section leaves it.             *)
Quiet == {"check", "get", "open", "load", "size", "enter", "exit"}

Piece(f) ==
  /\ f \in Seq(Quiet)
  /\ \A i \in 1..Len(f) : f[i] = "enter" =>
       \E e \in i + 1..Len(f) : /\ f[e] = "exit"
                                /\ \A j \in i + 1..e - 1 : f[j] = "open"

\* The sequences that the calls of the file system start with.
LEMMA Pieces ==
  /\ Piece(<<"check">>) /\ Piece(<<"check", "get">>)
  /\ Piece(<<"open">>) /\ Piece(<<"load">>) /\ Piece(<<"size">>)
  /\ Piece(GetWorkDir)
  BY DEF Piece, Quiet, GetWorkDir

\* Two pieces make a piece.
LEMMA PieceConcat ==
  ASSUME NEW f, NEW g, Piece(f), Piece(g)
  PROVE  Piece(f \o g)
  <1>1. f \in Seq(Quiet) /\ g \in Seq(Quiet)
    BY DEF Piece
  <1>2. /\ f \o g \in Seq(Quiet)
        /\ Len(f \o g) = Len(f) + Len(g)
        /\ \A i \in 1 .. Len(f) + Len(g) :
             (f \o g)[i] = IF i <= Len(f) THEN f[i] ELSE g[i - Len(f)]
    BY <1>1, ConcatProperties, Zenon
  <1>3. PICK m \in Nat, n \in Nat : m = Len(f) /\ n = Len(g)
    BY <1>1
  <1>4. PICK s : s = f \o g
    OBVIOUS
  <1>5. /\ s \in Seq(Quiet) /\ Len(s) = m + n
        /\ \A i \in 1..m : s[i] = f[i]
        /\ \A i \in 1..n : s[m + i] = g[i]
    BY <1>2, <1>3, <1>4
  <1>6. ASSUME NEW i \in 1..m + n, s[i] = "enter"
        PROVE  \E e \in i + 1..m + n : /\ s[e] = "exit"
                                       /\ \A j \in i + 1..e - 1 : s[j] = "open"
    <2>1. CASE i <= m
      <3>1. f[i] = "enter" /\ i \in 1..m
        BY <1>5, <1>6, <2>1
      <3>2. PICK e \in i + 1..m : /\ f[e] = "exit"
                                  /\ \A j \in i + 1..e - 1 : f[j] = "open"
        BY <1>3, <3>1 DEF Piece
      <3> QED
        BY <1>5, <3>1, <3>2
    <2>2. CASE i > m
      <3>1. PICK k \in 1..n : i = m + k
        BY <2>2
      <3>2. g[k] = "enter"
        BY <1>5, <1>6, <3>1
      <3>3. PICK e \in k + 1..n : /\ g[e] = "exit"
                                  /\ \A j \in k + 1..e - 1 : g[j] = "open"
        BY <1>3, <3>2 DEF Piece
      <3>4. s[m + e] = "exit"
        BY <1>5, <3>1, <3>3
      <3>5. ASSUME NEW j \in i + 1..m + e - 1 PROVE s[j] = "open"
        <4>1. PICK l \in k + 1..e - 1 : j = m + l
          BY <3>1, <3>3
        <4> QED
          BY <1>5, <3>3, <4>1
      <3> QED
        BY <3>1, <3>3, <3>4, <3>5
    <2> QED
      BY <2>1, <2>2
  <1>7. Piece(s)
    BY <1>5, <1>6 DEF Piece
  <1> QED
    BY <1>4, <1>7, Zenon

\* A piece and one of the endings of a call make a call: put comes after
\* unlock, or no get comes before it.
LEMMA PieceEnds ==
  ASSUME NEW f, Piece(f), NEW e,
         \/ e = <<"unlock", "put", "leave">>
         \/ e = <<"put", "leave">> /\ \A i \in 1..Len(f) : f[i] # "get"
         \/ e = <<"size", "open", "leave">>
  PROVE  Fresh(f \o e)
  <1>0. PICK B : B = Going \cup Ending
    OBVIOUS
  <1>1. f \in Seq(B) /\ e \in Seq(B)
    <2>1. Quiet \subseteq B
      BY <1>0 DEF Quiet, Going
    <2>2. f \in Seq(B)
      BY <2>1, SeqMonotonic, Zenon DEF Piece
    <2>3. /\ "unlock" \in B /\ "put" \in B /\ "leave" \in B /\ "size" \in B
          /\ "open" \in B
      BY <1>0 DEF Going, Ending
    <2>4. /\ <<"unlock", "put", "leave">> \in Seq(B)
          /\ <<"put", "leave">> \in Seq(B)
          /\ <<"size", "open", "leave">> \in Seq(B)
      BY <2>3
    <2> QED
      BY <2>2, <2>4, Zenon
  <1>2. /\ f \o e \in Seq(B)
        /\ Len(f \o e) = Len(f) + Len(e)
        /\ \A i \in 1 .. Len(f) + Len(e) :
             (f \o e)[i] = IF i <= Len(f) THEN f[i] ELSE e[i - Len(f)]
    BY <1>1, ConcatProperties, Zenon
  <1>3. PICK m \in Nat, n \in Nat : m = Len(f) /\ n = Len(e)
    BY <1>1
  <1>4. PICK s : s = f \o e
    OBVIOUS
  <1>5. /\ s \in Seq(B) /\ Len(s) = m + n /\ n > 0
        /\ \A i \in 1..m : s[i] = f[i]
        /\ \A i \in 1..n : s[m + i] = e[i]
    BY <1>2, <1>3, <1>4
  <1>6. ASSUME NEW i \in 1..m PROVE StepGood(s, {}, i)
    <2>1. s[i] \in Quiet
      BY <1>3, <1>5 DEF Piece
    <2>2. s[i] = "enter" => Leaves(s, i + 1)
      <3> SUFFICES ASSUME s[i] = "enter" PROVE Leaves(s, i + 1)
        OBVIOUS
      <3>1. PICK k \in i + 1..m : /\ f[k] = "exit"
                                  /\ \A j \in i + 1..k - 1 : f[j] = "open"
        BY <1>3, <1>5 DEF Piece
      <3> QED
        BY <1>5, <3>1 DEF Leaves
    <2> QED
      BY <1>5, <2>1, <2>2 DEF StepGood, Quiet, Alone, Going
  <1>7. ASSUME NEW i \in 1..n PROVE StepGood(s, {}, m + i)
    <2>1. CASE e = <<"unlock", "put", "leave">>
      <3>1. /\ n = 3 /\ s[m + 1] = "unlock" /\ s[m + 2] = "put"
            /\ s[m + 3] = "leave" /\ i \in {1, 2, 3}
        BY <1>3, <1>5, <2>1
      <3> QED
        BY <1>5, <3>1 DEF StepGood, Alone, Going
    <2>2. CASE e = <<"put", "leave">> /\ \A j \in 1..m : f[j] # "get"
      <3>1. n = 2 /\ s[m + 1] = "put" /\ s[m + 2] = "leave" /\ i \in {1, 2}
        BY <1>3, <1>5, <2>2
      <3> QED
        BY <1>5, <2>2, <3>1 DEF StepGood, Alone, Going
    <2>3. CASE e = <<"size", "open", "leave">>
      <3>1. /\ n = 3 /\ s[m + 1] = "size" /\ s[m + 2] = "open"
            /\ s[m + 3] = "leave" /\ i \in {1, 2, 3}
        BY <1>3, <1>5, <2>3
      <3> QED
        BY <1>5, <3>1 DEF StepGood, Alone, Going
    <2> QED
      BY <1>3, <2>1, <2>2, <2>3
  <1>8. \A i \in 1..m + n : StepGood(s, {}, i)
    <2> SUFFICES ASSUME NEW i \in 1..m + n, i > m PROVE StepGood(s, {}, i)
      BY <1>6
    <2>1. PICK k \in 1..n : i = m + k
      OBVIOUS
    <2> QED
      BY <1>7, <2>1
  <1>9. Good(s, {})
    BY <1>0, <1>5, <1>8 DEF Good
  <1>10. s[1] \notin {"relax", "expose"} \cup Alone
    <2>1. CASE m = 0
      BY <1>3, <1>5, <2>1 DEF Alone
    <2>2. CASE m > 0
      <3>1. s[1] \in Quiet
        BY <1>3, <1>5, <2>2 DEF Piece
      <3> QED
        BY <3>1 DEF Quiet, Alone
    <2> QED
      BY <2>1, <2>2
  <1>11. Fresh(s)
    BY <1>9, <1>10 DEF Fresh
  <1> QED
    BY <1>4, <1>11, Zenon

\* Every call of service.cpp is a script that a thread may start.
LEMMA CallsAreGood == \A c \in Calls : Fresh(c)
  <1>1. Piece(<<"check">> \o GetWorkDir)
    BY Pieces, PieceConcat, Zenon
  <1>2. \A c \in get_work_dir : Fresh(c)
    BY <1>1, PieceEnds, Zenon DEF get_work_dir
  <1>3. \A o \in Opening : Piece(o)
    BY Pieces, PieceConcat, Zenon DEF Opening
  <1>4. \A o \in Opening : \A i \in 1..Len(<<"check">> \o o) :
          (<<"check">> \o o)[i] # "get"
    <2> DEFINE Calm == Quiet \ {"get"}
    <2>1. /\ <<"check">> \in Seq(Calm) /\ GetWorkDir \in Seq(Calm)
          /\ <<"open">> \in Seq(Calm)
      BY DEF Quiet, GetWorkDir
    <2> HIDE DEF Calm
    <2>2. \A f, g \in Seq(Calm) : f \o g \in Seq(Calm)
      BY ConcatProperties, Zenon
    <2>3. \A o \in Opening : <<"check">> \o o \in Seq(Calm)
      BY <2>1, <2>2, Zenon DEF Opening
    <2>4. \A f \in Seq(Calm) : \A i \in 1..Len(f) : f[i] \in Calm
      BY ElementOfSeq, Zenon
    <2>5. "get" \notin Calm
      BY DEF Calm
    <2> QED
      BY <2>3, <2>4, <2>5, Zenon
  <1>5. \A c \in file_open : Fresh(c)
    <2>1. \A o \in Opening : Piece(<<"check">> \o o)
      BY <1>3, Pieces, PieceConcat, Zenon
    <2>2. \A o \in Opening : Fresh((<<"check">> \o o) \o <<"put", "leave">>)
      BY <1>4, <2>1, PieceEnds, Zenon
    <2> QED
      BY <2>2, Zenon DEF file_open
  <1>6. \A s \in Spawned : Piece(s)
    <2> SUFFICES ASSUME NEW s \in Spawned PROVE Piece(s)
      OBVIOUS
    <2>0. PICK o \in Opening, w \in {GetWorkDir, <<"open">>} :
            s = ((o \o <<"load">>) \o w) \o <<"size">>
      BY DEF Spawned
    <2>1. Piece(o) /\ Piece(w)
      BY <1>3, Pieces, Zenon
    <2>2. Piece(o \o <<"load">>)
      BY <2>1, Pieces, PieceConcat, Zenon
    <2>3. Piece((o \o <<"load">>) \o w)
      BY <2>1, <2>2, PieceConcat, Zenon
    <2> QED
      BY <2>0, <2>3, Pieces, PieceConcat, Zenon
  <1>7. \A c \in create_process : Fresh(c)
    <2>1. Piece(<<"check">>) /\ Piece(<<"check", "get">>)
      BY Pieces
    <2>2. \A f, s : Piece(f) /\ s \in Spawned => Piece(f \o s)
      BY <1>6, PieceConcat, Zenon
    <2>3. \A f, s : Piece(f) /\ s \in Spawned =>
            Fresh((f \o s) \o <<"unlock", "put", "leave">>)
      BY <2>2, PieceEnds, Zenon
    <2> QED
      BY <2>1, <2>3, Zenon DEF create_process
  <1>8. \A c \in osctl \cup os_info \cup display_draw \cup get_thread
                 \cup thread_id \cup get_priority \cup kill_thread
                 \cup set_priority \cup create_thread \cup wait_for
                 \cup signal \cup get_process \cup process_id :
          Fresh(c)
    BY Flat, Zenon
       DEF osctl, os_info, display_draw, get_thread, thread_id, get_priority,
           kill_thread, set_priority, create_thread, wait_for, signal,
           get_process, process_id
  <1>9. \A c \in process_info \cup get_command \cup kill_process
                 \cup process_result \cup open_process \cup set_work_dir
                 \cup handle_type \cup open_handle : Fresh(c)
    BY Flat, Zenon
       DEF process_info, get_command, kill_process, process_result,
           open_process, set_work_dir, handle_type, open_handle
  <1>11. \A c \in close_handle \cup create_object : Fresh(c)
    BY Flat, Zenon DEF close_handle, create_object
  <1>10. \A c \in vm_protect \cup vm_reserve \cup vm_commit \cup vm_release
                  \cup stream_state \cup stream_read \cup stream_write
                  \cup file_tell \cup file_seek \cup file_path : Fresh(c)
    BY Flat, Zenon
       DEF vm_protect, vm_reserve, vm_commit, vm_release, stream_state,
           stream_read, stream_write, file_tell, file_seek, file_path
  <1> QED
    BY <1>2, <1>5, <1>7, <1>8, <1>9, <1>10, <1>11 DEF Calls

LocksOfCalls == {Table, Space, Guard}

\* the locks that are kept after a step
After(h, step) ==
  CASE step \in Kept -> h \cup {Lock(step)}
    [] step = "exit" -> h \ {Guard}
    [] step \in {"unlock", "wait"} -> h \ {Table}
    [] step = "leave" -> {}
    [] OTHER -> h

\* What a thread keeps depends on its locks and its step only.
LEMMA KeepsAfter == \A t : Keeps(t) = After(held[t], Head(rest[t]))
  BY Zenon DEF Keeps, After, Table, Guard

\* What a step adds to the locks of a call, and what it gives up.
LEMMA AfterLocks ==
  ASSUME NEW h, h \subseteq LocksOfCalls, NEW step \in Going \cup Ending
  PROVE  /\ After(h, step) \subseteq LocksOfCalls
         /\ Table \in After(h, step) =>
              step = "get" \/ (Table \in h /\ step \notin {"unlock", "wait"})
         /\ Space \in After(h, step) => step = "check" \/ Space \in h
         /\ Guard \in After(h, step) =>
              step = "enter" \/ (Guard \in h /\ step # "exit")
         /\ step \notin {"unlock", "wait", "leave"} =>
              (Table \in h => Table \in After(h, step))
         /\ step = "get" => Table \in After(h, step)
  <1>1. Table # Space /\ Table # Guard /\ Space # Guard
    BY DEF Table, Space, Guard
  <1>2. /\ Lock("check") = Space /\ Lock("get") = Table
        /\ Lock("enter") = Guard
    BY DEF Lock, Table, Space, Guard
  <1> HIDE DEF Lock, Table, Space, Guard
  <1>3. CASE step \in Kept
    <2>1. step \in {"check", "get", "enter"}
      BY <1>3 DEF Kept, Going, Ending
    <2>2. After(h, step) = h \cup {Lock(step)}
      BY <1>3, <2>1 DEF After
    <2> QED
      BY <1>1, <1>2, <2>1, <2>2 DEF LocksOfCalls
  <1>4. CASE step \notin Kept
    BY <1>1, <1>4 DEF After, LocksOfCalls, Kept
  <1> QED
    BY <1>3, <1>4

\* What the next step may be.
LEMMA GoodHead ==
  ASSUME NEW s, NEW h, Good(s, h)
  PROVE  /\ s # <<>> /\ Head(s) \in Going \cup Ending
         /\ Head(s) \in {"change", "commit", "put", "expose", "close"} =>
              Table \notin h
         /\ Head(s) \in {"change", "commit"} => Space \notin h
         /\ Guard \in h => Head(s) \in {"open", "exit", "leave"}
  <1>1. /\ s \in Seq(Going \cup Ending) /\ s # <<>> /\ 1 \in 1..Len(s)
        /\ Head(s) = s[1] /\ StepGood(s, h, 1)
    BY DEF Good
  <1>2. Head(s) \in Going \cup Ending
    BY <1>1
  <1>3. Guard \in h => Head(s) \in {"open", "exit", "leave"}
    <2> SUFFICES ASSUME Guard \in h PROVE s[1] \in {"open", "exit", "leave"}
      BY <1>1
    <2>1. PICK e \in 1..Len(s) : /\ s[e] \in {"exit", "leave"}
                                 /\ \A j \in 1..e - 1 : s[j] = "open"
      BY DEF Good, Leaves
    <2> QED
      BY <1>1, <2>1
  <1> QED
    BY <1>1, <1>2, <1>3 DEF StepGood

\* What the step after that may be.
LEMMA GoodNext ==
  ASSUME NEW s, NEW h, Good(s, h), Head(s) \in Going
  PROVE  /\ Tail(s) # <<>>
         /\ Head(Tail(s)) \in (Going \cup Ending) \ Alone
         /\ Head(s) = "close" => Head(Tail(s)) = "relax"
         /\ Head(s) = "create" => Head(Tail(s)) \in {"relax", "expose"}
         /\ Head(Tail(s)) \in {"relax", "expose"} =>
              Head(s) \in {"close", "create"}
  <1>1. /\ s \in Seq(Going \cup Ending) /\ s # <<>> /\ 1 \in 1..Len(s)
        /\ Head(s) = s[1] /\ StepGood(s, h, 1)
    BY DEF Good
  <1>2. 2 \in 1..Len(s)
    BY <1>1 DEF StepGood
  <1>3. StepGood(s, h, 2)
    BY <1>2 DEF Good
  <1>4. Tail(s) # <<>> /\ Head(Tail(s)) = s[2] /\ s[2] \in Going \cup Ending
    <2>1. PICK f : f = Tail(s)
      OBVIOUS
    <2>2. /\ f \in Seq(Going \cup Ending) /\ Len(f) = Len(s) - 1
          /\ f[1] = s[2]
      BY <1>1, <1>2, <2>1
    <2>3. f # <<>> /\ Head(f) = f[1]
      BY <1>1, <1>2, <2>2
    <2>4. s[2] \in Going \cup Ending
      BY <1>1, <1>2, ElementOfSeq
    <2> QED
      BY <2>1, <2>2, <2>3, <2>4
  <1> QED
    BY <1>1, <1>3, <1>4 DEF StepGood

\* What is left of a good script, after its first step, is good for the
\* locks that are held then.
LEMMA GoodTail ==
  ASSUME NEW s, NEW h, h \subseteq LocksOfCalls, Good(s, h),
         Head(s) \in Going
  PROVE  Good(Tail(s), After(h, Head(s)))
  <1>1. /\ s \in Seq(Going \cup Ending) /\ s # <<>> /\ 1 \in 1..Len(s)
        /\ Head(s) = s[1] /\ StepGood(s, h, 1)
    BY DEF Good
  <1>2. PICK n \in Nat : Len(s) = n + 1
    BY <1>1
  <1>3. PICK f : f = Tail(s)
    OBVIOUS
  <1>4. /\ f \in Seq(Going \cup Ending) /\ Len(f) = n
        /\ \A i \in 1..n : f[i] = s[i + 1]
    BY <1>1, <1>2, <1>3
  <1>5. f # <<>>
    BY <1>3, GoodNext, Zenon
  <1>6. PICK k : k = After(h, Head(s))
    OBVIOUS
  <1>7. /\ Table \in k => s[1] = "get" \/ (Table \in h /\ s[1] # "unlock")
        /\ Space \in k => s[1] = "check" \/ Space \in h
        /\ Guard \in k => s[1] = "enter" \/ (Guard \in h /\ s[1] # "exit")
    BY <1>1, <1>6, AfterLocks
  <1>8. ASSUME NEW i \in 1..n PROVE StepGood(f, k, i)
    <2>1. i + 1 \in 1..Len(s) /\ StepGood(s, h, i + 1) /\ f[i] = s[i + 1]
      BY <1>2, <1>4 DEF Good
    <2>2. f[i] \in Going => i + 1 \in 1..Len(f)
      BY <1>2, <1>4, <2>1 DEF StepGood
    <2>3. f[i] \notin Alone
      BY <2>1 DEF StepGood
    <2>4. ASSUME f[i] \in {"change", "commit", "put", "expose", "close"}
          PROVE  \/ i # 1 /\ f[i - 1] = "unlock"
                 \/ Table \notin k /\ \A j \in 1..i - 1 : f[j] # "get"
      <3>1. CASE s[i] = "unlock"
        <4>1. CASE i = 1
          BY <1>7, <3>1, <4>1
        <4>2. CASE i # 1
          BY <1>4, <3>1, <4>2
        <4> QED
          BY <4>1, <4>2
      <3>2. CASE Table \notin h /\ \A j \in 1..i : s[j] # "get"
        BY <1>4, <1>7, <3>2
      <3> QED
        BY <2>1, <2>4, <3>1, <3>2 DEF StepGood
    <2>5. ASSUME f[i] \in {"change", "commit"}
          PROVE  Space \notin k /\ \A j \in 1..i - 1 : f[j] # "check"
      <3>1. Space \notin h /\ \A j \in 1..i : s[j] # "check"
        BY <2>1, <2>5 DEF StepGood
      <3> QED
        BY <1>4, <1>7, <3>1
    <2>6. ASSUME f[i] = "enter" PROVE Leaves(f, i + 1)
      <3>1. PICK e \in i + 2..n + 1 :
              /\ s[e] \in {"exit", "leave"}
              /\ \A j \in i + 2..e - 1 : s[j] = "open"
        BY <1>2, <2>1, <2>6 DEF StepGood, Leaves
      <3>2. /\ e - 1 \in i + 1..n /\ f[e - 1] \in {"exit", "leave"}
            /\ \A j \in i + 1..e - 2 : f[j] = "open"
        BY <1>4, <3>1
      <3> QED
        BY <1>4, <3>2 DEF Leaves
    <2>7. /\ f[i] = "close" => f[i + 1] = "relax"
          /\ f[i] = "create" => f[i + 1] \in {"relax", "expose"}
      BY <1>4, <2>1, <2>2 DEF StepGood, Going
    <2>8. f[i] \in {"relax", "expose"} /\ i # 1 =>
            f[i - 1] \in {"close", "create"}
      BY <1>4, <2>1 DEF StepGood
    <2> QED
      BY <2>2, <2>3, <2>4, <2>5, <2>6, <2>7, <2>8 DEF StepGood
  <1>9. Guard \in k => Leaves(f, 1)
    <2> SUFFICES ASSUME Guard \in k PROVE Leaves(f, 1)
      OBVIOUS
    <2>1. PICK e \in 2..n + 1 : /\ s[e] \in {"exit", "leave"}
                                /\ \A j \in 2..e - 1 : s[j] = "open"
      <3>1. CASE s[1] = "enter"
        BY <1>1, <1>2, <3>1 DEF StepGood, Leaves
      <3>2. CASE Guard \in h /\ s[1] # "exit"
        <4>1. PICK e \in 1..n + 1 : /\ s[e] \in {"exit", "leave"}
                                    /\ \A j \in 1..e - 1 : s[j] = "open"
          BY <1>2, <3>2 DEF Good, Leaves
        <4>2. s[1] # "leave"
          BY <1>1 DEF Going
        <4> QED
          BY <3>2, <4>1, <4>2
      <3> QED
        BY <1>7, <3>1, <3>2
    <2>2. e - 1 \in 1..n /\ f[e - 1] \in {"exit", "leave"}
          /\ \A j \in 1..e - 2 : f[j] = "open"
      BY <1>4, <2>1
    <2> QED
      BY <1>4, <2>2 DEF Leaves
  <1>10. Good(f, k)
    BY <1>4, <1>5, <1>8, <1>9 DEF Good
  <1> QED
    BY <1>3, <1>6, <1>10, Zenon

\* The sequences that take the place of a script.
LEMMA Singles ==
  ASSUME NEW h
  PROVE  /\ Good(<<"leave">>, h) /\ Head(<<"leave">>) = "leave"
         /\ Guard \notin h =>
              /\ Good(<<"asleep">>, h) /\ Good(<<"again">>, h)
              /\ Good(<<"halted">>, h)
         /\ h \cap LocksOfCalls = {} => Good(<<"change", "leave">>, h)
         /\ Head(<<"asleep">>) = "asleep" /\ Head(<<"again">>) = "again"
         /\ Head(<<"halted">>) = "halted"
         /\ Head(<<"change", "leave">>) = "change"
         /\ <<"leave">> # <<>> /\ <<"asleep">> # <<>> /\ <<"again">> # <<>>
         /\ <<"halted">> # <<>> /\ <<"change", "leave">> # <<>>
  BY DEF Good, StepGood, Leaves, Going, Ending, Alone, LocksOfCalls

(***************************************************************************)
(* The invariant                                                           *)
(***************************************************************************)
FirstOf(s) == IF s = <<>> THEN "none" ELSE Head(s)
First(t) == FirstOf(rest[t])

InstanceLocks == {<<"instance", "SHARED">>, <<"instance", "EXCLUSIVE">>}

Typed ==
  /\ rest = [t \in Actor |-> rest[t]]
  /\ held = [t \in Actor |-> held[t]]
  /\ using \in [Actor -> Object \cup {NULL}]

\* a thread between two calls has nothing
ScriptFine(s, h, o) ==
  /\ h \subseteq LocksOfCalls
  /\ (s = <<>> /\ h = {} /\ o = NULL) \/ Good(s, h)

Scripted == \A t \in Clients : ScriptFine(rest[t], held[t], using[t])

RequestFine(s, h) ==
  \/ s \in Requests \cup {<<>>} /\ h = {}
  \/ s \in {<<"transfer", "leave">>, <<"leave">>} /\ h \subseteq InstanceLocks

WorkerFine == using[Worker] = NULL /\ RequestFine(rest[Worker], held[Worker])

\* t has an object that no handle names
Private(t) ==
  First(t) \in {"relax", "expose"} =>
    /\ using[t] \in alive \ handles
    /\ \A u \in Clients \ {t} :
         using[u] = using[t] => First(u) \in {"asleep", "again"}

Found(t) ==
  /\ First(t) = "asleep" => using[t] \in alive \cup {NULL}
  /\ First(t) \notin {"relax", "expose", "asleep", "again"} =>
       using[t] = NULL \/ (Table \in held[t] /\ using[t] \in handles)

Owned ==
  /\ handles \subseteq alive /\ alive \subseteq Object
  /\ \A t \in Clients : Private(t) /\ Found(t)

IInv == Typed /\ Scripted /\ WorkerFine /\ Owned

\* A good script has a first step.
LEMMA FirstOfGood ==
  ASSUME NEW s, NEW h, Good(s, h)
  PROVE  s # <<>> /\ FirstOf(s) = Head(s) /\ FirstOf(s) \in Going \cup Ending
  BY GoodHead DEF FirstOf

(***************************************************************************)
(* Safety                                                                  *)
(***************************************************************************)
\* The locks that the steps of a call take.
LEMMA LockOf ==
  ASSUME NEW step \in Going \cup Ending
  PROVE  /\ step \in {"enter", "spin"} => Lock(step) = Guard
         /\ step \in {"put", "expose", "close"} =>
              Lock(step) = <<"handles", "EXCLUSIVE">>
         /\ step \in {"change", "commit"} =>
              Lock(step) = <<"vspace", "EXCLUSIVE">>
         /\ step \notin {"enter", "spin", "put", "expose", "close", "change",
                         "commit"} =>
              Lock(step) \in {NULL, Table, Space} \cup InstanceLocks
  BY DEF Lock, Going, Ending, Guard, Table, Space, InstanceLocks

\* Whom a thread of the process waits for.
LEMMA ClientWaits ==
  ASSUME IInv, Distinct, NEW t \in Clients, NEW u \in Clients, WaitsFor(t, u)
  PROVE  \/ First(t) \in {"enter", "spin"} /\ Guard \in held[u]
         \/ First(t) \in {"put", "expose", "close"} /\ Table \in held[u]
         \/ First(t) \in {"change", "commit"} /\ Space \in held[u]
  <1>1. PICK lock \in held[u] : Conflict(t, lock)
    BY DEF WaitsFor, Distinct
  <1>2. lock \in LocksOfCalls
    BY <1>1 DEF IInv, Scripted, ScriptFine
  <1>3. PICK w : w = Wants(t)
    OBVIOUS
  <1>4. w # NULL /\ w[1] = lock[1] /\ "EXCLUSIVE" \in {w[2], lock[2]}
    BY <1>1, <1>3, Zenon DEF Conflict
  <1>5. rest[t] # <<>> /\ w = Lock(First(t))
    BY <1>3, <1>4, Zenon DEF Wants, First, FirstOf
  <1>6. First(t) \in Going \cup Ending
    BY <1>5, FirstOfGood, Zenon DEF IInv, Scripted, ScriptFine, First
  <1>7. PICK f \in Going \cup Ending : f = First(t)
    BY <1>6
  <1>8. CASE f \in {"enter", "spin"}
    <2>1. w = Guard
      BY <1>5, <1>7, <1>8, LockOf
    <2>2. lock = Guard
      BY <1>2, <1>4, <2>1 DEF LocksOfCalls, Guard, Table, Space
    <2> QED
      BY <1>1, <1>7, <1>8, <2>2
  <1>9. CASE f \in {"put", "expose", "close"}
    <2>1. w = <<"handles", "EXCLUSIVE">>
      BY <1>5, <1>7, <1>9, LockOf
    <2>2. lock = Table
      BY <1>2, <1>4, <2>1 DEF LocksOfCalls, Guard, Table, Space
    <2> QED
      BY <1>1, <1>7, <1>9, <2>2
  <1>10. CASE f \in {"change", "commit"}
    <2>1. w = <<"vspace", "EXCLUSIVE">>
      BY <1>5, <1>7, <1>10, LockOf
    <2>2. lock = Space
      BY <1>2, <1>4, <2>1 DEF LocksOfCalls, Guard, Table, Space
    <2> QED
      BY <1>1, <1>7, <1>10, <2>2
  <1>11. CASE f \notin {"enter", "spin", "put", "expose", "close", "change",
                        "commit"}
    <2>1. w \in {Table, Space} \cup InstanceLocks
      BY <1>4, <1>5, <1>7, <1>11, LockOf
    <2> QED
      BY <1>2, <1>4, <2>1
         DEF LocksOfCalls, Guard, Table, Space, InstanceLocks
  <1> QED
    BY <1>8, <1>9, <1>10, <1>11

\* The scripts of the worker.
LEMMA WorkerHeads ==
  /\ \A c \in Requests : /\ c # <<>> /\ Head(c) \in {"share", "modify"}
                         /\ Tail(c) = <<"transfer", "leave">>
  /\ <<"transfer", "leave">> # <<>>
  /\ Head(<<"transfer", "leave">>) = "transfer"
  /\ Tail(<<"transfer", "leave">>) = <<"leave">>
  /\ <<"leave">> # <<>> /\ Head(<<"leave">>) = "leave"
  BY DEF Requests

\* The worker waits for nobody.
LEMMA WorkerNeverWaits ==
  ASSUME IInv, Distinct, NEW u \in Actor
  PROVE  ~WaitsFor(Worker, u)
  <1> SUFFICES ASSUME WaitsFor(Worker, u) PROVE FALSE
    OBVIOUS
  <1>0. RequestFine(rest[Worker], held[Worker])
    BY DEF IInv, WorkerFine
  <1>1. ~NeedsWorker(Worker)
    BY <1>0, WorkerHeads DEF NeedsWorker, RequestFine
  <1>2. PICK lock \in held[u] : Conflict(Worker, lock)
    BY <1>1, Zenon DEF WaitsFor
  <1>3. PICK w : w = Wants(Worker)
    OBVIOUS
  <1>4. w # NULL /\ w[1] = lock[1] /\ "EXCLUSIVE" \in {w[2], lock[2]}
    BY <1>2, <1>3, Zenon DEF Conflict
  <1>5. rest[Worker] # <<>> /\ w = Lock(Head(rest[Worker]))
    BY <1>3, <1>4, Zenon DEF Wants
  <1>6. PICK f : f = Head(rest[Worker])
    OBVIOUS
  <1>7. \/ f \in {"share", "modify"} /\ held[Worker] = {}
        \/ f \in {"transfer", "leave"} /\ held[Worker] \subseteq InstanceLocks
    BY <1>0, <1>5, <1>6, WorkerHeads DEF RequestFine
  <1>8. /\ f \in {"share", "modify"} => w \in InstanceLocks
        /\ f = "transfer" => w = Space
        /\ f = "leave" => w = NULL
    BY <1>5, <1>6 DEF Lock, InstanceLocks, Space
  <1>9. u \in Clients => lock \in LocksOfCalls
    BY <1>2 DEF IInv, Scripted, ScriptFine
  <1>10. u = Worker => lock \in InstanceLocks /\ f \in {"transfer", "leave"}
    BY <1>2, <1>7
  <1>11. u \in Clients \/ u = Worker
    BY DEF Actor
  <1> QED
    BY <1>4, <1>7, <1>8, <1>9, <1>10, <1>11
       DEF InstanceLocks, LocksOfCalls, Table, Space, Guard

\* NoCircle follows: of the threads in a set that all wait for one of the
\* set, one is the worker, which never waits; or, going from those that want
\* process::objlock over those that change the table to those that change
\* the address space, each kind waits only for threads that are at none of
\* the kinds before.
LEMMA NobodyInCircle == IInv /\ Distinct => NoCircle
  <1> SUFFICES ASSUME IInv, Distinct, NEW D \in (SUBSET Actor) \ {{}}
               PROVE  \E t \in D : \A u \in D : ~WaitsFor(t, u)
    BY DEF NoCircle
  <1>1. CASE Worker \in D
    BY <1>1, WorkerNeverWaits
  <1>2. CASE Worker \notin D
    <2>0. D \subseteq Clients /\ D # {}
      BY <1>2 DEF Actor
    <2> DEFINE A == {"enter", "spin"}
               B == {"put", "expose", "close"}
               C == {"change", "commit"}
    <2>1. ASSUME NEW t \in D, NEW u \in D, WaitsFor(t, u)
          PROVE  \/ First(t) \in A /\ First(u) \notin A \cup B \cup C
                 \/ First(t) \in B /\ First(u) \notin B \cup C
                 \/ First(t) \in C /\ First(u) \notin C
      <3>1. \/ First(t) \in A /\ Guard \in held[u]
            \/ First(t) \in B /\ Table \in held[u]
            \/ First(t) \in C /\ Space \in held[u]
        BY <2>0, <2>1, ClientWaits
      <3>2. Good(rest[u], held[u])
        BY <2>0, <3>1 DEF IInv, Scripted, ScriptFine
      <3>3. First(u) = Head(rest[u])
        BY <3>2, FirstOfGood, Zenon DEF First
      <3>4. /\ First(u) \in B \cup C => Table \notin held[u]
            /\ First(u) \in C => Space \notin held[u]
            /\ Guard \in held[u] => First(u) \in {"open", "exit", "leave"}
        BY <3>2, <3>3, GoodHead
      <3> QED
        BY <3>1, <3>4
    <2>2. CASE \E t \in D : First(t) \notin A \cup B \cup C
      BY <2>1, <2>2
    <2>3. CASE ~(\E t \in D : First(t) \notin A \cup B \cup C)
               /\ \E t \in D : First(t) \in A
      BY <2>1, <2>3
    <2>4. CASE /\ \A t \in D : First(t) \in B \cup C
               /\ \E t \in D : First(t) \in B
      BY <2>1, <2>4
    <2>5. CASE \A t \in D : First(t) \in C
      BY <2>0, <2>1, <2>5
    <2> QED
      BY <2>2, <2>3, <2>4, <2>5
  <1> QED
    BY <1>1, <1>2

\* UsedIsAlive follows from what get() and wait_for leave behind.
LEMMA NothingIsLost == IInv /\ Distinct => UsedIsAlive
  <1> SUFFICES ASSUME IInv, Distinct, NEW t \in Actor, using[t] # NULL,
                      ~At(t, {"again"})
               PROVE  using[t] \in alive
    BY DEF UsedIsAlive
  <1>1. t \in Clients
    BY DEF Actor, IInv, WorkerFine
  <1>2. First(t) # "again"
    BY Zenon DEF First, FirstOf, At
  <1> QED
    BY <1>1, <1>2 DEF IInv, Owned, Private, Found

(***************************************************************************)
(* The invariant is kept                                                   *)
(***************************************************************************)
Changed(t, s, h, o) ==
  /\ rest' = [rest EXCEPT ![t] = s]
  /\ held' = [held EXCEPT ![t] = h]
  /\ using' = [using EXCEPT ![t] = o]

\* What a step of one thread leaves of the others.
LEMMA Others ==
  ASSUME Typed, NEW t \in Actor, NEW s, NEW h, NEW o \in Object \cup {NULL},
         Changed(t, s, h, o)
  PROVE  /\ Typed' /\ First(t)' = FirstOf(s)
         /\ rest'[t] = s /\ held'[t] = h /\ using'[t] = o
         /\ \A u \in Actor \ {t} :
              /\ rest'[u] = rest[u] /\ held'[u] = held[u]
              /\ using'[u] = using[u] /\ First(u)' = First(u)
  <1>1. /\ rest'[t] = s /\ held'[t] = h /\ using'[t] = o
        /\ \A u \in Actor \ {t} : /\ rest'[u] = rest[u]
                                  /\ held'[u] = held[u]
                                  /\ using'[u] = using[u]
    BY DEF Typed, Changed
  <1>2. Typed'
    BY DEF Typed, Changed
  <1>3. First(t)' = FirstOf(s) /\ \A u \in Actor \ {t} : First(u)' = First(u)
    BY <1>1, Zenon DEF First
  <1> QED
    BY <1>1, <1>2, <1>3

\* A step of a thread that touches neither objects nor handles.
LEMMA Move ==
  ASSUME IInv, Distinct, NEW t \in Clients, NEW s, NEW h,
         NEW o \in Object \cup {NULL}, ScriptFine(s, h, o),
         Changed(t, s, h, o), handles' = handles, alive' = alive,
         FirstOf(s) \notin {"relax", "expose"},
         FirstOf(s) = "asleep" => o \in alive \cup {NULL},
         FirstOf(s) \notin {"asleep", "again"} =>
           o = NULL \/ (Table \in h /\ o \in handles)
  PROVE  IInv'
  <1>0. /\ t \in Actor /\ t # Worker /\ Worker \in Actor
        /\ Clients \subseteq Actor
    BY DEF Actor, Distinct
  <1>1. /\ Typed' /\ First(t)' = FirstOf(s)
        /\ rest'[t] = s /\ held'[t] = h /\ using'[t] = o
        /\ \A u \in Actor \ {t} :
             /\ rest'[u] = rest[u] /\ held'[u] = held[u]
             /\ using'[u] = using[u] /\ First(u)' = First(u)
    BY <1>0, Others, Zenon DEF IInv
  <1>2. Scripted'
    BY <1>0, <1>1, Zenon DEF IInv, Scripted
  <1>3. WorkerFine'
    BY <1>0, <1>1, Zenon DEF IInv, WorkerFine
  <1>4. Owned'
    <2>1. handles \subseteq alive /\ alive \subseteq Object
      BY DEF IInv, Owned
    <2>2. ASSUME NEW u \in Clients PROVE Private(u)'
      <3>1. CASE u = t
        BY <1>1, <3>1 DEF Private
      <3>2. CASE u # t
        <4> SUFFICES ASSUME First(u) \in {"relax", "expose"}
                     PROVE  /\ using[u] \in alive \ handles
                            /\ \A v \in Clients \ {u} : using'[v] = using[u] =>
                                 First(v)' \in {"asleep", "again"}
          BY <1>0, <1>1, <3>2 DEF Private
        <4>1. /\ using[u] \in alive \ handles
              /\ \A v \in Clients \ {u} : using[v] = using[u] =>
                   First(v) \in {"asleep", "again"}
          BY DEF IInv, Owned, Private
        <4>2. using[u] # NULL
          BY <2>1, <4>1 DEF Distinct
        <4> QED
          BY <1>0, <1>1, <4>1, <4>2
      <3> QED
        BY <3>1, <3>2
    <2>3. ASSUME NEW u \in Clients PROVE Found(u)'
      <3>1. CASE u = t
        BY <1>1, <3>1 DEF Found
      <3>2. CASE u # t
        BY <1>0, <1>1, <3>2 DEF IInv, Owned, Found
      <3> QED
        BY <3>1, <3>2
    <2> QED
      BY <2>1, <2>2, <2>3 DEF Owned
  <1> QED
    BY <1>1, <1>2, <1>3, <1>4 DEF IInv

\* A step of the worker.
LEMMA WorkerMove ==
  ASSUME IInv, Distinct, NEW s, NEW h, RequestFine(s, h),
         Changed(Worker, s, h, NULL), handles' = handles, alive' = alive
  PROVE  IInv'
  <1>0. Worker \in Actor /\ Clients \subseteq Actor \ {Worker}
    BY DEF Actor, Distinct
  <1>1. /\ Typed'
        /\ rest'[Worker] = s /\ held'[Worker] = h /\ using'[Worker] = NULL
        /\ \A u \in Actor \ {Worker} :
             /\ rest'[u] = rest[u] /\ held'[u] = held[u]
             /\ using'[u] = using[u] /\ First(u)' = First(u)
    <2>1. NULL \in Object \cup {NULL} /\ Typed
      BY DEF IInv
    <2> QED
      BY <1>0, <2>1, Others, Zenon
  <1>2. Scripted'
    BY <1>0, <1>1, Zenon DEF IInv, Scripted
  <1>3. WorkerFine'
    BY <1>1 DEF WorkerFine
  <1>4. ASSUME NEW u \in Clients PROVE Private(u)' /\ Found(u)'
    <2>1. /\ held'[u] = held[u] /\ using'[u] = using[u]
          /\ First(u)' = First(u)
      BY <1>0, <1>1
    <2>2. Private(u) /\ Found(u)
      BY DEF IInv, Owned
    <2>3. \A v \in Clients : using'[v] = using[v] /\ First(v)' = First(v)
      BY <1>0, <1>1
    <2>4. Private(u)'
      BY <2>1, <2>2, <2>3 DEF Private
    <2>5. Found(u)'
      BY <2>1, <2>2 DEF Found
    <2> QED
      BY <2>4, <2>5
  <1>5. Owned'
    BY <1>4 DEF IInv, Owned
  <1> QED
    BY <1>1, <1>2, <1>3, <1>5 DEF IInv

\* A thread of the process that is about to make one of the steps.
LEMMA Turn ==
  ASSUME IInv, NEW t \in Clients, NEW steps, At(t, steps)
  PROVE  /\ Good(rest[t], held[t]) /\ held[t] \subseteq LocksOfCalls
         /\ First(t) = Head(rest[t]) /\ First(t) \in steps
         /\ First(t) \in Going \cup Ending
         /\ Private(t) /\ Found(t) /\ handles \subseteq alive
         /\ alive \subseteq Object /\ using[t] \in Object \cup {NULL}
         /\ Keeps(t) = After(held[t], First(t))
         /\ Keeps(t) \subseteq LocksOfCalls
  <1>1. rest[t] # <<>> /\ Head(rest[t]) \in steps
    BY DEF At
  <1>2. Good(rest[t], held[t]) /\ held[t] \subseteq LocksOfCalls
    BY <1>1, Zenon DEF IInv, Scripted, ScriptFine
  <1>3. /\ First(t) = Head(rest[t]) /\ First(t) \in steps
        /\ First(t) \in Going \cup Ending
    BY <1>1, <1>2, FirstOfGood, Zenon DEF First
  <1>4. Keeps(t) = After(held[t], First(t))
    BY <1>3, KeepsAfter, Zenon
  <1>5. Keeps(t) \subseteq LocksOfCalls
    BY <1>2, <1>3, <1>4, AfterLocks
  <1>6. /\ Private(t) /\ Found(t) /\ handles \subseteq alive
        /\ alive \subseteq Object /\ using[t] \in Object \cup {NULL}
    BY DEF IInv, Owned, Typed, Actor
  <1> QED
    BY <1>2, <1>3, <1>4, <1>5, <1>6

\* The rest of the script after a step that is not the last.
LEMMA Forward ==
  ASSUME IInv, NEW t \in Clients, NEW steps, At(t, steps),
         steps \cap Ending = {}
  PROVE  /\ \A o : ScriptFine(Tail(rest[t]), Keeps(t), o)
         /\ FirstOf(Tail(rest[t])) \in (Going \cup Ending) \ Alone
         /\ First(t) = "close" => FirstOf(Tail(rest[t])) = "relax"
         /\ First(t) = "create" =>
              FirstOf(Tail(rest[t])) \in {"relax", "expose"}
         /\ First(t) \notin {"close", "create"} =>
              FirstOf(Tail(rest[t])) \notin {"relax", "expose"}
  <1>1. /\ Good(rest[t], held[t]) /\ held[t] \subseteq LocksOfCalls
        /\ First(t) = Head(rest[t]) /\ First(t) \in steps
        /\ First(t) \in Going \cup Ending
        /\ Keeps(t) = After(held[t], First(t))
        /\ Keeps(t) \subseteq LocksOfCalls
    BY Turn, Zenon
  <1>2. Head(rest[t]) \in Going
    BY <1>1
  <1>3. Good(Tail(rest[t]), Keeps(t))
    BY <1>1, <1>2, GoodTail, Zenon
  <1>4. FirstOf(Tail(rest[t])) = Head(Tail(rest[t]))
    BY <1>3, FirstOfGood, Zenon
  <1>5. /\ Head(Tail(rest[t])) \in (Going \cup Ending) \ Alone
        /\ First(t) = "close" => Head(Tail(rest[t])) = "relax"
        /\ First(t) = "create" => Head(Tail(rest[t])) \in {"relax", "expose"}
        /\ Head(Tail(rest[t])) \in {"relax", "expose"} =>
             First(t) \in {"close", "create"}
    BY <1>1, <1>2, GoodNext, Zenon
  <1>6. \A o : ScriptFine(Tail(rest[t]), Keeps(t), o)
    BY <1>1, <1>3, Zenon DEF ScriptFine
  <1> QED
    BY <1>4, <1>5, <1>6, Zenon

\* The first steps of the short scripts.
LEMMA SingleFirst ==
  /\ FirstOf(<<"leave">>) = "leave" /\ FirstOf(<<"asleep">>) = "asleep"
  /\ FirstOf(<<"again">>) = "again" /\ FirstOf(<<"halted">>) = "halted"
  /\ FirstOf(<<"change", "leave">>) = "change" /\ FirstOf(<<>>) = "none"
  BY DEF FirstOf

\* A call returns, after an error, a wait or a timeout.
LEMMA MoveToLeave ==
  ASSUME IInv, Distinct, NEW t \in Clients, NEW h, h \subseteq LocksOfCalls,
         Changed(t, <<"leave">>, h, NULL),
         handles' = handles, alive' = alive
  PROVE  IInv'
  <1>1. ScriptFine(<<"leave">>, h, NULL)
    BY Singles, Zenon DEF ScriptFine
  <1>2. PICK s : s = <<"leave">>
    OBVIOUS
  <1>3. FirstOf(s) = "leave" /\ ScriptFine(s, h, NULL)
    BY <1>1, <1>2, SingleFirst, Zenon
  <1>4. Changed(t, s, h, NULL)
    BY <1>2, Zenon
  <1> QED
    BY <1>3, <1>4, Move

\* A thread goes to sleep on what it uses.
LEMMA MoveToSleep ==
  ASSUME IInv, Distinct, NEW t \in Clients, NEW h, h \subseteq LocksOfCalls,
         Guard \notin h, using[t] \in alive \cup {NULL},
         Changed(t, <<"asleep">>, h, using[t]),
         handles' = handles, alive' = alive
  PROVE  IInv'
  <1>1. ScriptFine(<<"asleep">>, h, using[t])
    BY Singles, Zenon DEF ScriptFine
  <1>2. PICK s : s = <<"asleep">>
    OBVIOUS
  <1>3. FirstOf(s) = "asleep" /\ ScriptFine(s, h, using[t])
    BY <1>1, <1>2, SingleFirst, Zenon
  <1>4. Changed(t, s, h, using[t])
    BY <1>2, Zenon
  <1>5. using[t] \in Object \cup {NULL}
    BY DEF IInv, Owned
  <1> QED
    BY <1>3, <1>4, <1>5, Move

\* A call starts with no lock and no object.
LEMMA BeginKeeps ==
  ASSUME IInv, Distinct, NEW t \in Clients, Begin(t) PROVE IInv'
  <1>1. PICK c \in Calls : rest' = [rest EXCEPT ![t] = c]
    BY DEF Begin, Then, Distinct
  <1>2. rest[t] = <<>> /\ UNCHANGED <<held, using, handles, alive>>
    BY DEF Begin
  <1>3. held[t] = {} /\ using[t] = NULL
    BY <1>2, GoodHead, Zenon DEF IInv, Scripted, ScriptFine
  <1>4. Good(c, {}) /\ c[1] \notin {"relax", "expose"} \cup Alone
    BY CallsAreGood DEF Fresh
  <1>5. FirstOf(c) \notin {"relax", "expose", "asleep", "again"}
    <2>1. FirstOf(c) = Head(c)
      BY <1>4, FirstOfGood, Zenon
    <2>2. Head(c) = c[1]
      BY <1>4 DEF Good
    <2> QED
      BY <1>4, <2>1, <2>2 DEF Alone
  <1>6. ScriptFine(c, {}, NULL)
    BY <1>4 DEF ScriptFine
  <1>7. Changed(t, c, {}, NULL)
    BY <1>1, <1>2, <1>3 DEF IInv, Typed, Actor, Changed
  <1> QED
    BY <1>1, <1>2, <1>5, <1>6, <1>7, Move

\* A step that touches neither objects nor handles.
LEMMA PlainKeeps ==
  ASSUME IInv, Distinct, NEW t \in Clients, Plain(t) PROVE IInv'
  <1> DEFINE steps == {"check", "change", "open", "size", "share", "modify",
                       "transfer", "enter", "exit", "spin", "load", "put",
                       "unlock"}
             o == IF Head(rest[t]) = "unlock" THEN NULL ELSE using[t]
  <1>1. /\ At(t, steps) /\ rest' = [rest EXCEPT ![t] = Tail(rest[t])]
        /\ held' = [held EXCEPT ![t] = Keeps(t)]
        /\ using' = [using EXCEPT ![t] = o]
        /\ handles' = handles /\ alive' = alive
    BY Zenon DEF Plain, Go, Then
  <1>2. /\ steps \cap Ending = {}
        /\ steps \cap {"close", "create", "relax", "expose", "asleep",
                       "again"} = {}
    BY DEF Ending
  <1> HIDE DEF steps
  <1>3. PICK s, h, f : s = Tail(rest[t]) /\ h = Keeps(t) /\ f = First(t)
    OBVIOUS
  <1>4. /\ f \in steps /\ f = Head(rest[t]) /\ f \in Going \cup Ending
        /\ held[t] \subseteq LocksOfCalls
        /\ h = After(held[t], f) /\ Found(t)
        /\ using[t] \in Object \cup {NULL}
    BY <1>1, <1>3, Turn, Zenon
  <1>5. /\ ScriptFine(s, h, o)
        /\ FirstOf(s) \notin Alone
        /\ f \notin {"close", "create"} =>
             FirstOf(s) \notin {"relax", "expose"}
    BY <1>1, <1>2, <1>3, Forward
  <1>6. f = "unlock" \/ (Table \in held[t] => Table \in h)
    BY <1>2, <1>4, AfterLocks DEF Ending
  <1>7. /\ o \in Object \cup {NULL}
        /\ o = NULL \/ (Table \in h /\ o \in handles)
    BY <1>2, <1>3, <1>4, <1>6 DEF Found
  <1> HIDE DEF o
  <1>8. Changed(t, s, h, o)
    BY <1>1, <1>3, Zenon DEF Changed
  <1>9. FirstOf(s) \notin {"relax", "expose", "asleep", "again"}
    BY <1>2, <1>4, <1>5 DEF Alone
  <1> QED
    BY <1>1, <1>5, <1>7, <1>8, <1>9, Move

\* get() takes the table and finds an object that has a handle.
LEMMA GetKeeps ==
  ASSUME IInv, Distinct, NEW t \in Clients, Get(t) PROVE IInv'
  <1>1. PICK o \in handles :
          /\ At(t, {"get"}) /\ rest' = [rest EXCEPT ![t] = Tail(rest[t])]
          /\ held' = [held EXCEPT ![t] = Keeps(t)]
          /\ using' = [using EXCEPT ![t] = o]
          /\ handles' = handles /\ alive' = alive
    BY Zenon DEF Get, Go, Then
  <1>2. PICK s, h, f : s = Tail(rest[t]) /\ h = Keeps(t) /\ f = First(t)
    OBVIOUS
  <1>3. /\ f = "get" /\ f \in Going \cup Ending
        /\ held[t] \subseteq LocksOfCalls
        /\ h = After(held[t], f) /\ handles \subseteq alive
        /\ alive \subseteq Object
    BY <1>1, <1>2, Turn
  <1>4. {"get"} \cap Ending = {}
    BY DEF Ending
  <1>5. /\ ScriptFine(s, h, o)
        /\ FirstOf(s) \notin Alone
        /\ f \notin {"close", "create"} =>
             FirstOf(s) \notin {"relax", "expose"}
    BY <1>1, <1>2, <1>4, Forward
  <1>6. Table \in h
    BY <1>3, AfterLocks
  <1>7. Changed(t, s, h, o)
    BY <1>1, <1>2, Zenon DEF Changed
  <1>8. FirstOf(s) \notin {"relax", "expose", "asleep", "again"}
    BY <1>3, <1>5 DEF Alone
  <1>9. o \in Object \cup {NULL}
    BY <1>3
  <1> QED
    BY <1>1, <1>5, <1>6, <1>7, <1>8, <1>9, Move

\* An error is returned with what is locked.
LEMMA FailKeeps ==
  ASSUME IInv, Distinct, NEW t \in Clients, Fail(t) PROVE IInv'
  <1>1. /\ At(t, MayFail) /\ rest' = [rest EXCEPT ![t] = <<"leave">>]
        /\ held' = [held EXCEPT ![t] = Keeps(t)]
        /\ using' = [using EXCEPT ![t] = NULL]
        /\ handles' = handles /\ alive' = alive
    BY Zenon DEF Fail, Go, Then
  <1>2. Keeps(t) \subseteq LocksOfCalls
    BY <1>1, Turn, Zenon
  <1>3. Changed(t, <<"leave">>, Keeps(t), NULL)
    BY <1>1, Zenon DEF Changed
  <1> QED
    BY <1>1, <1>2, <1>3, MoveToLeave, Zenon

\* A sleeper that gives up leaves the object alone.
LEMMA TimeoutKeeps ==
  ASSUME IInv, Distinct, NEW t \in Clients, Timeout(t) PROVE IInv'
  <1>1. /\ At(t, {"asleep"}) /\ rest' = [rest EXCEPT ![t] = <<"leave">>]
        /\ held' = [held EXCEPT ![t] = Keeps(t)]
        /\ using' = [using EXCEPT ![t] = NULL]
        /\ handles' = handles /\ alive' = alive
    BY Zenon DEF Timeout, Go, Then
  <1>2. Keeps(t) \subseteq LocksOfCalls
    BY <1>1, Turn, Zenon
  <1>3. Changed(t, <<"leave">>, Keeps(t), NULL)
    BY <1>1, Zenon DEF Changed
  <1> QED
    BY <1>1, <1>2, <1>3, MoveToLeave, Zenon

\* create_thread gives the reservation back when commit fails.
LEMMA CommitKeeps ==
  ASSUME IInv, Distinct, NEW t \in Clients, Commit(t) PROVE IInv'
  <1>1. /\ At(t, {"commit"})
        /\ \/ rest' = [rest EXCEPT ![t] = Tail(rest[t])]
           \/ rest' = [rest EXCEPT ![t] = <<"change", "leave">>]
        /\ held' = [held EXCEPT ![t] = Keeps(t)]
        /\ using' = [using EXCEPT ![t] = NULL]
        /\ handles' = handles /\ alive' = alive
    BY Zenon DEF Commit, Go, Then
  <1>2. PICK h, f : h = Keeps(t) /\ f = First(t)
    OBVIOUS
  <1>3. /\ f = "commit" /\ f \in Going \cup Ending
        /\ held[t] \subseteq LocksOfCalls /\ Good(rest[t], held[t])
        /\ h = After(held[t], f) /\ h \subseteq LocksOfCalls
        /\ f = Head(rest[t])
    BY <1>1, <1>2, Turn
  <1>4. Table \notin held[t] /\ Space \notin held[t] /\ Guard \notin held[t]
    BY <1>3, GoodHead
  <1>5. h = {}
    BY <1>3, <1>4, AfterLocks DEF LocksOfCalls
  <1>6. {"commit"} \cap Ending = {}
    BY DEF Ending
  <1>7. CASE rest' = [rest EXCEPT ![t] = Tail(rest[t])]
    <2>1. PICK s : s = Tail(rest[t])
      OBVIOUS
    <2>2. /\ ScriptFine(s, h, NULL)
          /\ FirstOf(s) \notin Alone
          /\ f \notin {"close", "create"} =>
               FirstOf(s) \notin {"relax", "expose"}
      BY <1>1, <1>2, <1>6, <2>1, Forward
    <2>3. Changed(t, s, h, NULL)
      BY <1>1, <1>2, <1>7, <2>1, Zenon DEF Changed
    <2>4. FirstOf(s) \notin {"relax", "expose", "asleep", "again"}
      BY <1>3, <2>2 DEF Alone
    <2> QED
      BY <1>1, <2>2, <2>3, <2>4, Move
  <1>8. CASE rest' = [rest EXCEPT ![t] = <<"change", "leave">>]
    <2>1. PICK s : s = <<"change", "leave">>
      OBVIOUS
    <2>2. Good(s, h)
      BY <1>5, <2>1, Singles
    <2>3. ScriptFine(s, h, NULL) /\ FirstOf(s) = "change"
      BY <1>3, <2>1, <2>2, SingleFirst, Zenon DEF ScriptFine
    <2>4. Changed(t, s, h, NULL)
      BY <1>1, <1>2, <1>8, <2>1, Zenon DEF Changed
    <2> QED
      BY <1>1, <2>3, <2>4, Move
  <1> QED
    BY <1>1, <1>7, <1>8

\* The destructor gives back every lock.
LEMMA LeaveKeeps ==
  ASSUME IInv, Distinct, NEW t \in Clients, Leave(t) PROVE IInv'
  <1>1. /\ At(t, {"leave"}) /\ rest' = [rest EXCEPT ![t] = <<>>]
        /\ held' = [held EXCEPT ![t] = Keeps(t)]
        /\ using' = [using EXCEPT ![t] = NULL]
        /\ handles' = handles /\ alive' = alive
    BY Zenon DEF Leave, Go, Then
  <1>2. Keeps(t) = After(held[t], First(t)) /\ First(t) = "leave"
    BY <1>1, Turn
  <1>3. Keeps(t) = {}
    BY <1>2 DEF After, Kept
  <1>4. PICK s : s = <<>>
    OBVIOUS
  <1>5. ScriptFine(s, {}, NULL) /\ FirstOf(s) = "none"
    BY <1>4, SingleFirst, Zenon DEF ScriptFine
  <1>6. Changed(t, s, {}, NULL)
    BY <1>1, <1>3, <1>4, Zenon DEF Changed
  <1> QED
    BY <1>1, <1>5, <1>6, Move

\* The callback of wait_for gives up the table, and the object that it
\* sleeps on exists when it does.
LEMMA WaitKeeps ==
  ASSUME IInv, Distinct, NEW t \in Clients, Wait(t) \/ Again(t) PROVE IInv'
  <1>1. /\ At(t, {"wait"}) \/ (At(t, {"again"}) /\ using[t] \in alive)
        /\ \/ /\ rest' = [rest EXCEPT ![t] = <<"asleep">>]
              /\ using' = [using EXCEPT ![t] = using[t]]
           \/ /\ rest' = [rest EXCEPT ![t] = <<"leave">>]
              /\ using' = [using EXCEPT ![t] = NULL]
        /\ held' = [held EXCEPT ![t] = Keeps(t)]
        /\ handles' = handles /\ alive' = alive
    BY Zenon DEF Wait, Again, Go, Then
  <1>2. PICK f : f = First(t)
    OBVIOUS
  <1>3. /\ f = "wait" \/ (f = "again" /\ using[t] \in alive)
        /\ f \in Going \cup Ending
        /\ held[t] \subseteq LocksOfCalls /\ Good(rest[t], held[t])
        /\ Keeps(t) = After(held[t], f) /\ Keeps(t) \subseteq LocksOfCalls
        /\ f = Head(rest[t]) /\ Found(t) /\ handles \subseteq alive
    BY <1>1, <1>2, Turn
  <1>4. Guard \notin held[t]
    BY <1>3, GoodHead
  <1>5. Guard \notin Keeps(t)
    BY <1>3, <1>4, AfterLocks
  <1>6. using[t] \in alive \cup {NULL}
    BY <1>2, <1>3 DEF Found
  <1>7. \/ Changed(t, <<"asleep">>, Keeps(t), using[t])
        \/ Changed(t, <<"leave">>, Keeps(t), NULL)
    BY <1>1, Zenon DEF Changed
  <1> QED
    BY <1>1, <1>3, <1>5, <1>6, <1>7, MoveToSleep, MoveToLeave, Zenon

\* A thread that halts the system has neither.
LEMMA SpinKeeps ==
  ASSUME IInv, Distinct, NEW t \in Clients, Spin(t) PROVE IInv'
  <1>1. /\ At(t, {"spin"}) /\ rest' = [rest EXCEPT ![t] = <<"halted">>]
        /\ UNCHANGED <<held, using, handles, alive>>
    BY DEF Spin, Then
  <1>2. /\ First(t) = "spin" /\ First(t) = Head(rest[t]) /\ Found(t)
        /\ held[t] \subseteq LocksOfCalls /\ Good(rest[t], held[t])
        /\ using[t] \in Object \cup {NULL}
    BY <1>1, Turn
  <1>3. Guard \notin held[t]
    BY <1>2, GoodHead
  <1>4. PICK s : s = <<"halted">>
    OBVIOUS
  <1>5. ScriptFine(s, held[t], using[t]) /\ FirstOf(s) = "halted"
    BY <1>2, <1>3, <1>4, Singles, SingleFirst, Zenon DEF ScriptFine
  <1>6. Changed(t, s, held[t], using[t])
    <2>1. rest' = [rest EXCEPT ![t] = s]
      BY <1>1, <1>4, Zenon
    <2>2. /\ held = [u \in Actor |-> held[u]]
          /\ using = [u \in Actor |-> using[u]]
      BY DEF IInv, Typed
    <2> QED
      BY <1>1, <2>1, <2>2 DEF Changed
  <1>7. using[t] = NULL \/ (Table \in held[t] /\ using[t] \in handles)
    BY <1>2 DEF Found
  <1> QED
    BY <1>1, <1>2, <1>5, <1>6, <1>7, Move

\* A step of one thread keeps what does not depend on the objects.
LEMMA ScriptsKept ==
  ASSUME IInv, Distinct, NEW t \in Clients, NEW s, NEW h,
         NEW o \in Object \cup {NULL}, ScriptFine(s, h, o),
         Changed(t, s, h, o)
  PROVE  /\ Typed' /\ Scripted' /\ WorkerFine'
         /\ First(t)' = FirstOf(s) /\ held'[t] = h /\ using'[t] = o
         /\ \A u \in Clients \ {t} :
              /\ held'[u] = held[u] /\ using'[u] = using[u]
              /\ First(u)' = First(u)
  <1>0. /\ t \in Actor /\ t # Worker /\ Worker \in Actor
        /\ Clients \subseteq Actor
    BY DEF Actor, Distinct
  <1>1. /\ Typed' /\ First(t)' = FirstOf(s)
        /\ rest'[t] = s /\ held'[t] = h /\ using'[t] = o
        /\ \A u \in Actor \ {t} :
             /\ rest'[u] = rest[u] /\ held'[u] = held[u]
             /\ using'[u] = using[u] /\ First(u)' = First(u)
    BY <1>0, Others, Zenon DEF IInv
  <1>2. Scripted'
    BY <1>0, <1>1, Zenon DEF IInv, Scripted
  <1>3. WorkerFine'
    BY <1>0, <1>1, Zenon DEF IInv, WorkerFine
  <1> QED
    BY <1>0, <1>1, <1>2, <1>3, Zenon

\* Who changes the handle table is alone with it.
LEMMA TableIsFree ==
  ASSUME IInv, Distinct, NEW t \in Clients, At(t, {"expose", "close"}),
         CanStep(t), NEW u \in Clients
  PROVE  Table \notin held[u]
  <1> SUFFICES ASSUME Table \in held[u] PROVE FALSE
    OBVIOUS
  <1>1. ~WaitsFor(t, u)
    BY DEF CanStep, Actor
  <1>2. ~Conflict(t, Table)
    BY <1>1, Zenon DEF WaitsFor
  <1>3. rest[t] # <<>> /\ Head(rest[t]) \in {"expose", "close"}
    BY DEF At
  <1>4. PICK f : f = Head(rest[t])
    OBVIOUS
  <1>5. Wants(t) = Lock(f)
    BY <1>3, <1>4, Zenon DEF Wants
  <1>6. Lock(f) = <<"handles", "EXCLUSIVE">>
    BY <1>3, <1>4, LockOf DEF Going
  <1>7. PICK w : w = Wants(t)
    OBVIOUS
  <1>8. w = <<"handles", "EXCLUSIVE">>
    BY <1>5, <1>6, <1>7, Zenon
  <1>9. held[t] \subseteq LocksOfCalls
    BY DEF IInv, Scripted, ScriptFine
  <1>10. w \notin held[t] /\ w[1] = Table[1] /\ "EXCLUSIVE" = w[2]
    BY <1>8, <1>9 DEF LocksOfCalls, Table, Space, Guard
  <1>11. w = NULL
    BY <1>2, <1>7, <1>10, Zenon DEF Conflict
  <1> QED
    BY <1>8, <1>11 DEF Distinct

\* put gives a handle to an object that only the caller knows.
LEMMA ExposeKeeps ==
  ASSUME IInv, Distinct, NEW t \in Clients, Expose(t) PROVE IInv'
  <1>1. /\ At(t, {"expose"}) /\ Changed(t, Tail(rest[t]), Keeps(t), NULL)
        /\ handles' = handles \cup {using[t]} /\ alive' = alive
    BY Zenon DEF Expose, Go, Then, Changed
  <1>2. {"expose"} \cap Ending = {}
    BY DEF Ending
  <1>3. /\ First(t) = "expose" /\ Private(t) /\ handles \subseteq alive
        /\ alive \subseteq Object
    BY <1>1, Turn
  <1>4. /\ ScriptFine(Tail(rest[t]), Keeps(t), NULL)
        /\ FirstOf(Tail(rest[t])) \notin {"relax", "expose"} \cup Alone
    BY <1>1, <1>2, <1>3, Forward
  <1>5. /\ Typed' /\ Scripted' /\ WorkerFine'
        /\ First(t)' \notin {"relax", "expose"} \cup Alone
        /\ using'[t] = NULL
        /\ \A u \in Clients \ {t} :
             /\ held'[u] = held[u] /\ using'[u] = using[u]
             /\ First(u)' = First(u)
    <2>1. NULL \in Object \cup {NULL}
      OBVIOUS
    <2> QED
      BY <1>1, <1>4, <2>1, ScriptsKept
  <1>6. /\ using[t] \in alive \ handles
        /\ \A u \in Clients \ {t} :
             using[u] = using[t] => First(u) \in {"asleep", "again"}
    BY <1>3 DEF Private
  <1>7. ASSUME NEW u \in Clients \ {t} PROVE Private(u)' /\ Found(u)'
    <2>1. Private(u) /\ Found(u)
      BY DEF IInv, Owned
    <2>2. Private(u)'
      <3> SUFFICES ASSUME First(u) \in {"relax", "expose"}
                   PROVE  /\ using[u] \in alive \ handles'
                          /\ \A v \in Clients \ {u} : using'[v] = using[u] =>
                               First(v)' \in {"asleep", "again"}
        BY <1>1, <1>5 DEF Private
      <3>1. /\ using[u] \in alive \ handles
            /\ \A v \in Clients \ {u} : using[v] = using[u] =>
                 First(v) \in {"asleep", "again"}
        BY <2>1 DEF Private
      <3>2. using[u] # using[t] /\ using[u] # NULL
        BY <1>3, <1>6, <3>1 DEF Distinct
      <3> QED
        BY <1>1, <1>5, <3>1, <3>2
    <2>3. Found(u)'
      BY <1>1, <1>5, <2>1 DEF Found
    <2> QED
      BY <2>2, <2>3
  <1>8. Private(t)' /\ Found(t)'
    BY <1>5 DEF Private, Found, Alone
  <1>9. Owned'
    BY <1>1, <1>3, <1>6, <1>7, <1>8 DEF Owned
  <1> QED
    BY <1>5, <1>9 DEF IInv

\* close takes the table EXCLUSIVE: nobody who has it SHARED uses the
\* object, and those who sleep on it are left to relax.
LEMMA CloseKeeps ==
  ASSUME IInv, Distinct, NEW t \in Clients, Close(t) PROVE IInv'
  <1>1. PICK o \in handles :
          /\ At(t, {"close"}) /\ Changed(t, Tail(rest[t]), Keeps(t), o)
          /\ CanStep(t) /\ handles' = handles \ {o} /\ alive' = alive
    BY Zenon DEF Close, Go, Then, Changed
  <1>2. {"close"} \cap Ending = {}
    BY DEF Ending
  <1>3. First(t) = "close" /\ handles \subseteq alive /\ alive \subseteq Object
    BY <1>1, Turn
  <1>4. /\ ScriptFine(Tail(rest[t]), Keeps(t), o)
        /\ FirstOf(Tail(rest[t])) = "relax"
    BY <1>1, <1>2, <1>3, Forward
  <1>5. /\ Typed' /\ Scripted' /\ WorkerFine'
        /\ First(t)' = "relax" /\ using'[t] = o
        /\ \A u \in Clients \ {t} :
             /\ held'[u] = held[u] /\ using'[u] = using[u]
             /\ First(u)' = First(u)
    <2>1. o \in Object \cup {NULL}
      BY <1>3
    <2> QED
      BY <1>1, <1>4, <2>1, ScriptsKept
  <1>6. \A u \in Clients : Table \notin held[u]
    <2>1. At(t, {"expose", "close"})
      BY <1>1 DEF At
    <2> QED
      BY <1>1, <2>1, TableIsFree
  <1>7. o # NULL /\ o \in alive
    BY <1>3 DEF Distinct
  <1>8. ASSUME NEW u \in Clients \ {t} PROVE Private(u)' /\ Found(u)'
    <2>1. Private(u) /\ Found(u)
      BY DEF IInv, Owned
    <2>2. Private(u)'
      BY <1>1, <1>5, <2>1 DEF Private
    <2>3. Found(u)'
      BY <1>1, <1>5, <1>6, <2>1 DEF Found
    <2> QED
      BY <2>2, <2>3
  <1>9. Found(t)'
    BY <1>5 DEF Found
  <1>10. Private(t)'
    <2>1. ASSUME NEW u \in Clients \ {t}, using[u] = o
          PROVE  First(u) \in {"asleep", "again"}
      <3>1. Private(u) /\ Found(u)
        BY DEF IInv, Owned
      <3> QED
        BY <1>6, <1>7, <2>1, <3>1 DEF Private, Found
    <2> QED
      BY <1>1, <1>5, <1>7, <2>1 DEF Private
  <1>11. Owned'
    BY <1>1, <1>3, <1>8, <1>9, <1>10 DEF Owned
  <1> QED
    BY <1>5, <1>11 DEF IInv

\* A new object is known to its creator only.
LEMMA CreateKeeps ==
  ASSUME IInv, Distinct, NEW t \in Clients, Create(t) PROVE IInv'
  <1>1. PICK o \in Object \ alive :
          /\ At(t, {"create"}) /\ Changed(t, Tail(rest[t]), Keeps(t), o)
          /\ alive' = alive \cup {o} /\ handles' = handles
    BY Zenon DEF Create, Go, Then, Changed
  <1>2. {"create"} \cap Ending = {}
    BY DEF Ending
  <1>3. /\ First(t) = "create" /\ handles \subseteq alive
        /\ alive \subseteq Object
    BY <1>1, Turn
  <1>4. /\ ScriptFine(Tail(rest[t]), Keeps(t), o)
        /\ FirstOf(Tail(rest[t])) \in {"relax", "expose"}
    BY <1>1, <1>2, <1>3, Forward
  <1>5. /\ Typed' /\ Scripted' /\ WorkerFine'
        /\ First(t)' \in {"relax", "expose"} /\ using'[t] = o
        /\ \A u \in Clients \ {t} :
             /\ held'[u] = held[u] /\ using'[u] = using[u]
             /\ First(u)' = First(u)
    <2>1. o \in Object \cup {NULL}
      BY <1>3
    <2> QED
      BY <1>1, <1>4, <2>1, ScriptsKept
  <1>6. o # NULL /\ o \notin handles
    BY <1>3 DEF Distinct
  <1>7. ASSUME NEW u \in Clients \ {t} PROVE Private(u)' /\ Found(u)'
    <2>1. Private(u) /\ Found(u)
      BY DEF IInv, Owned
    <2>2. Private(u)'
      BY <1>1, <1>5, <2>1 DEF Private
    <2>3. Found(u)'
      BY <1>1, <1>5, <2>1 DEF Found
    <2> QED
      BY <2>2, <2>3
  <1>8. Found(t)'
    BY <1>5 DEF Found
  <1>9. Private(t)'
    <2>1. ASSUME NEW u \in Clients \ {t}, using[u] = o
          PROVE  First(u) \in {"asleep", "again"}
      <3>1. Private(u) /\ Found(u)
        BY DEF IInv, Owned
      <3> QED
        BY <1>1, <1>3, <1>6, <2>1, <3>1 DEF Private, Found
    <2> QED
      BY <1>1, <1>5, <1>6, <2>1 DEF Private
  <1>10. Owned'
    BY <1>1, <1>3, <1>7, <1>8, <1>9 DEF Owned
  <1> QED
    BY <1>5, <1>10 DEF IInv

\* A thread goes on, and others that sleep leave their wait.
LEMMA Roused ==
  ASSUME IInv, Distinct, NEW t \in Clients, At(t, {"relax", "signal"}),
         NEW S, S \subseteq Clients \ {t}, \A u \in S : First(u) = "asleep",
         NEW s, s = <<"leave">> \/ s = <<"again">>,
         rest' = [u \in Actor |-> IF u = t THEN Tail(rest[t])
                                  ELSE IF u \in S THEN s ELSE rest[u]],
         held' = held, using' \in [Actor -> Object \cup {NULL}],
         \A u \in Actor : using'[u] = NULL \/ using'[u] = using[u]
  PROVE  /\ Typed' /\ Scripted' /\ WorkerFine'
         /\ First(t)' \notin {"relax", "expose"} \cup Alone
         /\ \A u \in S : First(u)' = FirstOf(s)
         /\ \A u \in Clients \ {t} : u \notin S => First(u)' = First(u)
  <1>0. /\ Clients \subseteq Actor /\ Worker \in Actor /\ t \in Actor
        /\ Worker # t /\ Worker \notin S
    BY DEF Actor, Distinct
  <1>1. {"relax", "signal"} \cap Ending = {}
    BY DEF Ending
  <1>2. /\ First(t) \in {"relax", "signal"} /\ First(t) \in Going \cup Ending
        /\ Keeps(t) = After(held[t], First(t))
    BY Turn
  <1>3. Keeps(t) = held[t]
    BY <1>2 DEF After, Kept
  <1>4. /\ \A o : ScriptFine(Tail(rest[t]), held[t], o)
        /\ FirstOf(Tail(rest[t])) \notin {"relax", "expose"} \cup Alone
    BY <1>1, <1>2, <1>3, Forward
  <1>5. PICK r : r = Tail(rest[t])
    OBVIOUS
  <1>6. /\ rest'[t] = r
        /\ \A u \in S : rest'[u] = s
        /\ \A u \in Actor : u # t /\ u \notin S => rest'[u] = rest[u]
        /\ DOMAIN rest' = Actor
    <2>1. rest' = [u \in Actor |-> IF u = t THEN r
                                   ELSE IF u \in S THEN s ELSE rest[u]]
      BY <1>5, Zenon
    <2> QED
      BY <1>0, <2>1
  <1>7. Typed'
    BY <1>6 DEF IInv, Typed
  <1>8. /\ First(t)' = FirstOf(r)
        /\ \A u \in S : First(u)' = FirstOf(s)
        /\ \A u \in Clients \ {t} : u \notin S => First(u)' = First(u)
    BY <1>0, <1>6, Zenon DEF First
  <1>9. ASSUME NEW u \in Clients
        PROVE  ScriptFine(rest'[u], held'[u], using'[u])
    <2>1. CASE u = t
      BY <1>4, <1>5, <1>6, <2>1, Zenon
    <2>2. CASE u \in S
      <3>1. First(u) = "asleep"
        BY <2>2
      <3>2. At(u, {"asleep"})
        BY <3>1 DEF At, First, FirstOf
      <3>3. /\ Good(rest[u], held[u]) /\ held[u] \subseteq LocksOfCalls
            /\ First(u) = Head(rest[u])
        BY <3>2, Turn, Zenon
      <3>4. Guard \notin held[u]
        BY <3>1, <3>3, GoodHead
      <3>5. Good(s, held[u])
        BY <3>4, Singles, Zenon
      <3> QED
        BY <1>6, <2>2, <3>3, <3>5, Zenon DEF ScriptFine
    <2>3. CASE u # t /\ u \notin S
      <3>1. ScriptFine(rest[u], held[u], using[u])
        BY DEF IInv, Scripted
      <3>2. using'[u] = NULL \/ using'[u] = using[u]
        BY <1>0
      <3> QED
        BY <1>0, <1>6, <2>3, <3>1, <3>2, Zenon DEF ScriptFine
    <2> QED
      BY <2>1, <2>2, <2>3
  <1>10. Scripted'
    BY <1>9 DEF Scripted
  <1>11. WorkerFine'
    BY <1>0, <1>6, Zenon DEF IInv, WorkerFine
  <1> QED
    BY <1>4, <1>5, <1>7, <1>8, <1>10, <1>11, Zenon

\* Sleepers by the first step of their script.
LEMMA SleepersSleep ==
  ASSUME NEW o, NEW u
  PROVE  u \in Sleepers(o) <=>
           u \in Clients /\ using[u] = o /\ First(u) = "asleep"
  <1>1. At(u, {"asleep"}) <=> First(u) = "asleep"
    BY DEF At, First, FirstOf
  <1> QED
    BY <1>1 DEF Sleepers

\* relax destroys the object and rouses those who sleep on it.
LEMMA RelaxKeeps ==
  ASSUME IInv, Distinct, NEW t \in Clients, Relax(t) PROVE IInv'
  <1>1. PICK o, S : o = using[t] /\ S = Sleepers(o)
    OBVIOUS
  <1>2. At(t, {"relax"}) /\ alive' = alive \ {o} /\ held' = held
        /\ handles' = handles
    BY <1>1 DEF Relax
  <1>3. using' = [u \in Actor |-> IF u \in S \cup {t} THEN NULL ELSE using[u]]
    BY <1>1 DEF Relax
  <1>4. PICK s : s = <<"leave">>
    OBVIOUS
  <1>5. rest' = [u \in Actor |-> IF u = t THEN Tail(rest[t])
                                 ELSE IF u \in S THEN s ELSE rest[u]]
    BY <1>1, <1>4, Zenon DEF Relax
  <1>6. /\ First(t) = "relax" /\ Private(t) /\ handles \subseteq alive
        /\ alive \subseteq Object
    BY <1>2, Turn
  <1>7. /\ S \subseteq Clients \ {t}
        /\ \A u \in S : First(u) = "asleep" /\ using[u] = o
        /\ \A u \in Clients : First(u) = "asleep" /\ using[u] = o => u \in S
    BY <1>1, <1>6, SleepersSleep
  <1>8. At(t, {"relax", "signal"})
    BY <1>2 DEF At
  <1>9. /\ using' \in [Actor -> Object \cup {NULL}]
        /\ \A u \in Actor : using'[u] = NULL \/ using'[u] = using[u]
    BY <1>3 DEF IInv, Typed
  <1>10. /\ Typed' /\ Scripted' /\ WorkerFine'
         /\ First(t)' \notin {"relax", "expose"} \cup Alone
         /\ \A u \in S : First(u)' = FirstOf(s)
         /\ \A u \in Clients \ {t} : u \notin S => First(u)' = First(u)
    <2>1. \A u \in S : First(u) = "asleep"
      BY <1>7
    <2>2. s = <<"leave">> \/ s = <<"again">>
      BY <1>4
    <2>3. held' = held
      BY <1>2
    <2>4. S \subseteq Clients \ {t}
      BY <1>7
    <2> QED
      BY <1>5, <1>8, <1>9, <2>1, <2>2, <2>3, <2>4, Roused, Zenon
  <1>11. FirstOf(s) = "leave"
    BY <1>4, SingleFirst, Zenon
  <1>12. /\ using'[t] = NULL /\ \A u \in S : using'[u] = NULL
         /\ \A u \in Clients \ {t} : u \notin S => using'[u] = using[u]
    BY <1>3, <1>7 DEF Actor
  <1>13. /\ o \in alive \ handles /\ o # NULL
         /\ \A u \in Clients \ {t} :
              using[u] = o => First(u) \in {"asleep", "again"}
    BY <1>1, <1>6 DEF Private, Distinct
  <1>14. ASSUME NEW u \in Clients \ {t} PROVE Private(u)' /\ Found(u)'
    <2>1. Private(u) /\ Found(u)
      BY DEF IInv, Owned
    <2>2. Private(u)'
      <3> SUFFICES ASSUME First(u)' \in {"relax", "expose"}
                   PROVE  /\ using'[u] \in alive' \ handles
                          /\ \A v \in Clients \ {u} : using'[v] = using'[u] =>
                               First(v)' \in {"asleep", "again"}
        BY <1>2 DEF Private
      <3>1. u \notin S /\ First(u) \in {"relax", "expose"}
        BY <1>10, <1>11
      <3>2. /\ using'[u] = using[u] /\ using[u] \in alive \ handles
            /\ \A v \in Clients \ {u} : using[v] = using[u] =>
                 First(v) \in {"asleep", "again"}
        BY <1>12, <2>1, <3>1 DEF Private
      <3>3. using[u] # o /\ using[u] # NULL
        BY <1>6, <1>13, <3>1, <3>2 DEF Distinct
      <3> QED
        BY <1>2, <1>10, <1>12, <3>2, <3>3
    <2>3. Found(u)'
      <3>1. CASE u \in S
        BY <1>10, <1>11, <1>12, <3>1 DEF Found
      <3>2. CASE u \notin S
        BY <1>2, <1>7, <1>10, <1>12, <2>1, <3>2 DEF Found
      <3> QED
        BY <3>1, <3>2
    <2> QED
      BY <2>2, <2>3
  <1>15. Private(t)' /\ Found(t)'
    BY <1>10, <1>12 DEF Private, Found, Alone
  <1>16. Owned'
    BY <1>2, <1>6, <1>13, <1>14, <1>15 DEF Owned
  <1> QED
    BY <1>10, <1>16 DEF IInv

\* signal rouses some that sleep; the others keep what they use.
LEMMA SignalKeeps ==
  ASSUME IInv, Distinct, NEW t \in Clients, Signal(t) PROVE IInv'
  <1>1. PICK o : o = using[t]
    OBVIOUS
  <1>2. PICK S : /\ S \subseteq Sleepers(o)
                 /\ rest' = [Woken(S, o) EXCEPT ![t] = Tail(@)]
                 /\ using' = [u \in Actor |-> IF u \in S \ {t} /\ o \in Events
                                              THEN NULL ELSE using[u]]
    <2>1. PICK S \in IF Sleepers(o) = {} THEN {{}}
                     ELSE {{u} : u \in Sleepers(o)}
                            \cup (IF o \in Events THEN {Sleepers(o)} ELSE {}) :
            /\ rest' = [Woken(S, o) EXCEPT ![t] = Tail(@)]
            /\ using' = [u \in Actor |-> IF u \in S \ {t} /\ o \in Events
                                         THEN NULL ELSE using[u]]
      BY <1>1, Zenon DEF Signal
    <2>2. S \subseteq Sleepers(o)
      OBVIOUS
    <2> QED
      BY <2>1, <2>2, Zenon
  <1>3. /\ At(t, {"signal"}) /\ held' = held /\ handles' = handles
        /\ alive' = alive
    BY DEF Signal
  <1>4. /\ First(t) = "signal" /\ Found(t) /\ handles \subseteq alive
        /\ alive \subseteq Object /\ using[t] \in Object \cup {NULL}
    BY <1>3, Turn
  <1>5. /\ S \subseteq Clients \ {t}
        /\ \A u \in S : First(u) = "asleep" /\ using[u] = o
    BY <1>2, <1>4, SleepersSleep
  <1>6. PICK s : s = IF o \in Semaphores THEN <<"again">> ELSE <<"leave">>
    OBVIOUS
  <1>7. /\ s = <<"leave">> \/ s = <<"again">>
        /\ FirstOf(s) = IF o \in Semaphores THEN "again" ELSE "leave"
    BY <1>6, SingleFirst, Zenon
  <1>8. rest' = [u \in Actor |-> IF u = t THEN Tail(rest[t])
                                 ELSE IF u \in S THEN s ELSE rest[u]]
    <2>1. Woken(S, o) = [u \in Actor |-> IF u \notin S THEN rest[u] ELSE s]
      BY <1>6, Zenon DEF Woken
    <2>2. t \in Actor /\ t \notin S
      BY <1>5 DEF Actor
    <2>3. Woken(S, o)[t] = rest[t] /\ DOMAIN Woken(S, o) = Actor
      BY <2>1, <2>2
    <2>4. PICK r : r = Tail(rest[t])
      OBVIOUS
    <2>5. rest' = [Woken(S, o) EXCEPT ![t] = r]
      BY <1>2, <2>3, <2>4, Zenon
    <2>6. rest' = [u \in Actor |-> IF u = t THEN r
                                   ELSE IF u \in S THEN s ELSE rest[u]]
      BY <2>1, <2>2, <2>5
    <2> QED
      BY <2>4, <2>6, Zenon
  <1>9. At(t, {"relax", "signal"})
    BY <1>3 DEF At
  <1>10. /\ using' \in [Actor -> Object \cup {NULL}]
         /\ \A u \in Actor : using'[u] = NULL \/ using'[u] = using[u]
    BY <1>2 DEF IInv, Typed
  <1>11. /\ Typed' /\ Scripted' /\ WorkerFine'
         /\ First(t)' \notin {"relax", "expose"} \cup Alone
         /\ \A u \in S : First(u)' = FirstOf(s)
         /\ \A u \in Clients \ {t} : u \notin S => First(u)' = First(u)
    BY <1>3, <1>5, <1>7, <1>8, <1>9, <1>10, Roused, Zenon
  <1>12. /\ \A u \in S : using'[u] = IF o \in Events THEN NULL ELSE o
         /\ \A u \in Clients : u \notin S => using'[u] = using[u]
    BY <1>2, <1>5 DEF Actor
  <1>13. o \in Semaphores \/ o \in Events \/ o = NULL
    BY <1>1, <1>4 DEF Object
  <1>14. ASSUME NEW u \in Clients \ {t} PROVE Private(u)' /\ Found(u)'
    <2>1. Private(u) /\ Found(u)
      BY DEF IInv, Owned
    <2>2. Private(u)'
      <3> SUFFICES ASSUME First(u)' \in {"relax", "expose"}
                   PROVE  /\ using'[u] \in alive \ handles
                          /\ \A v \in Clients \ {u} : using'[v] = using'[u] =>
                               First(v)' \in {"asleep", "again"}
        BY <1>3 DEF Private
      <3>1. u \notin S /\ First(u) \in {"relax", "expose"}
        BY <1>7, <1>11
      <3>2. /\ using'[u] = using[u] /\ using[u] \in alive \ handles
            /\ \A v \in Clients \ {u} : using[v] = using[u] =>
                 First(v) \in {"asleep", "again"}
        BY <1>12, <2>1, <3>1 DEF Private
      <3>3. using[u] # NULL
        BY <1>4, <3>2 DEF Distinct
      <3>4. ASSUME NEW v \in Clients \ {u}, using'[v] = using'[u]
            PROVE  First(v)' \in {"asleep", "again"}
        <4>1. CASE v \in S
          <5>1. using'[v] # NULL
            BY <3>2, <3>3, <3>4
          <5>2. o \in Semaphores
            BY <1>12, <1>13, <4>1, <5>1
          <5> QED
            BY <1>7, <1>11, <4>1, <5>2
        <4>2. CASE v \notin S
          <5>1. using[v] = using[u] /\ v # t
            BY <1>4, <1>12, <3>2, <3>4, <4>2
          <5> QED
            BY <1>11, <3>2, <4>2, <5>1
        <4> QED
          BY <4>1, <4>2
      <3> QED
        BY <3>2, <3>4
    <2>3. Found(u)'
      <3>1. CASE u \in S
        <4>1. First(u)' = IF o \in Semaphores THEN "again" ELSE "leave"
          BY <1>7, <1>11, <3>1
        <4>2. o \notin Semaphores => using'[u] = NULL
          BY <1>12, <1>13, <3>1
        <4> QED
          BY <4>1, <4>2 DEF Found
      <3>2. CASE u \notin S
        BY <1>3, <1>11, <1>12, <2>1, <3>2 DEF Found
      <3> QED
        BY <3>1, <3>2
    <2> QED
      BY <2>2, <2>3
  <1>15. Private(t)' /\ Found(t)'
    BY <1>3, <1>4, <1>5, <1>11, <1>12 DEF Private, Found, Alone
  <1>16. Owned'
    BY <1>3, <1>4, <1>14, <1>15 DEF Owned
  <1> QED
    BY <1>11, <1>16 DEF IInv

\* The worker takes an instance and then the address space.
LEMMA WorkerKeeps ==
  ASSUME IInv, Distinct,
         \/ Begin(Worker) \/ Plain(Worker) \/ Fail(Worker) \/ Get(Worker)
         \/ Commit(Worker) \/ Leave(Worker) \/ Create(Worker)
         \/ Expose(Worker) \/ Close(Worker) \/ Relax(Worker)
         \/ Wait(Worker) \/ Signal(Worker) \/ Again(Worker)
         \/ Timeout(Worker) \/ Spin(Worker)
  PROVE  IInv'
  <1>1. RequestFine(rest[Worker], held[Worker]) /\ using[Worker] = NULL
    BY DEF IInv, WorkerFine
  <1>2. PICK f : f = First(Worker)
    OBVIOUS
  <1>3. \/ rest[Worker] = <<>> /\ held[Worker] = {} /\ f = "none"
        \/ /\ rest[Worker] \in Requests /\ held[Worker] = {}
           /\ f \in {"share", "modify"}
        \/ /\ rest[Worker] = <<"transfer", "leave">> /\ f = "transfer"
           /\ held[Worker] \subseteq InstanceLocks
        \/ /\ rest[Worker] = <<"leave">> /\ f = "leave"
           /\ held[Worker] \subseteq InstanceLocks
    BY <1>1, <1>2, WorkerHeads DEF RequestFine, First, FirstOf
  <1>4. \A steps : At(Worker, steps) =>
          f \in steps /\ f = Head(rest[Worker]) /\ rest[Worker] # <<>>
    BY <1>2, Zenon DEF At, First, FirstOf
  <1>5. Keeps(Worker) = After(held[Worker], Head(rest[Worker]))
    BY KeepsAfter
  <1>6. CASE Begin(Worker)
    <2>1. PICK c \in Requests : rest' = [rest EXCEPT ![Worker] = c]
      BY <1>6 DEF Begin, Then
    <2>2. /\ UNCHANGED <<held, using, handles, alive>> /\ rest[Worker] = <<>>
      BY <1>6 DEF Begin
    <2>3. held[Worker] = {}
      BY <1>3, <2>2, WorkerHeads, Zenon
    <2>4. /\ held = [u \in Actor |-> held[u]]
          /\ using = [u \in Actor |-> using[u]]
      BY DEF IInv, Typed
    <2>5. Changed(Worker, c, {}, NULL)
      BY <1>1, <2>1, <2>2, <2>3, <2>4 DEF Changed
    <2>6. RequestFine(c, {})
      BY DEF RequestFine
    <2> QED
      BY <2>2, <2>5, <2>6, WorkerMove
  <1>7. CASE Plain(Worker)
    <2>1. /\ At(Worker, {"check", "change", "open", "size", "share", "modify",
                         "transfer", "enter", "exit", "spin", "load", "put",
                         "unlock"})
          /\ Changed(Worker, Tail(rest[Worker]), Keeps(Worker),
                     IF Head(rest[Worker]) = "unlock" THEN NULL
                     ELSE using[Worker])
          /\ handles' = handles /\ alive' = alive
      BY <1>7, Zenon DEF Plain, Go, Then, Changed
    <2>2. f \in {"share", "modify", "transfer"} /\ f = Head(rest[Worker])
      BY <1>3, <1>4, <2>1
    <2>3. Changed(Worker, Tail(rest[Worker]), Keeps(Worker), NULL)
      BY <1>1, <2>1, Zenon
    <2>4. Keeps(Worker) \subseteq InstanceLocks
      <3>1. CASE f \in {"share", "modify"}
        <4>1. Keeps(Worker) = held[Worker] \cup {Lock(f)}
          BY <1>5, <2>2, <3>1 DEF After, Kept
        <4>2. Lock(f) \in InstanceLocks
          BY <3>1 DEF Lock, InstanceLocks
        <4> QED
          BY <1>3, <3>1, <4>1, <4>2
      <3>2. CASE f = "transfer"
        <4>1. Keeps(Worker) = held[Worker]
          BY <1>5, <2>2, <3>2 DEF After, Kept
        <4> QED
          BY <1>3, <3>2, <4>1
      <3> QED
        BY <2>2, <3>1, <3>2
    <2>5. Tail(rest[Worker]) \in {<<"transfer", "leave">>, <<"leave">>}
      BY <1>3, <2>2, WorkerHeads
    <2>6. RequestFine(Tail(rest[Worker]), Keeps(Worker))
      BY <2>4, <2>5, Zenon DEF RequestFine
    <2> QED
      BY <2>1, <2>3, <2>6, WorkerMove, Zenon
  <1>8. CASE Leave(Worker)
    <2>1. /\ At(Worker, {"leave"})
          /\ Changed(Worker, <<>>, Keeps(Worker), NULL)
          /\ handles' = handles /\ alive' = alive
      BY <1>8, Zenon DEF Leave, Go, Then, Changed
    <2>2. Head(rest[Worker]) = "leave"
      BY <1>4, <2>1
    <2>3. Keeps(Worker) = {}
      BY <1>5, <2>2 DEF After, Kept
    <2>4. RequestFine(<<>>, Keeps(Worker))
      BY <2>3, Zenon DEF RequestFine
    <2> QED
      BY <2>1, <2>4, WorkerMove, Zenon
  <1>9. ~(\/ Fail(Worker) \/ Get(Worker) \/ Commit(Worker) \/ Create(Worker)
          \/ Expose(Worker) \/ Close(Worker) \/ Relax(Worker) \/ Wait(Worker)
          \/ Signal(Worker) \/ Again(Worker) \/ Timeout(Worker)
          \/ Spin(Worker))
    <2>1. f \notin MayFail \cup {"get", "commit", "create", "expose", "close",
                                 "relax", "wait", "signal", "again", "asleep",
                                 "spin"}
      BY <1>3 DEF MayFail
    <2> QED
      BY <1>4, <2>1
         DEF Fail, Get, Commit, Create, Expose, Close, Relax, Wait, Signal,
             Again, Timeout, Spin
  <1> QED
    BY <1>6, <1>7, <1>8, <1>9

\* The invariant holds initially.
LEMMA InitIInv == Init => IInv
  <1> SUFFICES ASSUME Init PROVE IInv
    OBVIOUS
  <1>1. Typed
    BY DEF Init, Typed
  <1>2. \A t \in Actor : rest[t] = <<>> /\ held[t] = {} /\ using[t] = NULL
    BY DEF Init
  <1>3. Scripted /\ WorkerFine
    BY <1>2, Zenon
       DEF Scripted, ScriptFine, WorkerFine, RequestFine, Actor
  <1>4. \A t \in Clients : First(t) = "none" /\ using[t] = NULL
    BY <1>2, Zenon DEF First, FirstOf, Actor
  <1>5. Owned
    BY <1>4 DEF Init, Owned, Private, Found
  <1> QED
    BY <1>1, <1>3, <1>5 DEF IInv

\* Every step keeps the invariant.
LEMMA NextIInv == Distinct /\ IInv /\ [Next]_vars => IInv'
  <1> SUFFICES ASSUME Distinct, IInv, [Next]_vars PROVE IInv'
    OBVIOUS
  <1>1. CASE UNCHANGED vars
    <2>1. /\ rest' = rest /\ held' = held /\ using' = using
          /\ handles' = handles /\ alive' = alive
      BY <1>1 DEF vars
    <2>2. \A t : First(t)' = First(t)
      BY <2>1, Zenon DEF First
    <2>3. Owned'
      BY <2>1, <2>2 DEF IInv, Owned, Private, Found
    <2>4. Typed' /\ Scripted' /\ WorkerFine'
      BY <2>1, Zenon DEF IInv, Typed, Scripted, WorkerFine
    <2> QED
      BY <2>3, <2>4 DEF IInv
  <1>2. CASE Next
    <2>1. PICK t \in Actor :
            \/ Begin(t) \/ Plain(t) \/ Fail(t) \/ Get(t) \/ Commit(t)
            \/ Leave(t) \/ Create(t) \/ Expose(t) \/ Close(t) \/ Relax(t)
            \/ Wait(t) \/ Signal(t) \/ Again(t) \/ Timeout(t) \/ Spin(t)
      BY <1>2, Zenon DEF Next
    <2>2. CASE t = Worker
      BY <2>1, <2>2, WorkerKeeps, Zenon
    <2>3. CASE t \in Clients
      BY <2>1, <2>3, BeginKeeps, PlainKeeps, FailKeeps, GetKeeps,
         CommitKeeps, LeaveKeeps, CreateKeeps, ExposeKeeps, CloseKeeps,
         RelaxKeeps, WaitKeeps, SignalKeeps, TimeoutKeeps, SpinKeeps
    <2> QED
      BY <2>2, <2>3 DEF Actor
  <1> QED
    BY <1>1, <1>2

====
