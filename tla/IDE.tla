-------------------------------- MODULE IDE --------------------------------
(***************************************************************************)
(* kernel/dev/ide.cpp: one DMA command at a time.  A command takes the     *)
(* semaphore, starts the transfer with interrupts off, waits for the event *)
(* that the interrupt handler signals, at most four seconds, and then      *)
(* reads the status registers, whichever way the wait ended.               *)
(*                                                                         *)
(* The drive and the bus master are external, modelled from the registers  *)
(* that the driver reads: data are moved only while the DMA engine is      *)
(* active; the end of a transfer sets the interrupt flag and, after an     *)
(* error, the error flag; the interrupt itself arrives later, or is lost.  *)
(* The driver does not reset the drive when a wait times out and does not  *)
(* look whether it is busy when a command is issued.  So a transfer that   *)
(* was given up may still end, with the buffer of a later command or, with *)
(* an error, at any time.                                                  *)
(***************************************************************************)
EXTENDS Integers

CONSTANT Clients    \* threads that use the disk

VARIABLES
  sync,      \* the units of the semaphore
  ev,        \* the event is signaled
  reg,       \* registers: dma (active), irq and err (status flags)
  drive,     \* "idle", or the client whose transfer it works on
  given,     \* that transfer has been given up by a timeout
  line,      \* the interrupt has been raised and not been handled
  done,      \* ghost: the clients whose transfer has completed
  late,      \* ghost: the clients during whose command a transfer ended that
             \* was given up, and whether one did between two commands
  at,        \* per client: "idle", "sync", "start", "wait", "status"
  result,    \* per client, what its last command returned
  stop       \* bugcheck "invalid IDE state"

ideVars == <<sync, ev, reg, drive, given, line, done, late, at, result, stop>>

Init ==
  /\ sync = 1 /\ ev = FALSE /\ line = FALSE /\ stop = FALSE
  /\ reg = [dma |-> FALSE, irq |-> FALSE, err |-> FALSE]
  /\ drive = "idle" /\ given = FALSE
  /\ done = {} /\ late = [inside |-> {}, between |-> FALSE]
  /\ at = [c \in Clients |-> "idle"]
  /\ result = [c \in Clients |-> "none"]

\* command() up to sync.wait()
Call(c) ==
  /\ at[c] = "idle"
  /\ at' = [at EXCEPT ![c] = "sync"]
  /\ result' = [result EXCEPT ![c] = "none"]
  /\ UNCHANGED <<sync, ev, reg, drive, given, line, done, late, stop>>

\* Faulty: the semaphore is not taken.
AcquireShared(c) ==
  /\ at[c] = "sync"
  /\ at' = [at EXCEPT ![c] = "start"]
  /\ UNCHANGED <<sync, ev, reg, drive, given, line, done, late, result, stop>>

Acquire(c) ==
  /\ at[c] = "sync" /\ sync > 0
  /\ sync' = sync - 1
  /\ at' = [at EXCEPT ![c] = "start"]
  /\ UNCHANGED <<ev, reg, drive, given, line, done, late, result, stop>>

\* the command register is written: a drive that is busy with a transfer that
\* was given up ignores it or turns to the new one
Issue(c) ==
  \/ drive' = c /\ given' = FALSE
  \/ drive # "idle" /\ UNCHANGED <<drive, given>>

\* Faulty: the event is not reset before the command is issued.
StartNoReset(c) ==
  /\ at[c] = "start" /\ ~stop
  /\ IF reg.dma \/ reg.irq \/ reg.err
     THEN stop' = TRUE /\ UNCHANGED <<ev, reg, drive, given, done, late, at>>
     ELSE /\ reg' = [reg EXCEPT !.dma = TRUE]
          /\ Issue(c)
          /\ done' = done \ {c} /\ late' = [late EXCEPT !.inside = @ \ {c}]
          /\ at' = [at EXCEPT ![c] = "wait"]
          /\ UNCHANGED <<ev, stop>>
  /\ UNCHANGED <<sync, line, result>>

\* the registers are written with interrupts off, the event is reset first
Start(c) ==
  /\ at[c] = "start" /\ ~stop
  /\ IF reg.dma \/ reg.irq \/ reg.err
     THEN stop' = TRUE /\ UNCHANGED <<ev, reg, drive, given, done, late, at>>
     ELSE /\ reg' = [reg EXCEPT !.dma = TRUE]
          /\ ev' = FALSE
          /\ Issue(c)
          /\ done' = done \ {c} /\ late' = [late EXCEPT !.inside = @ \ {c}]
          /\ at' = [at EXCEPT ![c] = "wait"]
          /\ UNCHANGED stop
  /\ UNCHANGED <<sync, line, result>>

\* The drive ends the transfer that it works on; without the DMA engine, one
\* that was given up can only fail.
Complete(err) ==
  /\ drive # "idle" /\ (reg.dma \/ (given /\ err))
  /\ reg' = [reg EXCEPT !.irq = TRUE, !.err = err]
  /\ done' = IF err \/ given THEN done ELSE done \cup {drive}
  /\ late' = IF ~given THEN late
             ELSE [inside |-> late.inside \cup {c \in Clients : at[c] = "wait"},
                   between |-> \/ late.between
                               \/ \A c \in Clients : at[c] \notin {"wait", "status"}]
  /\ drive' = "idle" /\ given' = FALSE
  /\ line' \in {TRUE, line}
  /\ UNCHANGED <<sync, ev, at, result, stop>>

\* on_irq: without the interrupt flag it is not for this device
OnIrq ==
  /\ line /\ line' = FALSE
  /\ IF reg.irq
     THEN reg' = [reg EXCEPT !.dma = FALSE] /\ ev' = TRUE
     ELSE UNCHANGED <<reg, ev>>
  /\ UNCHANGED <<sync, drive, given, done, late, at, result, stop>>

\* ev.wait() returns PASSED or NOTIFY
Woken(c) ==
  /\ at[c] = "wait" /\ ev
  /\ at' = [at EXCEPT ![c] = "status"]
  /\ UNCHANGED <<sync, ev, reg, drive, given, line, done, late, result, stop>>

\* Faulty: the engine is left active after a timeout.
TimeoutNoAbort(c) ==
  /\ at[c] = "wait"
  /\ given' = (drive # "idle")
  /\ at' = [at EXCEPT ![c] = "status"]
  /\ UNCHANGED <<sync, ev, reg, drive, line, done, late, result, stop>>

\* Faulty: the wait has no timeout.
TimeoutNever(c) == FALSE /\ at[c] = "wait" /\ UNCHANGED ideVars

\* ev.wait() returns TIMEOUT: the DMA engine is stopped; the status decides
Timeout(c) ==
  /\ at[c] = "wait"
  /\ reg' = [reg EXCEPT !.dma = FALSE]
  /\ given' = (drive # "idle")
  /\ at' = [at EXCEPT ![c] = "status"]
  /\ UNCHANGED <<sync, ev, drive, line, done, late, result, stop>>

\* Faulty: a timeout counts as a success.
StatusOptimistic(c) ==
  /\ at[c] = "status"
  /\ result' = [result EXCEPT ![c] = IF ~reg.err THEN "true" ELSE "false"]
  /\ reg' = [reg EXCEPT !.irq = FALSE, !.err = FALSE]
  /\ sync' = sync + 1
  /\ at' = [at EXCEPT ![c] = "idle"]
  /\ UNCHANGED <<ev, drive, given, line, done, late, stop>>

\* the status is read and cleared and the semaphore is given back
Status(c) ==
  /\ at[c] = "status"
  /\ result' = [result EXCEPT ![c] = IF reg.irq /\ ~reg.err THEN "true" ELSE "false"]
  /\ reg' = [reg EXCEPT !.irq = FALSE, !.err = FALSE]
  /\ sync' = sync + 1
  /\ at' = [at EXCEPT ![c] = "idle"]
  /\ UNCHANGED <<ev, drive, given, line, done, late, stop>>

Step(c) == Acquire(c) \/ Start(c) \/ Woken(c) \/ Timeout(c) \/ Status(c)

Next == \/ \E c \in Clients : Call(c) \/ Step(c)
        \/ \E err \in BOOLEAN : Complete(err)
        \/ OnIrq

\* A caller gets the semaphore if it stays free, but signal leaves the unit to
\* whoever comes first, which may be the signaller; the timer ends every wait.
Fairness == \A c \in Clients : /\ WF_ideVars(Acquire(c))
                                /\ WF_ideVars(Start(c) \/ Woken(c) \/ Timeout(c))
                                /\ WF_ideVars(Status(c))

Spec == Init /\ [][Next]_ideVars /\ Fairness

(***************************************************************************)
(* Properties                                                              *)
(***************************************************************************)
(* A command reports success only if its own transfer is complete, or one  *)
(* that an earlier command gave up has ended in its place; and failure     *)
(* only if its own is not complete.  Interrupts that are lost or late do   *)
(* not change the answer.  The driver finds the controller in an invalid   *)
(* state only if a transfer that was given up ends between two commands.   *)
AnswerIsTrue ==
  /\ stop => late.between
  /\ \A c \in Clients :
       /\ result[c] = "true" => c \in done \cup late.inside
       /\ result[c] = "false" => c \notin done

(* Every command returns, whatever the drive does, unless other commands   *)
(* overtake it at the semaphore for ever or the driver has stopped.        *)
CommandReturns ==
  \A c \in Clients :
    \/ at[c] = "sync" ~> at[c] = "idle" \/ stop
    \/ []<>(\E d \in Clients \ {c} : at[d] = "start")
=============================================================================
