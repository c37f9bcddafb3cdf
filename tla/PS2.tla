-------------------------------- MODULE PS2 --------------------------------
(***************************************************************************)
(* The driver of the 8042 controller, kernel/dev/ps_2.cpp: a keyboard on   *)
(* channel 0, a mouse on channel 1, and a thread for each of them that     *)
(* waits for the device, sets it up command by command and then decodes    *)
(* what it sends.  The bytes of a device reach the ring of its channel     *)
(* through on_irq.                                                         *)
(*                                                                         *)
(* A byte for channel 1 takes two writes, the prefix 0xD4 and the byte;    *)
(* DEV_CMD and the probes do both under `lock', a reset does not.          *)
(* safe_queue::wait checks the ring and falls asleep under the same lock,  *)
(* and get follows at once, so they are one step; but a thread whose wait  *)
(* has timed out runs later, and a byte may have come by then.             *)
(***************************************************************************)
EXTENDS DeviceConstants, Sequences, SequencesExt

VARIABLES
  at,        \* where the thread of a channel is
  todo,      \* what is left of setting up the device
  outgoing,  \* the byte it sends and where it goes on after that
  timedout,  \* its wait has ended with TIMEOUT
  queue,     \* the ring of the channel
  fails,     \* fail_count
  probe,     \* device_keybd and device_mouse: a probe is out
  state,     \* device_keybd: prefix of the scan code so far
  it, mode,  \* device_mouse: bytes of the packet so far, identity
  lock,      \* PS_2::lock
  th,        \* the channels that passed their test and have a thread
  aimed,     \* the controller passes the next byte to channel 1
  line,      \* the bytes a device has sent that no interrupt has fetched
  setup,     \* the bytes a device has accepted since its last reset
  typed, reported, \* the keys of the keyboard since scanning was enabled
  trouble, keys,   \* counters of the bounds
  dropped,   \* channels whose ring has overflowed
  mixed,     \* an unguarded reset has met a byte for another device
  astray,    \* a byte has reached the wrong device
  halted     \* bugcheck

thread == <<at, todo, outgoing, timedout, fails, probe, state, it, mode>>
wire == <<lock, aimed, th>>
device == <<line, setup, typed, trouble, keys>>
ghost == <<dropped, mixed, astray>>
vars == <<thread, queue, wire, device, reported, ghost, halted>>

Channel == {0, 1}
Keyboard == 0
Mouse == 1
Nobody == -1

Cmd(b) == [send |-> TRUE, byte |-> b]
Answer(s) == [send |-> FALSE, ok |-> s]
Cmds(bytes) == [i \in DOMAIN bytes |-> Cmd(bytes[i])]

\* the calls of DEV_CMD and the answers that thread_ps2 reads in between
Identify == Cmds(<<\hF5, \hF2>>) \o <<Answer({0, \hAB})>>
KeyboardPlan == <<Answer({\h83})>> \o Cmds(<<\hF0, 2, \hF3, \h7F, \hF4>>)
MousePlan ==
  Cmds(<<\hF3, 200, \hF3, 100, \hF3, 80, \hF2>>)
    \o <<Answer({0, 3})>> \o Cmds(<<\hF3, 40, \hF4>>)
PlanOf(id) == IF id = \hAB THEN KeyboardPlan ELSE MousePlan

\* keycode.bin, at the scan codes of the keys in the model
keycode == [i \in 0..255 |->
  CASE i = \h1C -> \h41 [] i = \h75 -> \h18 [] i = \hF5 -> \h2B
    [] i = \h83 -> \h67 [] i = \h12 -> \h23 [] OTHER -> 0]

translate(code, stat) ==
  LET base == IF stat \in {\hC0, \hE0} /\ code < 128 THEN 128 ELSE 0
      key == keycode[base + code]
  IN IF stat \in {\hC0, \hF0} THEN key + 128 ELSE key

(***************************************************************************)
(* The devices and the controller (external)                               *)
(***************************************************************************)
\* what a key sends, and the byte a program is to see of it, 0 for none
Scan(k) ==
  CASE k = "a" -> <<\h1C>> [] k = "keypad 8" -> <<\h75>>
    [] k = "up" -> <<\hE0, \h75>> [] k = "F7" -> <<\h83>>
    [] k = "fake shift" -> <<\hE0, \h12>>
Seen(k) ==
  CASE k = "a" -> \h41 [] k = "keypad 8" -> \h18 [] k = "up" -> \h2B
    [] k = "F7" -> \h67 [] k = "fake shift" -> 0

Released(s) == SubSeq(s, 1, Len(s) - 1) \o <<\hF0, s[Len(s)]>>

\* the answers to a byte that the device accepts
Answers(d, b) ==
  CASE b = \hFF -> {<<\hFA, \hAA>> \o (IF d = Mouse THEN <<0>> ELSE <<>>)}
    [] b = \hF2 -> IF d = Keyboard THEN {<<\hFA, \hAB, \h83>>}
                   ELSE {<<\hFA, i>> : i \in IF \hF2 \in {setup[d][j] : j \in DOMAIN setup[d]}
                                            THEN {0, 3} ELSE {0}}
    [] b = \hEE -> {<<\hEE>>}
    [] b = \hEB -> {<<\hFA, 8, 0, 0>>}
    [] OTHER -> {<<\hFA>>}

IsProbe(b) == b \in {\hEE, \hEB}

\* Device d gets byte b: it accepts it, asks for it again, or the answer is lost
Receive(d, b) ==
  \/ /\ \E a \in Answers(d, b) : line' = [line EXCEPT ![d] = @ \o a]
     /\ setup' = [setup EXCEPT ![d] =
                    IF b = \hFF THEN <<>> ELSE IF IsProbe(b) THEN @ ELSE Append(@, b)]
     /\ typed' = IF d = Keyboard /\ b = \hF4 THEN <<>> ELSE typed
     /\ UNCHANGED <<trouble, keys>>
  \/ /\ trouble < MaxTrouble /\ trouble' = trouble + 1
     /\ \/ line' = [line EXCEPT ![d] = Append(@, \hFE)] /\ UNCHANGED setup
        \/ UNCHANGED line
           /\ setup' = [setup EXCEPT ![d] =
                          IF b = \hFF \/ IsProbe(b) THEN @ ELSE Append(@, b)]
     /\ UNCHANGED <<typed, keys>>

\* A data byte of channel c leaves the controller.
Pass(c, b) ==
  LET d == IF aimed THEN Mouse ELSE Keyboard
  IN /\ Receive(d, b)
     /\ aimed' = FALSE
     /\ astray' = (astray \/ d # c)

\* a keyboard scans from its reset until 0xF5 and again from 0xF4
Scans == setup[Keyboard] # <<>> => Last(setup[Keyboard]) = \hF4

Press ==
  /\ ~halted /\ Scans /\ keys < MaxKeys /\ keys' = keys + 1
  /\ \E k \in Typing : \E up \in BOOLEAN :
       /\ line' = [line EXCEPT ![Keyboard] = @ \o IF up THEN Released(Scan(k)) ELSE Scan(k)]
       /\ typed' = IF Seen(k) = 0 THEN typed
                   ELSE Append(typed, Seen(k) + IF up THEN 128 ELSE 0)
  /\ UNCHANGED <<thread, queue, wire, setup, trouble, reported, ghost, halted>>

Replug(d) ==
  /\ ~halted /\ d \in th
  /\ trouble < MaxTrouble /\ trouble' = trouble + 1
  /\ line' = [line EXCEPT ![d] = <<\hAA>>]
  /\ setup' = [setup EXCEPT ![d] = <<>>]
  /\ UNCHANGED <<thread, queue, wire, typed, keys, reported, ghost, halted>>

(***************************************************************************)
(* safe_queue                                                              *)
(***************************************************************************)
\* on_irq: read a byte of the device and put it into the ring, if it is not full
OnIrq(c) ==
  /\ ~halted /\ line[c] # <<>>
  /\ line' = [line EXCEPT ![c] = Tail(@)]
  /\ IF Len(queue[c]) < QUEUE_SIZE - 1
     THEN queue' = [queue EXCEPT ![c] = Append(@, Head(line[c]))] /\ UNCHANGED dropped
     ELSE dropped' = dropped \cup {c} /\ UNCHANGED queue
  /\ UNCHANGED <<thread, wire, setup, typed, trouble, keys, reported, mixed, astray, halted>>

Waiting == {"settle", "ack", "answer", "run"}   \* the waits with a limit

\* The limit of a wait passes; before the answer is in, that is trouble.
TimeOut(c) ==
  /\ ~halted /\ at[c] \in Waiting /\ queue[c] = <<>> /\ ~timedout[c]
  /\ IF line[c] = <<>> THEN UNCHANGED trouble
     ELSE trouble < MaxTrouble /\ trouble' = trouble + 1
  /\ timedout' = [timedout EXCEPT ![c] = TRUE]
  /\ UNCHANGED <<at, todo, outgoing, queue, fails, probe, state, it, mode, wire,
                 line, setup, typed, keys, reported, ghost, halted>>

\* safe_queue::get by a thread that has been told that the ring holds a byte
Gets(c, p) ==
  /\ ~halted /\ at[c] = p /\ ~timedout[c] /\ queue[c] # <<>>

\* the thread goes on after a wait that has timed out
Expired(c, p) == ~halted /\ at[c] = p /\ timedout[c]

(***************************************************************************)
(* thread_ps2                                                              *)
(***************************************************************************)
Send(c, b, then) ==
  /\ outgoing' = [outgoing EXCEPT ![c] = [byte |-> b, then |-> then]]
  /\ at' = [at EXCEPT ![c] = "aim"]

\* Go on with the plan: the next command, the next answer, or the device is ready.
Follow(c, plan) ==
  /\ todo' = [todo EXCEPT ![c] = plan]
  /\ IF plan = <<>>
     THEN /\ at' = [at EXCEPT ![c] = "run"]
          /\ probe' = [probe EXCEPT ![c] = FALSE]
          /\ state' = 0 /\ it' = 0 /\ UNCHANGED outgoing
          /\ reported' = IF c = Keyboard THEN <<>> ELSE reported
     ELSE /\ UNCHANGED <<probe, state, it, reported>>
          /\ IF Head(plan).send THEN Send(c, Head(plan).byte, "ack")
             ELSE at' = [at EXCEPT ![c] = "answer"] /\ UNCHANGED outgoing

\* restart: clear the ring and reset the device, unless it has failed too often
Restart(c) ==
  /\ queue' = [queue EXCEPT ![c] = <<>>]
  /\ fails' = [fails EXCEPT ![c] = IF @ < MaxFails THEN @ + 1 ELSE @]
  /\ at' = [at EXCEPT ![c] =
              IF fails'[c] = MaxFails THEN "plug"
              ELSE IF c = Mouse THEN "reset aim" ELSE "reset"]
  /\ UNCHANGED <<todo, outgoing, probe, state, it, mode, reported>>

\* queue.wait() without a limit, until the device says 0xAA
Plug(c) ==
  /\ Gets(c, "plug")
  /\ queue' = [queue EXCEPT ![c] = Tail(@)]
  /\ at' = [at EXCEPT ![c] = IF Head(queue[c]) = \hAA THEN "settle" ELSE "plug"]
  /\ UNCHANGED <<todo, outgoing, timedout, fails, probe, state, it, mode, wire,
                 device, reported, ghost, halted>>

\* a mouse may send 0 after 0xAA: discard whatever comes in time
Settle(c) ==
  /\ \/ Gets(c, "settle") /\ queue' = [queue EXCEPT ![c] = Tail(@)] /\ UNCHANGED timedout
     \/ /\ Expired(c, "settle")
        /\ timedout' = [timedout EXCEPT ![c] = FALSE] /\ UNCHANGED queue
  /\ Follow(c, Identify)
  /\ UNCHANGED <<fails, mode, wire, device, ghost, halted>>

\* faulty: a command is sent without the lock
AimUnlocked(c) ==
  /\ ~halted /\ at[c] = "aim"
  /\ lock' = c /\ aimed' = (aimed \/ c = Mouse)
  /\ at' = [at EXCEPT ![c] = "write"]
  /\ UNCHANGED <<todo, outgoing, timedout, fails, probe, state, it, mode, queue,
                 th, device, reported, ghost, halted>>

\* DEV_CMD and the probes, under the lock: the prefix, then the byte
Aim(c) ==
  /\ ~halted /\ at[c] = "aim" /\ lock = Nobody
  /\ lock' = c /\ aimed' = (aimed \/ c = Mouse)
  /\ at' = [at EXCEPT ![c] = "write"]
  /\ UNCHANGED <<todo, outgoing, timedout, fails, probe, state, it, mode, queue,
                 th, device, reported, ghost, halted>>

Write(c) ==
  /\ ~halted /\ at[c] = "write"
  /\ Pass(c, outgoing[c].byte)
  /\ lock' = Nobody
  /\ at' = [at EXCEPT ![c] = outgoing[c].then]
  /\ mixed' = (mixed \/ at[1 - c] = "reset")
  /\ UNCHANGED <<todo, outgoing, timedout, fails, probe, state, it, mode, queue,
                 th, reported, dropped, halted>>

\* the reset of restart, which does not take the lock
ResetAim ==
  /\ ~halted /\ at[Mouse] = "reset aim"
  /\ aimed' = TRUE
  /\ at' = [at EXCEPT ![Mouse] = "reset"]
  /\ mixed' = (mixed \/ at[Keyboard] \in {"write", "reset"})
  /\ UNCHANGED <<todo, outgoing, timedout, fails, probe, state, it, mode, queue,
                 lock, th, device, reported, dropped, astray, halted>>

Reset(c) ==
  /\ ~halted /\ at[c] = "reset"
  /\ Pass(c, \hFF)
  /\ at' = [at EXCEPT ![c] = "plug"]
  /\ mixed' = (mixed \/ at[1 - c] \in {"write", "reset"})
  /\ UNCHANGED <<todo, outgoing, timedout, fails, probe, state, it, mode, queue,
                 lock, th, reported, dropped, halted>>

\* faulty: a command that the device has refused counts as done
AckAny(c) ==
  /\ Gets(c, "ack")
  /\ \/ /\ Head(queue[c]) \in {\hFA, \hFE}
        /\ Follow(c, Tail(todo[c]))
        /\ queue' = [queue EXCEPT ![c] = Tail(@)]
        /\ UNCHANGED <<fails, mode>>
     \/ Head(queue[c]) \notin {\hFA, \hFE} /\ Restart(c)
  /\ UNCHANGED <<timedout, wire, device, ghost, halted>>

\* the answer to a command: 0xFA accepts it, 0xFE asks for it again
Ack(c) ==
  /\ Gets(c, "ack")
  /\ LET data == Head(queue[c]) IN
     \/ /\ data = \hFA
        /\ Follow(c, Tail(todo[c]))
        /\ queue' = [queue EXCEPT ![c] = Tail(@)]
        /\ UNCHANGED <<fails, mode>>
     \/ /\ data = \hFE
        /\ at' = [at EXCEPT ![c] = "aim"]
        /\ queue' = [queue EXCEPT ![c] = Tail(@)]
        /\ UNCHANGED <<todo, outgoing, fails, probe, state, it, mode, reported>>
     \/ data \notin {\hFA, \hFE} /\ Restart(c)
  /\ UNCHANGED <<timedout, wire, device, ghost, halted>>

\* a byte of the identity of the device
Identity(c) ==
  /\ Gets(c, "answer")
  /\ LET data == Head(queue[c]) IN
     \/ /\ data \in Head(todo[c]).ok
        /\ Follow(c, IF Tail(todo[c]) # <<>> THEN Tail(todo[c]) ELSE PlanOf(data))
        /\ mode' = IF Head(todo[c]).ok = {0, 3} THEN data ELSE mode
        /\ queue' = [queue EXCEPT ![c] = Tail(@)]
        /\ UNCHANGED fails
     \/ data \notin Head(todo[c]).ok /\ Restart(c)
  /\ UNCHANGED <<timedout, wire, device, ghost, halted>>

SetupExpired(c) ==
  /\ Expired(c, "ack") \/ Expired(c, "answer")
  /\ timedout' = [timedout EXCEPT ![c] = FALSE]
  /\ Restart(c)
  /\ UNCHANGED <<wire, device, ghost, halted>>

(***************************************************************************)
(* device_keybd and device_mouse                                           *)
(***************************************************************************)
\* device_keybd returns on these, and passes over those
Ends == {0, \hAA, \hFC, \hFD, \hFE, \hFF}
PassedOver == {\hEE, \hFA}

\* faulty: 0xF0 after 0xE0 is taken for a code
PrefixOnce(data) == state = 0 /\ data \in {\hE0, \hF0}

Prefix(data) ==
  \/ state = 0 /\ data \in {\hE0, \hF0}
  \/ state = \hE0 /\ data = \hF0

KeybdByte ==
  /\ Gets(Keyboard, "run")
  /\ queue' = [queue EXCEPT ![Keyboard] = Tail(@)]
  /\ probe' = [probe EXCEPT ![Keyboard] = FALSE]
  /\ LET data == Head(queue[Keyboard])
         key == translate(data, state)
     IN \/ /\ data \in Ends
           /\ at' = [at EXCEPT ![Keyboard] = "plug"]
           /\ UNCHANGED <<state, reported>>
        \/ data \in PassedOver /\ UNCHANGED <<at, state, reported>>
        \/ /\ data \notin Ends \cup PassedOver /\ Prefix(data)
           /\ state' = IF state = \hE0 THEN \hC0 ELSE data
           /\ UNCHANGED <<at, reported>>
        \/ /\ data \notin Ends \cup PassedOver /\ ~Prefix(data)
           /\ reported' = IF key % 128 = 0 THEN reported ELSE Append(reported, key)
           /\ state' = 0 /\ UNCHANGED at
  /\ UNCHANGED <<todo, outgoing, timedout, fails, it, mode, wire, device, ghost, halted>>

\* A second without a byte: probe the device; a second time: it is gone.
Idle(c, b, then) ==
  /\ Expired(c, "run")
  /\ timedout' = [timedout EXCEPT ![c] = FALSE]
  /\ IF probe[c]
     THEN /\ at' = [at EXCEPT ![c] = "plug"]
          /\ fails' = [fails EXCEPT ![c] = 0]
          /\ UNCHANGED <<probe, outgoing>>
     ELSE /\ probe' = [probe EXCEPT ![c] = TRUE]
          /\ Send(c, b, then) /\ UNCHANGED fails
  /\ UNCHANGED <<todo, state, it, mode, queue, wire, device, reported, ghost, halted>>

KeybdIdle == Idle(Keyboard, \hEE, "run")
\* device_mouse does not wait for the answer of its probe
MouseIdle == Idle(Mouse, \hEB, "get")

MouseByte ==
  /\ Gets(Mouse, "run") \/ (~halted /\ at[Mouse] = "get" /\ queue[Mouse] # <<>>)
  /\ queue' = [queue EXCEPT ![Mouse] = Tail(@)]
  /\ at' = [at EXCEPT ![Mouse] = "run"]
  /\ LET data == Head(queue[Mouse]) IN
     IF probe[Mouse] /\ data = \hFA
     THEN probe' = [probe EXCEPT ![Mouse] = FALSE] /\ UNCHANGED it
     ELSE /\ it' = IF it > 0 \/ (data \div 8) % 2 = 1
                   THEN (it + 1) % (IF mode = 0 THEN 3 ELSE 4) ELSE it
          /\ UNCHANGED probe
  /\ UNCHANGED <<todo, outgoing, timedout, fails, state, mode, wire, device,
                 reported, ghost, halted>>

\* safe_queue::get of an empty ring
MouseGetsNothing ==
  /\ ~halted /\ at[Mouse] = "get" /\ queue[Mouse] = <<>>
  /\ halted' = TRUE
  /\ UNCHANGED <<thread, queue, wire, device, reported, ghost>>

(***************************************************************************)
(* PS_2::PS_2 has tested the channels, reset the devices of those that     *)
(* work and spawned their threads.  To bound the model, keys are typed     *)
(* where the keyboard is alone.                                            *)
(***************************************************************************)
Init ==
  /\ at = [c \in Channel |-> "plug"] /\ todo = [c \in Channel |-> <<>>]
  /\ outgoing = [c \in Channel |-> [byte |-> \hFF, then |-> "plug"]]
  /\ timedout = [c \in Channel |-> FALSE] /\ fails = [c \in Channel |-> 0]
  /\ queue = [c \in Channel |-> <<>>] /\ probe = [c \in Channel |-> FALSE]
  /\ state = 0 /\ it = 0 /\ mode = 0 /\ lock = Nobody /\ aimed = FALSE
  /\ th \in SUBSET Channel \ {{}}
  /\ line = [c \in Channel |-> IF c \notin th THEN <<>>
                               ELSE <<\hFA, \hAA>> \o IF c = Mouse THEN <<0>> ELSE <<>>]
  /\ setup = [c \in Channel |-> <<>>] /\ typed = <<>> /\ reported = <<>>
  /\ trouble = 0 /\ keys = (IF th = {Keyboard} THEN 0 ELSE MaxKeys) /\ dropped = {}
  /\ mixed = FALSE /\ astray = FALSE /\ halted = FALSE

Next ==
  \/ \E c \in Channel :
       \/ OnIrq(c) \/ TimeOut(c) \/ Replug(c)
       \/ Plug(c) \/ Settle(c) \/ Aim(c) \/ Write(c) \/ Reset(c)
       \/ Ack(c) \/ Identity(c) \/ SetupExpired(c)
  \/ Press \/ ResetAim
  \/ KeybdByte \/ KeybdIdle \/ MouseByte \/ MouseIdle \/ MouseGetsNothing

Spec == Init /\ [][Next]_vars

(***************************************************************************)
(* Properties                                                              *)
(***************************************************************************)
InTransit(c) == {queue[c][i] : i \in DOMAIN queue[c]} \cup {line[c][i] : i \in DOMAIN line[c]}
Commands(plan) ==
  LET s == SelectSeq(plan, LAMBDA x : x.send) IN [i \in DOMAIN s |-> s[i].byte]

\* A device is declared ready only when the last bytes it has accepted are the
\* commands of its plan, every one, whatever was lost, late or asked for again: or it
\* has just been plugged in anew and its 0xAA is still to be read or fell to a
\* ring that was full, or a byte of the other channel got to it because a reset
\* is sent without the lock.
ReadyIsSetUp ==
  [][\A c \in Channel :
       at[c] = "ack" /\ at'[c] = "run"
         => \/ IsSuffix(Commands(Identify \o IF c = Keyboard THEN KeyboardPlan ELSE MousePlan),
                        setup[c])
            \/ \hAA \in InTransit(c) \/ c \in dropped \/ mixed]_vars

\* device_keybd reports the keys of the keyboard, every one and in their order,
\* whatever probes and acknowledgements come between the bytes of a scan code.
KeysAreDecoded ==
  at[Keyboard] = "run" /\ Keyboard \notin dropped /\ ~mixed
      /\ \hAA \notin InTransit(Keyboard) /\ \hFE \notin InTransit(Keyboard)
    => /\ Len(reported) <= Len(typed)
       /\ reported = SubSeq(typed, 1, Len(reported))
       /\ InTransit(Keyboard) = {} /\ setup[Keyboard] # <<>> => reported = typed

\* A byte reaches the device of the other channel only when a reset, which is
\* sent without the lock, comes between the two writes of another command.
OnlyResetsStray == astray => mixed
=============================================================================
