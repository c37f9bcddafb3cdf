----------------------------- MODULE Deadlines -----------------------------
(***************************************************************************)
(* What basic_timer promises to its callers: every ticket has a deadline   *)
(* on the clock of beats, it is called back in the very step of the clock  *)
(* that reaches the deadline, in the order of the deadlines, and never     *)
(* after it has been cancelled.                                            *)
(***************************************************************************)
EXTENDS Integers, Sequences, SequencesExt

CONSTANT Beats    \* the lengths of a wait, in beats

VARIABLES
  now,     \* beats since the start
  due,     \* deadline and period of every ticket that is waiting
  fired    \* the tickets called back by the last step of the clock

vars == <<now, due, fired>>

Live == DOMAIN due

Init == now = 0 /\ due = << >> /\ fired = << >>

Wait(t, n, interval) ==
  /\ t \notin Live
  /\ due' = [x \in Live \cup {t} |->
               IF x = t THEN [at |-> now + n, interval |-> interval]
               ELSE due[x]]
  /\ fired' = << >>
  /\ UNCHANGED now

Cancel(t) ==
  /\ t \in Live
  /\ due' = [x \in Live \ {t} |-> due[x]]
  /\ fired' = << >>
  /\ UNCHANGED now

\* A periodic ticket that is late for its next period is due at once.
Step(n) ==
  LET Hit == {t \in Live : due[t].at <= now + n}
      Later(e) == [e EXCEPT !.at = IF @ + e.interval > now + n
                                   THEN @ + e.interval ELSE now + n]
  IN /\ now' = now + n
     /\ Range(fired') = Hit
     /\ IsInjective(fired')
     /\ \A i, j \in DOMAIN fired' :
          i < j => due[fired'[i]].at <= due[fired'[j]].at
     /\ due' = [t \in {t \in Live : t \in Hit => due[t].interval # 0} |->
                  IF t \in Hit THEN Later(due[t]) ELSE due[t]]

Next ==
  \/ \E t \in DOMAIN due' \ Live : \E n \in Beats : Wait(t, n, 0) \/ Wait(t, n, n)
  \/ \E t \in Live : Cancel(t)
  \/ Step(now' - now)

Spec == Init /\ [][Next]_vars
=============================================================================
