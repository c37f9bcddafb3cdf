---------------------------- MODULE ByteChannel ----------------------------
(***************************************************************************)
(* What a pipe promises to the processes at its two ends, without a ring   *)
(* buffer: a bounded first-in first-out channel of bytes.  A write appends *)
(* a prefix of what it was given, a read removes a prefix of what is there *)
(* and hands exactly that to the reader.                                   *)
(***************************************************************************)
EXTENDS Integers, Sequences

CONSTANTS Byte, Capacity

VARIABLES chan,   \* the bytes in the channel, oldest first
          out     \* the bytes the last read has delivered

Init == chan = <<>> /\ out = <<>>

Put == \E n \in 1..Capacity - Len(chan) : \E s \in [1..n -> Byte] :
         chan' = chan \o s /\ UNCHANGED out

Get == \E n \in 0..Len(chan) :
         /\ out' = SubSeq(chan, 1, n)
         /\ chan' = SubSeq(chan, n + 1, Len(chan))

Next == Put \/ Get
Spec == Init /\ [][Next]_<<chan, out>>
=============================================================================
