--------------------------- MODULE MCThreadCore ---------------------------
(* ThreadCore for TLC: the threads and the event of the instances.         *)
EXTENDS ThreadCore

CONSTANTS t1, t2, t3, e1
=============================================================================
