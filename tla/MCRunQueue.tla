----------------------------- MODULE MCRunQueue -----------------------------
(* Every priority of one byte (0 to 7), so that the byte takes all 256     *)
(* values, the first bit of the next byte (8), one in the middle of the    *)
(* bitmap (43), and the neighbour of the idle priority (62).               *)
EXTENDS RunQueue

Priorities == 0 .. 8 \cup {43, 62}
=============================================================================
