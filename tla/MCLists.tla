------------------------------ MODULE MCLists ------------------------------
(* An instance of the pointer lists for TLC. *)
EXTENDS Lists

Freq2 == [d \in 0 .. 1 |-> d + 1]
=============================================================================
