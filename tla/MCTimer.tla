------------------------------ MODULE MCTimer ------------------------------
(* An unsigned long of 8 bits, so that the millisecond count wraps every   *)
(* 25.6 ticks, and two devices whose periods do not divide the wrap.       *)
EXTENDS Timer

Freqs == <<20, 50>>
=============================================================================
