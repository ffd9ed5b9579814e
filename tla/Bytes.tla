-------------------------------- MODULE Bytes --------------------------------
(***************************************************************************)
(* A byte as the set of the positions of its 1 bits, and the lookup that   *)
(* run_queue.c makes in prio_unmap_table.                                  *)
(***************************************************************************)
EXTENDS Integers, FiniteSetsExt

Bits == 0 .. 7

\* Mutant: the highest 1 bit.
highest_bit(byte) == IF byte = {} THEN 0 ELSE Max(byte)

\* prio_unmap_table: the lowest 1 bit of a byte, and 0 for the zero byte.
\* Module UnmapTable checks the 256 literals of the table against this.
prio_unmap(byte) == IF byte = {} THEN 0 ELSE Min(byte)
==============================================================================
