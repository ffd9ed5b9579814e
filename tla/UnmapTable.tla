----------------------------- MODULE UnmapTable -----------------------------
(***************************************************************************)
(* The literals of the lookup table of kernel/sched/run_queue.c.  Its 16   *)
(* rows of 16 entries differ in their first column only.                   *)
(***************************************************************************)
EXTENDS Bytes

\* Mutant: a slip in one entry of the column.
column_slip  == <<0, 4, 5, 4, 6, 4, 5, 4, 7, 4, 5, 4, 6, 5, 5, 4>>

first_column == <<0, 4, 5, 4, 6, 4, 5, 4, 7, 4, 5, 4, 6, 4, 5, 4>>
rest_of_row  == <<0, 1, 0, 2, 0, 1, 0, 3, 0, 1, 0, 2, 0, 1, 0>>

prio_unmap_table(i) ==
    IF i % 16 = 0 THEN first_column[i \div 16 + 1] ELSE rest_of_row[i % 16]

\* The number that a byte, as a set of bits, is.
Number(byte) ==
    LET bit(i, value) == IF i \in byte THEN value ELSE 0
    IN  bit(0, 1) + bit(1, 2) + bit(2, 4) + bit(3, 8)
          + 16 * (bit(4, 1) + bit(5, 2) + bit(6, 4) + bit(7, 8))
=============================================================================
