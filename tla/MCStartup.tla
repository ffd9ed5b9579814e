----------------------------- MODULE MCStartup -----------------------------
(***************************************************************************)
(* Task sets that meet and miss the bounds of the first entries of         *)
(* ub_factor (1000, 828, 780, 757), with equal periods, equal tasks, a C   *)
(* above its T, a product that wraps at 16 bits and a period of 0; all     *)
(* that OS_MAX_TASKS allows, and one task more; five tasks for which no    *)
(* product wraps but the sums do, so that all are admitted.                *)
(***************************************************************************)
EXTENDS Startup

Task(c, t, b) == [C |-> c, T |-> t, B |-> b]

Kinds == {Task(1, 4, 0), Task(1, 4, 1), Task(3, 4, 0), Task(2, 5, 0), Task(2, 5, 1),
          Task(4, 5, 0), Task(3, 10, 1), Task(11, 10, 0), Task(66, 70, 0), Task(0, 0, 0)}
Light == {Task(1, 7, 0), Task(1, 8, 0), Task(0, 9, 0), Task(1, 9, 1)}

SumsWrap == <<Task(1, 1, 0), Task(0, 1, 0), Task(1, 1, 64), Task(1, 1, 64), Task(1, 1, 63)>>

Sets == UNION {[1 .. n -> Kinds] : n \in 0 .. 3} \cup [1 .. 4 -> Light]
        \cup {[i \in 1 .. n |-> Task(0, IF i = 1 THEN 9 ELSE 7, 0)] : n \in 61 .. 65} \cup {SumsWrap}

Freq2 == [d \in 0 .. 1 |-> d + 1]
=============================================================================
