------------------------------ MODULE ReadySet ------------------------------
(***************************************************************************)
(* What the run queue of kernel/sched/run_queue.c means to its callers:    *)
(* a set of priorities, one TCB per priority, with the lowest number the   *)
(* most urgent.  The kernel modules compute with these operators; module   *)
(* RunQueue models the two-level bitmap that realises them.                *)
(***************************************************************************)
EXTENDS Integers, FiniteSetsExt

OS_MAX_TASKS == 64
IDLE_PRIO    == 63
Prio         == 0 .. (OS_MAX_TASKS - 1)

\* Mutant: the search ends at the highest number.
LastPrio(ready) == IF ready = {} THEN 0 ELSE Max(ready)

\* highest_prio(): the smallest number in the set.  The table lookup answers
\* 0 for an all-zero bitmap, so an empty set reads as priority 0.
HighestPrio(ready) == IF ready = {} THEN 0 ELSE Min(ready)

\* runqueue_remove(prio), for a queued prio: IDLE_PRIO is never taken out.
TakeFrom(ready, prio) == IF prio = IDLE_PRIO THEN ready ELSE ready \ {prio}
=============================================================================
