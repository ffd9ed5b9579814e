----------------------------- MODULE ReadyQueue -----------------------------
(***************************************************************************)
(* The abstract run queue: a set of ready priorities that the dispatchers  *)
(* add to and take the most urgent member of.                              *)
(***************************************************************************)
EXTENDS ReadySet

CONSTANTS
    Users,     \* priorities that runqueue_add is called with, besides IDLE_PRIO
    NotYet     \* value of `taken` before the first removal

VARIABLES
    ready,     \* the priorities that are marked runnable
    taken      \* the priority whose TCB the last removal returned

vars == <<ready, taken>>

Init == ready = {} /\ taken = NotYet

Add(p) == ready' = ready \cup {p} /\ UNCHANGED taken

\* The dispatchers run only after allocate_tasks has queued the idle task.
TakeHighest ==
    /\ IDLE_PRIO \in ready
    /\ taken' = Min(ready)
    /\ ready' = TakeFrom(ready, Min(ready))

Next == (\E p \in Users \cup {IDLE_PRIO} : Add(p)) \/ TakeHighest

Spec == Init /\ [][Next]_vars
=============================================================================
