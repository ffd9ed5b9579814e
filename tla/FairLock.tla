------------------------------ MODULE FairLock ------------------------------
(***************************************************************************)
(* What the kernel's mutexes promise the tasks: one owner at a time, only  *)
(* the owner gives a lock up, and a released lock goes straight to the     *)
(* task that has waited longest, before anybody else can have it.          *)
(***************************************************************************)
EXTENDS Sequences, Functions

CONSTANTS Tasks, Locks, None

VARIABLES
    owner,     \* owner[m]: the task that has lock m, or None
    waiting    \* waiting[m]: the tasks blocked on m, the longest waiting first

vars == <<owner, waiting>>

IsWaiting(t) == \E m \in Locks : t \in Range(waiting[m])

Init ==
    /\ owner = [m \in Locks |-> None]
    /\ waiting = [m \in Locks |-> <<>>]

Acquire(t, m) ==
    /\ ~IsWaiting(t)
    /\ owner[m] = None
    /\ owner' = [owner EXCEPT ![m] = t]
    /\ UNCHANGED waiting

Wait(t, m) ==
    /\ ~IsWaiting(t)
    /\ owner[m] \notin {None, t}
    /\ waiting' = [waiting EXCEPT ![m] = Append(@, t)]
    /\ UNCHANGED owner

Release(t, m) ==
    /\ ~IsWaiting(t)
    /\ owner[m] = t
    /\ IF waiting[m] = <<>>
       THEN owner' = [owner EXCEPT ![m] = None] /\ UNCHANGED waiting
       ELSE /\ owner' = [owner EXCEPT ![m] = Head(waiting[m])]
            /\ waiting' = [waiting EXCEPT ![m] = Tail(@)]

Next == \E t \in Tasks, m \in Locks : Acquire(t, m) \/ Wait(t, m) \/ Release(t, m)

Spec == Init /\ [][Next]_vars
=============================================================================
