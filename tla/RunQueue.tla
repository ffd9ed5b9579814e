------------------------------ MODULE RunQueue ------------------------------
(***************************************************************************)
(* kernel/sched/run_queue.c: the run queue as a two-level bitmap.  A byte  *)
(* is the set of the positions of its 1 bits, so `|` is union and `^` is   *)
(* symmetric difference.                                                   *)
(*                                                                         *)
(* Every caller passes runqueue_remove the answer of highest_prio(), with  *)
(* interrupts disabled around both, so the two calls are one step here.    *)
(***************************************************************************)
EXTENDS ReadySet, UnmapTable

CONSTANTS
    Users,     \* priorities that runqueue_add is called with, besides IDLE_PRIO
    NotYet     \* value of `taken` before the first removal

ASSUME UsersAssumption == Users \subseteq Prio /\ NotYet \notin Prio

VARIABLES
    run_bits,        \* run_bits[y]: the bits of byte y
    group_run_bits,  \* the bytes that have some bit set
    taken            \* the index of the TCB the last removal returned

vars == <<run_bits, group_run_bits, taken>>

\* prio >> 3, prio & 0x07 and (y << 3) + x.
Group(prio)   == prio \div 8
Place(prio)   == prio % 8
PrioOf(y, x)  == y * 8 + x

highest_prio ==
    LET y == prio_unmap(group_run_bits)
    IN  PrioOf(y, prio_unmap(run_bits[y]))

\* The bitmaps are static data, zero at load; runqueue_init is never called.
Init ==
    /\ run_bits = [y \in Bits |-> {}]
    /\ group_run_bits = {}
    /\ taken = NotYet

\* Mutant: the group bit is not set.
add_ungrouped(prio) ==
    /\ run_bits' = [run_bits EXCEPT ![Group(prio)] = {Place(prio)} \cup @]
    /\ UNCHANGED <<group_run_bits, taken>>

runqueue_add(prio) ==
    /\ run_bits' = [run_bits EXCEPT ![Group(prio)] = {Place(prio)} \cup @]
    /\ group_run_bits' = group_run_bits \cup {Group(prio)}
    /\ UNCHANGED taken

\* runqueue_remove(prio): the bits are toggled, not cleared, and the idle
\* priority is left where it is.
runqueue_remove(prio) ==
    /\ taken' = prio
    /\ IF prio = IDLE_PRIO
       THEN UNCHANGED <<run_bits, group_run_bits>>
       ELSE LET byte == SymDiff({Place(prio)}, run_bits[Group(prio)])
            IN  /\ run_bits' = [run_bits EXCEPT ![Group(prio)] = byte]
                /\ group_run_bits' = IF byte = {}
                                     THEN SymDiff(group_run_bits, {Group(prio)})
                                     ELSE group_run_bits

\* The runqueue_remove(highest_prio()) of the three dispatch functions, which
\* run only after allocate_tasks has queued the idle task.
take_highest ==
    /\ Place(IDLE_PRIO) \in run_bits[Group(IDLE_PRIO)]
    /\ runqueue_remove(highest_prio)

Next ==
    \/ \E prio \in Users \cup {IDLE_PRIO} : runqueue_add(prio)
    \/ take_highest

Spec == Init /\ [][Next]_vars

-----------------------------------------------------------------------------
\* The variables hold bytes and a TCB index.
TypeOK ==
    /\ run_bits \in [Bits -> SUBSET Bits]
    /\ group_run_bits \in SUBSET Bits
    /\ taken \in Prio \cup {NotYet}

\* A bit of the upper byte says exactly whether its lower byte is non-zero
\* (run_queue.c:29-35).  The XORs of runqueue_remove keep this only if a byte
\* that becomes zero had its group bit set, and no bit is removed twice.
TrieConsistent == \A y \in Bits : y \in group_run_bits <=> run_bits[y] # {}

\* "This unmap table finds the bit position of the lowest bit in a given byte"
\* (run_queue.c:40): at every byte that the run queue looks up, the literals of
\* the table agree with prio_unmap, which module RunQueue computes with.
LookupsFindLowestBit ==
    \A byte \in {group_run_bits} \cup {run_bits[y] : y \in Bits} :
        prio_unmap_table(Number(byte)) = prio_unmap(byte)

\* The set of priorities the bitmap stands for.
ReadyPrios == {p \in Prio : Place(p) \in run_bits[Group(p)]}

\* The bitmap implements the abstract ready queue: every add inserts exactly
\* its priority, every removal returns the smallest priority that is in
\* (highest_prio's contract, run_queue.c:118-121) and takes out only that.
Abstract == INSTANCE ReadyQueue WITH ready <- ReadyPrios
ImplementsReadyQueue == Abstract!Spec
=============================================================================
