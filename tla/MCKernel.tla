------------------------------ MODULE MCKernel ------------------------------
(***************************************************************************)
(* Instances of the kernel for TLC: periods in ticks that make signals of  *)
(* different devices fall together and apart, and rules that the user      *)
(* programs follow when they ask for a mutex m while they have others.     *)
(***************************************************************************)
EXTENDS Kernel

Freq2 == [d \in 0 .. 1 |-> d + 1]       \* periods 1 and 2

\* The 100, 200, 500 and 50 ms of device.c:44, in units of 50 ms.
FreqReal == [d \in 0 .. 3 |-> <<2, 4, 10, 1>>[d + 1]]

\* One mutex at a time, or again the one that the task has.
OneLockOnly(held, m) == held \subseteq {m}

\* Nested, in increasing order of the ids.
LocksInOrder(held, m) == \A k \in held : k <= m
=============================================================================
