-------------------------------- MODULE Traps --------------------------------
(***************************************************************************)
(* How the processor enters and leaves the kernel: S_Handler.S and         *)
(* C_SWI_Handler.c for system calls, arm/int_asm.S for the timer           *)
(* interrupt, ctx_switch_asm.S for switching between tasks.                *)
(*                                                                         *)
(* Code that runs with interrupts disabled is one step up to the next      *)
(* point where it may switch tasks or enable them.  Of the registers the   *)
(* two status registers are kept, and of a stack what is restored into     *)
(* them; which task runs next is module Kernel's matter.                   *)
(***************************************************************************)
EXTENDS Sequences, SequencesExt

CONSTANTS
    Tasks,      \* the tasks and the idle task
    Servers     \* those that call read, write, time or sleep

ASSUME TrapsAssumption == Servers \subseteq Tasks

\* A status register: the mode, and whether interrupts are disabled, which
\* they never are in user mode.
User   == [mode |-> "usr", irq_off |-> FALSE]
Psr    == {User} \cup [mode : {"svc"}, irq_off : BOOLEAN]

\* What a trap leaves on the kernel stack of the task: spsr, and for an
\* interrupt the place that it interrupted.
Points == {"new", "user", "call", "critical", "exit", "leaving", "tick", "stopped"}
Frame  == [kind : {"swi", "irq"}, psr : Psr, pc : Points]

VARIABLES
    running,    \* the task on the processor
    cpsr,
    spsr,       \* spsr_svc, of which there is one for all tasks
    pc,         \* where each task is, or was when it was switched away
    kstack      \* the kernel stack of each task

vars == <<running, cpsr, spsr, pc, kstack>>

Enter(frame)  == kstack' = [kstack EXCEPT ![running] = Append(@, frame)]
TopFrame      == Last(kstack[running])
PopFrame      == kstack' = [kstack EXCEPT ![running] = Front(@)]
At(point)     == pc[running] = point
GoTo(point)   == pc' = [pc EXCEPT ![running] = point]

\* After dispatch_nosave has launched the first task.
Init ==
    /\ running \in Tasks
    /\ cpsr = User
    /\ spsr = User
    /\ pc = [t \in Tasks |-> IF t = running THEN "user" ELSE "new"]
    /\ kstack = [t \in Tasks |-> <<>>]

-----------------------------------------------------------------------------
(* System calls.                                                           *)

\* The SWI instruction, and S_Handler up to its call of C_SWI_Handler, where
\* interrupts have been enabled.
swi ==
    /\ At("user")
    /\ Enter([kind |-> "swi", psr |-> cpsr, pc |-> "user"])
    /\ spsr' = cpsr
    /\ cpsr' = [mode |-> "svc", irq_off |-> FALSE]
    /\ GoTo("call")
    /\ UNCHANGED running

\* read, write, time and sleep leave interrupts enabled.
open_call ==
    /\ At("call") /\ running \in Servers
    /\ GoTo("exit")
    /\ UNCHANGED <<running, cpsr, spsr, kstack>>

\* Mutant: the call of disable_interrupts() is forgotten.
still_enabled == cpsr

interrupts_disabled == [cpsr EXCEPT !.irq_off = TRUE]

critical_call ==
    /\ At("call")
    /\ cpsr' = interrupts_disabled
    /\ GoTo("critical")
    /\ UNCHANGED <<running, spsr, kstack>>

invalid_syscall ==
    /\ At("call")
    /\ cpsr' = [cpsr EXCEPT !.irq_off = TRUE]
    /\ GoTo("stopped")
    /\ UNCHANGED <<running, spsr, kstack>>

\* while(1);
stopped == At("stopped") /\ UNCHANGED vars

critical_call_returns ==
    /\ At("critical")
    /\ GoTo("exit")
    /\ UNCHANGED <<running, cpsr, spsr, kstack>>

\* Mutant: spsr is taken to be what it was at the entry.
spsr_as_it_is == spsr

saved_spsr == TopFrame.psr

\* S_Handler after C_SWI_Handler: MSR spsr ...
restore_spsr ==
    /\ At("exit")
    /\ spsr' = saved_spsr
    /\ GoTo("leaving")
    /\ UNCHANGED <<running, cpsr, kstack>>

\* Mutant: MOV for MOVS.
cpsr_kept == cpsr

cpsr_from_spsr == spsr

\* ... and, three instructions later, MOVS pc, lr.
leave ==
    /\ At("leaving")
    /\ cpsr' = cpsr_from_spsr
    /\ PopFrame
    /\ GoTo("user")
    /\ UNCHANGED <<running, spsr>>

-----------------------------------------------------------------------------
(* The timer interrupt.                                                    *)

\* Mutant: msr cpsr_c, #PSR_MODE_SVC.
svc_enabled == [mode |-> "svc", irq_off |-> FALSE]

svc_disabled == [mode |-> "svc", irq_off |-> TRUE]

\* irq_wrapper up to its call of C_IRQ_Handler.
irq_wrapper ==
    /\ ~cpsr.irq_off
    /\ Enter([kind |-> "irq", psr |-> cpsr, pc |-> pc[running]])
    /\ spsr' = cpsr
    /\ cpsr' = svc_disabled
    /\ GoTo("tick")
    /\ UNCHANGED running

irq_returns ==
    /\ At("tick")
    /\ spsr' = saved_spsr
    /\ cpsr' = saved_spsr
    /\ GoTo(TopFrame.pc)
    /\ PopFrame
    /\ UNCHANGED running

-----------------------------------------------------------------------------
(* Switching tasks.                                                        *)

launch_psr == User

\* ctx_switch_full to task u, whose lr is 0 before its first run.
switch_to(u) ==
    /\ u \in Tasks \ {running}
    /\ running' = u
    /\ cpsr' = IF pc[u] = "new" THEN launch_psr ELSE cpsr
    /\ UNCHANGED <<spsr, kstack>>

launched(u, points) == IF points[u] = "new" THEN [points EXCEPT ![u] = "user"] ELSE points

\* dispatch_save, called by dev_update.
tick_switches ==
    /\ At("tick")
    /\ \E u \in Tasks : switch_to(u) /\ pc' = launched(u, pc)

\* dispatch_sleep, called by dev_wait and mutex_lock, whose next step after it
\* is to return.
call_blocks ==
    /\ At("critical")
    /\ \E u \in Tasks : switch_to(u) /\ pc' = launched(u, [pc EXCEPT ![running] = "exit"])

Next ==
    \/ swi \/ open_call \/ critical_call \/ critical_call_returns \/ call_blocks
    \/ restore_spsr \/ leave \/ invalid_syscall \/ stopped
    \/ irq_wrapper \/ irq_returns \/ tick_switches

Spec == Init /\ [][Next]_vars

-----------------------------------------------------------------------------
TypeOK ==
    /\ running \in Tasks
    /\ cpsr \in Psr /\ spsr \in Psr
    /\ pc \in [Tasks -> Points]
    /\ kstack \in [Tasks -> Seq(Frame)]

\* The calls that touch the run queue, the mutexes and the devices, and the
\* tick, are never interrupted, nor is a task resumed half way through one with
\* interrupts enabled: module Kernel takes them as one step each.
KernelAtomic ==
    /\ pc[running] \in {"critical", "tick", "stopped"} => cpsr.irq_off
    /\ \A t \in Tasks :
        /\ \A k \in DOMAIN kstack[t] : kstack[t][k].pc \notin {"critical", "tick", "stopped"}
        /\ t # running => pc[t] \in {"new", "exit", "tick"}

\* A kernel stack never holds more than one call with one tick on top of it,
\* whatever interrupts what (task.h:62-63 gives it 4096 bytes).
StackBounded ==
    \A t \in Tasks :
        /\ Len(kstack[t]) <= 2
        /\ Len(kstack[t]) = 2 => kstack[t][1].kind = "swi" /\ kstack[t][2].kind = "irq"

\* The timer can always interrupt the code of a task: no way back from the
\* kernel leaves interrupts disabled.
UserInterruptible == At("user") => ~cpsr.irq_off

\* A task that makes no read, write, time or sleep calls runs its own code in
\* user mode, though spsr is one register for all tasks (ctx_switch_asm.S:7)
\* and the others may be in any state.
OthersStayInUserMode == running \notin Servers /\ At("user") => cpsr = User

\* int_asm.S:34-37, spsr may be overwritten "because svc-mode (SWI) entry code
\* saves it with IRQ disabled": the MOVS that leaves a system call finds in
\* spsr what the call was entered with.
LeavesToItsCaller == At("leaving") => spsr = TopFrame.psr
=============================================================================
