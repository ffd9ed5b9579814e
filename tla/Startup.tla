------------------------------- MODULE Startup -------------------------------
(***************************************************************************)
(* From the entry of kmain (main.c) to the first dispatch: the structures  *)
(* are initialised, the handlers of the boot loader are patched for the    *)
(* two vectors that the kernel takes over, the timer is started, and       *)
(* modeswitch calls the user's main, which may make every call of the      *)
(* kernel before there is a task, and calls task_create (module Admission) *)
(* until it does not return.                                               *)
(*                                                                         *)
(* The boot loader calls kmain with interrupts disabled, and modeswitch    *)
(* leaves them so: it clears the mode bits of cpsr only.  main is          *)
(* interrupted in the calls during which S_Handler enables interrupts:     *)
(* read, write, time and sleep.                                            *)
(***************************************************************************)
EXTENDS Admission

CONSTANTS
    OS_NUM_MUTEX, NUM_DEVICES, dev_freq, MaxCreate, NULL,   \* see Kernel
    MaxTicks        \* ticks considered before the first dispatch

ASSUME StartupAssumption ==
    /\ OS_NUM_MUTEX \in Nat \ {0} /\ NUM_DEVICES \in Nat
    /\ dev_freq \in [0 .. (NUM_DEVICES - 1) -> Nat \ {0}]
    /\ MaxCreate \in Nat /\ MaxTicks \in Nat
    /\ NULL \notin 0 .. IDLE_PRIO

VARIABLES
    at,             \* how far the program has come
    instruction,    \* what is at the two vectors: a "load" of the pc, or "other"
    byte1,          \* the byte at address 1, the cur_prio of a NULL cur_tcb: 0 or not
    handler,        \* whose the code is that a vector leads to
    timer_on,
    timer_count, due,
    mutexid, bAvailable,
    ready, cur_tcb  \* the run queue, static data and zero, and what runs

Vectors == {"swi", "irq"}

boot_vars == <<instruction, byte1, handler, timer_on>>
late_vars == <<timer_count, due, mutexid, bAvailable, ready, cur_tcb>>
startup_vars == <<vars, at, boot_vars, late_vars>>

StartupInit ==
    /\ Init
    /\ at = "kmain"
    /\ instruction \in [Vectors -> {"load", "other"}]
    /\ byte1 \in {0, 240}           \* in a branch, and in a load of the pc
    /\ handler = [v \in Vectors |-> "boot loader"]
    /\ timer_on = FALSE
    /\ timer_count = 0 /\ due = [d \in 0 .. (NUM_DEVICES - 1) |-> 0]
    /\ mutexid = 0 /\ bAvailable = [m \in 1 .. OS_NUM_MUTEX |-> 0]
    /\ ready = {} /\ cur_tcb = NULL

Kmain(from, next) == at = from /\ at' = next /\ UNCHANGED vars

initialise ==
    /\ Kmain("kmain", "swi")
    /\ due' = dev_freq
    /\ UNCHANGED <<boot_vars, timer_count, mutexid, bAvailable, ready, cur_tcb>>

\* Mutant: the instruction is not looked at.
recognised_anyway(v) == TRUE

recognised(v) == instruction[v] = "load"

\* BADCODE is returned to the boot loader.
bad_vector(v) ==
    /\ ~recognised(v)
    /\ Kmain(v, "returned")
    /\ UNCHANGED <<boot_vars, late_vars>>

\* Both words of the handler, with interrupts disabled.
patch(v, next) ==
    /\ recognised(v)
    /\ Kmain(v, next)
    /\ handler' = [handler EXCEPT ![v] = "kernel"]
    /\ UNCHANGED <<instruction, byte1, timer_on, late_vars>>

start_timer ==
    /\ Kmain("timer", "irq")
    /\ timer_on' = TRUE
    /\ UNCHANGED <<instruction, byte1, handler, late_vars>>

modeswitch == Kmain("modeswitch", "main") /\ UNCHANGED <<boot_vars, late_vars>>

kmain ==
    \/ initialise
    \/ \E v \in Vectors : bad_vector(v)
    \/ patch("swi", "timer") \/ start_timer \/ patch("irq", "modeswitch")
    \/ modeswitch

-----------------------------------------------------------------------------
\* A tick that comes while main is in a call.  There is no current TCB: the byte
\* at address 1 is compared with the answer of an empty run queue, and when it is
\* larger, a TCB of zeros is launched, which jumps to address 0.
early_tick ==
    /\ at = "main" /\ timer_on /\ timer_count < MaxTicks
    /\ timer_count' = timer_count + 1
    /\ due' = [d \in DOMAIN due |-> IF due[d] = 1 THEN dev_freq[d] ELSE due[d] - 1]
    /\ at' = IF byte1 > 0 THEN "wild" ELSE at
    /\ UNCHANGED <<vars, boot_vars, mutexid, bAvailable, ready, cur_tcb>>

mutex_create ==
    /\ at = "main" /\ mutexid < MaxCreate
    /\ mutexid' = mutexid + 1
    /\ bAvailable' = IF mutexid' > OS_NUM_MUTEX - 1 THEN bAvailable
                     ELSE [bAvailable EXCEPT ![mutexid'] = 1]
    /\ UNCHANGED <<vars, at, boot_vars, timer_count, due, ready, cur_tcb>>

\* Calls that are for tasks.  mutex_lock is always refused: with EINVAL, or with
\* EDEADLOCK, for the holder of a free mutex is NULL as is cur_tcb.  mutex_unlock
\* of a mutex passes both of its tests by that; the mutex stays free, but the byte
\* at address 0 is written to address 1, and takes effect where that is RAM.
mutex_unlock ==
    /\ at = "main" /\ \E m \in 1 .. OS_NUM_MUTEX : bAvailable[m] = 1
    /\ byte1' \in {0, 240}
    /\ UNCHANGED <<vars, at, instruction, handler, timer_on, late_vars>>

\* For a device there is: EHOLDSLOCK if the byte is 0, or else dispatch_sleep
\* launches the TCB of zeros.
event_wait ==
    /\ at = "main"
    /\ at' = IF byte1 > 0 THEN "wild" ELSE at
    /\ UNCHANGED <<vars, boot_vars, late_vars>>

\* Mutant: the highest number is dispatched.
least_urgent(queued) == Max(queued)

most_urgent(queued) == Min(queued)

\* The TCBs that allocate_tasks filled are queued; the idle task stays so.
start_tasks ==
    /\ at = "main"
    /\ task_create
    /\ at' = IF ret' = "runs" THEN "tasks" ELSE IF ret' = "raise" THEN "stopped" ELSE at
    /\ IF ret' = "runs"
       THEN LET queued == {p \in DOMAIN tcbs' : tcbs'[p] # NoTask}
            IN  /\ cur_tcb' = most_urgent(queued)
                /\ ready' = queued \ ({cur_tcb'} \ {IDLE_PRIO})
       ELSE UNCHANGED <<ready, cur_tcb>>
    /\ UNCHANGED <<boot_vars, timer_count, due, mutexid, bAvailable>>

StartupNext ==
    \/ kmain \/ early_tick
    \/ mutex_create \/ mutex_unlock \/ event_wait \/ start_tasks

StartupSpec == StartupInit /\ [][StartupNext]_startup_vars

-----------------------------------------------------------------------------
AnyLock(held, m) == TRUE

\* The kernel of n tasks as module Kernel has it, mutex_init and allocate_tasks
\* having cleared all that is given here as it is.
K(n) == INSTANCE Kernel WITH
            NumTasks <- n, Boot <- 0 .. MaxTicks, MayLock <- AnyLock,
            cur_prio     <- [t \in {0, IDLE_PRIO} \cup 1 .. n |-> t],
            holds_lock   <- [t \in {0, IDLE_PRIO} \cup 1 .. n |-> 0],
            bLock        <- [m \in 1 .. OS_NUM_MUTEX |-> 0],
            pHolding_Tcb <- [m \in 1 .. OS_NUM_MUTEX |-> NULL],
            pSleep_queue <- [m \in 1 .. OS_NUM_MUTEX |-> <<>>],
            dev_queue    <- [d \in 0 .. (NUM_DEVICES - 1) |-> {}]

\* Whatever calls main made first, whatever ticks came, and however often its call
\* was refused (main.c:67-153, device.c:83-110), when tasks are started at all they
\* start in a state that module Kernel starts from; its theorems hold of them.  A
\* main without mutexes was not interrupted before if a tick would have found
\* something else than 0 at address 1: it would have ended there.
StartsTheKernel ==
    at = "tasks" =>
        /\ \A n \in 1 .. (IDLE_PRIO - 1) : Len(given) = n => K(n)!Init
        /\ Len(given) = 0 => cur_tcb = IDLE_PRIO
        /\ mutexid = 0 => byte1 = 0 \/ timer_count = 0

\* The user's main runs with both vectors patched where the kernel knew what it
\* found there, and the timer on.  A kmain that returns has changed nothing, unless
\* it was the second vector that it did not know: then the boot loader goes on with
\* the first one patched and the timer running (main.c:139-142).
PatchesBothOrNone ==
    /\ at \in {"main", "tasks"} =>
          timer_on /\ \A v \in Vectors : handler[v] = "kernel" /\ instruction[v] = "load"
    /\ at = "returned" =>
          \/ ~timer_on /\ \A v \in Vectors : handler[v] = "boot loader"
          \/ instruction["swi"] = "load" /\ handler["irq"] = "boot loader"
=============================================================================
