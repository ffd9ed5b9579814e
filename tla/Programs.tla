------------------------------ MODULE Programs ------------------------------
(***************************************************************************)
(* Three of the test programs (tasks/mutex_chaser, simple_mutex, sys_err)  *)
(* on the kernel, through the stubs of tasks/libc/swi.  A step is a call,  *)
(* or the code of a task between two calls; memory is read and written in  *)
(* steps of their own, and ticks come between any two: those of 50 ms,     *)
(* which may signal devices, and those between them, which only dispatch.  *)
(* A task is its TCB: the one with the shortest period is 1.               *)
(*                                                                         *)
(* Every program has as many mutexes as there are: OS_NUM_MUTEX, of which  *)
(* the last is never given out.                                            *)
(***************************************************************************)
EXTENDS Integers, Sequences, SequencesExt

CONSTANTS Names, OS_NUM_MUTEX, Boot, NULL

VARIABLES
    ready, cur_tcb, cur_prio, holds_lock, mutexid, bAvailable, bLock,
    pHolding_Tcb, pSleep_queue, dev_queue, due,     \* see module Kernel
    program,        \* the program that was loaded
    first, late,    \* due at the start, and whether a tick of 50 ms has come while
                    \* a task ran: not in the program, for the properties
    errno,          \* one variable for all tasks
    at,             \* where each task is, and its local variables
    local,
    memory,         \* the globals of the program
    shown           \* what it printed that a property is about

kernel_vars == <<ready, cur_tcb, cur_prio, holds_lock, mutexid, bAvailable, bLock,
                 pHolding_Tcb, pSleep_queue, dev_queue, due>>
user_vars   == <<errno, at, local, memory, shown>>
program_vars == <<kernel_vars, program, first, late, user_vars>>

Periods == [d \in 0 .. 3 |-> <<2, 4, 10, 1>>[d + 1]]       \* device.c:44, in 50 ms
AnyLock(held, m) == TRUE

\* The kernel with n tasks.
K(n) == INSTANCE Kernel WITH NumTasks <- n, NUM_DEVICES <- 4, dev_freq <- Periods,
                             MaxCreate <- OS_NUM_MUTEX + 2, MayLock <- AnyLock

size == [mutex_chaser |-> 4, simple_mutex |-> 3, sys_err |-> 1]

-----------------------------------------------------------------------------
(* The system calls with their results, OK for any that is not an error.   *)

OK == "OK"

create_result == IF mutexid + 1 > OS_NUM_MUTEX - 1 THEN "ENOMEM" ELSE OK

lock_result(m) ==
    IF m \notin K(1)!Mutexes \/ bAvailable[m] # 1 THEN "EINVAL"
    ELSE IF K(1)!relocks(m) THEN "EDEADLOCK" ELSE OK

\* Behind the end of gtMutex the call reads other memory, and may give any answer.
\* With success it sets the caller back to its own priority, which the one program
\* that makes such a call has then, and writes to that memory.
unlock_results(m) ==
    IF m > OS_NUM_MUTEX THEN {"EINVAL", "EPERM", OK}
    ELSE IF m < 1 \/ bAvailable[m] # 1 THEN {"EINVAL"}
    ELSE IF pHolding_Tcb[m] # cur_tcb THEN {"EPERM"} ELSE {OK}

wait_result(dev) ==
    IF dev \notin K(1)!Devices THEN "EINVAL"
    ELSE IF cur_prio[cur_tcb] = 0 THEN "EHOLDSLOCK" ELSE OK

\* What a stub does with a result: errno keeps the last error.
report(result) == errno' = IF result = OK THEN errno ELSE result

\* Then(result) is what the caller makes of it.
mutex_create(n, Then(_)) ==
    K(n)!mutex_create /\ report(create_result) /\ Then(create_result)
mutex_lock(n, m, Then(_)) ==
    K(n)!mutex_lock(m) /\ report(lock_result(m)) /\ Then(lock_result(m))
mutex_unlock(n, m, Then(_)) ==
    \E result \in unlock_results(m) : K(n)!mutex_unlock(m) /\ report(result) /\ Then(result)
event_wait(n, dev, Then(_)) ==
    K(n)!event_wait(dev) /\ report(wait_result(dev)) /\ Then(wait_result(dev))

Here(t, label) == cur_tcb = t /\ at[t] = label
goto(t, label) == at' = [at EXCEPT ![t] = label]
Silent(vs) == UNCHANGED <<kernel_vars, errno, vs>>

\* A call that ends in panic, which prints and spins, when it fails.
or_panic(t, result, label) == goto(t, IF result = OK THEN label ELSE "panic")

-----------------------------------------------------------------------------
(* mutex_chaser: four tasks work on every mutex_val in turn, each with an  *)
(* operation and a device of its own.                                      *)

Chasing(t) == program = "mutex_chaser" /\ cur_tcb = t /\ t \in 1 .. 4

init_val == 2
op(t, v) == CASE t = 1 -> v + 3 [] t = 2 -> v * 11 [] t = 3 -> v - 7 [] t = 4 -> v * 13
device(t) == <<3, 0, 1, 2>>[t]
result_val == op(4, op(3, op(2, op(1, init_val))))

cur_mutex(t) == local[t].cur_mutex

\* Mutant: the mutex is not taken.
lock_forgotten(t) ==
    /\ Chasing(t) /\ at[t] = "lock"
    /\ goto(t, "read")
    /\ Silent(<<local, memory, shown>>)

chaser_lock(t) ==
    /\ Chasing(t) /\ at[t] = "lock"
    /\ mutex_lock(4, cur_mutex(t), LAMBDA result : or_panic(t, result, "read"))
    /\ UNCHANGED <<local, memory, shown>>

chaser_read(t) ==
    /\ Chasing(t) /\ at[t] = "read"
    /\ local' = [local EXCEPT ![t].value = memory[cur_mutex(t)]]
    /\ goto(t, "write")
    /\ Silent(<<memory, shown>>)

chaser_write(t) ==
    /\ Chasing(t) /\ at[t] = "write"
    /\ memory' = [memory EXCEPT ![cur_mutex(t)] = op(t, local[t].value)]
    /\ goto(t, "unlock")
    /\ Silent(<<local, shown>>)

chaser_unlock(t) ==
    /\ Chasing(t) /\ at[t] = "unlock"
    /\ mutex_unlock(4, cur_mutex(t), LAMBDA result : or_panic(t, result, "wait"))
    /\ local' = [local EXCEPT ![t].cur_mutex = @ + 1]
    /\ UNCHANGED <<memory, shown>>

\* The end of a round, and for ever after the last one; only fun4 reports first.
chaser_wait(t) ==
    LET more == IF cur_mutex(t) < OS_NUM_MUTEX THEN "lock"
                ELSE IF t = 4 /\ shown = <<>> THEN "report" ELSE "wait"
    IN  /\ Chasing(t) /\ at[t] = "wait"
        /\ event_wait(4, device(t), LAMBDA result : or_panic(t, result, more))
        /\ UNCHANGED <<local, memory, shown>>

\* One line for each mutex_val, the first of which no task works on.
chaser_report ==
    /\ Chasing(4) /\ at[4] = "report"
    /\ shown' = Append(shown, memory[Len(shown)] = result_val)
    /\ goto(4, IF Len(shown') = OS_NUM_MUTEX THEN "wait" ELSE "report")
    /\ Silent(<<local, memory>>)

ChaserInit ==
    /\ program = "mutex_chaser"
    /\ K(4)!Init /\ mutexid = OS_NUM_MUTEX
    /\ errno = "ENOMEM"
    /\ at = [t \in 1 .. 4 |-> "lock"]
    /\ local = [t \in 1 .. 4 |-> [cur_mutex |-> 1, value |-> init_val]]
    /\ memory = [m \in 0 .. (OS_NUM_MUTEX - 1) |-> init_val]
    /\ shown = <<>>

Chaser ==
    \/ \E t \in 1 .. 4 : chaser_lock(t) \/ chaser_read(t) \/ chaser_write(t)
                         \/ chaser_unlock(t) \/ chaser_wait(t)
    \/ chaser_report

-----------------------------------------------------------------------------
(* simple_mutex: a task that makes a mutex and two more that take it.  The *)
(* results of mutex_lock and mutex_unlock are not looked at.               *)

Simple(t, label) == program = "simple_mutex" /\ Here(t, label)

print(c) == shown' = Append(shown, c)

simple_create ==
    /\ Simple(1, "create")
    /\ mutex_create(3, LAMBDA result : memory' = [memory EXCEPT !.mid = IF result = OK THEN mutexid + 1 ELSE -1])
    /\ goto(1, "top")
    /\ UNCHANGED <<local, shown>>

\* fun1 spins with its second s, at its own priority.
simple_1 ==
    \/ /\ Simple(1, "top") /\ memory.even[1]
       /\ IF memory.once THEN print("s!") /\ goto(1, "spin") /\ UNCHANGED memory
          ELSE /\ print("s") /\ goto(1, "wait")
               /\ memory' = [memory EXCEPT !.once = TRUE, !.even[1] = FALSE]
       /\ Silent(local)
    \/ /\ Simple(1, "top") /\ ~memory.even[1]
       /\ mutex_lock(3, memory.mid, LAMBDA result : goto(1, "locked"))
       /\ UNCHANGED <<local, memory, shown>>
    \/ /\ Simple(1, "locked")
       /\ print("e") /\ memory' = [memory EXCEPT !.even[1] = TRUE]
       /\ goto(1, "unlock")
       /\ Silent(local)
    \/ /\ Simple(1, "unlock")
       /\ mutex_unlock(3, memory.mid, LAMBDA result : goto(1, "wait"))
       /\ UNCHANGED <<local, memory, shown>>

\* fun2 never gives the mutex back.
simple_2 ==
    \/ /\ Simple(2, "top") /\ memory.even[2]
       /\ print("u") /\ memory' = [memory EXCEPT !.even[2] = FALSE]
       /\ goto(2, "wait")
       /\ Silent(local)
    \/ /\ Simple(2, "top") /\ ~memory.even[2]
       /\ mutex_lock(3, memory.mid, LAMBDA result : goto(2, "locked"))
       /\ UNCHANGED <<local, memory, shown>>
    \/ /\ Simple(2, "locked")
       /\ print("S") /\ goto(2, "wait")
       /\ Silent(<<local, memory>>)

\* fun3 means to keep the mutex while it waits for its device.
simple_3 ==
    \/ /\ Simple(3, "top")
       /\ print("c") /\ goto(3, "call")
       /\ Silent(<<local, memory>>)
    \/ /\ Simple(3, "call") /\ memory.even[3]
       /\ mutex_lock(3, memory.mid, LAMBDA result : goto(3, "odd"))
       /\ UNCHANGED <<local, memory, shown>>
    \/ /\ Simple(3, "odd")
       /\ memory' = [memory EXCEPT !.even[3] = FALSE]
       /\ goto(3, "wait")
       /\ Silent(<<local, shown>>)
    \/ /\ Simple(3, "call") /\ ~memory.even[3]
       /\ mutex_unlock(3, memory.mid, LAMBDA result : goto(3, "wait"))
       /\ UNCHANGED <<local, memory, shown>>

simple_wait(t) ==
    /\ Simple(t, "wait")
    /\ event_wait(3, t - 1, LAMBDA result : or_panic(t, result, "top"))
    /\ UNCHANGED <<local, memory, shown>>

SimpleInit ==
    /\ program = "simple_mutex"
    /\ K(3)!Init /\ mutexid = 0
    /\ errno = OK
    /\ at = [t \in 1 .. 3 |-> IF t = 1 THEN "create" ELSE "top"]
    /\ local = <<>>
    /\ memory = [mid |-> -1, once |-> FALSE, even |-> [t \in 1 .. 3 |-> TRUE]]
    /\ shown = <<>>

SimpleMutex ==
    simple_create \/ simple_1 \/ simple_2 \/ simple_3 \/ \E t \in 1 .. 3 : simple_wait(t)

-----------------------------------------------------------------------------
(* sys_err: one task that makes a wrong call of every kind, after its main *)
(* has made two.                                                           *)

step(call, arg, expected) == [call |-> call, arg |-> arg, expected |-> expected]

\* main and fun1 of sys_err.c, with ids that stand to OS_NUM_MUTEX as its own do.
script ==
    <<step("task_create", 65, "EINVAL"), step("task_create", 30, "EFAULT")>>
    \o [i \in 1 .. OS_NUM_MUTEX |-> step("create", 0, "unchecked")]
    \o <<step("create", 0, "ENOMEM"),
         step("unlock", OS_NUM_MUTEX + 1, "EINVAL"),
         step("unlock", OS_NUM_MUTEX - 1, "EPERM"),
         step("lock", OS_NUM_MUTEX + 1, "EINVAL"),
         step("lock", 1, OK),
         step("lock", 1, "EDEADLOCK"),
         step("unlock", 1, OK),
         step("wait", 4, "EINVAL")>>

Checking(label) == program = "sys_err" /\ cur_tcb = 1 /\ label = at[1] /\ Len(shown) < Len(script)
now == script[Len(shown) + 1]

err_call ==
    LET keep(result) == local' = result /\ goto(1, "check")
    IN  /\ Checking("call")
        /\ CASE now.call = "create" -> mutex_create(1, keep)
             [] now.call = "lock"   -> mutex_lock(1, now.arg, keep)
             [] now.call = "unlock" -> mutex_unlock(1, now.arg, keep)
             [] now.call = "wait"   -> event_wait(1, now.arg, keep)
        /\ UNCHANGED <<memory, shown>>

\* A success is seen in the result of the call, an error in errno.
check_return ==
    /\ Checking("check")
    /\ print(IF now.expected = OK THEN local = OK ELSE errno = now.expected)
    /\ goto(1, "call")
    /\ Silent(<<local, memory>>)

\* An array that is too long, or above the user's stack; see module Admission.
task_create_result(num_tasks, in_ram) ==
    IF num_tasks > K(1)!OS_MAX_TASKS THEN "EINVAL" ELSE IF ~in_ram THEN "EFAULT" ELSE OK

\* main's calls were refused and checked, before the third started the task.
ErrInit ==
    /\ program = "sys_err"
    /\ K(1)!Init /\ mutexid = 0
    /\ shown = <<task_create_result(65, TRUE) = "EINVAL", task_create_result(30, FALSE) = "EFAULT">>
    /\ errno = task_create_result(30, FALSE)
    /\ at = [t \in {1} |-> "call"]
    /\ local = OK
    /\ memory = <<>>

SysErr == err_call \/ check_return

-----------------------------------------------------------------------------
(* The programs, each with the timer interrupt.                            *)

Init ==
    /\ program \in Names
    /\ ChaserInit \/ SimpleInit \/ ErrInit
    /\ first = due /\ late = FALSE

tick == /\ \E n \in 1 .. 4 : n = size[program] /\ K(n)!C_IRQ_Handler
        /\ late' = (late \/ cur_tcb \in DOMAIN at)
        /\ UNCHANGED user_vars

\* The ticks of 10 ms between them reach no next_match: all that dev_update does is
\* to compare priorities and switch tasks.  Any number may come, where four do.
tick_between ==
    /\ \E n \in 1 .. 4 : n = size[program] /\ K(n)!preempts(ready) /\ K(n)!dispatch_save(ready)
    /\ UNCHANGED <<cur_prio, holds_lock, mutexid, bAvailable, bLock, pHolding_Tcb, pSleep_queue,
                   dev_queue, due, late, user_vars>>

Next ==
    /\ \/ (Chaser \/ SimpleMutex \/ SysErr) /\ UNCHANGED late
       \/ tick
       \/ tick_between
    /\ UNCHANGED <<program, first>>

Spec == Init /\ [][Next]_program_vars

-----------------------------------------------------------------------------
ChaserDone == program = "mutex_chaser" /\ Len(shown) = OS_NUM_MUTEX

\* Nobody panics, and the first mutex is worked on in the order of
\* mutex_chaser.c:29.  All are if the tasks end their work before the next tick and
\* device 1 is first signalled no later than device 2.  When it is later, because
\* task_create came 400 to 499 ms after a second began, fun4 overtakes fun3 at the
\* second mutex.
ChaserKeepsOrder ==
    /\ program = "mutex_chaser" => \A t \in 1 .. 4 : at[t] # "panic"
    /\ ChaserDone => memory[1] = result_val
    /\ (ChaserDone /\ ~late) =>
          \A m \in 1 .. (OS_NUM_MUTEX - 1) :
              memory[m] = result_val <=> (m # 2 \/ first[1] <= first[2])

\* A task that panics with a mutex keeps the processor for good: it spins at
\* priority 0, so that neither devices nor the time slice of others end it
\* (simple_mutex.c:85-99, where fun3 waits for its device with the mutex).
PanicWithMutexStopsAll ==
    [][\A t \in DOMAIN at :
          (at[t] = "panic" /\ \E m \in 1 .. OS_NUM_MUTEX : pHolding_Tcb[m] = t)
              => cur_tcb = t /\ cur_tcb' = t /\ shown' = shown]_program_vars

\* The checks of sys_err.c:33-47, 69 and 72 pass, but for the one of
\* mutex_unlock(165), which depends on the memory behind gtMutex (mutex.c:126 has no
\* upper bound), and the only task keeps the processor: no call that should be
\* refused puts it to sleep.
SysErrPasses ==
    program = "sys_err" =>
        /\ cur_tcb = 1
        /\ \A i \in 1 .. Len(shown) :
              \/ script[i].expected = "unchecked" \/ shown[i]
              \/ script[i].call = "unlock" /\ script[i].arg > OS_NUM_MUTEX
=============================================================================
