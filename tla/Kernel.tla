------------------------------- MODULE Kernel -------------------------------
(***************************************************************************)
(* The running kernel, from the moment task_create has dispatched the      *)
(* first task: the dispatcher (sched/ctx_switch.c), the mutexes            *)
(* (lock/mutex.c), the periodic devices (device.c) and the timer interrupt *)
(* that drives them (C_IRQ_Handler.c).                                     *)
(*                                                                         *)
(* There is one processor.  C_SWI_Handler disables interrupts before each  *)
(* of these calls, and the timer handler runs with interrupts disabled, so *)
(* a call and a tick are one step each; what interleaves is the order of   *)
(* the calls, chosen by the running task, and of the ticks.                *)
(*                                                                         *)
(* A TCB is its index in system_tcb, which is also its native priority.    *)
(***************************************************************************)
EXTENDS ReadySet, Sequences

CONSTANTS
    NumTasks,       \* tasks given to task_create; TCB 1 has the shortest period
    OS_NUM_MUTEX,   \* entries of gtMutex
    NUM_DEVICES,
    dev_freq,       \* the period of each device, in ticks
    Boot,           \* ticks that task_create may come after dev_init
    MaxCreate,      \* calls of mutex_create considered
    MayLock(_, _),  \* MayLock(held, m): a task that has the mutexes in held may
                    \* ask for m, a rule of the user programs
    NULL

Tasks    == 1 .. NumTasks
Tcbs     == {0, IDLE_PRIO} \cup Tasks       \* TCB 0 is reserved, see sched.c:48
Devices  == 0 .. (NUM_DEVICES - 1)
Mutexes  == 1 .. OS_NUM_MUTEX               \* mutex m is gtMutex[m-1]

ASSUME KernelAssumption ==
    /\ NumTasks \in 1 .. (IDLE_PRIO - 1)
    /\ OS_NUM_MUTEX \in Nat \ {0}
    /\ NUM_DEVICES \in Nat
    /\ dev_freq \in [Devices -> Nat \ {0}]
    /\ Boot \subseteq Nat
    /\ MaxCreate \in Nat
    /\ NULL \notin Tcbs

VARIABLES
    ready,          \* the run queue: priorities, see module ReadySet
    cur_tcb,        \* ctx_switch.c's cur_tcb
    cur_prio,       \* system_tcb[t].cur_prio
    holds_lock,     \* system_tcb[t].holds_lock
    mutexid,        \* how often mutex_create was called
    bAvailable,     \* the fields of gtMutex[m-1], the sleep queue as a sequence
    bLock,
    pHolding_Tcb,
    pSleep_queue,
    dev_queue,      \* the tasks asleep on a device; they all wake together
    due             \* ticks until millis reaches a device's next_match

mutex_vars == <<bAvailable, bLock, pHolding_Tcb, pSleep_queue>>
vars == <<ready, cur_tcb, cur_prio, holds_lock, mutexid, mutex_vars, dev_queue, due>>

native_prio(t) == t

Held(t) == {m \in Mutexes : pHolding_Tcb[m] = t}

-----------------------------------------------------------------------------
(* allocate_tasks and the dispatch_nosave that ends it: every task and the *)
(* idle task are queued and the first task is taken out.  dev_init and     *)
(* mutex_init ran in kmain; between them and task_create, ticks went by    *)
(* and main may have created mutexes.                                      *)

Init ==
    /\ ready = (Tasks \cup {IDLE_PRIO}) \ {1}
    /\ cur_tcb = 1
    /\ cur_prio = [t \in Tcbs |-> native_prio(t)]
    /\ holds_lock = [t \in Tcbs |-> 0]
    /\ mutexid \in 0 .. MaxCreate
    /\ bAvailable = [m \in Mutexes |-> IF m <= mutexid /\ m < OS_NUM_MUTEX THEN 1 ELSE 0]
    /\ bLock = [m \in Mutexes |-> 0]
    /\ pHolding_Tcb = [m \in Mutexes |-> NULL]
    /\ pSleep_queue = [m \in Mutexes |-> <<>>]
    /\ dev_queue = [d \in Devices |-> {}]
    /\ \E k \in Boot : due = [d \in Devices |-> dev_freq[d] - (k % dev_freq[d])]

-----------------------------------------------------------------------------
(* Dispatching: run the TCB of the highest priority in the run queue r.    *)

\* Mutant: the dispatched task stays in the run queue.
dispatch_not_removed(r) == cur_tcb' = HighestPrio(r) /\ ready' = r

dispatch(r) ==
    /\ cur_tcb' = HighestPrio(r)
    /\ ready' = TakeFrom(r, HighestPrio(r))

\* Mutant: the preempted task is not queued again, as in dispatch_sleep.
dispatch_unsaved(r) == dispatch(r)

dispatch_save(r) == dispatch(r \cup {cur_prio[cur_tcb]})
dispatch_sleep   == dispatch(ready)

-----------------------------------------------------------------------------
(* System calls of the running task.  A call that is refused returns an    *)
(* error code and changes nothing.                                         *)

\* Only a task makes calls: the idle task loops, and TCB 0 has no code.
TaskRuns == cur_tcb \in Tasks

refused == UNCHANGED vars

mutex_create ==
    /\ TaskRuns
    /\ mutexid < MaxCreate
    /\ mutexid' = mutexid + 1
    /\ bAvailable' = IF mutexid' > OS_NUM_MUTEX - 1
                     THEN bAvailable
                     ELSE [bAvailable EXCEPT ![mutexid'] = 1]
    /\ UNCHANGED <<ready, cur_tcb, cur_prio, holds_lock, bLock, pHolding_Tcb,
                   pSleep_queue, dev_queue, due>>

\* Mutant: the test for EDEADLOCK is dropped.
never_relocks(m) == FALSE

\* The caller has the lock already.
relocks(m) == pHolding_Tcb[m] = cur_tcb

\* EINVAL and EDEADLOCK.
lock_refused(m) ==
    /\ \/ m \notin Mutexes
       \/ m \in Mutexes /\ (bAvailable[m] # 1 \/ relocks(m))
    /\ refused

\* Mutant: the holder keeps its own priority.
not_raised == cur_prio

raised_prio == [cur_prio EXCEPT ![cur_tcb] = 0]

lock_free(m) ==
    /\ m \in Mutexes /\ bAvailable[m] = 1 /\ ~relocks(m)
    /\ bLock[m] = 0
    /\ pHolding_Tcb' = [pHolding_Tcb EXCEPT ![m] = cur_tcb]
    /\ bLock' = [bLock EXCEPT ![m] = 1]
    /\ holds_lock' = [holds_lock EXCEPT ![cur_tcb] = 1]
    /\ cur_prio' = raised_prio
    /\ UNCHANGED <<ready, cur_tcb, mutexid, bAvailable, pSleep_queue, dev_queue, due>>

\* Mutant: the caller is put at the head of the list, as dev_wait does.
at_head(queue) == <<cur_tcb>> \o queue

\* Linking the caller behind the rear of the list.
at_rear(queue) == Append(queue, cur_tcb)

lock_wait(m) ==
    /\ m \in Mutexes /\ bAvailable[m] = 1 /\ ~relocks(m)
    /\ bLock[m] # 0
    /\ pSleep_queue' = [pSleep_queue EXCEPT ![m] = at_rear(@)]
    /\ dispatch_sleep
    /\ UNCHANGED <<cur_prio, holds_lock, mutexid, bAvailable, bLock, pHolding_Tcb,
                   dev_queue, due>>

mutex_lock(m) ==
    /\ TaskRuns
    /\ m \in Mutexes => MayLock(Held(cur_tcb), m)
    /\ lock_refused(m) \/ lock_free(m) \/ lock_wait(m)

\* EINVAL for an id below 1 or not created, EPERM for a lock the caller does
\* not have.  An id above OS_NUM_MUTEX is not rejected as such: the call reads
\* the memory behind gtMutex, which is taken to be no mutex of the caller.
unlock_refused(m) ==
    /\ m \notin Mutexes \/ (m \in Mutexes /\ (bAvailable[m] # 1 \/ pHolding_Tcb[m] # cur_tcb))
    /\ refused

\* The longest waiting task gets the lock and becomes ready, at the priority
\* it went to sleep with; the caller keeps the processor.
unlock(m) ==
    /\ m \in Mutexes /\ bAvailable[m] = 1 /\ pHolding_Tcb[m] = cur_tcb
    /\ cur_prio' = [cur_prio EXCEPT ![cur_tcb] = native_prio(cur_tcb)]
    /\ IF pSleep_queue[m] = <<>>
       THEN /\ bLock' = [bLock EXCEPT ![m] = 0]
            /\ pHolding_Tcb' = [pHolding_Tcb EXCEPT ![m] = NULL]
            /\ holds_lock' = [holds_lock EXCEPT ![cur_tcb] = 0]
            /\ UNCHANGED <<ready, pSleep_queue>>
       ELSE LET next == Head(pSleep_queue[m])
            IN  /\ ready' = ready \cup {cur_prio[next]}
                /\ pSleep_queue' = [pSleep_queue EXCEPT ![m] = Tail(@)]
                /\ bLock' = [bLock EXCEPT ![m] = 1]
                /\ pHolding_Tcb' = [pHolding_Tcb EXCEPT ![m] = next]
                /\ holds_lock' = [holds_lock EXCEPT ![cur_tcb] = 0, ![next] = 1]
    /\ UNCHANGED <<cur_tcb, mutexid, bAvailable, dev_queue, due>>

mutex_unlock(m) == TaskRuns /\ (unlock_refused(m) \/ unlock(m))

\* EINVAL, and EHOLDSLOCK, which is decided by the priority of the caller.
wait_refused(dev) == (dev \notin Devices \/ cur_prio[cur_tcb] = 0) /\ refused

dev_wait(dev) ==
    /\ dev \in Devices /\ cur_prio[cur_tcb] # 0
    /\ dev_queue' = [dev_queue EXCEPT ![dev] = @ \cup {cur_tcb}]
    /\ dispatch_sleep
    /\ UNCHANGED <<cur_prio, holds_lock, mutexid, mutex_vars, due>>

event_wait(dev) == TaskRuns /\ (wait_refused(dev) \/ dev_wait(dev))

-----------------------------------------------------------------------------
(* The timer interrupt: C_IRQ_Handler and its dev_update.                  *)

\* next_match += dev_freq when it is reached, seen from the tick.
match_in(d) == IF due[d] = 1 THEN dev_freq[d] ELSE due[d] - 1

\* Mutant: the interrupt never switches tasks.
never_preempts(queued) == FALSE

\* Mutant: the priority compared is the task's own.
by_native_prio(queued) == native_prio(cur_tcb) > HighestPrio(queued)

\* Mutant: the run queue is compared before the sleepers are in it.
before_wakeups(queued) == cur_prio[cur_tcb] > HighestPrio(ready)

preempts(queued) == cur_prio[cur_tcb] > HighestPrio(queued)

dev_update ==
    LET signalled == {d \in Devices : due[d] = 1}
        woken     == UNION {dev_queue[d] : d \in signalled}
        queued    == ready \cup {cur_prio[t] : t \in woken}
    IN  /\ dev_queue' = [d \in Devices |-> IF d \in signalled THEN {} ELSE dev_queue[d]]
        /\ due' = [d \in Devices |-> match_in(d)]
        /\ IF preempts(queued)
           THEN dispatch_save(queued)
           ELSE ready' = queued /\ UNCHANGED cur_tcb
        /\ UNCHANGED <<cur_prio, holds_lock, mutexid, mutex_vars>>

\* timer_count moves on by one, and dev_update is told the new time.
C_IRQ_Handler == dev_update

-----------------------------------------------------------------------------
\* One past the valid ids on either side.
Next ==
    \/ mutex_create
    \/ \E m \in 0 .. (OS_NUM_MUTEX + 1) : mutex_lock(m)
    \/ \E m \in 0 .. (OS_NUM_MUTEX + 1) : mutex_unlock(m)
    \/ \E dev \in 0 .. NUM_DEVICES : event_wait(dev)
    \/ C_IRQ_Handler

\* The OS timer keeps interrupting; what the tasks do is up to them.
Spec == Init /\ [][Next]_vars /\ WF_vars(C_IRQ_Handler)

-----------------------------------------------------------------------------
(* What has a place where: the tasks asleep on a mutex, on a device, and   *)
(* the lock as its clients see it.                                         *)

Blocked(m)    == Range(pSleep_queue[m])
MutexSleepers == UNION {Blocked(m) : m \in Mutexes}
DevSleepers   == UNION {dev_queue[d] : d \in Devices}
ReadyTasks    == ready \cap Tasks

\* A ready task that should run before the one that does.
Inverted == cur_prio[cur_tcb] > HighestPrio(ready)

TypeOK ==
    /\ ready \in SUBSET Tcbs
    /\ cur_tcb \in Tcbs
    /\ cur_prio \in [Tcbs -> Tcbs]
    /\ holds_lock \in [Tcbs -> {0, 1}]
    /\ mutexid \in Nat
    /\ bAvailable \in [Mutexes -> {0, 1}]
    /\ bLock \in [Mutexes -> {0, 1}]
    /\ pHolding_Tcb \in [Mutexes -> Tasks \cup {NULL}]
    /\ pSleep_queue \in [Mutexes -> Seq(Tasks)]
    /\ dev_queue \in [Devices -> SUBSET Tasks]
    /\ due \in [Devices -> Nat \ {0}]

\* However tasks nest their locks, no task is in two places at once: running,
\* queued to run, blocked on a mutex or waiting for a device.  They share one
\* sleep_queue link per TCB (task.h:60), so a task on two lists would corrupt both.
OnePlace ==
    /\ cur_tcb \notin ReadyTasks \cup MutexSleepers \cup DevSleepers
    /\ ReadyTasks \cap (MutexSleepers \cup DevSleepers) = {}
    /\ MutexSleepers \cap DevSleepers = {}
    /\ \A d, e \in Devices : d # e => dev_queue[d] \cap dev_queue[e] = {}
    /\ \A m, n \in Mutexes : m # n => Blocked(m) \cap Blocked(n) = {}
    /\ \A m \in Mutexes : IsInjective(pSleep_queue[m])

\* The only tasks that can get lost, even with nested locks, are those that
\* were blocked on a mutex at priority 0 and queued under it: a task with its
\* own priority always has a place.
LostOnlyAtPriorityZero ==
    \A t \in Tasks :
        cur_prio[t] = native_prio(t) =>
            t \in {cur_tcb} \cup ready \cup MutexSleepers \cup DevSleepers

\* The mutexes are fair locks (mutex.c, README item 1): bLock and
\* pHolding_Tcb agree whenever they are tested, the waiters are served first
\* come, first served, and nobody can take a lock between its release and its
\* handover, through every preemption and nesting.
Lock == INSTANCE FairLock WITH Locks <- Mutexes, None <- NULL,
                               owner <- pHolding_Tcb, waiting <- pSleep_queue
ImplementsFairLock == Lock!Spec

\* Tasks that take their locks in increasing order of the ids never block each
\* other in a circle: mutex_lock detects only a task waiting for itself, and
\* what a handover gives a task keeps to the order.
Awaits(t, u) == \E m \in Mutexes : t \in Blocked(m) /\ pHolding_Tcb[m] = u
NoCircularWait ==
    \A S \in (SUBSET Tasks) \ {{}} : \E t \in S : \A u \in S : ~Awaits(t, u)

InIdOrder ==
    \A held \in SUBSET Mutexes, m \in Mutexes : MayLock(held, m) => \A k \in held : k <= m

-----------------------------------------------------------------------------
(* With one lock at a time the highest locker protocol does what it is for. *)

OneAtATime ==
    \A held \in SUBSET Mutexes, m \in Mutexes : MayLock(held, m) => held \subseteq {m}

\* Whoever has a mutex runs, at priority 0, until it gives the mutex up: it
\* is not preempted, it does not sleep on a device (proc.c:89-93), and so
\* nobody else ever finds a mutex taken.
CeilingHolds ==
    \A m \in Mutexes :
        /\ pHolding_Tcb[m] # NULL =>
               pHolding_Tcb[m] = cur_tcb /\ cur_prio[cur_tcb] = 0
        /\ pSleep_queue[m] = <<>>

\* No task is ever lost: it runs, is ready under its own priority, or waits
\* for a device, and TCB 0 does not run.
NoTaskLost == Tasks \subseteq {cur_tcb} \cup ready \cup DevSleepers /\ cur_tcb # 0

\* Rate-monotonic order is only ever disturbed by the step that gives up a
\* mutex, and the next timer tick restores it (device.c:107-109).
OrderLostOnlyByUnlock ==
    [][Inverted' => \/ Inverted /\ cur_tcb' = cur_tcb
                    \/ \E m \in Mutexes : pHolding_Tcb[m] = cur_tcb /\ pHolding_Tcb'[m] # cur_tcb]_vars
TickRestoresOrder == [][C_IRQ_Handler => ~Inverted']_vars

\* A task that waits for a device when everything more urgent does too is run
\* in the end, unless a mutex holder is running.
MostUrgentServed ==
    \A d \in Devices : 1 \in dev_queue[d] ~> (cur_tcb = 1 \/ cur_prio[cur_tcb] = 0)
=============================================================================
