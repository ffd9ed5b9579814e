-------------------------------- MODULE Lists --------------------------------
(***************************************************************************)
(* The sleep queues as the kernel keeps them: a head per device            *)
(* (device.c), a head and a rear per mutex (lock/mutex.c), and one link in *)
(* every TCB (task.h:60) that all of these lists share.  Module Kernel has *)
(* them as sets and sequences; here its steps are taken on the pointers.   *)
(*                                                                         *)
(* And a second task_create: a running task may call it again              *)
(* (tasks/cyclone does), and allocate_tasks rewrites the TCBs while lists, *)
(* mutexes and run_bits go on pointing to the tasks that were.             *)
(***************************************************************************)
EXTENDS ReadySet, SequencesExt

CONSTANTS
    NumTasks, OS_NUM_MUTEX, NUM_DEVICES, dev_freq, Boot, MaxCreate, NULL,
    MaxStarts       \* calls of task_create after the first

ASSUME ListsAssumption ==
    /\ NumTasks \in 1 .. (IDLE_PRIO - 1)
    /\ OS_NUM_MUTEX \in Nat \ {0} /\ NUM_DEVICES \in Nat
    /\ NULL \notin 0 .. IDLE_PRIO

VARIABLES
    ready, cur_tcb, cur_prio, holds_lock, mutexid, bAvailable, bLock,
    pHolding_Tcb, due,      \* see module Kernel
    sleep_queue,            \* system_tcb[t].sleep_queue, the link
    mutex_head,             \* gtMutex[m-1].pSleep_queue
    rear,
    dev_head,               \* devices[d].sleep_queue
    hung,                   \* the timer interrupt goes round in a list for ever
    starts,                 \* counts the calls of task_create
    clean                   \* each was made when nobody waited and no mutex was
                            \* held: not in the program, for the properties

list_vars == <<sleep_queue, mutex_head, rear, dev_head>>
lock_vars == <<mutexid, bAvailable, bLock, pHolding_Tcb>>
vars == <<ready, cur_tcb, cur_prio, holds_lock, lock_vars, due, list_vars, hung, starts, clean>>

\* Every list that tasks can be linked into.
TaskLists == {list \in UNION {[1 .. n -> 1 .. NumTasks] : n \in 0 .. NumTasks} : IsInjective(list)}

\* What follows the i-th TCB of a list, and what a pointer to the list is.
After(list, i) == IF i = Len(list) THEN NULL ELSE list[i + 1]

\* With the links of q, a pointer to first leads along the list and to its end.
LeadsAlong(q, first, list) ==
    /\ first = After(list, 0)
    /\ \A i \in DOMAIN list : q[list[i]] = After(list, i)

ListFrom(q, first) ==
    IF first = NULL THEN <<>> ELSE CHOOSE list \in TaskLists : LeadsAlong(q, first, list)

\* The TCBs of a list from its first on, unless the links go round in a circle.
From(first)     == ListFrom(sleep_queue, first)
Circular(first) == \A list \in TaskLists : ~LeadsAlong(sleep_queue, first, list)

AnyLock(held, m) == TRUE

K == INSTANCE Kernel WITH
         MayLock      <- AnyLock,
         pSleep_queue <- [m \in 1 .. OS_NUM_MUTEX |-> From(mutex_head[m])],
         dev_queue    <- [d \in 0 .. (NUM_DEVICES - 1) |-> Range(From(dev_head[d]))]

\* The pointers to lists: devices[d].sleep_queue and gtMutex[m-1].pSleep_queue.
Heads == ({"device"} \X K!Devices) \cup ({"mutex"} \X K!Mutexes)
FirstOf(h) == IF h[1] = "device" THEN dev_head[h[2]] ELSE mutex_head[h[2]]

Init ==
    /\ ready = (K!Tasks \cup {IDLE_PRIO}) \ {1}
    /\ cur_tcb = 1
    /\ cur_prio = [t \in K!Tcbs |-> t]
    /\ holds_lock = [t \in K!Tcbs |-> 0]
    /\ mutexid \in 0 .. MaxCreate
    /\ bAvailable = [m \in K!Mutexes |-> IF m <= mutexid /\ m < OS_NUM_MUTEX THEN 1 ELSE 0]
    /\ bLock = [m \in K!Mutexes |-> 0]
    /\ pHolding_Tcb = [m \in K!Mutexes |-> NULL]
    /\ \E k \in Boot : due = [d \in K!Devices |-> dev_freq[d] - (k % dev_freq[d])]
    /\ sleep_queue = [t \in K!Tcbs |-> NULL]
    /\ mutex_head = [m \in K!Mutexes |-> NULL] /\ rear = mutex_head
    /\ dev_head = [d \in K!Devices |-> NULL]
    /\ hung = FALSE
    /\ starts = 1 /\ clean = TRUE

-----------------------------------------------------------------------------
(* The calls that touch a list.                                            *)

Usable(m) == K!TaskRuns /\ m \in K!Mutexes /\ bAvailable[m] = 1
Unlisted  == UNCHANGED <<list_vars, hung, starts, clean>>

\* Mutant: the link of the caller is left as it is.
link_kept(m) == IF mutex_head[m] = NULL THEN sleep_queue
                ELSE [sleep_queue EXCEPT ![rear[m]] = cur_tcb]

\* The caller's link ends the list, and the last one's leads to the caller.
linked_at_rear(m) ==
    LET ended == [sleep_queue EXCEPT ![cur_tcb] = NULL]
    IN  IF mutex_head[m] = NULL THEN ended ELSE [ended EXCEPT ![rear[m]] = cur_tcb]

lock_free(m) ==
    /\ Usable(m) /\ pHolding_Tcb[m] # cur_tcb /\ bLock[m] = 0
    /\ pHolding_Tcb' = [pHolding_Tcb EXCEPT ![m] = cur_tcb]
    /\ bLock' = [bLock EXCEPT ![m] = 1]
    /\ holds_lock' = [holds_lock EXCEPT ![cur_tcb] = 1]
    /\ cur_prio' = [cur_prio EXCEPT ![cur_tcb] = 0]
    /\ UNCHANGED <<ready, cur_tcb, mutexid, bAvailable, due>> /\ Unlisted

lock_wait(m) ==
    /\ Usable(m) /\ pHolding_Tcb[m] # cur_tcb /\ bLock[m] # 0
    /\ sleep_queue' = linked_at_rear(m)
    /\ mutex_head' = [mutex_head EXCEPT ![m] = IF @ = NULL THEN cur_tcb ELSE @]
    /\ rear' = [rear EXCEPT ![m] = cur_tcb]
    /\ K!dispatch_sleep
    /\ UNCHANGED <<cur_prio, holds_lock, lock_vars, due, dev_head, hung, starts, clean>>

\* Mutant: the rest of the list is forgotten.
none_left(m) == NULL

second(m) == sleep_queue[mutex_head[m]]

\* The test on the second of the list decides between moving the head on and
\* emptying the list with its rear.
mutex_unlock(m) ==
    LET temp_tcb == mutex_head[m]
    IN  /\ Usable(m) /\ pHolding_Tcb[m] = cur_tcb
        /\ cur_prio' = [cur_prio EXCEPT ![cur_tcb] = K!native_prio(cur_tcb)]
        /\ IF temp_tcb # NULL
           THEN /\ ready' = ready \cup {cur_prio[temp_tcb]}
                /\ mutex_head' = [mutex_head EXCEPT ![m] = second(m)]
                /\ rear' = IF second(m) # NULL THEN rear ELSE [rear EXCEPT ![m] = NULL]
                /\ sleep_queue' = [sleep_queue EXCEPT ![temp_tcb] = NULL]
                /\ bLock' = [bLock EXCEPT ![m] = 1]
                /\ pHolding_Tcb' = [pHolding_Tcb EXCEPT ![m] = temp_tcb]
                /\ holds_lock' = [holds_lock EXCEPT ![cur_tcb] = 0, ![temp_tcb] = 1]
           ELSE /\ bLock' = [bLock EXCEPT ![m] = 0]
                /\ pHolding_Tcb' = [pHolding_Tcb EXCEPT ![m] = NULL]
                /\ holds_lock' = [holds_lock EXCEPT ![cur_tcb] = 0]
                /\ UNCHANGED <<ready, mutex_head, rear, sleep_queue>>
        /\ UNCHANGED <<cur_tcb, mutexid, bAvailable, due, dev_head, hung, starts, clean>>

\* At the head of the list, whatever its length.
event_wait(dev) ==
    /\ K!TaskRuns /\ dev \in K!Devices /\ cur_prio[cur_tcb] # 0
    /\ sleep_queue' = [sleep_queue EXCEPT ![cur_tcb] = dev_head[dev]]
    /\ dev_head' = [dev_head EXCEPT ![dev] = cur_tcb]
    /\ K!dispatch_sleep
    /\ UNCHANGED <<cur_prio, holds_lock, lock_vars, due, mutex_head, rear, hung, starts, clean>>

\* The links of the tasks that wake are left as they are.
dev_update ==
    LET signalled == {d \in K!Devices : due[d] = 1}
        woken     == UNION {Range(From(dev_head[d])) : d \in signalled}
        queued    == ready \cup {cur_prio[t] : t \in woken}
    IN  IF \E d \in signalled : Circular(dev_head[d])
        THEN hung' = TRUE /\ UNCHANGED <<ready, cur_tcb, cur_prio, holds_lock, lock_vars,
                                         due, list_vars, starts, clean>>
        ELSE /\ dev_head' = [d \in K!Devices |-> IF d \in signalled THEN NULL ELSE dev_head[d]]
             /\ due' = [d \in K!Devices |-> K!match_in(d)]
             /\ IF K!preempts(queued) THEN K!dispatch_save(queued)
                                      ELSE ready' = queued /\ UNCHANGED cur_tcb
             /\ UNCHANGED <<cur_prio, holds_lock, lock_vars, sleep_queue, mutex_head, rear,
                            hung, starts, clean>>

mutex_create == Unlisted /\ K!mutex_create

-----------------------------------------------------------------------------
(* task_create once more.                                                  *)

quiet == /\ \A d \in K!Devices : dev_head[d] = NULL
         /\ \A m \in K!Mutexes : bLock[m] = 0

\* Every TCB is written, and what was ready stays so.  The same number of tasks
\* is created again: with fewer, the TCBs of the others would get priority 0.
task_create ==
    /\ K!TaskRuns /\ starts <= MaxStarts
    /\ starts' = starts + 1 /\ clean' = (clean /\ quiet)
    /\ cur_prio' = [t \in K!Tcbs |-> t]
    /\ sleep_queue' = [t \in K!Tcbs |-> NULL]
    /\ holds_lock' = [t \in K!Tcbs |-> 0]
    /\ K!dispatch(ready \cup K!Tasks \cup {IDLE_PRIO})
    /\ UNCHANGED <<lock_vars, due, mutex_head, rear, dev_head, hung>>

\* What is refused changes nothing.  A processor that goes round in a list does
\* nothing else.  After a task_create that was not clean, only the calls that
\* concern devices are followed (a bound).
Next ==
    \/ /\ ~hung
       /\ \/ clean /\ mutex_create
          \/ clean /\ \E m \in K!Mutexes : lock_free(m) \/ lock_wait(m) \/ mutex_unlock(m)
          \/ \E dev \in K!Devices : event_wait(dev)
          \/ dev_update
          \/ task_create
    \/ hung /\ UNCHANGED vars

Spec == Init /\ [][Next]_vars

-----------------------------------------------------------------------------
\* The lists stay lists, on one link per TCB that no list clears when it gives its
\* tasks up (device.c:98-102): none is circular, no task is on two, the rear that
\* mutex_lock links to (mutex.c:102) is the last of its list, and the timer
\* interrupt comes to an end.  All that can break this is a task_create while
\* somebody waits or holds a mutex: a TCB that is on a device's list then is put on
\* it again, before itself, and the next signal never ends.
ListsSound ==
    clean =>
        /\ \A h \in Heads : ~Circular(FirstOf(h))
        /\ \A g, h \in Heads : g # h => Range(From(FirstOf(g))) \cap Range(From(FirstOf(h))) = {}
        /\ \A m \in K!Mutexes :
              mutex_head[m] # NULL => Last(From(mutex_head[m])) = rear[m]
        /\ ~hung

\* Every step on the pointers is a step of module Kernel on sets and sequences, so
\* that what is proved there holds of the lists of mutex.c:91-108, 138-160 and
\* device.c:65-104; but for the steps that start the system again.
StepsOfTheKernel == [][clean => K!Next \/ task_create]_(K!vars)

\* When nobody waits and no mutex is held, a second task_create (sched.c:53-105)
\* leaves a system like the first: every task in its place, with its priority.
StartsAfresh ==
    [][(starts' # starts /\ clean') =>
          /\ cur_tcb' = 1 /\ ready' = (K!Tasks \cup {IDLE_PRIO}) \ {1}
          /\ \A t \in K!Tasks : cur_prio'[t] = t /\ holds_lock'[t] = 0
          /\ \A m \in K!Mutexes : pHolding_Tcb'[m] = NULL
          /\ K!DevSleepers' = {} /\ K!MutexSleepers' = {}]_vars
=============================================================================
