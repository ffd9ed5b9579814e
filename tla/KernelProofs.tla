---------------------------- MODULE KernelProofs ----------------------------
(***************************************************************************)
(* Proofs about the kernel for any number of tasks, mutexes and devices,   *)
(* any device periods and any way of nesting locks; two sections assume a  *)
(* rule of the user programs: locks in the order of the ids, or one lock   *)
(* at a time.                                                              *)
(***************************************************************************)
EXTENDS Kernel, WellFoundedInduction, TLAPS

LEMMA TcbFacts ==
    /\ Tasks \subseteq Tcbs /\ 0 \in Tcbs /\ IDLE_PRIO \in Tcbs /\ Tcbs \subseteq Nat
    /\ 0 \notin Tasks /\ IDLE_PRIO \notin Tasks /\ 1 \in Tasks
    /\ NULL \notin Tasks
BY KernelAssumption DEF Tasks, Tcbs, IDLE_PRIO

\* Min, a CHOOSE, really is the least member of any non-empty set of naturals.
LEMMA MinIsLeast ==
    ASSUME NEW S \in SUBSET Nat, S # {}
    PROVE  Min(S) \in S /\ \A n \in S : Min(S) <= n
<1>1. PICK x \in S : \A y \in S : ~ (<<y, x>> \in OpToRel(<, Nat))
  BY WFMin, NatLessThanWellFounded
<1>2. \A y \in S : x <= y
  <2>. SUFFICES ASSUME NEW y \in S, ~ (x <= y)
                PROVE  FALSE
    OBVIOUS
  <2>1. y < x /\ y \in Nat /\ x \in Nat
    OBVIOUS
  <2>2. <<y, x>> \in OpToRel(<, Nat)
    BY <2>1 DEF OpToRel
  <2>. QED
    BY <1>1, <2>2
<1>. QED
  BY <1>2 DEF Min

-----------------------------------------------------------------------------
(* What a dispatch does to the run queue.                                  *)

\* The dispatched TCB comes from the queue and leaves it, unless it is the idle
\* task's; nothing else leaves it.
LEMMA DispatchStep ==
    ASSUME NEW r \in SUBSET Tcbs, dispatch(r)
    PROVE  /\ cur_tcb' \in Tcbs
           /\ ready' \in SUBSET Tcbs
           /\ ready' \subseteq r
           /\ r \subseteq ready' \cup {cur_tcb'}
           /\ cur_tcb' \in Tasks => cur_tcb' \in r /\ cur_tcb' \notin ready'
<1>1. CASE r = {}
  BY <1>1, TcbFacts DEF dispatch, HighestPrio, TakeFrom
<1>2. CASE r # {}
  <2>1. r \in SUBSET Nat
    BY TcbFacts
  <2>2. Min(r) \in r
    BY <1>2, <2>1, MinIsLeast
  <2>3. cur_tcb' = Min(r) /\ ready' = TakeFrom(r, Min(r))
    BY <1>2 DEF dispatch, HighestPrio
  <2>. QED
    BY <2>2, <2>3, TcbFacts DEF TakeFrom
<1>. QED
  BY <1>1, <1>2

\* With the idle task queued, the dispatched TCB is the most urgent one, and
\* the idle task stays queued.
LEMMA DispatchMostUrgent ==
    ASSUME NEW r \in SUBSET Tcbs, IDLE_PRIO \in r, dispatch(r)
    PROVE  /\ cur_tcb' \in r
           /\ \A p \in r : cur_tcb' <= p
           /\ IDLE_PRIO \in ready'
<1>1. r \in SUBSET Nat
  BY TcbFacts
<1>2. Min(r) \in r /\ \A p \in r : Min(r) <= p
  BY <1>1, MinIsLeast
<1>3. cur_tcb' = Min(r) /\ ready' = TakeFrom(r, Min(r))
  BY DEF dispatch, HighestPrio
<1>. QED
  BY <1>2, <1>3 DEF TakeFrom

-----------------------------------------------------------------------------
(* The kinds of step: a refused call and a stutter change nothing.         *)

\* Every step is one of six.
LEMMA StepCases ==
    ASSUME [Next]_vars
    PROVE  \/ UNCHANGED vars
           \/ mutex_create
           \/ \E m \in Mutexes : TaskRuns /\ MayLock(Held(cur_tcb), m) /\ lock_free(m)
           \/ \E m \in Mutexes : TaskRuns /\ MayLock(Held(cur_tcb), m) /\ lock_wait(m)
           \/ \E m \in Mutexes : TaskRuns /\ unlock(m)
           \/ \E d \in Devices : TaskRuns /\ dev_wait(d)
           \/ C_IRQ_Handler
<1>1. ASSUME NEW m, mutex_lock(m)
      PROVE  \/ UNCHANGED vars
             \/ m \in Mutexes /\ TaskRuns /\ MayLock(Held(cur_tcb), m) /\ (lock_free(m) \/ lock_wait(m))
  BY <1>1 DEF mutex_lock, lock_refused, refused, lock_free, lock_wait
<1>2. ASSUME NEW m, mutex_unlock(m)
      PROVE  UNCHANGED vars \/ (m \in Mutexes /\ TaskRuns /\ unlock(m))
  BY <1>2 DEF mutex_unlock, unlock_refused, refused, unlock
<1>3. ASSUME NEW d, event_wait(d)
      PROVE  UNCHANGED vars \/ (d \in Devices /\ TaskRuns /\ dev_wait(d))
  BY <1>3 DEF event_wait, wait_refused, refused, dev_wait
<1>. QED
  BY <1>1, <1>2, <1>3 DEF Next

-----------------------------------------------------------------------------
(* Type correctness.                                                       *)

\* The state task_create leaves behind is type correct.
LEMMA InitType == Init => TypeOK
<1>. SUFFICES ASSUME Init PROVE TypeOK
  OBVIOUS
<1>. USE TcbFacts DEF Init
<1>1. ready \in SUBSET Tcbs /\ cur_tcb \in Tcbs
  OBVIOUS
<1>2. cur_prio \in [Tcbs -> Tcbs] /\ holds_lock \in [Tcbs -> {0, 1}]
  BY DEF native_prio
<1>3. mutexid \in Nat
  BY KernelAssumption
<1>4. /\ bAvailable \in [Mutexes -> {0, 1}]
      /\ bLock \in [Mutexes -> {0, 1}]
      /\ pHolding_Tcb \in [Mutexes -> Tasks \cup {NULL}]
      /\ pSleep_queue \in [Mutexes -> Seq(Tasks)]
      /\ dev_queue \in [Devices -> SUBSET Tasks]
  OBVIOUS
<1>5. due \in [Devices -> Nat \ {0}]
  <2>1. PICK k \in Boot : due = [d \in Devices |-> dev_freq[d] - (k % dev_freq[d])]
    OBVIOUS
  <2>2. \A d \in Devices : dev_freq[d] \in Nat \ {0}
    BY KernelAssumption
  <2>3. k \in Nat
    BY KernelAssumption
  <2>4. \A d \in Devices : k % dev_freq[d] \in 0 .. (dev_freq[d] - 1)
    BY <2>2, <2>3
  <2>5. \A d \in Devices : dev_freq[d] - (k % dev_freq[d]) \in Nat \ {0}
    BY <2>2, <2>4
  <2>. QED
    BY <2>1, <2>5
<1>. QED
  BY <1>1, <1>2, <1>3, <1>4, <1>5 DEF TypeOK

\* A tick asks the devices' sleepers back into the run queue.
LEMMA TickType ==
    ASSUME TypeOK, C_IRQ_Handler
    PROVE  TypeOK'
<1> DEFINE signalled == {d \in Devices : due[d] = 1}
           woken     == UNION {dev_queue[d] : d \in signalled}
           queued    == ready \cup {cur_prio[t] : t \in woken}
<1>1. woken \subseteq Tasks
  BY DEF TypeOK
<1>2. queued \in SUBSET Tcbs
  <2>1. \A t \in woken : cur_prio[t] \in Tcbs
    BY <1>1, TcbFacts DEF TypeOK
  <2>. QED
    BY <2>1 DEF TypeOK
<1>3. cur_tcb' \in Tcbs /\ ready' \in SUBSET Tcbs
  <2>1. CASE preempts(queued)
    <3>1. dispatch(queued \cup {cur_prio[cur_tcb]})
      BY <2>1 DEF C_IRQ_Handler, dev_update, dispatch_save
    <3>2. queued \cup {cur_prio[cur_tcb]} \in SUBSET Tcbs
      BY <1>2 DEF TypeOK
    <3>. QED
      BY <3>1, <3>2, DispatchStep
  <2>2. CASE ~preempts(queued)
    BY <1>2, <2>2 DEF C_IRQ_Handler, dev_update, TypeOK
  <2>. QED
    BY <2>1, <2>2
<1>4. dev_queue' \in [Devices -> SUBSET Tasks]
  BY DEF C_IRQ_Handler, dev_update, TypeOK
<1>5. due' \in [Devices -> Nat \ {0}]
  <2>1. \A d \in Devices : match_in(d) \in Nat \ {0}
    BY KernelAssumption DEF match_in, TypeOK
  <2>. QED
    BY <2>1 DEF C_IRQ_Handler, dev_update
<1>. QED
  BY <1>3, <1>4, <1>5 DEF TypeOK, C_IRQ_Handler, dev_update, mutex_vars

\* Giving up a mutex, with or without a task waiting for it.
LEMMA UnlockType ==
    ASSUME TypeOK, TaskRuns, NEW m \in Mutexes, unlock(m)
    PROVE  TypeOK'
<1>. USE TcbFacts DEF TypeOK, TaskRuns
<1>1. cur_prio' \in [Tcbs -> Tcbs]
  BY DEF unlock, native_prio
<1>2. CASE pSleep_queue[m] = <<>>
  <2>1. /\ bLock' = [bLock EXCEPT ![m] = 0]
        /\ pHolding_Tcb' = [pHolding_Tcb EXCEPT ![m] = NULL]
        /\ holds_lock' = [holds_lock EXCEPT ![cur_tcb] = 0]
        /\ UNCHANGED <<ready, pSleep_queue, cur_tcb, mutexid, bAvailable, dev_queue, due>>
    BY <1>2 DEF unlock
  <2>. QED
    BY <1>1, <2>1
<1>3. CASE pSleep_queue[m] # <<>>
  <2> DEFINE next == Head(pSleep_queue[m])
  <2>1. pSleep_queue[m] \in Seq(Tasks)
    OBVIOUS
  <2>2. next \in Tasks /\ Tail(pSleep_queue[m]) \in Seq(Tasks)
    BY <1>3, <2>1
  <2>3. /\ ready' = ready \cup {cur_prio[next]}
        /\ pSleep_queue' = [pSleep_queue EXCEPT ![m] = Tail(@)]
        /\ bLock' = [bLock EXCEPT ![m] = 1]
        /\ pHolding_Tcb' = [pHolding_Tcb EXCEPT ![m] = next]
        /\ holds_lock' = [holds_lock EXCEPT ![cur_tcb] = 0, ![next] = 1]
        /\ UNCHANGED <<cur_tcb, mutexid, bAvailable, dev_queue, due>>
    BY <1>3 DEF unlock
  <2>. HIDE DEF next
  <2>. QED
    BY <1>1, <2>2, <2>3
<1>. QED
  BY <1>2, <1>3

\* No step leaves the types.
LEMMA NextType == TypeOK /\ [Next]_vars => TypeOK'
<1>. SUFFICES ASSUME TypeOK, [Next]_vars PROVE TypeOK'
  OBVIOUS
<1>1. CASE UNCHANGED vars
  BY <1>1 DEF vars, mutex_vars, TypeOK
<1>2. CASE mutex_create
  <2>1. mutexid' \in Nat
    BY <1>2 DEF mutex_create, TypeOK
  <2>2. \/ bAvailable' = bAvailable
        \/ bAvailable' = [bAvailable EXCEPT ![mutexid'] = 1]
    BY <1>2, Zenon DEF mutex_create
  <2>3. bAvailable' \in [Mutexes -> {0, 1}]
    BY <2>2 DEF TypeOK
  <2>. QED
    BY <1>2, <2>1, <2>3 DEF mutex_create, TypeOK
<1>3. ASSUME NEW m \in Mutexes, TaskRuns, lock_free(m)
      PROVE  TypeOK'
  BY <1>3, TcbFacts DEF lock_free, raised_prio, TaskRuns, TypeOK
<1>4. ASSUME NEW m \in Mutexes, TaskRuns, lock_wait(m)
      PROVE  TypeOK'
  <2>1. cur_tcb' \in Tcbs /\ ready' \in SUBSET Tcbs
    BY <1>4, DispatchStep DEF lock_wait, dispatch_sleep, TypeOK
  <2>2. pSleep_queue' \in [Mutexes -> Seq(Tasks)]
    BY <1>4 DEF lock_wait, at_rear, TaskRuns, TypeOK
  <2>. QED
    BY <1>4, <2>1, <2>2 DEF lock_wait, TypeOK
<1>5. ASSUME NEW m \in Mutexes, TaskRuns, unlock(m)
      PROVE  TypeOK'
  BY <1>5, UnlockType
<1>6. ASSUME NEW d \in Devices, TaskRuns, dev_wait(d)
      PROVE  TypeOK'
  <2>1. cur_tcb' \in Tcbs /\ ready' \in SUBSET Tcbs
    BY <1>6, DispatchStep DEF dev_wait, dispatch_sleep, TypeOK
  <2>2. dev_queue' \in [Devices -> SUBSET Tasks]
    BY <1>6 DEF dev_wait, TaskRuns, TypeOK
  <2>. QED
    BY <1>6, <2>1, <2>2 DEF dev_wait, mutex_vars, TypeOK
<1>7. CASE C_IRQ_Handler
  BY <1>7, TickType
<1>. QED
  BY <1>1, <1>2, <1>3, <1>4, <1>5, <1>6, <1>7, StepCases

\* The kernel's variables keep their types, whatever the tasks do.
THEOREM TypeCorrect == Spec => []TypeOK
BY InitType, NextType, PTL DEF Spec

-----------------------------------------------------------------------------
(* Sleep queues as sequences without repetition.                           *)

\* Linking a task behind the rear of a list adds that task.
LEMMA AppendRange ==
    ASSUME NEW S, NEW q \in Seq(S), NEW t \in S
    PROVE  /\ Range(Append(q, t)) = Range(q) \cup {t}
           /\ IsInjective(q) /\ t \notin Range(q) => IsInjective(Append(q, t))
<1>1. /\ DOMAIN Append(q, t) = 1 .. (Len(q) + 1)
      /\ DOMAIN q = 1 .. Len(q) /\ Len(q) \in Nat
      /\ \A i \in 1 .. Len(q) : Append(q, t)[i] = q[i]
      /\ Append(q, t)[Len(q) + 1] = t
  OBVIOUS
<1>2. Range(Append(q, t)) = Range(q) \cup {t}
  BY <1>1 DEF Range
<1>3. ASSUME IsInjective(q), t \notin Range(q)
      PROVE  IsInjective(Append(q, t))
  BY <1>1, <1>3 DEF IsInjective, Range
<1>. QED
  BY <1>2, <1>3

\* Taking the head of a list without repetition takes that task out.
LEMMA TailRange ==
    ASSUME NEW S, NEW q \in Seq(S), q # <<>>, IsInjective(q)
    PROVE  /\ Head(q) \in Range(q)
           /\ Range(Tail(q)) = Range(q) \ {Head(q)}
           /\ IsInjective(Tail(q))
<1>1. /\ DOMAIN q = 1 .. Len(q) /\ Len(q) \in Nat \ {0}
      /\ DOMAIN Tail(q) = 1 .. (Len(q) - 1)
      /\ \A i \in 1 .. (Len(q) - 1) : Tail(q)[i] = q[i + 1]
      /\ Head(q) = q[1]
  OBVIOUS
<1>2. Head(q) \in Range(q)
  BY <1>1 DEF Range
<1>3. \A i \in 2 .. Len(q) : i - 1 \in 1 .. (Len(q) - 1) /\ Tail(q)[i - 1] = q[i] /\ q[i] # q[1]
  BY <1>1 DEF IsInjective
<1>4. Range(Tail(q)) \subseteq Range(q) \ {Head(q)}
  BY <1>1, <1>3 DEF Range
<1>5. ASSUME NEW x \in Range(q) \ {Head(q)}
      PROVE  x \in Range(Tail(q))
  <2>1. PICK i \in 1 .. Len(q) : x = q[i]
    BY <1>1 DEF Range
  <2>2. i \in 2 .. Len(q)
    BY <1>1, <2>1
  <2>3. i - 1 \in DOMAIN Tail(q) /\ Tail(q)[i - 1] = x
    BY <1>1, <1>3, <2>1, <2>2
  <2>. QED
    BY <2>3 DEF Range
<1>6. IsInjective(Tail(q))
  BY <1>1 DEF IsInjective
<1>. QED
  BY <1>2, <1>4, <1>5, <1>6

\* An empty list holds nobody.
LEMMA EmptyRange == Range(<<>>) = {} /\ IsInjective(<<>>)
BY DEF Range, IsInjective

-----------------------------------------------------------------------------
(* The inductive invariant behind OnePlace, LostOnlyAtPriorityZero and the *)
(* fair locks.  It adds to them what ties a bit of the run queue to a task *)
(* (a task is queued under its own number or under 0) and bLock to         *)
(* pHolding_Tcb.                                                           *)

PrioOwnOrTop == \A t \in Tcbs : cur_prio[t] \in {0, t}
LockAgrees   == \A m \in Mutexes : bLock[m] = 0 <=> pHolding_Tcb[m] = NULL

PlaceInv ==
    /\ TypeOK
    /\ OnePlace
    /\ PrioOwnOrTop
    /\ LockAgrees
    /\ LostOnlyAtPriorityZero

\* When task_create has dispatched task 1, the others are ready.
LEMMA InitPlace == Init => PlaceInv
<1>. SUFFICES ASSUME Init PROVE PlaceInv
  OBVIOUS
<1>1. TypeOK
  BY InitType
<1>2. MutexSleepers = {} /\ DevSleepers = {} /\ \A m \in Mutexes : Blocked(m) = {}
  BY EmptyRange DEF Init, MutexSleepers, DevSleepers, Blocked
<1>3. OnePlace
  BY <1>2, EmptyRange DEF Init, OnePlace, ReadyTasks
<1>4. PrioOwnOrTop /\ LockAgrees
  BY TcbFacts DEF Init, PrioOwnOrTop, LockAgrees, native_prio
<1>5. LostOnlyAtPriorityZero
  BY DEF Init, LostOnlyAtPriorityZero
<1>. QED
  BY <1>1, <1>3, <1>4, <1>5 DEF PlaceInv

\* Only tasks sleep.
LEMMA SleepersAreTasks ==
    ASSUME TypeOK
    PROVE  MutexSleepers \subseteq Tasks /\ DevSleepers \subseteq Tasks
<1>1. \A m \in Mutexes : Blocked(m) \subseteq Tasks
  BY DEF Blocked, Range, TypeOK
<1>2. DevSleepers \subseteq Tasks
  BY DEF DevSleepers, TypeOK
<1>. QED
  BY <1>1, <1>2 DEF MutexSleepers

\* A dispatch from the run queue picks a task that is awake.
LEMMA DispatchedAwake ==
    ASSUME TypeOK, OnePlace, NEW r \in SUBSET Tcbs,
           r \cap Tasks \subseteq ReadyTasks,
           cur_tcb' \in Tasks => cur_tcb' \in r
    PROVE  cur_tcb' \notin MutexSleepers \cup DevSleepers \cup ({cur_tcb} \cap Tasks)
BY SleepersAreTasks DEF OnePlace, ReadyTasks

\* A task that blocks on a mutex.
LEMMA LockWaitPlace ==
    ASSUME PlaceInv, TypeOK', TaskRuns, NEW m \in Mutexes, lock_wait(m)
    PROVE  PlaceInv'
<1>. USE DEF PlaceInv, TaskRuns
<1>1. /\ pSleep_queue' = [pSleep_queue EXCEPT ![m] = Append(@, cur_tcb)]
      /\ dispatch(ready)
      /\ UNCHANGED <<cur_prio, holds_lock, mutexid, bAvailable, bLock, pHolding_Tcb,
                     dev_queue, due>>
  BY DEF lock_wait, at_rear, dispatch_sleep
<1>2. /\ ready' \subseteq ready
      /\ ready \subseteq ready' \cup {cur_tcb'}
      /\ cur_tcb' \in Tasks => cur_tcb' \in ready /\ cur_tcb' \notin ready'
  BY <1>1, DispatchStep DEF TypeOK
<1>3. pSleep_queue[m] \in Seq(Tasks) /\ cur_tcb \notin Blocked(m) /\ IsInjective(pSleep_queue[m])
  BY DEF TypeOK, OnePlace, MutexSleepers
<1>4. Blocked(m)' = Blocked(m) \cup {cur_tcb} /\ IsInjective(pSleep_queue'[m])
  BY <1>1, <1>3, AppendRange DEF Blocked, TypeOK
<1>5. \A n \in Mutexes \ {m} : Blocked(n)' = Blocked(n) /\ pSleep_queue'[n] = pSleep_queue[n]
  BY <1>1 DEF Blocked, TypeOK
<1>6. MutexSleepers' = MutexSleepers \cup {cur_tcb}
  BY <1>4, <1>5 DEF MutexSleepers
<1>7. DevSleepers' = DevSleepers /\ dev_queue' = dev_queue
  BY <1>1 DEF DevSleepers
<1>8. OnePlace'
  <2>1. cur_tcb' \notin ReadyTasks' \cup MutexSleepers' \cup DevSleepers'
    <3>1. cur_tcb' \notin MutexSleepers \cup DevSleepers \cup ({cur_tcb} \cap Tasks)
      BY <1>2, DispatchedAwake DEF TypeOK, ReadyTasks
    <3>. QED
      BY <1>2, <1>6, <1>7, <3>1 DEF ReadyTasks
  <2>2. ReadyTasks' \cap (MutexSleepers' \cup DevSleepers') = {}
    BY <1>2, <1>6, <1>7 DEF OnePlace, ReadyTasks
  <2>3. MutexSleepers' \cap DevSleepers' = {}
    BY <1>6, <1>7 DEF OnePlace
  <2>4. \A n, k \in Mutexes : n # k => Blocked(n)' \cap Blocked(k)' = {}
    BY <1>4, <1>5 DEF OnePlace, MutexSleepers
  <2>5. \A n \in Mutexes : IsInjective(pSleep_queue'[n])
    BY <1>4, <1>5 DEF OnePlace
  <2>. QED
    BY <1>7, <2>1, <2>2, <2>3, <2>4, <2>5 DEF OnePlace
<1>9. LostOnlyAtPriorityZero'
  BY <1>1, <1>2, <1>6, <1>7 DEF LostOnlyAtPriorityZero
<1>. QED
  BY <1>1, <1>8, <1>9 DEF PrioOwnOrTop, LockAgrees

\* A task that waits for a device.
LEMMA DevWaitPlace ==
    ASSUME PlaceInv, TypeOK', TaskRuns, NEW d \in Devices, dev_wait(d)
    PROVE  PlaceInv'
<1>. USE DEF PlaceInv, TaskRuns
<1>1. /\ dev_queue' = [dev_queue EXCEPT ![d] = @ \cup {cur_tcb}]
      /\ dispatch(ready)
      /\ UNCHANGED <<cur_prio, holds_lock, mutexid, bAvailable, bLock, pHolding_Tcb,
                     pSleep_queue, due>>
  BY DEF dev_wait, dispatch_sleep, mutex_vars
<1>2. /\ ready' \subseteq ready
      /\ ready \subseteq ready' \cup {cur_tcb'}
      /\ cur_tcb' \in Tasks => cur_tcb' \in ready /\ cur_tcb' \notin ready'
  BY <1>1, DispatchStep DEF TypeOK
<1>3. DevSleepers' = DevSleepers \cup {cur_tcb}
  BY <1>1 DEF DevSleepers, TypeOK
<1>4. MutexSleepers' = MutexSleepers /\ \A m \in Mutexes : Blocked(m)' = Blocked(m)
  BY <1>1 DEF MutexSleepers, Blocked
<1>5. \A e, f \in Devices : e # f => dev_queue'[e] \cap dev_queue'[f] = {}
  BY <1>1 DEF OnePlace, DevSleepers, TypeOK
<1>6. OnePlace'
  <2>1. cur_tcb' \notin ReadyTasks' \cup MutexSleepers' \cup DevSleepers'
    <3>1. cur_tcb' \notin MutexSleepers \cup DevSleepers \cup ({cur_tcb} \cap Tasks)
      BY <1>2, DispatchedAwake DEF TypeOK, ReadyTasks
    <3>. QED
      BY <1>2, <1>3, <1>4, <3>1 DEF ReadyTasks
  <2>2. ReadyTasks' \cap (MutexSleepers' \cup DevSleepers') = {}
    BY <1>2, <1>3, <1>4 DEF OnePlace, ReadyTasks
  <2>3. MutexSleepers' \cap DevSleepers' = {}
    BY <1>3, <1>4 DEF OnePlace
  <2>4. /\ \A n, k \in Mutexes : n # k => Blocked(n)' \cap Blocked(k)' = {}
        /\ \A n \in Mutexes : IsInjective(pSleep_queue'[n])
    BY <1>1, <1>4 DEF OnePlace
  <2>. QED
    BY <1>5, <2>1, <2>2, <2>3, <2>4 DEF OnePlace
<1>7. LostOnlyAtPriorityZero'
  BY <1>1, <1>2, <1>3, <1>4 DEF LostOnlyAtPriorityZero
<1>. QED
  BY <1>1, <1>6, <1>7 DEF PrioOwnOrTop, LockAgrees

\* The steps that move no task leave the sleepers where they are.
LEMMA SameSleepers ==
    /\ UNCHANGED pSleep_queue =>
           MutexSleepers' = MutexSleepers /\ \A m \in Mutexes : Blocked(m)' = Blocked(m)
    /\ UNCHANGED dev_queue => DevSleepers' = DevSleepers
BY DEF MutexSleepers, Blocked, DevSleepers

\* A task that finds a mutex free.
LEMMA LockFreePlace ==
    ASSUME PlaceInv, TypeOK', TaskRuns, NEW m \in Mutexes, lock_free(m)
    PROVE  PlaceInv'
<1>. USE DEF PlaceInv, TaskRuns
<1>1. /\ pHolding_Tcb' = [pHolding_Tcb EXCEPT ![m] = cur_tcb]
      /\ bLock' = [bLock EXCEPT ![m] = 1]
      /\ cur_prio' = [cur_prio EXCEPT ![cur_tcb] = 0]
      /\ UNCHANGED <<ready, cur_tcb, mutexid, bAvailable, pSleep_queue, dev_queue, due>>
  BY DEF lock_free, raised_prio
<1>2. OnePlace'
  BY <1>1, SameSleepers DEF OnePlace, ReadyTasks
<1>3. PrioOwnOrTop' /\ LockAgrees'
  BY <1>1, TcbFacts DEF PrioOwnOrTop, LockAgrees, TypeOK
<1>4. LostOnlyAtPriorityZero'
  BY <1>1, SameSleepers, TcbFacts DEF LostOnlyAtPriorityZero, TypeOK
<1>. QED
  BY <1>2, <1>3, <1>4

\* A task that gives up a mutex nobody waits for, or hands it to the first
\* that waits.
LEMMA UnlockPlace ==
    ASSUME PlaceInv, TypeOK', TaskRuns, NEW m \in Mutexes, unlock(m)
    PROVE  PlaceInv'
<1>. USE DEF PlaceInv, TaskRuns
<1>1. /\ cur_prio' = [cur_prio EXCEPT ![cur_tcb] = cur_tcb]
      /\ UNCHANGED <<cur_tcb, mutexid, bAvailable, dev_queue, due>>
  BY DEF unlock, native_prio
<1>2. PrioOwnOrTop'
  BY <1>1 DEF PrioOwnOrTop, TypeOK
<1>3. CASE pSleep_queue[m] = <<>>
  <2>1. /\ bLock' = [bLock EXCEPT ![m] = 0]
        /\ pHolding_Tcb' = [pHolding_Tcb EXCEPT ![m] = NULL]
        /\ UNCHANGED <<ready, pSleep_queue>>
    BY <1>3 DEF unlock
  <2>2. OnePlace'
    BY <1>1, <2>1, SameSleepers DEF OnePlace, ReadyTasks
  <2>3. LockAgrees'
    BY <2>1 DEF LockAgrees, TypeOK
  <2>4. LostOnlyAtPriorityZero'
    BY <1>1, <2>1, SameSleepers, TcbFacts DEF LostOnlyAtPriorityZero, TypeOK
  <2>. QED
    BY <1>2, <2>2, <2>3, <2>4
<1>4. CASE pSleep_queue[m] # <<>>
  <2> DEFINE next == Head(pSleep_queue[m])
  <2>1. /\ ready' = ready \cup {cur_prio[next]}
        /\ pSleep_queue' = [pSleep_queue EXCEPT ![m] = Tail(@)]
        /\ bLock' = [bLock EXCEPT ![m] = 1]
        /\ pHolding_Tcb' = [pHolding_Tcb EXCEPT ![m] = next]
    BY <1>4 DEF unlock
  <2>2. pSleep_queue[m] \in Seq(Tasks) /\ IsInjective(pSleep_queue[m])
    BY DEF TypeOK, OnePlace
  <2>3. /\ next \in Blocked(m)
        /\ Blocked(m)' = Blocked(m) \ {next}
        /\ IsInjective(pSleep_queue'[m])
    BY <1>4, <2>1, <2>2, TailRange DEF Blocked, TypeOK
  <2>. HIDE DEF next
  <2>4. \A n \in Mutexes \ {m} : Blocked(n)' = Blocked(n) /\ pSleep_queue'[n] = pSleep_queue[n]
    BY <2>1 DEF Blocked, TypeOK
  <2>5. next \in MutexSleepers /\ next \in Tasks
    BY <2>3, SleepersAreTasks DEF MutexSleepers
  <2>6. next # cur_tcb /\ next \notin DevSleepers
    BY <2>5 DEF OnePlace
  <2>7. \A n \in Mutexes \ {m} : next \notin Blocked(n)
    BY <2>3 DEF OnePlace
  <2>8. MutexSleepers' = MutexSleepers \ {next}
    BY <2>3, <2>4, <2>7 DEF MutexSleepers
  <2>9. DevSleepers' = DevSleepers
    BY <1>1, SameSleepers
  <2>10. cur_prio[next] \in {0, next}
    BY <2>5, TcbFacts DEF PrioOwnOrTop
  <2>11. OnePlace'
    <3>1. ReadyTasks' \subseteq ReadyTasks \cup {next}
      BY <2>1, <2>10, TcbFacts DEF ReadyTasks
    <3>2. /\ cur_tcb' \notin ReadyTasks' \cup MutexSleepers' \cup DevSleepers'
          /\ ReadyTasks' \cap (MutexSleepers' \cup DevSleepers') = {}
          /\ MutexSleepers' \cap DevSleepers' = {}
      BY <1>1, <2>6, <2>8, <2>9, <3>1 DEF OnePlace
    <3>3. \A n, k \in Mutexes : n # k => Blocked(n)' \cap Blocked(k)' = {}
      BY <2>3, <2>4 DEF OnePlace
    <3>4. \A n \in Mutexes : IsInjective(pSleep_queue'[n])
      BY <2>3, <2>4 DEF OnePlace
    <3>. QED
      BY <1>1, <3>2, <3>3, <3>4 DEF OnePlace
  <2>12. LockAgrees'
    BY <2>1, <2>5, TcbFacts DEF LockAgrees, TypeOK
  <2>13. LostOnlyAtPriorityZero'
    BY <1>1, <2>1, <2>8, <2>9, <2>6, TcbFacts DEF LostOnlyAtPriorityZero, TypeOK, native_prio
  <2>. QED
    BY <1>2, <2>11, <2>12, <2>13
<1>. QED
  BY <1>3, <1>4

\* A tick wakes the sleepers of the devices whose time has come and may
\* preempt the running task.
LEMMA TickPlace ==
    ASSUME PlaceInv, TypeOK', C_IRQ_Handler
    PROVE  PlaceInv'
<1>. USE DEF PlaceInv
<1> DEFINE signalled == {d \in Devices : due[d] = 1}
           woken     == UNION {dev_queue[d] : d \in signalled}
           queued    == ready \cup {cur_prio[t] : t \in woken}
           saved     == queued \cup {cur_prio[cur_tcb]}
<1>1. /\ dev_queue' = [d \in Devices |-> IF d \in signalled THEN {} ELSE dev_queue[d]]
      /\ UNCHANGED <<cur_prio, bLock, pHolding_Tcb, pSleep_queue>>
  BY DEF C_IRQ_Handler, dev_update, mutex_vars
<1>2. \/ dispatch(saved)
      \/ ready' = queued /\ cur_tcb' = cur_tcb
  BY DEF C_IRQ_Handler, dev_update, dispatch_save
<1>3. woken \subseteq DevSleepers /\ woken \subseteq Tasks
  BY SleepersAreTasks DEF DevSleepers
<1>4. DevSleepers' = DevSleepers \ woken
  <2>1. \A d \in Devices \ signalled : dev_queue[d] \cap woken = {}
    BY DEF OnePlace
  <2>2. \A d \in signalled : d \in Devices /\ dev_queue[d] \subseteq woken
    OBVIOUS
  <2>3. /\ \A d \in Devices \ signalled : dev_queue'[d] = dev_queue[d]
        /\ \A d \in signalled : dev_queue'[d] = {}
    BY <1>1
  <2>. HIDE DEF woken, signalled
  <2>. QED
    BY <2>1, <2>2, <2>3 DEF DevSleepers
<1>5. \A t \in woken : cur_prio[t] \in {0, t}
  BY <1>3, TcbFacts DEF PrioOwnOrTop
<1>6. cur_prio[cur_tcb] \in {0, cur_tcb}
  BY DEF PrioOwnOrTop, TypeOK
<1>7. queued \cap Tasks \subseteq ReadyTasks \cup woken
  BY <1>5, TcbFacts DEF ReadyTasks
<1>8. saved \cap Tasks \subseteq ReadyTasks \cup woken \cup ({cur_tcb} \cap Tasks)
  BY <1>6, <1>7, TcbFacts
<1>9. saved \in SUBSET Tcbs
  <2>1. \A t \in woken : cur_prio[t] \in Tcbs
    BY <1>3, TcbFacts DEF TypeOK
  <2>2. ready \subseteq Tcbs /\ cur_prio[cur_tcb] \in Tcbs
    BY DEF TypeOK
  <2>. HIDE DEF woken
  <2>. QED
    BY <2>1, <2>2
<1>10. MutexSleepers' = MutexSleepers /\ \A m \in Mutexes : Blocked(m)' = Blocked(m)
  BY <1>1, SameSleepers
<1>11. \A t \in Tasks : cur_prio[t] = t /\ t \in {cur_tcb} \cup ready \cup woken
                           => t \in {cur_tcb} \cup queued
  OBVIOUS
<1>. HIDE DEF woken, queued
<1>12. /\ ReadyTasks' \subseteq ReadyTasks \cup woken \cup ({cur_tcb} \cap Tasks)
       /\ cur_tcb' \notin ReadyTasks' \cup MutexSleepers' \cup DevSleepers'
       /\ \A t \in Tasks : cur_prio[t] = t /\ t \in {cur_tcb} \cup queued
                              => t \in {cur_tcb'} \cup ready'
  <2>1. CASE dispatch(saved)
    <3>1. /\ ready' \subseteq saved
          /\ saved \subseteq ready' \cup {cur_tcb'}
          /\ cur_tcb' \in Tasks => cur_tcb' \in saved /\ cur_tcb' \notin ready'
      BY <1>9, <2>1, DispatchStep
    <3>2. ReadyTasks' \subseteq ReadyTasks \cup woken \cup ({cur_tcb} \cap Tasks)
      BY <1>8, <3>1 DEF ReadyTasks
    <3>3. cur_tcb' \notin ReadyTasks' \cup MutexSleepers' \cup DevSleepers'
      <4>1. CASE cur_tcb' \in Tasks
        <5>1. cur_tcb' \in ReadyTasks \cup woken \cup ({cur_tcb} \cap Tasks)
          BY <1>8, <3>1, <4>1
        <5>2. cur_tcb' \notin MutexSleepers \cup (DevSleepers \ woken)
          BY <5>1, <1>3 DEF OnePlace
        <5>. QED
          BY <5>2, <3>1, <4>1, <1>4, <1>10 DEF ReadyTasks
      <4>2. CASE cur_tcb' \notin Tasks
        BY <4>2, <1>4, <1>10, SleepersAreTasks DEF ReadyTasks
      <4>. QED
        BY <4>1, <4>2
    <3>4. \A t \in Tasks : cur_prio[t] = t /\ t \in {cur_tcb} \cup queued
                              => t \in {cur_tcb'} \cup ready'
      BY <3>1
    <3>. QED
      BY <3>2, <3>3, <3>4
  <2>2. CASE ready' = queued /\ cur_tcb' = cur_tcb
    <3>1. ReadyTasks' \subseteq ReadyTasks \cup woken
      BY <1>7, <2>2 DEF ReadyTasks
    <3>2. cur_tcb' \notin ReadyTasks' \cup MutexSleepers' \cup DevSleepers'
      BY <1>3, <1>4, <1>10, <2>2, <3>1 DEF OnePlace
    <3>. QED
      BY <2>2, <3>1, <3>2
  <2>. QED
    BY <1>2, <2>1, <2>2
<1>13. OnePlace'
  <2>1. ReadyTasks' \cap (MutexSleepers' \cup DevSleepers') = {}
    BY <1>3, <1>4, <1>10, <1>12 DEF OnePlace
  <2>2. MutexSleepers' \cap DevSleepers' = {}
    BY <1>4, <1>10 DEF OnePlace
  <2>3. \A d, e \in Devices : d # e => dev_queue'[d] \cap dev_queue'[e] = {}
    BY <1>1 DEF OnePlace
  <2>4. /\ \A n, k \in Mutexes : n # k => Blocked(n)' \cap Blocked(k)' = {}
        /\ \A n \in Mutexes : IsInjective(pSleep_queue'[n])
    BY <1>1, <1>10 DEF OnePlace
  <2>. QED
    BY <1>12, <2>1, <2>2, <2>3, <2>4 DEF OnePlace
<1>14. LostOnlyAtPriorityZero'
  BY <1>1, <1>4, <1>10, <1>11, <1>12, TcbFacts DEF LostOnlyAtPriorityZero, native_prio
<1>15. PrioOwnOrTop' /\ LockAgrees'
  BY <1>1 DEF PrioOwnOrTop, LockAgrees
<1>. QED
  BY <1>13, <1>14, <1>15

\* Every step keeps the invariant.
LEMMA NextPlace == PlaceInv /\ [Next]_vars => PlaceInv'
<1>. SUFFICES ASSUME PlaceInv, [Next]_vars PROVE PlaceInv'
  OBVIOUS
<1>1. TypeOK'
  BY NextType DEF PlaceInv
<1>2. CASE UNCHANGED vars
  <2>1. UNCHANGED <<ready, cur_tcb, cur_prio, bLock, pHolding_Tcb, pSleep_queue, dev_queue>>
    BY <1>2 DEF vars, mutex_vars
  <2>. QED
    BY <1>1, <2>1, SameSleepers DEF PlaceInv, OnePlace, PrioOwnOrTop, LockAgrees,
       LostOnlyAtPriorityZero, ReadyTasks
<1>3. CASE mutex_create
  <2>1. UNCHANGED <<ready, cur_tcb, cur_prio, bLock, pHolding_Tcb, pSleep_queue, dev_queue>>
    BY <1>3 DEF mutex_create
  <2>. QED
    BY <1>1, <2>1, SameSleepers DEF PlaceInv, OnePlace, PrioOwnOrTop, LockAgrees,
       LostOnlyAtPriorityZero, ReadyTasks
<1>4. ASSUME NEW m \in Mutexes, TaskRuns, lock_free(m)
      PROVE  PlaceInv'
  BY <1>1, <1>4, LockFreePlace
<1>5. ASSUME NEW m \in Mutexes, TaskRuns, lock_wait(m)
      PROVE  PlaceInv'
  BY <1>1, <1>5, LockWaitPlace
<1>6. ASSUME NEW m \in Mutexes, TaskRuns, unlock(m)
      PROVE  PlaceInv'
  BY <1>1, <1>6, UnlockPlace
<1>7. ASSUME NEW d \in Devices, TaskRuns, dev_wait(d)
      PROVE  PlaceInv'
  BY <1>1, <1>7, DevWaitPlace
<1>8. CASE C_IRQ_Handler
  BY <1>1, <1>8, TickPlace
<1>. QED
  BY <1>2, <1>3, <1>4, <1>5, <1>6, <1>7, <1>8, StepCases

\* The invariant holds in every reachable state.
LEMMA PlaceInvariant == Spec => []PlaceInv
BY InitPlace, NextPlace, PTL DEF Spec

\* However many tasks there are and however they nest their locks, no task is
\* in two places at once: the one sleep_queue link of its TCB serves one list.
THEOREM EveryTaskInOnePlace == Spec => []OnePlace
BY PlaceInvariant, PTL DEF PlaceInv

\* A task that went to sleep with its own priority is never lost.
THEOREM OwnPriorityNeverLost == Spec => []LostOnlyAtPriorityZero
BY PlaceInvariant, PTL DEF PlaceInv

-----------------------------------------------------------------------------
(* The mutexes implement fair locks.                                       *)

\* The running task waits for no lock.
LEMMA RunnerNotWaiting ==
    ASSUME PlaceInv
    PROVE  ~Lock!IsWaiting(cur_tcb)
BY DEF PlaceInv, OnePlace, MutexSleepers, Blocked, Lock!IsWaiting, Lock!Range, Range

\* No mutex is taken or waited for at the start.
LEMMA InitLock == Init => Lock!Init
BY DEF Init, Lock!Init

\* Every step of the kernel is a step of the fair locks or leaves them alone.
LEMMA StepLock == PlaceInv /\ [Next]_vars => [Lock!Next]_(Lock!vars)
<1>. SUFFICES ASSUME PlaceInv, [Next]_vars PROVE [Lock!Next]_(Lock!vars)
  OBVIOUS
<1>1. ASSUME NEW m \in Mutexes, TaskRuns, lock_free(m)
      PROVE  Lock!Acquire(cur_tcb, m)
  BY <1>1, RunnerNotWaiting DEF lock_free, Lock!Acquire, PlaceInv, LockAgrees
<1>2. ASSUME NEW m \in Mutexes, TaskRuns, lock_wait(m)
      PROVE  Lock!Wait(cur_tcb, m)
  BY <1>2, RunnerNotWaiting DEF lock_wait, at_rear, relocks, Lock!Wait, PlaceInv, LockAgrees
<1>3. ASSUME NEW m \in Mutexes, TaskRuns, unlock(m)
      PROVE  Lock!Release(cur_tcb, m)
  <2>1. pHolding_Tcb[m] = cur_tcb
    BY <1>3 DEF unlock
  <2>2. CASE pSleep_queue[m] = <<>>
    BY <1>3, <2>1, <2>2, RunnerNotWaiting DEF unlock, Lock!Release
  <2>3. CASE pSleep_queue[m] # <<>>
    BY <1>3, <2>1, <2>3, RunnerNotWaiting DEF unlock, Lock!Release
  <2>. QED
    BY <2>2, <2>3
<1>4. CASE UNCHANGED <<pHolding_Tcb, pSleep_queue>>
  BY <1>4 DEF Lock!vars
<1>5. \/ UNCHANGED <<pHolding_Tcb, pSleep_queue>>
      \/ \E m \in Mutexes : TaskRuns /\ (lock_free(m) \/ lock_wait(m) \/ unlock(m))
  BY StepCases DEF vars, mutex_vars, mutex_create, dev_wait, C_IRQ_Handler, dev_update
<1>. QED
  BY <1>1, <1>2, <1>3, <1>4, <1>5 DEF Lock!Next, TaskRuns

\* Under every nesting and preemption the mutexes are fair locks: one owner,
\* first come first served, handed over with no gap in between.
THEOREM MutexesAreFairLocks == Spec => ImplementsFairLock
<1>1. Spec => [][Lock!Next]_(Lock!vars)
  BY PlaceInvariant, StepLock, PTL DEF Spec
<1>. QED
  BY <1>1, InitLock, PTL DEF Spec, ImplementsFairLock, Lock!Spec

-----------------------------------------------------------------------------
(* Locks taken in the order of their ids: what a blocked task has comes     *)
(* before what it waits for, so along a chain of waiting tasks the ids grow. *)

WaitsUpward ==
    \A m, n \in Mutexes : \A t \in Blocked(m) : pHolding_Tcb[n] = t => n < m

WaitInv == PlaceInv /\ WaitsUpward

\* At the start nobody waits.
LEMMA InitUpward == Init => WaitInv
BY InitPlace, EmptyRange DEF Init, WaitInv, WaitsUpward, Blocked

\* The task that blocks has nothing at or above what it asks for.
LEMMA LockWaitUpward ==
    ASSUME WaitInv, InIdOrder, TaskRuns,
           NEW m \in Mutexes, MayLock(Held(cur_tcb), m), lock_wait(m)
    PROVE  WaitsUpward'
<1>. USE DEF WaitInv
<1>1. /\ pSleep_queue' = [pSleep_queue EXCEPT ![m] = Append(@, cur_tcb)]
      /\ UNCHANGED pHolding_Tcb
      /\ pHolding_Tcb[m] # cur_tcb
  BY DEF lock_wait, at_rear, relocks
<1>2. \A k \in Held(cur_tcb) : k < m
  <2>1. \A k \in Held(cur_tcb) : k <= m
    BY DEF InIdOrder, Held
  <2>2. \A k \in Held(cur_tcb) : k \in Nat /\ k # m
    BY <1>1, KernelAssumption DEF Held, Mutexes
  <2>. QED
    BY <2>1, <2>2, KernelAssumption DEF Mutexes
<1>3. Blocked(m)' = Blocked(m) \cup {cur_tcb}
  BY <1>1, AppendRange DEF Blocked, PlaceInv, TypeOK, TaskRuns
<1>4. \A n \in Mutexes \ {m} : Blocked(n)' = Blocked(n)
  BY <1>1 DEF Blocked, PlaceInv, TypeOK
<1>. QED
  BY <1>1, <1>2, <1>3, <1>4 DEF WaitsUpward, Held

\* Who finds a mutex free is running and waits for nothing.
LEMMA LockFreeUpward ==
    ASSUME WaitInv, TaskRuns, NEW m \in Mutexes, lock_free(m)
    PROVE  WaitsUpward'
<1>. USE DEF WaitInv
<1>1. /\ pHolding_Tcb' = [pHolding_Tcb EXCEPT ![m] = cur_tcb]
      /\ \A n \in Mutexes : Blocked(n)' = Blocked(n)
  BY DEF lock_free, Blocked
<1>2. \A n \in Mutexes : cur_tcb \notin Blocked(n)
  BY DEF PlaceInv, OnePlace, MutexSleepers
<1>. QED
  BY <1>1, <1>2 DEF WaitsUpward, PlaceInv, TypeOK

\* Who is handed a mutex waits for nothing any more.
LEMMA UnlockUpward ==
    ASSUME WaitInv, TaskRuns, NEW m \in Mutexes, unlock(m)
    PROVE  WaitsUpward'
<1>. USE DEF WaitInv
<1>1. CASE pSleep_queue[m] = <<>>
  <2>1. /\ pHolding_Tcb' = [pHolding_Tcb EXCEPT ![m] = NULL]
        /\ \A n \in Mutexes : Blocked(n)' = Blocked(n)
    BY <1>1 DEF unlock, Blocked
  <2>2. \A n \in Mutexes : NULL \notin Blocked(n)
    BY TcbFacts, SleepersAreTasks DEF PlaceInv, MutexSleepers
  <2>. QED
    BY <2>1, <2>2 DEF WaitsUpward, PlaceInv, TypeOK
<1>2. CASE pSleep_queue[m] # <<>>
  <2> DEFINE next == Head(pSleep_queue[m])
  <2>1. /\ pSleep_queue' = [pSleep_queue EXCEPT ![m] = Tail(@)]
        /\ pHolding_Tcb' = [pHolding_Tcb EXCEPT ![m] = next]
    BY <1>2 DEF unlock
  <2>2. pSleep_queue[m] \in Seq(Tasks) /\ IsInjective(pSleep_queue[m])
    BY DEF PlaceInv, TypeOK, OnePlace
  <2>3. next \in Blocked(m) /\ Blocked(m)' = Blocked(m) \ {next}
    BY <1>2, <2>1, <2>2, TailRange DEF Blocked, PlaceInv, TypeOK
  <2>. HIDE DEF next
  <2>4. \A n \in Mutexes \ {m} : Blocked(n)' = Blocked(n)
    BY <2>1 DEF Blocked, PlaceInv, TypeOK
  <2>5. \A n \in Mutexes : next \notin Blocked(n)'
    BY <2>3, <2>4 DEF PlaceInv, OnePlace
  <2>6. \A k \in Mutexes : Blocked(k)' \subseteq Blocked(k)
    BY <2>3, <2>4
  <2>7. \A n \in Mutexes : pHolding_Tcb'[n] = IF n = m THEN next ELSE pHolding_Tcb[n]
    BY <2>1 DEF PlaceInv, TypeOK
  <2>. QED
    BY <2>5, <2>6, <2>7 DEF WaitsUpward
<1>. QED
  BY <1>1, <1>2

\* The other steps move no lock and no waiting task.
LEMMA NextUpward == InIdOrder /\ WaitInv /\ [Next]_vars => WaitInv'
<1>. SUFFICES ASSUME InIdOrder, WaitInv, [Next]_vars PROVE WaitInv'
  OBVIOUS
<1>1. PlaceInv'
  BY NextPlace DEF WaitInv
<1>2. CASE UNCHANGED <<pHolding_Tcb, pSleep_queue>>
  BY <1>1, <1>2 DEF WaitInv, WaitsUpward, Blocked
<1>3. \/ UNCHANGED <<pHolding_Tcb, pSleep_queue>>
      \/ \E m \in Mutexes : TaskRuns /\ MayLock(Held(cur_tcb), m) /\ lock_free(m)
      \/ \E m \in Mutexes : TaskRuns /\ MayLock(Held(cur_tcb), m) /\ lock_wait(m)
      \/ \E m \in Mutexes : TaskRuns /\ unlock(m)
  BY StepCases DEF vars, mutex_vars, mutex_create, dev_wait, C_IRQ_Handler, dev_update
<1>. QED
  BY <1>1, <1>2, <1>3, LockFreeUpward, LockWaitUpward, UnlockUpward DEF WaitInv

\* In a set of tasks, who waits for the mutex with the largest id waits for
\* nobody else in the set.
LEMMA UpwardNoCircle == WaitInv => NoCircularWait
<1>. SUFFICES ASSUME WaitInv, NEW S \in SUBSET Tasks, S # {},
                     \A t \in S : \E u \in S : Awaits(t, u)
              PROVE  FALSE
  BY DEF NoCircularWait
<1> DEFINE Wanted == {m \in Mutexes : \E t \in S : t \in Blocked(m)}
           Below  == {OS_NUM_MUTEX - m : m \in Wanted}
<1>1. Wanted # {}
  BY DEF Awaits
<1>2. Below \in SUBSET Nat /\ Below # {}
  BY <1>1, KernelAssumption DEF Mutexes
<1>3. PICK m \in Wanted : \A n \in Wanted : n <= m
  <2>1. Min(Below) \in Below /\ \A k \in Below : Min(Below) <= k
    BY <1>2, MinIsLeast
  <2>2. PICK m \in Wanted : Min(Below) = OS_NUM_MUTEX - m
    BY <2>1
  <2>3. \A n \in Wanted : OS_NUM_MUTEX - m <= OS_NUM_MUTEX - n
    BY <2>1, <2>2
  <2>. QED
    BY <2>3, KernelAssumption DEF Mutexes
<1>4. PICK t \in S : t \in Blocked(m)
  OBVIOUS
<1>5. PICK u \in S : Awaits(t, u)
  OBVIOUS
<1>6. pHolding_Tcb[m] = u
  BY <1>4, <1>5 DEF Awaits, WaitInv, PlaceInv, OnePlace
<1>7. PICK n \in Wanted : u \in Blocked(n)
  BY DEF Awaits
<1>8. m < n
  BY <1>6, <1>7 DEF WaitInv, WaitsUpward
<1>. QED
  BY <1>3, <1>7, <1>8, KernelAssumption DEF Mutexes

\* Tasks that take their locks in increasing order of the ids never wait for
\* each other in a circle, however they are preempted and handed locks.
THEOREM OrderedLocksNeverCircular ==
    ASSUME InIdOrder
    PROVE  Spec => []NoCircularWait
<1>1. Spec => []WaitInv
  BY InitUpward, NextUpward, PTL DEF Spec
<1>. QED
  BY <1>1, UpwardNoCircle, PTL

-----------------------------------------------------------------------------
(* Rate-monotonic order.                                                   *)

\* There is always an idle task to switch to (ctx_switch.c:69).
IdleReady == IDLE_PRIO \in ready

\* allocate_tasks queues the idle task last.
LEMMA InitIdle == Init => IdleReady
BY TcbFacts DEF Init, IdleReady

\* No dispatch takes the idle priority out of the queue.
LEMMA NextIdle == TypeOK /\ IdleReady /\ [Next]_vars => IdleReady'
<1>. SUFFICES ASSUME TypeOK, IdleReady, [Next]_vars PROVE IdleReady'
  OBVIOUS
<1>. USE DEF IdleReady
<1>1. CASE dispatch_sleep
  BY <1>1, DispatchMostUrgent DEF dispatch_sleep, TypeOK
<1>2. CASE C_IRQ_Handler
  <2> DEFINE woken  == UNION {dev_queue[d] : d \in {e \in Devices : due[e] = 1}}
             queued == ready \cup {cur_prio[t] : t \in woken}
             saved  == queued \cup {cur_prio[cur_tcb]}
  <2>1. dispatch(saved) \/ ready' = queued
    BY <1>2 DEF C_IRQ_Handler, dev_update, dispatch_save
  <2>2. woken \subseteq Tasks
    BY DEF TypeOK
  <2>3. \A t \in woken : cur_prio[t] \in Tcbs
    BY <2>2, TcbFacts DEF TypeOK
  <2>. HIDE DEF woken
  <2>4. saved \in SUBSET Tcbs /\ IDLE_PRIO \in saved
    BY <2>3 DEF TypeOK
  <2>. QED
    BY <2>1, <2>4, DispatchMostUrgent
<1>3. CASE ready \subseteq ready'
  BY <1>3
<1>4. dispatch_sleep \/ C_IRQ_Handler \/ ready \subseteq ready'
  BY StepCases DEF vars, mutex_create, lock_free, lock_wait, unlock, dev_wait
<1>. QED
  BY <1>1, <1>2, <1>3, <1>4

OrderInv == PlaceInv /\ IdleReady

\* The invariant holds in every reachable state.
LEMMA OrderInvariant == Spec => []OrderInv
<1>1. Init => OrderInv
  BY InitPlace, InitIdle DEF OrderInv
<1>2. OrderInv /\ [Next]_vars => OrderInv'
  BY NextPlace, NextIdle DEF OrderInv, PlaceInv
<1>. QED
  BY <1>1, <1>2, PTL DEF Spec

\* What is dispatched is at least as urgent as all that stays behind.
LEMMA DispatchInOrder ==
    ASSUME NEW r \in SUBSET Tcbs, IDLE_PRIO \in r, dispatch(r),
           PrioOwnOrTop, UNCHANGED cur_prio
    PROVE  ~Inverted'
<1>1. /\ cur_tcb' \in Tcbs
      /\ \A p \in r : cur_tcb' <= p
      /\ IDLE_PRIO \in ready' /\ ready' \subseteq r
  BY DispatchStep, DispatchMostUrgent
<1>2. Min(ready') \in ready'
  BY <1>1, TcbFacts, MinIsLeast
<1>3. HighestPrio(ready') = Min(ready')
  BY <1>1 DEF HighestPrio
<1>4. cur_prio'[cur_tcb'] \in {0, cur_tcb'}
  BY <1>1 DEF PrioOwnOrTop
<1>5. cur_tcb' \in Nat /\ HighestPrio(ready') \in Nat /\ cur_tcb' <= HighestPrio(ready')
  BY <1>1, <1>2, <1>3, TcbFacts
<1>. QED
  BY <1>4, <1>5 DEF Inverted

\* After a tick the order holds.
LEMMA TickInOrder == OrderInv /\ C_IRQ_Handler => ~Inverted'
<1>. SUFFICES ASSUME OrderInv, C_IRQ_Handler PROVE ~Inverted'
  OBVIOUS
<1>. USE DEF OrderInv, PlaceInv
<1> DEFINE woken  == UNION {dev_queue[d] : d \in {e \in Devices : due[e] = 1}}
           queued == ready \cup {cur_prio[t] : t \in woken}
           saved  == queued \cup {cur_prio[cur_tcb]}
<1>1. UNCHANGED cur_prio
  BY DEF C_IRQ_Handler, dev_update
<1>2. CASE preempts(queued)
  <2>1. dispatch(saved)
    BY <1>2 DEF C_IRQ_Handler, dev_update, dispatch_save
  <2>2. woken \subseteq Tasks
    BY DEF TypeOK
  <2>3. \A t \in woken : cur_prio[t] \in Tcbs
    BY <2>2, TcbFacts DEF TypeOK
  <2>. HIDE DEF woken
  <2>4. saved \in SUBSET Tcbs /\ IDLE_PRIO \in saved
    BY <2>3 DEF TypeOK, IdleReady
  <2>. QED
    BY <1>1, <2>1, <2>4, DispatchInOrder
<1>3. CASE ~preempts(queued)
  <2>1. ready' = queued /\ cur_tcb' = cur_tcb
    BY <1>3 DEF C_IRQ_Handler, dev_update
  <2>. QED
    BY <1>1, <1>3, <2>1 DEF preempts, Inverted
<1>. QED
  BY <1>2, <1>3

\* The other steps that can disturb the order are the unlocks.
LEMMA StepInOrder ==
    ASSUME OrderInv, [Next]_vars, Inverted'
    PROVE  \/ Inverted /\ cur_tcb' = cur_tcb
           \/ \E m \in Mutexes : pHolding_Tcb[m] = cur_tcb /\ pHolding_Tcb'[m] # cur_tcb
<1>. USE DEF OrderInv, PlaceInv
<1>1. CASE UNCHANGED <<ready, cur_tcb, cur_prio>>
  BY <1>1 DEF Inverted
<1>2. ASSUME NEW m \in Mutexes, TaskRuns, lock_free(m)
      PROVE  FALSE
  <2>1. cur_prio'[cur_tcb'] = 0 /\ ready' = ready
    BY <1>2 DEF lock_free, raised_prio, TypeOK
  <2>2. Min(ready) \in Nat
    BY TcbFacts, MinIsLeast DEF TypeOK, IdleReady
  <2>3. HighestPrio(ready) \in Nat
    BY <2>2 DEF HighestPrio
  <2>. QED
    BY <2>1, <2>3 DEF Inverted
<1>3. CASE dispatch_sleep /\ UNCHANGED cur_prio
  BY <1>3, DispatchInOrder DEF dispatch_sleep, TypeOK, IdleReady
<1>4. ASSUME NEW m \in Mutexes, TaskRuns, unlock(m)
      PROVE  pHolding_Tcb[m] = cur_tcb /\ pHolding_Tcb'[m] # cur_tcb
  <2>1. pHolding_Tcb[m] = cur_tcb
    BY <1>4 DEF unlock
  <2>2. CASE pSleep_queue[m] = <<>>
    <3>1. pHolding_Tcb'[m] = NULL
      BY <1>4, <2>2 DEF unlock, TypeOK
    <3>. QED
      BY <1>4, <2>1, <3>1, TcbFacts DEF TaskRuns
  <2>3. CASE pSleep_queue[m] # <<>>
    <3>1. pHolding_Tcb'[m] = Head(pSleep_queue[m])
      BY <1>4, <2>3 DEF unlock, TypeOK
    <3>2. Head(pSleep_queue[m]) \in Blocked(m)
      BY <2>3, TailRange DEF Blocked, TypeOK, OnePlace
    <3>. QED
      BY <2>1, <3>1, <3>2 DEF OnePlace, MutexSleepers
  <2>. QED
    BY <2>2, <2>3
<1>5. CASE C_IRQ_Handler
  BY <1>5, TickInOrder
<1>6. \/ UNCHANGED <<ready, cur_tcb, cur_prio>>
      \/ \E m \in Mutexes : TaskRuns /\ (lock_free(m) \/ unlock(m))
      \/ dispatch_sleep /\ UNCHANGED cur_prio
      \/ C_IRQ_Handler
  BY StepCases DEF vars, mutex_create, lock_wait, dev_wait
<1>. QED
  BY <1>1, <1>2, <1>3, <1>4, <1>5, <1>6

\* device.c:107-109: whatever has become ready, after a timer tick the running
\* task is the most urgent one.
THEOREM OrderRestoredByTick == Spec => TickRestoresOrder
<1>1. OrderInv /\ [Next]_vars => [C_IRQ_Handler => ~Inverted']_vars
  BY TickInOrder
<1>. QED
  BY <1>1, OrderInvariant, PTL DEF Spec, TickRestoresOrder

\* Only giving up a mutex lets a ready task with a better priority wait.
THEOREM OrderKeptExceptByUnlock == Spec => OrderLostOnlyByUnlock
<1>1. OrderInv /\ [Next]_vars =>
        [Inverted' => \/ Inverted /\ cur_tcb' = cur_tcb
                      \/ \E m \in Mutexes : pHolding_Tcb[m] = cur_tcb /\ pHolding_Tcb'[m] # cur_tcb]_vars
  BY StepInOrder
<1>. QED
  BY <1>1, OrderInvariant, PTL DEF Spec, OrderLostOnlyByUnlock

-----------------------------------------------------------------------------
(* The highest locker protocol, for programs whose tasks hold one lock at  *)
(* a time.  The invariant adds to CeilingHolds that priority 0 is the mark *)
(* of a holder, which keeps it out of the run queue: a task queued under 0 *)
(* would be lost (see OnlyTasksRun in module KernelClaims).                *)

OneLock    == \A m, n \in Mutexes :
                  pHolding_Tcb[m] # NULL /\ pHolding_Tcb[n] # NULL => m = n
TopIsHeld  == \A t \in Tasks : cur_prio[t] = 0 => Held(t) # {}
NoTcbZero  == 0 \notin ready /\ cur_tcb # 0 /\ cur_prio[IDLE_PRIO] = IDLE_PRIO

CeilInv ==
    /\ OrderInv
    /\ CeilingHolds
    /\ OneLock
    /\ TopIsHeld
    /\ NoTcbZero

\* Nobody holds a mutex at the start.
LEMMA InitCeil == Init => CeilInv
<1>. SUFFICES ASSUME Init PROVE CeilInv
  OBVIOUS
<1>1. OrderInv
  BY InitPlace, InitIdle DEF OrderInv
<1>2. CeilingHolds /\ OneLock
  BY DEF Init, CeilingHolds, OneLock
<1>3. TopIsHeld
  BY TcbFacts DEF Init, TopIsHeld, native_prio
<1>4. NoTcbZero
  BY TcbFacts DEF Init, NoTcbZero, native_prio, IDLE_PRIO
<1>. QED
  BY <1>1, <1>2, <1>3, <1>4 DEF CeilInv

\* While a task runs below priority 0, every mutex is free.
LEMMA FreeBelowTop ==
    ASSUME CeilInv, cur_prio[cur_tcb] # 0
    PROVE  \A m \in Mutexes : pHolding_Tcb[m] = NULL
BY DEF CeilInv, CeilingHolds

\* A task finds every mutex free that it does not hold itself.
LEMMA NoContention ==
    ASSUME CeilInv, NEW m \in Mutexes, lock_wait(m)
    PROVE  FALSE
BY DEF lock_wait, relocks, CeilInv, CeilingHolds, OrderInv, PlaceInv, LockAgrees

\* Locking: the holder goes to priority 0 and keeps running.
LEMMA LockFreeCeil ==
    ASSUME CeilInv, OrderInv', OneAtATime, TaskRuns,
           NEW m \in Mutexes, MayLock(Held(cur_tcb), m), lock_free(m)
    PROVE  CeilInv'
<1>. USE DEF CeilInv, TaskRuns
<1>1. /\ pHolding_Tcb' = [pHolding_Tcb EXCEPT ![m] = cur_tcb]
      /\ cur_prio' = [cur_prio EXCEPT ![cur_tcb] = 0]
      /\ UNCHANGED <<ready, cur_tcb, pSleep_queue>>
      /\ pHolding_Tcb[m] # cur_tcb
  BY DEF lock_free, raised_prio, relocks
<1>2. TypeOK
  BY DEF OrderInv, PlaceInv
<1>3. Held(cur_tcb) = {}
  BY <1>1 DEF OneAtATime, Held
<1>4. \A n \in Mutexes : pHolding_Tcb[n] = NULL
  BY <1>3 DEF CeilingHolds, Held
<1>5. /\ pHolding_Tcb'[m] = cur_tcb
      /\ \A n \in Mutexes \ {m} : pHolding_Tcb'[n] = NULL
      /\ cur_prio'[cur_tcb] = 0
  BY <1>1, <1>2, <1>4, TcbFacts DEF TypeOK
<1>6. CeilingHolds'
  BY <1>1, <1>5 DEF CeilingHolds
<1>7. OneLock'
  BY <1>5 DEF OneLock
<1>8. TopIsHeld'
  <2>1. Held(cur_tcb)' # {}
    BY <1>1, <1>5 DEF Held
  <2>2. \A t \in Tasks \ {cur_tcb} : cur_prio'[t] # 0
    BY <1>1, <1>2, <1>4, TcbFacts DEF TopIsHeld, TypeOK, Held
  <2>. QED
    BY <1>1, <2>1, <2>2 DEF TopIsHeld
<1>9. NoTcbZero'
  BY <1>1, <1>2, TcbFacts DEF NoTcbZero, TypeOK
<1>. QED
  BY <1>6, <1>7, <1>8, <1>9

\* Unlocking: nobody waits, and the task is back at its own priority.
LEMMA UnlockCeil ==
    ASSUME CeilInv, OrderInv', TaskRuns, NEW m \in Mutexes, unlock(m)
    PROVE  CeilInv'
<1>. USE DEF CeilInv, TaskRuns
<1>1. pSleep_queue[m] = <<>>
  BY DEF CeilingHolds
<1>2. /\ pHolding_Tcb' = [pHolding_Tcb EXCEPT ![m] = NULL]
      /\ cur_prio' = [cur_prio EXCEPT ![cur_tcb] = cur_tcb]
      /\ UNCHANGED <<ready, cur_tcb, pSleep_queue>>
      /\ pHolding_Tcb[m] = cur_tcb
  BY <1>1 DEF unlock, native_prio
<1>3. TypeOK
  BY DEF OrderInv, PlaceInv
<1>4. \A n \in Mutexes : pHolding_Tcb'[n] = NULL
  BY <1>2, <1>3, TcbFacts DEF OneLock, TypeOK
<1>5. CeilingHolds' /\ OneLock'
  BY <1>2, <1>4 DEF CeilingHolds, OneLock
<1>6. TopIsHeld'
  <2>1. \A t \in Tasks \ {cur_tcb} : cur_prio'[t] # 0
    BY <1>2, <1>3, TcbFacts DEF TopIsHeld, TypeOK, Held, CeilingHolds
  <2>2. cur_prio'[cur_tcb] # 0
    BY <1>2, <1>3, TcbFacts DEF TypeOK
  <2>. QED
    BY <2>1, <2>2 DEF TopIsHeld
<1>7. NoTcbZero'
  BY <1>2, <1>3, TcbFacts DEF NoTcbZero, TypeOK
<1>. QED
  BY <1>5, <1>6, <1>7

\* Sleeping on a device: the caller holds nothing.
LEMMA DevWaitCeil ==
    ASSUME CeilInv, OrderInv', TaskRuns, NEW d \in Devices, dev_wait(d)
    PROVE  CeilInv'
<1>. USE DEF CeilInv
<1>1. /\ dispatch(ready)
      /\ UNCHANGED <<cur_prio, pHolding_Tcb, pSleep_queue>>
  BY DEF dev_wait, dispatch_sleep, mutex_vars
<1>2. \A m \in Mutexes : pHolding_Tcb[m] = NULL
  BY FreeBelowTop DEF dev_wait
<1>3. cur_tcb' \in ready /\ ready' \subseteq ready
  BY <1>1, DispatchStep, DispatchMostUrgent DEF OrderInv, PlaceInv, TypeOK, IdleReady
<1>4. CeilingHolds' /\ OneLock' /\ TopIsHeld'
  BY <1>1, <1>2 DEF CeilingHolds, OneLock, TopIsHeld, Held
<1>5. NoTcbZero'
  BY <1>1, <1>3 DEF NoTcbZero
<1>. QED
  BY <1>4, <1>5

\* A tick: a holder is not preempted, and nobody is queued under priority 0.
LEMMA TickCeil ==
    ASSUME CeilInv, OrderInv', C_IRQ_Handler
    PROVE  CeilInv'
<1>. USE DEF CeilInv
<1> DEFINE woken  == UNION {dev_queue[d] : d \in {e \in Devices : due[e] = 1}}
           queued == ready \cup {cur_prio[t] : t \in woken}
           saved  == queued \cup {cur_prio[cur_tcb]}
<1>1. UNCHANGED <<cur_prio, pHolding_Tcb, pSleep_queue>>
  BY DEF C_IRQ_Handler, dev_update, mutex_vars
<1>2. \/ dispatch(saved) /\ preempts(queued)
      \/ ready' = queued /\ cur_tcb' = cur_tcb
  BY DEF C_IRQ_Handler, dev_update, dispatch_save
<1>3. TypeOK /\ OnePlace /\ IdleReady
  BY DEF OrderInv, PlaceInv
<1>4. woken \subseteq DevSleepers /\ woken \subseteq Tasks
  BY <1>3, SleepersAreTasks DEF DevSleepers
<1>5. \A t \in woken : cur_prio[t] \in Tcbs /\ cur_prio[t] # 0
  <2>. SUFFICES ASSUME NEW t \in woken PROVE cur_prio[t] \in Tcbs /\ cur_prio[t] # 0
    OBVIOUS
  <2>1. t # cur_tcb /\ t \in Tasks
    BY <1>3, <1>4 DEF OnePlace
  <2>2. Held(t) = {}
    BY <2>1, TcbFacts DEF CeilingHolds, Held
  <2>. QED
    BY <1>3, <2>1, <2>2, TcbFacts DEF TopIsHeld, TypeOK
<1>. HIDE DEF woken
<1>6. queued \in SUBSET Tcbs /\ 0 \notin queued /\ IDLE_PRIO \in queued
  BY <1>3, <1>5 DEF NoTcbZero, TypeOK, IdleReady
<1>. HIDE DEF queued
<1>7. CASE ready' = queued /\ cur_tcb' = cur_tcb
  BY <1>1, <1>6, <1>7 DEF CeilingHolds, OneLock, TopIsHeld, Held, NoTcbZero
<1>8. CASE dispatch(saved) /\ preempts(queued)
  <2>1. Min(queued) \in queued /\ queued \subseteq Nat
    BY <1>6, TcbFacts, MinIsLeast
  <2>2. HighestPrio(queued) \in Nat \ {0}
    BY <1>6, <2>1 DEF HighestPrio
  <2>3. cur_prio[cur_tcb] \in Tcbs /\ cur_prio[cur_tcb] \in Nat
    BY <1>3, TcbFacts DEF TypeOK
  <2>4. cur_prio[cur_tcb] # 0
    BY <1>8, <2>2, <2>3 DEF preempts
  <2>5. \A m \in Mutexes : pHolding_Tcb[m] = NULL
    BY <2>4, FreeBelowTop
  <2>6. cur_tcb' \in saved /\ ready' \subseteq saved
    BY <1>6, <1>8, <2>3, DispatchStep, DispatchMostUrgent
  <2>7. CeilingHolds' /\ OneLock' /\ TopIsHeld'
    BY <1>1, <2>5 DEF CeilingHolds, OneLock, TopIsHeld, Held
  <2>8. NoTcbZero'
    BY <1>1, <1>6, <2>4, <2>6 DEF NoTcbZero
  <2>. QED
    BY <2>7, <2>8
<1>. QED
  BY <1>2, <1>7, <1>8

\* Every step keeps the invariant.
LEMMA NextCeil == OneAtATime /\ CeilInv /\ [Next]_vars => CeilInv'
<1>. SUFFICES ASSUME OneAtATime, CeilInv, [Next]_vars PROVE CeilInv'
  OBVIOUS
<1>1. OrderInv'
  BY NextPlace, NextIdle DEF CeilInv, OrderInv, PlaceInv
<1>2. CASE UNCHANGED <<ready, cur_tcb, cur_prio, pHolding_Tcb, pSleep_queue>>
  BY <1>1, <1>2 DEF CeilInv, CeilingHolds, OneLock, TopIsHeld, Held, NoTcbZero
<1>3. ASSUME NEW m \in Mutexes, TaskRuns, MayLock(Held(cur_tcb), m), lock_free(m)
      PROVE  CeilInv'
  BY <1>1, <1>3, LockFreeCeil
<1>4. ASSUME NEW m \in Mutexes, TaskRuns, unlock(m)
      PROVE  CeilInv'
  BY <1>1, <1>4, UnlockCeil
<1>5. ASSUME NEW d \in Devices, TaskRuns, dev_wait(d)
      PROVE  CeilInv'
  BY <1>1, <1>5, DevWaitCeil
<1>6. CASE C_IRQ_Handler
  BY <1>1, <1>6, TickCeil
<1>7. UNCHANGED vars \/ mutex_create =>
          UNCHANGED <<ready, cur_tcb, cur_prio, pHolding_Tcb, pSleep_queue>>
  BY DEF vars, mutex_vars, mutex_create
<1>. QED
  BY <1>2, <1>3, <1>4, <1>5, <1>6, <1>7, NoContention, StepCases

\* If tasks hold one lock at a time, a mutex holder runs at priority 0 until it
\* unlocks, does not sleep, and no task ever finds a mutex taken.
THEOREM HighestLockerProtocol ==
    ASSUME OneAtATime
    PROVE  Spec => []CeilingHolds
<1>1. Spec => []CeilInv
  BY InitCeil, NextCeil, PTL DEF Spec
<1>. QED
  BY <1>1, PTL DEF CeilInv

\* If tasks hold one lock at a time, no task is ever lost and the reserved TCB
\* never runs.
THEOREM NoTaskEverLost ==
    ASSUME OneAtATime
    PROVE  Spec => []NoTaskLost
<1>1. Spec => []CeilInv
  BY InitCeil, NextCeil, PTL DEF Spec
<1>2. CeilInv => NoTaskLost
  <2>. SUFFICES ASSUME CeilInv, NEW t \in Tasks
                PROVE  t \in {cur_tcb} \cup ready \cup DevSleepers /\ cur_tcb # 0
    BY TcbFacts DEF NoTaskLost
  <2>1. MutexSleepers = {}
    BY EmptyRange DEF CeilInv, CeilingHolds, MutexSleepers, Blocked
  <2>2. CASE cur_prio[t] = 0
    BY <2>2, TcbFacts DEF CeilInv, TopIsHeld, CeilingHolds, Held, NoTcbZero
  <2>3. CASE cur_prio[t] # 0
    <3>1. cur_prio[t] = t
      BY <2>3, TcbFacts DEF CeilInv, OrderInv, PlaceInv, PrioOwnOrTop
    <3>. QED
      BY <2>1, <3>1 DEF CeilInv, OrderInv, PlaceInv, LostOnlyAtPriorityZero, native_prio, NoTcbZero
  <2>. QED
    BY <2>2, <2>3
<1>. QED
  BY <1>1, <1>2, PTL
=============================================================================
