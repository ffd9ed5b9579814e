----------------------------- MODULE Admission -----------------------------
(***************************************************************************)
(* task_create (syscall/proc.c) up to the first dispatch: the array that   *)
(* main passes is sorted in place by period, tested (sched/ub_test.c), and *)
(* given TCBs in its order (sched/sched.c).  Interrupts are disabled and   *)
(* no task exists yet, so a call is one step; a main whose call is refused *)
(* may call again, with the array as the kernel has left it.               *)
(*                                                                         *)
(* The sums are of `unsigned long`s.                                       *)
(***************************************************************************)
EXTENDS Integers, Sequences, SequencesExt, FiniteSetsExt

CONSTANTS
    Wrap,           \* 2^32: where an unsigned long starts again from 0
    TaskSets        \* the arrays main may fill in

ulong == 0 .. (Wrap - 1)

ASSUME AdmissionAssumption ==
    /\ Wrap \in Nat \ {0}
    /\ TaskSets \subseteq Seq([C : ulong, T : ulong, B : ulong])

OS_MAX_TASKS == 64
IDLE_PRIO    == OS_MAX_TASKS - 1

NoTask   == 0       \* in a TCB that is empty, and in that of the idle task
IdleTask == -1

VARIABLES
    tasks,      \* the array in main's memory; `id` is the task's function
    in_ram,     \* whether the pointer main passes is below USER_STACK_START
    given,      \* the array as main filled it in
    tcbs,       \* the id of the task in system_tcb[p]
    ret         \* the answer of the last call, "runs" when it dispatched, "raise"
                \* when it divided by zero

vars == <<tasks, in_ram, given, tcbs, ret>>

Init ==
    /\ \E a \in TaskSets :
          tasks = [i \in DOMAIN a |-> [id |-> i, C |-> a[i].C, T |-> a[i].T, B |-> a[i].B]]
    /\ in_ram \in BOOLEAN
    /\ given = tasks
    /\ tcbs = [p \in 0 .. IDLE_PRIO |-> NoTask]
    /\ ret = "none"

-----------------------------------------------------------------------------
\* Mutant: equal periods change places (`>=` for `>` in the loop's test).
insert_before_ties(sorted, task) ==
    InsertAt(sorted, 1 + Max({0} \cup {i \in DOMAIN sorted : sorted[i].T < task.T}), task)

\* One round of the insertion sort: behind the last of the sorted part whose
\* period is not larger.
insert(sorted, task) ==
    InsertAt(sorted, 1 + Max({0} \cup {i \in DOMAIN sorted : sorted[i].T <= task.T}), task)

\* The array's first n tasks, sorted by n rounds.
sorted_part(s) ==
    LET sorted[n \in 0 .. Len(s)] == IF n = 0 THEN <<>> ELSE insert(sorted[n - 1], s[n])
    IN  sorted

insertion_sort(s) == sorted_part(s)[Len(s)]

\* U(k) of k+1 tasks, in thousandths.
ub_factor == <<
    1000, 828, 780, 757, 743, 735, 729, 724, 721, 718, 715, 714, 712, 711, 709, 708,
    707, 707, 706, 705, 705, 704, 704, 703, 703, 702, 702, 702, 701, 701, 701, 701,
    700, 700, 700, 700, 700, 700, 699, 699, 699, 699, 699, 699, 699, 698, 698, 698,
    698, 698, 698, 698, 698, 698, 698, 697, 697, 697, 697, 697, 697, 697, 697, 697
    >>

permille(c, t) == ((c * 1000) % Wrap) \div t

\* The sum of the first n of the numbers c[1], c[2], ...
sums(c) ==
    LET sum[n \in 0 .. Len(c)] == IF n = 0 THEN 0 ELSE sum[n - 1] + c[n]
    IN  sum

utilisation(s, n) == IF n > 0 THEN sums([i \in 1 .. Len(s) |-> permille(s[i].C, s[i].T)])[n] ELSE 0

\* Mutant: the sum takes in task k itself, whose C is then counted twice.
interference_with_self(s, k) == utilisation(s, k)

\* Mutant: one task more is left out.
interference_of_fewer(s, k) == utilisation(s, k - 3)

\* term1 of task k: the code's i < k-1 from 0 leaves out the task just before k.
interference(s, k) == utilisation(s, k - 2)

assign_schedule(s) ==
    \A k \in DOMAIN s :
        (interference(s, k) + permille((s[k].C + s[k].B) % Wrap, s[k].T)) % Wrap <= ub_factor[k]

\* TCB 0 stays empty and the last is for the idle task, whatever was put there
\* before; behind the last there is other memory.
allocate_tasks(s) ==
    [p \in 0 .. IDLE_PRIO |->
        IF p = IDLE_PRIO THEN IdleTask ELSE IF p \in DOMAIN s THEN s[p].id ELSE NoTask]

refuse(answer) == ret' = answer /\ UNCHANGED <<in_ram, given, tcbs>>

task_create ==
    /\ ret \notin {"runs", "raise"}
    /\ IF Len(tasks) > OS_MAX_TASKS THEN refuse("EINVAL") /\ UNCHANGED tasks
       ELSE IF ~in_ram THEN refuse("EFAULT") /\ UNCHANGED tasks
       ELSE LET sorted == insertion_sort(tasks)
            IN  /\ tasks' = sorted
                /\ IF \E i \in DOMAIN sorted : sorted[i].C > sorted[i].T THEN refuse("ESCHED")
                   ELSE IF \E i \in DOMAIN sorted : sorted[i].T = 0 THEN refuse("raise")
                   ELSE IF ~assign_schedule(sorted) THEN refuse("UBTEST")
                   ELSE /\ ret' = "runs"
                        /\ tcbs' = allocate_tasks(sorted)
                        /\ UNCHANGED <<in_ram, given>>

Next == task_create
Spec == Init /\ [][Next]_vars

-----------------------------------------------------------------------------
\* Every task gets one priority, in rate-monotonic order (README item 4,
\* sched.c:45-49); tasks of one period keep main's order, so that the result
\* does not depend on how often a refused main calls again.  When all the tasks
\* are given that proc.c:37 accepts, the one or two of the longest periods never
\* run: their TCBs are that of the idle task and the memory behind the last.
RateMonotonicPriorities ==
    ret = "runs" =>
        LET run == {p \in DOMAIN tcbs : tcbs[p] \in DOMAIN given}
            Before(a, b) == a.T < b.T \/ (a.T = b.T /\ a.id < b.id)
        IN  /\ \A p, q \in run : p < q => Before(given[tcbs[p]], given[tcbs[q]])
            /\ \A i \in DOMAIN given :
                  i \in {tcbs[p] : p \in run}
                  \/ /\ Len(given) > OS_MAX_TASKS - 2
                     /\ \A p \in run : Before(given[tcbs[p]], given[i])
            /\ Cardinality(run) = Min({Len(given), OS_MAX_TASKS - 2})

\* In exact numbers, the textbook test of the k-th task by period: all of the
\* tasks before it count.
Share(c, t) == (c * 1000) \div t
Shares(s)   == [i \in 1 .. Len(s) |-> Share(s[i].C, s[i].T)]
PassesUBTest(s) ==
    \A k \in DOMAIN s :
        sums(Shares(s))[k - 1] + Share(s[k].C + s[k].B, s[k].T) <= ub_factor[k]

\* No task set is turned away that the UB test of README:12 accepts: what the sum
\* leaves out, and what wraps, only ever makes it smaller (ub_test.c:37-42).
NoFalseRejection == ret = "UBTEST" => ~PassesUBTest(tasks)

\* When neither a product nor the sum wraps (ub_test.c:39-42), all but one of the
\* tasks of an admitted set have enough of the processor.
NothingWraps == \A i \in DOMAIN tasks : (tasks[i].C + tasks[i].B + Len(tasks)) * 1000 < Wrap
FitsButForOne ==
    (ret = "runs" /\ NothingWraps) =>
        \E j \in DOMAIN tasks \cup {0} :
            LET others == [i \in 1 .. Len(tasks) |-> IF i = j THEN 0 ELSE Shares(tasks)[i]]
            IN  sums(others)[Len(tasks)] <= 1000

\* Calling again with the array that a refused call has left sorted gives the
\* same answer; a task without a period stops the system whatever comes before.
SameAnswerAgain == [][ret # "none" => ret' = ret]_vars

\* sched.c:45, "the tasks have already bceen deemed schedulable" (and
\* ub_test.c:26-27): an admitted set does not need more than the whole processor,
\* even where nothing wraps.
AdmittedSetsFit ==
    (ret = "runs" /\ NothingWraps) => sums(Shares(tasks))[Len(tasks)] <= 1000
=============================================================================
