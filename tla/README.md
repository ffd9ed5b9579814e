# A verification project for the GRAVEL kernel

GRAVEL (`src/GRAVEL/kernel`) is a small real-time kernel for one ARM processor (Gumstix,
PXA255): up to 62 periodic tasks with rate-monotonic priorities, mutexes with a "highest
locker" protocol, logical devices that wake tasks once per period, and a 10 ms timer tick.
Its tasks are C programs on a small library (`src/GRAVEL/tasks/libc`). This directory holds
TLA+ modules of both, the configurations that check them with TLC, and theorems about them
that TLAPS has checked. `PROJECT.json` relates every definition to the lines it stands for.

    tlc -workers 2 -config MCKernelSingle.cfg MCKernel      # a run, see "Runs"
    tlapm KernelProofs.tla                                  # the proofs of a module

## 1. Inventory

| Component | State | Operations | Interacts with | Modelled in |
|---|---|---|---|---|
| Run queue, `sched/run_queue.c` | `run_bits[8]`, `group_run_bits`, `run_list[64]` | `runqueue_add`, `runqueue_remove`, `highest_prio` | called by the dispatcher, mutexes, devices, `allocate_tasks` | `RunQueue`, `UnmapTable` |
| Dispatcher, `sched/ctx_switch.c` | `cur_tcb` | `dispatch_save`, `dispatch_nosave`, `dispatch_sleep` | takes from the run queue, switches stacks | `Kernel`, `Traps` |
| Mutexes, `lock/mutex.c` | `gtMutex[32]`, `mutexid`, `rear[]`, each TCB's `cur_prio`, `holds_lock`, `sleep_queue` | `mutex_create`, `mutex_lock`, `mutex_unlock` | sleep by `dispatch_sleep`, wake by `runqueue_add` | `Kernel`, `FairLock`, `Lists` |
| Devices and tick, `device.c`, `C_IRQ_Handler.c` | `devices[]` (sleep list, `next_match`), `timer_count` | `dev_wait`, `dev_update`, `C_IRQ_Handler` | wake tasks, preempt by `dispatch_save` | `Kernel`, `Lists`, `Timer`, `Startup` |
| Admission, `syscall/proc.c`, `sched/ub_test.c`, `sched/sched.c` | main's task array, TCBs | `task_create` (sort, C > T, UB test), `allocate_tasks`, `event_wait` | fills the run queue, dispatches the first task | `Admission`, `Startup`, `Lists`, `Kernel` |
| Time, `syscall/time.c` | none but `timer_count` | `time`, `sleep` (a busy wait) | reads the tick | `Timer` |
| Console, `syscall/io.c` | locals of a call, the caller's buffer | `read`, `write` | U-Boot's `getc`, `putc`, `puts` | `Console`, with the program `tasks/typo` |
| Traps, `S_Handler.S`, `C_SWI_Handler.c`, `arm/int_asm.S`, `sched/ctx_switch_asm.S` | `cpsr`, `spsr`, kernel stacks | SWI, IRQ, switch, launch | everything above runs inside them | `Traps` |
| Boot, `main.c`, `start.S`, `modeswitch.S` | two words at each of two vectors, timer registers | `kmain` up to the first dispatch | U-Boot | `Startup` |
| Formatted output and input, `tasks/libc/stdio`, `stdlib` | a call's locals, the buffer of `printf` | `_doprnt`, `printf`, `snprintf`, `_doscan`, `strtol`, `strtoul`, ... | the stub of `write` | `Format`, `Scan`, `Numerals` |
| Strings, `tasks/libc/string` | the caller's memory | seven functions that write, eight that read | the programs, `stdio` | `StringCopy`, `StringSearch` |
| System call stubs, `tasks/libc/swi` | `errno`, one word for all tasks | one stub per call | SWI | `Programs` |
| Programs, `tasks/*`, `part1tests` | their own | make system calls | | `mutex_chaser`, `simple_mutex`, `sys_err` in `Programs`, `typo` in `Console` |
| Dead code: `sched_1.c`, `memcheck.c`, `hexdump.c`, `math.c`, `I_Handler.S`, ... | | | | not modelled: nothing calls it, or it prints and stops |

What is hard about this code. There is one processor and interrupts are disabled in most
calls, so no two threads ever touch a structure at once; what goes wrong goes wrong in the
*order* of calls, wake-ups, handovers and ticks, in the few places where interrupts are
on, and between tasks that share memory. Nothing is persisted and no messages are sent, so
there is no recovery and no loss to model. The library is sequential; what is hard in it are
boundaries (overlaps, counts, the ends of strings, widths). The hazards, each with its
line and the properties that watch it, are listed in `PROJECT.json`.

What makes each component correct:

- *Run queue*: the two bitmap levels agree; the queue returns the smallest priority that is in it.
- *Dispatcher, mutexes, devices together*: no task is in two queues or in none; a mutex is
  a first-come-first-served lock; holders are not preempted when tasks take one lock at a
  time; tasks with ordered locks do not wait in a circle; rate-monotonic order is restored
  by every tick; the most urgent task is served. The linked lists are the queues they stand for.
- *Admission and boot*: rate-monotonic priorities, no false rejection, the same answer on
  a second call; whatever main did before, the tasks start in a proper kernel.
- *Time*: signals at every multiple of a period; sleeps right to a tick.
- *Console*: the line on the screen is the line in the buffer, and comes back whole.
- *Traps*: calls and ticks are atomic where the C code relies on it; stacks are bounded;
  every way out of the kernel restores the status it came with.
- *Library*: what is printed can be read back, fits its field and arrives whole; string
  functions leave what C says and write nowhere else.
- *Programs*: they do what their own checks and comments expect.

## 2. Modules

    Bytes, UnmapTable --> RunQueue --refines--> ReadyQueue      RunQueueProofs
                              \                     |
                               MCRunQueue        ReadySet
                                                    |
       Lists --refines (K!Next)-----------------> Kernel --refines--> FairLock
       (ListsProofs)                                |                 KernelProofs
       Programs --runs on (K!lock, ...)-------->    |
       Admission --> Startup --ends in (K!Init)-->  |                 StartupProofs
                                                 MCKernel
    Timer (TimerProofs)     Console (ConsoleProofs)     Traps (TrapsProofs)

    Numerals --> Format --------+
             |-> Scan ----------+
             \-> StringSearch --+--> Library --> MCLibrary
    StringCopy -----------------+    LibraryProofs

**RunQueue** models `run_queue.c` literally: a byte is the set of the positions of its 1
bits, `|=` is union and `^=` is symmetric difference, and removal toggles bits as the code
does. `run_list` is not kept, since entry *p* is only ever TCB *p*. Its one-step
`take_highest` is `runqueue_remove(highest_prio())`, which is how every caller uses the two.
`runqueue_remove` does not change the bit of the idle priority. **UnmapTable** has the
literals of the 256-entry table. **ReadyQueue** is what the run queue promises: a set of
priorities, add, and take the smallest. **ReadySet** holds the operators of that promise;
`Kernel` computes with the same operators, so the refinement theorem is what allows
`Kernel` to have a set where the code has a bitmap.

**Kernel** is the core: dispatcher, mutexes, devices and tick, from the first dispatch on.
One action is one system call of the running task (with every call it makes: `mutex_lock`
of a taken mutex includes `dispatch_sleep`) or one tick with its `dev_update` and its
`dispatch_save`. Variables carry the names of the code's fields. A TCB is its index, which
is its native priority. The run queue is keyed by `cur_prio`, as in `run_queue.c:86`, which
ignores its argument `prio`. A task that waits for a second mutex has `cur_prio` 0 and is
therefore queued as priority 0, and the priority 0 that is taken out is TCB 0. `Kernel` has
this as it is; TCB 0 has no code and makes no calls. A mutex's sleep list is a sequence and
a device's is a set (its tasks are woken together).

`MayLock` is a parameter: the rule by which the user programs nest their locks. The kernel
does not impose one, and its properties depend on it (see "What the checks show").
**FairLock** is what the mutexes promise: an owner, a queue of waiters, and a handover
that nobody can get in between.

**Lists** is the same calls and the same tick on the pointers of the code: a head per
device, head and `rear` per mutex, and the one link in every TCB that all lists share. The
list of a pointer is the one that the links lead along to its end (`LeadsAlong`); it gives the
sequences and sets of `Kernel`, and every step has to be a step of `Kernel`
(`StepsOfTheKernel`). It also has the second `task_create` of a
running task, which rewrites the TCBs and leaves lists and run bits as they are.

**Admission** is `task_create` up to the dispatch of the first task: in-place stable
insertion sort (a round puts a task behind the last one that has no larger period), the two
refusals, the C > T test, `assign_schedule` in unsigned arithmetic that wraps at `Wrap`
(2^32 in the code, 2^16 in the runs), the division by a period of 0, and the TCBs that `allocate_tasks` fills, those at
the ends of the array included. A refused main may call again with the array as the kernel
left it. **Startup** puts it into `kmain`: the two vectors with their two early returns, the
timer, and main's calls and the ticks in them while `cur_tcb` is NULL. Such a tick compares
the byte at address 1 (`byte1`, part of an instruction of the boot loader) with the priority
of an empty run queue, and `event_wait` takes it for the caller's priority: it refuses, or
puts a caller to sleep that is not there, which is `"wild"`, as is a tick that finds more
than 0. `mutex_lock` is always refused, since the holder of a free mutex is NULL too; for the
same reason `mutex_unlock` of a mutex succeeds, and writes that byte.

**Timer** is `timer_count`, `next_match` and the two time calls in `unsigned long`
arithmetic that wraps. Real time goes by in half ticks, so that calls come between ticks.

**Console** has `read_syscall` and `write_syscall` one key and one character per step,
composed with the loop of `tasks/typo/typo.c`. `i` is an unsigned number that wraps, and
the byte behind the buffer is part of the state.

**Traps** has the two status registers, each task's place in the kernel and its kernel
stack. A step ends wherever interrupts may be taken or tasks switched. It justifies the
atomic actions of `Kernel` (`KernelAtomic`) and shows what happens where interrupts are on.
Which task goes on is free: that is `Kernel`'s business.

**Programs** runs `mutex_chaser`, `simple_mutex` and `sys_err` on an instance of `Kernel`
with the real device periods: one step per call, per read and per write of a global, each
call with the result that its stub reports and the shared `errno`. Ticks come between any two
steps: those of 50 ms that may signal devices (`tick`), and any number of those of 10 ms
between them that signal nothing but may switch tasks (`tick_between`; the code has four).

**Numerals** has the conversions between numbers of any width and digits. **Format** is
`_doprnt`: it takes a directive apart into a record (flags, width, precision, length,
conversion), takes a `long` or a `long long` of twice its width, produces its text, and hands it character by character to the sink of `printf` (a buffer
that is flushed to the console) or `snprintf`. **Scan** is `_doscan` over a string,
up to where it leaves its text (`"outside"`) or its format (`"past_format"`).
**StringCopy** has the functions that write, one byte per step on a memory; **StringSearch**
those that only read, as operators. A character is a model value, a string a sequence.
**Library** puts them together: a behaviour is one call of any of them, and its properties
relate functions that the code has written apart. Variable arguments make it state what is
the caller's part: `Pending` is what calls have left to do, formats with the arguments not yet
taken, and of all of these the next directive must find arguments of the kind it takes
(`Fits`; a star takes a `long`, so that a width is at most `Half`). `Following` is what a
round leaves, under which `Pending` is closed; that the rounds of `Format` leave just that is
part of the proofs. TLC evaluates `LibraryAssumption` for the calls of the run, for which
`MCLibrary` computes `Pending`.

The other **MC** modules and the `.cfg` files give the constants their values. The
**...Proofs** modules hold the theorems.

## 3. Runs

| Run | Instance | Distinct states |
|---|---|---|
| `bitmap` | priorities 0-8, 43, 62 and idle | 28672 |
| `kernel_single` | 3 tasks, idle and TCB 0; 2 usable mutexes, one lock at a time; the four real device periods in units of 50 ms; `task_create` 0 or 7 ticks after boot | 16325 |
| `kernel_nested` | 3 tasks; 3 usable mutexes, nested in order of ids; devices of periods 1 and 2 | 47251 |
| `lists` | 3 tasks, 2 usable mutexes nested in any order, devices of periods 1 and 2; one more `task_create` | 84459 |
| `startup` | every array of up to 3 tasks out of ten kinds, of 4 out of four, and of 61 to 65, and one of 5 whose sums wrap; 16-bit arithmetic; 2 ticks, 2 mutexes and any other calls before the first dispatch | 213048 |
| `timer` | a count that wraps at 256 ms, 40 ticks; devices of 20 and 50 ms; six sleep times | 37297 |
| `console` | two letters, a buffer of 4, unsigned numbers of 8 bits | 10620 |
| `traps` | three tasks, two of which make open calls | 4942 |
| `library` | 8-bit numbers; eight values in every combination of 7 sets of flags, 5 widths and 2 ways to pad; `long long`s of 16 bits; lines through a buffer of 4; all texts of up to 4 characters for the scans; a memory of 5 bytes for the string functions | 228403 |
| `programs` | the three programs with 5 mutexes, the real periods, 7 phases of the timer at their start | 777809 |
| `claim_*` | as the above; each ends at a counterexample | |

Why these bounds are enough to see the interesting cases:

- *bitmap*: one byte takes all its 256 values, so every literal of `prio_unmap_table` is
  looked up; another byte and the last byte, with the idle bit that removal leaves, are
  there to move group bits independently.
- *kernel*: three tasks are the smallest number with a holder, a waiter and a third that
  preempts; two waiters make the order of the queue visible. `mutex_create` is called up
  to three times (`MaxCreate`), before or after the tasks start; with `OS_NUM_MUTEX` = 3
  the third call is refused, with 4 it is not. Ids one below and one above the valid ones
  are passed where the code checks for them. Periods 1 and 2 make signals coincide and
  alternate; the real periods take 20 ticks to repeat. All the counters of the code that
  grow without bound are replaced by what the code uses of them (ticks to the next match),
  except `mutexid`, which `MaxCreate` stops.
- *lists*: three tasks give lists of every length up to two behind a holder, so that the
  head moves on, the rear is replaced, and the list empties. `MaxStarts` is one second
  `task_create`; after one that was not clean only the device calls are followed.
- *startup*: the kinds meet and miss the first three bounds of `ub_factor`, with ties in T,
  a C above its T, a product that wraps and a T of 0; in the array of five, no product wraps
  but the sum does, which takes a blocking time B as large as 64 when T is 1; 62, 63, 64 and
  65 tasks are the boundary of the TCB array. `MaxTicks` and `MaxCreate` are 2: one tick and one mutex more
  than it takes for a second one to matter.
- *timer*: `MaxTicks` = 40 ticks are 400 ms, past the wrap at 256; neither period divides
  the wrap.
- *console*: a line can be empty, ended, full, and exactly one newline too long; the key
  sequence is unbounded.
- *traps*: with three tasks one can be in a tick, one in a call, and one running; the
  fourth adds nothing, which the theorems confirm for every number.
- *library*: the values are the ends of the range and the places where a digit is added in
  one of the bases. Widths lie below, at and above the length of the text. In 5 bytes a
  destination and a source can overlap in both directions and by every amount.
- *programs*: with 5 mutexes the chaser makes four rounds, as many as there are tasks that
  can overtake each other; the seven phases stand for the orders in which the four devices
  can first be signalled.

Symmetry is not used: tasks differ by priority, and `traps` is small without it.

Deadlock is checked except where the model is meant to stop: `startup` (after the first
dispatch, or a return to the boot loader), `timer` (after `MaxTicks`) and `library` (after
a call). In `Kernel` a tick is always possible, and a call that is refused is a step that
changes nothing.

### What the checks show

*The kernel.*

- The bitmap is the abstract queue, through the XORs that would corrupt it if a clear bit
  were ever toggled (`TrieConsistent`, `ImplementsReadyQueue`, `LookupsFindLowestBit`).
- The mutexes are fair locks, nested or not (`ImplementsFairLock`), and no task is ever in
  two places (`OnePlace`), which matters because one link per TCB serves all sleep lists.
  The pointers do what the sequences say (`ListsSound`, `StepsOfTheKernel`).
- With **one lock at a time** the highest locker protocol does all that it is for: holders
  run at priority 0 until they let go, so nobody ever waits for a mutex (`CeilingHolds`);
  no task gets lost (`NoTaskLost`).
- With **nested locks** it does not. `mutex_unlock` drops the caller to its own priority
  although it may hold another mutex; the handover does not raise the new owner, although
  `src/GRAVEL/README:15` says that a mutex raises its holder (`mutex.c:156-158` does not);
  a task that waits with a mutex in hand is queued as TCB 0 and lost, and TCB 0 is
  dispatched in its place (`run_queue.c:86`, `97`). For the same reason `event_wait`, which
  recognises a holder by its priority (`proc.c:91`), lets a task that has given up one of
  two mutexes sleep with the other in hand. What survives: only tasks at priority 0 can get
  lost (`LostOnlyAtPriorityZero`), and ordered locks never lead to a circle of waiters
  (`NoCircularWait`).
- Rate-monotonic order is lost only in the step that gives up a mutex, since
  `mutex_unlock` does not dispatch, and is there again after the next tick
  (`OrderLostOnlyByUnlock`, `TickRestoresOrder`).
- `mutex_create` refuses the id `OS_NUM_MUTEX`, so that 31 mutexes can be had of 32.
- A second `task_create` is a fresh start when nobody waits and no mutex is held
  (`StartsAfresh`). Otherwise the rewritten TCB of a task that is on a device's list links
  to itself as soon as the task waits again, and the next signal goes round for ever.

*The start.*

- Admission gives rate-monotonic priorities whatever main's order was
  (`RateMonotonicPriorities`), the same answer when called again (`SameAnswerAgain`), and
  turns no set away that passes the UB test (`NoFalseRejection`), but `ub_test.c:38` leaves
  the task before the last out of its sum and admits sets that do not fit
  (`AdmittedSetsFit`, violated by two tasks that need 25% and 80% of the processor, with
  nothing wrapping); all tasks but one do fit (`FitsButForOne`), unless a product
  C * 1000 or C + B times 1000 wraps (`ub_test.c:39`, `42`), or the sum of those (`ub_test.c:42`),
  which can wrap when no product does (`NothingWraps` excludes both). A period of 0 stops the system in the division.
- 63 and 64 tasks are accepted (`proc.c:37`), but the 63rd shares the TCB of the idle task
  and the 64th is behind the array: those two never run.
- Whatever main called before, the tasks start in a state that `Kernel` starts from
  (`StartsTheKernel`), if they start: a tick or an `event_wait` that found something else than
  0 at address 1 has ended in a TCB of zeros. A main without mutexes never changes that byte,
  so that it is 0 if such a main was interrupted.
- `modeswitch.S` clears the mode bits of `cpsr` and leaves the I bit as it was (`ORR` with
  80, not 0x80), so that main is interruptible in its open calls only.
- A `kmain` that does not know the second vector returns with the first one patched and
  the timer running (`PatchesBothOrNone` states the exception).

*Time, console, traps.*

- Devices are signalled at every multiple of their periods until the millisecond count
  comes to its wrap after 49.7 days (`SignalledOnTime` says until when). A sleep is short
  by less than a tick, since it counts from the tick before (`ShortByLessThanATick`; the
  comment at `time.c:39` promises "atleast"), and its subtraction survives the wrap
  (`WakesInTime`).
- Screen and buffer agree through all corrections (`SeenIsStored`), except that erase on
  an empty line leaves `i` at 1, which counts a byte that nobody typed (`io.c:59`); an ended
  line is echoed to its newline (`EchoesTheLine`).
- After `read`, `write`, `time` and `sleep` the epilogue of `S_Handler` runs with
  interrupts enabled; a tick between its MSR and its MOVS leaves `spsr` changed, and the
  call returns to the task in supervisor mode (`LeavesToItsCaller`, violated). Tasks that
  make none of these calls are not affected (`OthersStayInUserMode`).

*Library and programs.* Each property names the exceptions it has to make:

- `strtol` does not skip a `+` (`strtol.c:34-35`), so what `%+d` prints is not read back;
  `%#p` has its `0x` twice, since `%p` sets it too (`ReadsBackWhatItPrints`).
- A string that is both cut and left-adjusted (`%-m.ns`) is padded too little
  (`FillsItsField`). A radix of 0 in `%r` and its like ends in the division routine's raise.
- `snprintf` puts the terminator of a text that it cuts behind the size it was given
  (`sprintf.c:74-75`); `putchar` writes the four bytes of its int (`SinksGetTheText`).
- `%ll` prints a number of twice the width that `strtol` and the scans read
  (`ReadsBackWhatItPrints` is about the others).
- `%s` of a scan passes the terminator when no white space follows, and a format that ends in
  `%` or `*` is read behind its own: the terminator counts as a conversion (`ScansTheText`,
  which says of both when they cannot happen; a `*` may be repeated).
- `strncpy` with a source as long as its count wraps the count and clears memory until it
  faults (`strncpy.c:51-54`, in `ReturnsTheCopy`). `strrchr(s, 0)` gives NULL, which the
  module has and the properties do not contradict.
- `mutex_chaser` gets all its values right but the second when device 2 is signalled before
  device 1, which depends on the phase of the timer at its start (`ChaserKeepsOrder`).
- `sys_err` passes its ten checks, those that main makes before its task runs included, and
  its task keeps the processor throughout (`SysErrPasses`). Only `mutex_unlock(165)` is
  exempt: it depends on the memory behind `gtMutex`, since `mutex.c:126` has no upper bound.
- A task of `simple_mutex` waits for its device with the mutex in hand, is refused, and
  panics at priority 0, which stops all the others for good (`PanicWithMutexStopsAll`).

### Fairness

`Kernel` assumes weak fairness of `C_IRQ_Handler` and of nothing else: the OS timer keeps
interrupting, and interrupts are enabled whenever a task or the idle task runs, which
`UserInterruptible` of `Traps` establishes. Tasks may compute for ever or call for ever. Under this
alone `MostUrgentServed` holds: the task of the shortest period, asleep on a device, is
run in the end unless a mutex holder runs. It would be false for less urgent tasks, which
more urgent ones may starve, and without the exception for holders.

## 4. Proofs

What TLAPS has checked holds for every value of the constants that the assumptions allow:
`UsersAssumption`, `KernelAssumption` (at most 62 tasks, positive periods, one or more
mutexes), `TrapsAssumption`, `TimerAssumption` (periods are multiples of the tick, fewer
ticks than the count wraps at), `ConsoleAssumption` (the buffer is smaller than an unsigned
number), `CopyAssumption` (so is the memory), `NumeralsAssumption` (a `long` has at least the
values -1 and 0, and the characters that the library tells apart are there),
`LibraryAssumption` (calls pass the arguments that their formats take, strings end, the buffer
of `printf` has a byte), `ListsAssumption` (as `KernelAssumption`), `AdmissionAssumption` (C, T
and B are unsigned longs) and `StartupAssumption`. TLC evaluates all of them in the runs.

**RunQueueProofs.** `TableAlwaysRight`: the literals of the lookup table come in sixteen rows
of one pattern, so that each is the lowest 1 bit of its index by arithmetic on the low and the
high four bits. `TrieAlwaysConsistent`: together with types it is inductive.
`RunQueueRefinesReadyQueue`: every step of the bitmap is a step of the abstract queue. The
key lemma is that two lookups, one per level, find the minimum of the set that the bitmap
stands for.

**KernelProofs**, in layers, each using the ones before:

1. `TypeCorrect`, for any nesting.
2. `EveryTaskInOnePlace`: `OnePlace` is not inductive by itself. `PlaceInv` adds that
   every TCB has its own priority or priority 0, so that a task which is queued to run is
   queued under its own number or under 0, and never under another task's; and that
   `bLock` and `pHolding_Tcb` agree, so that an unlock hands over to a waiter.
   `OwnPriorityNeverLost` (a conjunct of the same invariant) comes with it.
3. `MutexesAreFairLocks`: every action maps to a step of `FairLock` or to a stutter. It
   uses `PlaceInv`: the code tests `bLock`, the abstract lock its owner.
4. `OrderRestoredByTick`, `OrderKeptExceptByUnlock`: `OrderInv` adds to `PlaceInv` that
   the idle task is always in the run queue; then from what a dispatch does to the smallest
   element of the queue.
5. `OrderedLocksNeverCircular`, assuming `InIdOrder`: the mutex that a task waits for is
   above those it has (`WaitInv`), which a handover preserves; in a set of tasks that all
   wait, the one waiting for the largest id waits for nobody of the set.
6. `HighestLockerProtocol` and `NoTaskEverLost`, assuming `OneAtATime`: `CeilInv` adds to
   `CeilingHolds` that only one mutex is held at all, that priority 0 means holding one,
   and that neither 0 nor TCB 0 is in the run queue; a tick cannot preempt priority 0, and
   `event_wait` refuses it.

`InIdOrder` and `OneAtATime` are rules of the user programs; the definitions of
`MCKernel` that the runs use satisfy them.

**TrapsProofs.** One inductive invariant, `TrapInv`: where the running task is determines
what the status registers may be, and where any task is determines the frames on its
stack. `CallsAndTicksAreAtomic`, `KernelStackIsEnough`, `TasksAreInterruptible` and
`UserModeWithoutOpenCalls` follow from it, for any number of tasks.

**TimerProofs.** `TimerInv`, for every width of the count. `MatchInv`: until the count is
within a period of its wrap, the last signal was at a multiple of the period, now is less
than a period later, and `next_match` is exactly one period later; `SignalsAreOnTime` is
that and a lemma on remainders. `SleepInv`: a sleeper knows the tick before its call. That
the unsigned difference of two wrapped counts is the difference of what they count
(`UnsignedDifference`) then gives `SleepsAreLongEnough` and `SleepersWake`.

**ConsoleProofs.** `ConsoleInv`: the screen is what the buffer begins with, up to `i`, and
all letters (`TypedInv`); an ended line has one newline, its last character (`EndedInv`);
the echo is what the buffer begins with and has met no newline (`EchoInv`). An erase takes
`i` back by one through the wrap (`StepBack`). From these `ScreenIsBuffer` and, since the
first newline is the last character, `LinesAreEchoed`.

**LibraryProofs.** Every property of the run `library`, for texts, strings, buffers and
memories of any size and every width of a `long`. The loops of the library are sets with a
least member (`Passed`, `stops`) or recursive functions in the modules; that the latter are
defined for every length is `ByRounds` and, for the digits of a number, `NumeralsExist`; what
holds after every round comes from the least round for which it would fail (`UpTo`).

1. *Functions that write.* `IInv` says of each how far it has come: which part of the result
   is in memory, and that what is still to be read is as the caller left it. For `memmove`
   that is the argument for the direction: copying upwards to a lower address, the source
   above the index is untouched, and the other way round. It gives `TheCopyIsReturned` and
   `OnlyTheDestination` for every legal call, and, since other calls leave that memory alone
   (`Copying`), `TheMemoryIsKept` in the library as a whole.
2. *Functions that read* (`FunctionsAgree`). Two strings are compared at the first place where
   they differ or end; that place is the same from either side (`StopsCommutes`), and of
   three strings the order of the outer two is decided at the smaller of two such places
   (`StrcmpOrders`). A hit of `strstr` is a place where `strncmp` finds no difference
   (`HitRead`, `StrncmpHit`); a search for one character stops where it is (`OneCharacter`).
3. *What arrives* (`TheTextArrives`). `Formatted`: what a call has left to do is in `Pending`,
   what it has passed on is a text, and the sink has it (`Arrived`): on the console with the
   buffer behind it, in memory up to the size. It needs that every conversion makes a text of
   characters whatever it is given, one lemma each, and that `put_all` keeps `Arrived` one
   character at a time (`PrintfChar`, `BufferGets`).
4. *What fills its field* (`FieldsAreFilled`). `Directed` adds that a call of one directive has
   printed nothing or exactly its text. The lengths of the texts are those of their parts;
   for `%t` the code counts digits by comparing with 16 and 256, which is right for the widths
   that the bit fields have (`ShortThreadLength`).
5. *What is read back* (`NumbersAreReadBack`). The digits of u read in the same base give u
   (`DigitsRead`, along the digits, each prefix being a number no larger than u), in `signed`
   arithmetic because a long is printed by its magnitude and the reader's sum wraps as the
   magnitude of the least long does (`WrapKeeps`). What stands before the digits is passed:
   blanks, a sign, a prefix in a base that announces it, zeros (`CoreRead`); what stands behind
   is a blank and stops the reader. `NumberIs` flattens a printed number into these parts.
6. *What is scanned* (`TheTextIsScanned`). `ScanTyped`: what is left of the format is an end
   of it (`EndOf`), so that a scan that has left it did so at its last character (`CutShort`);
   and without white space in the format, that at the end of the text is not read
   (`EndUnread`). For two numbers the scan has come to one of four places (`Progress`), each
   reached by 5, with the stars of the first passed at once.

**ListsProofs.** `LInv` holds while every `task_create` was clean. Beyond what `ListsSound`
says, every head leads along a list (`Listed`), and what runs or is queued to run is on no
list (`Awake`), so that it can be linked without cutting one; a free mutex has no holder and
no list (`FreeIsFree`); who waits for a device has its own priority (`OwnOrTop`); and whoever
is queued under priority 0 is lost with a mutex in hand (`LostHolds`), so that nobody is lost
when no mutex is held. Since a pointer leads along one list only, `From` is that list. One
lemma per action gives what it does to the lists and that it is the action of `Kernel`:
`ListsStaySound`, `PointersImplementKernel` and, from `LostHolds`, `CleanCreateStartsAfresh`.

**StartupProofs.** Three invariants. `StageInv`: how far the program has come determines
which vectors are patched (`VectorsArePatched`). `AdmInv`: main's array has main's tasks,
those of one period in main's order; once it has been tested it is sorted, and the last
answer is the answer to it as it is. A round of the insertion sort puts a task at one place
(`InsertPlace`), keeps a sorted array sorted (`InsertInOrder`) and, if the array was sorted,
changes nothing (`SortedAlready`); so the order is strict (`PrioritiesAreRateMonotonic`) and a
second call is answered like the first (`RefusedAgain`). What wraps becomes smaller
(`PermilleFacts`) and a sum of smaller numbers is smaller (`SumsMonotone`), hence
`NothingIsFalselyRejected`; if nothing wraps, the last task and the sum that was tested with
it are all tasks but one (`AdmittedFitButForOne`). The attempt to prove this last one with
the products alone not wrapping failed, since the sum may: the hypothesis and the array
`SumsWrap` of the run come from there. `BootInv`: the devices are as many ticks from due as
came, the mutexes are those that were created, and a main without any has left the boot
loader's memory alone; with `AdmInv` and the set of TCBs that are
queued, `StartupReachesTheKernel`. The loops of this module (sums, rounds of the sort) are
recursive functions; that they are defined for arrays of every length (`ByRounds`) and what
holds after every round is proved from the least round for which it would fail (`UpTo`).

Only model-checked: `MostUrgentServed` and `PanicWithMutexStopsAll` (liveness is out of
TLAPS's reach here), and the other properties of `Programs` (`ChaserKeepsOrder`,
`SysErrPasses`): three programs with scripts of their own on three instances of the kernel,
whose theorems cannot be cited for an instance.

## 5. Not modelled, and why

- `swi_exit.S` and `main.c:155-162`, which undo the patches: tasks never end, and no call
  of the system leads there.
- Reading and writing behind `gtMutex` (`mutex_unlock` of an id above `OS_NUM_MUTEX`,
  `mutex.c:126`): it depends on memory that belongs to nothing in the model. `Kernel` has the
  call refused; `Programs` allows EINVAL, EPERM and success, which sets the caller back to its
  own priority, where the one caller is (what it writes is not modelled).
- `mutexid` overflowing after 2^31 calls: out of reach.
- What the idle task's TCB and the memory behind `system_tcb` do after 63 or 64 tasks were
  accepted. What runs after a TCB of zeros was launched ("wild" in `Startup`), and what else than
  the byte at address 1 main's early `mutex_unlock` writes: `holds_lock` of a TCB at 0, behind
  the vectors.
- A second `task_create` with fewer tasks than the first.
- General registers, stack pointers, caches; U-Boot's functions.
- `read` and `write` with a buffer whose end wraps round at 2^32; their address checks are
  otherwise one of three regions.
- `errno` is one word for all tasks, and a tick between a refused call and the look at it
  may replace it. `Programs` has the shared variable, but only `mutex_chaser` looks at it
  while other tasks run, to choose a message before it panics; the hazard is listed without
  a property.
- `cyclone`, `dagger`, `stress`, `mole`, `splat`, `diamondfold`, `hello`: they wait for events
  or print, which is covered by `Kernel` with tasks that may make any call. `mole` writes
  one element behind the eight of `mole_element`, which is listed as a hazard without a
  property.
- The user's `hexdump`, which prints, and `rand`, a formula. The kernel's unused helpers
  (`sched_1.c`, `memcheck.c`, `hexdump.c`, `math.c`, `raise.c`, `assert.c`, `I_Handler.S`).
- Tasks that return from their function (`task.h` forbids it).

The properties that another module needs are not repeated: what `Kernel` establishes holds
of `Lists` by `StepsOfTheKernel`, and of a started system by `StartsTheKernel`, both of which
are theorems.
