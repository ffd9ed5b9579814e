------------------------------- MODULE Timer -------------------------------
(***************************************************************************)
(* Time as the kernel keeps it: the count of C_IRQ_Handler.c, the signals  *)
(* of device.c and the sleep call of syscall/time.c, all in `unsigned      *)
(* long` arithmetic, which wraps.  Real time goes by in half ticks, so     *)
(* that a call may come between two ticks.                                 *)
(*                                                                         *)
(* sleep_syscall runs with interrupts enabled, and its caller may be       *)
(* preempted between any two rounds of its loop.                           *)
(***************************************************************************)
EXTENDS Integers

CONSTANTS
    Wrap,           \* 2^32: where an unsigned long starts again from 0
    dev_freq,       \* the period of each device in ms
    Requests,       \* the times that sleep is called with
    MaxTicks        \* ticks considered; timer_count itself does not wrap

step_count == 10
Devices    == DOMAIN dev_freq

ASSUME TimerAssumption ==
    /\ Wrap \in Nat \ {0}
    /\ MaxTicks \in 0 .. (Wrap - 1)
    /\ dev_freq \in [Devices -> 1 .. (Wrap - 1)]
    /\ \A d \in Devices : dev_freq[d] % step_count = 0
    /\ Requests \subseteq 0 .. (Wrap - 1)

VARIABLES
    timer_count,    \* ticks since kmain
    half,           \* 1 when half of a tick has gone by since the last, else 0
    next_match,     \* devices[d].next_match
    last_signal,    \* when each device was last signalled, in ms since kmain
    asleep,         \* whether a task is in sleep_syscall, and its locals
    millis,
    old_count,
    called,         \* the real time of its call, in ms
    slept           \* [asked, took] in ms of the last call, once it returned

sleep_vars == <<asleep, millis, old_count, called, slept>>
vars == <<timer_count, half, next_match, last_signal, sleep_vars>>

RealTime == timer_count * step_count + half * (step_count \div 2)

Init ==
    /\ timer_count = 0 /\ half = 0
    /\ next_match = dev_freq
    /\ last_signal = [d \in Devices |-> 0]
    /\ asleep = FALSE /\ millis = 0 /\ old_count = 0 /\ called = 0
    /\ slept = [asked |-> 0, took |-> 0]

-----------------------------------------------------------------------------
time_syscall == (timer_count * step_count) % Wrap

sleep_syscall(m) ==
    /\ ~asleep
    /\ asleep' = TRUE
    /\ millis' = m
    /\ old_count' = time_syscall
    /\ called' = RealTime
    /\ slept' = [asked |-> 0, took |-> 0]
    /\ UNCHANGED <<timer_count, half, next_match, last_signal>>

\* Mutant: the times themselves are compared.
over_by_comparison == time_syscall >= (old_count + millis) % Wrap

\* Mutant: the ticks are counted, and the request is rounded down to ticks.
over_by_ticks == (time_syscall - old_count) % Wrap >= millis - (millis % step_count)

\* The loop's condition has become false.
over == (time_syscall - old_count) % Wrap >= millis

sleep_returns ==
    /\ asleep /\ over
    /\ asleep' = FALSE
    /\ slept' = [asked |-> millis, took |-> RealTime - called]
    /\ millis' = 0 /\ old_count' = 0 /\ called' = 0
    /\ UNCHANGED <<timer_count, half, next_match, last_signal>>

-----------------------------------------------------------------------------
HalfATick ==
    /\ half = 0
    /\ half' = 1
    /\ UNCHANGED <<timer_count, next_match, last_signal, sleep_vars>>

\* Mutant: `>` for `>=`.
late(d, now) == now > next_match[d]

matches(d, now) == now >= next_match[d]

dev_update(now) ==
    /\ next_match' = [d \in Devices |-> IF matches(d, now)
                                        THEN (next_match[d] + dev_freq[d]) % Wrap
                                        ELSE next_match[d]]
    /\ last_signal' = [d \in Devices |-> IF matches(d, now)
                                         THEN timer_count' * step_count
                                         ELSE last_signal[d]]

C_IRQ_Handler ==
    /\ half = 1
    /\ timer_count < MaxTicks
    /\ half' = 0
    /\ timer_count' = timer_count + 1
    /\ dev_update((timer_count' * step_count) % Wrap)
    /\ UNCHANGED sleep_vars

Next ==
    \/ \E m \in Requests : sleep_syscall(m)
    \/ sleep_returns
    \/ HalfATick
    \/ C_IRQ_Handler

Spec == Init /\ [][Next]_vars

-----------------------------------------------------------------------------
\* Types, and that unsigned values stay below the wrap.
TypeOK ==
    /\ timer_count \in 0 .. MaxTicks
    /\ half \in 0 .. 1
    /\ next_match \in [Devices -> 0 .. (Wrap - 1)]
    /\ last_signal \in [Devices -> Nat]
    /\ asleep \in BOOLEAN
    /\ millis \in 0 .. (Wrap - 1)
    /\ old_count \in 0 .. (Wrap - 1)
    /\ called \in Nat
    /\ slept.asked \in 0 .. (Wrap - 1) /\ slept.took \in Nat

Now == timer_count * step_count

\* "Devices will be periodically signaled" (device.c:39): until the
\* millisecond count is within one period of its wrap, every device has had its
\* last signal at the last multiple of its period, neither late nor twice.
\* Module Kernel counts down to the signals on the strength of this.
SignalledOnTime ==
    \A d \in Devices :
        Now + dev_freq[d] < Wrap => last_signal[d] = Now - (Now % dev_freq[d])

\* A sleeper loses less than one tick of its time, through the wrap too: its
\* count starts at the tick before the call (time.c:39 says "atleast the given
\* number of milliseconds").
ShortByLessThanATick == slept.took > slept.asked - step_count

\* A sleeper that has had its time finds that out at its next look at the
\* clock, through the wrap too, unless it is kept from looking for so long that
\* the difference wraps as well.
WakesInTime ==
    asleep /\ RealTime - called \in millis + step_count .. Wrap - step_count => over
=============================================================================
