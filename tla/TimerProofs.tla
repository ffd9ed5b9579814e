----------------------------- MODULE TimerProofs -----------------------------
(***************************************************************************)
(* Time, proved for every width of the counters, every set of periods that *)
(* are multiples of the tick, and every sleep.                             *)
(***************************************************************************)
EXTENDS Timer, TLAPS

\* Until the count is within one period of its wrap, next_match is one period after
\* the last signal, and now is between them.
MatchInv ==
    \A d \in Devices :
        Now + dev_freq[d] < Wrap =>
            /\ last_signal[d] % dev_freq[d] = 0
            /\ last_signal[d] % step_count = 0
            /\ last_signal[d] <= Now /\ Now < last_signal[d] + dev_freq[d]
            /\ next_match[d] = last_signal[d] + dev_freq[d]

\* The sleeper called in the half tick after tick c.
Called(c) == /\ c <= timer_count
             /\ old_count = (c * step_count) % Wrap
             /\ called \in (c * step_count) .. (c * step_count + 5)
             /\ called <= RealTime

SleepInv == asleep => \E c \in Nat : Called(c)

TimerInv ==
    /\ TypeOK
    /\ MatchInv
    /\ SleepInv
    /\ ShortByLessThanATick

-----------------------------------------------------------------------------
(* Remainders.                                                             *)

LEMMA Remainder ==
    ASSUME NEW f \in Nat \ {0}, NEW q \in Int, NEW r \in 0 .. (f - 1)
    PROVE  (f * q + r) % f = r
BY SMT

LEMMA Division ==
    ASSUME NEW f \in Nat \ {0}, NEW a \in Int
    PROVE  a % f \in 0 .. (f - 1) /\ \E q \in Int : a = f * q + (a % f)
<1>1. a % f \in 0 .. (f - 1) /\ a = f * (a \div f) + (a % f) /\ a \div f \in Int
  BY SMT
<1>. QED
  BY <1>1, Zenon

LEMMA Distributes ==
    ASSUME NEW w \in Int, NEW k \in Int, NEW p \in Int, NEW q \in Int
    PROVE  w * ((k - p) + q) = (w * k - w * p) + w * q /\ w * k \in Int /\ w * p \in Int /\ w * q \in Int
BY SMT

\* Behind a multiple the remainder is the distance to it.
LEMMA BehindMultiple ==
    ASSUME NEW f \in Nat \ {0}, NEW a \in Int, a % f = 0, NEW r \in 0 .. (f - 1)
    PROVE  (a + r) % f = r
<1>1. PICK q \in Int : a = f * q + 0
  BY Division
<1>2. a + r = f * q + r
  BY <1>1, SMT
<1>. QED
  BY <1>2, Remainder

\* One multiple further is a multiple.
LEMMA NextMultiple ==
    ASSUME NEW f \in Nat \ {0}, NEW a \in Int, a % f = 0
    PROVE  (a + f) % f = 0
<1>1. PICK q \in Int : a = f * q + 0
  BY Division
<1>2. q + 1 \in Int /\ 0 \in 0 .. (f - 1) /\ a + f = f * (q + 1) + 0
  BY <1>1, SMT
<1>3. (f * (q + 1) + 0) % f = 0
  BY <1>2, Remainder
<1>. QED
  BY <1>2, <1>3

\* Unsigned subtraction of two counts is the difference of what they count.
LEMMA UnsignedDifference ==
    ASSUME NEW w \in Nat \ {0}, NEW a \in Int, NEW b \in Int
    PROVE  ((a % w) - (b % w)) % w = (a - b) % w
<1>1. PICK p \in Int : a = w * p + (a % w)
  BY Division
<1>2. PICK q \in Int : b = w * q + (b % w)
  BY Division
<1>3. a % w \in Int /\ b % w \in Int
  BY Division
<1>. DEFINE x == a % w  y == b % w  r == (a - b) % w
<1>4. r \in 0 .. (w - 1) /\ \E k \in Int : a - b = w * k + r
  <2>1. a - b \in Int
    OBVIOUS
  <2>. QED
    BY <2>1, Division
<1>5. PICK k \in Int : a - b = w * k + r
  BY <1>4
<1>6. a = w * p + x /\ b = w * q + y /\ x \in Int /\ y \in Int /\ r \in Int
  BY <1>1, <1>2, <1>3, <1>4
<1>. HIDE DEF x, y, r
<1>7. x - y = w * ((k - p) + q) + r
  <2>1. w * ((k - p) + q) = (w * k - w * p) + w * q /\ w * k \in Int /\ w * p \in Int /\ w * q \in Int
    BY Distributes
  <2>. QED
    BY <1>5, <1>6, <2>1
<1>8. (w * ((k - p) + q) + r) % w = r
  BY <1>4, Remainder
<1>. QED
  BY <1>7, <1>8 DEF x, y, r

LEMMA RemainderIsLess ==
    ASSUME NEW w \in Nat \ {0}, NEW a \in Nat
    PROVE  a % w <= a /\ (a < w => a % w = a)
BY SMT

-----------------------------------------------------------------------------
USE TimerAssumption DEF step_count

LEMMA InitInv == Init => TimerInv
<1>. SUFFICES ASSUME Init PROVE TimerInv
  OBVIOUS
<1>1. TypeOK
  <2>1. next_match \in [Devices -> 0 .. (Wrap - 1)]
    BY DEF Init
  <2>2. slept.asked = 0 /\ slept.took = 0
    BY DEF Init
  <2>3. asleep \in BOOLEAN
    BY Zenon DEF Init
  <2>4. timer_count \in 0 .. MaxTicks /\ half \in 0 .. 1 /\ last_signal \in [Devices -> Nat]
        /\ millis = 0 /\ old_count = 0 /\ called = 0 /\ 0 \in 0 .. (Wrap - 1)
    BY DEF Init
  <2>. QED
    BY <2>1, <2>2, <2>3, <2>4 DEF TypeOK
<1>2. MatchInv
  BY <1>1, RemainderIsLess DEF Init, MatchInv, Now
<1>. QED
  BY <1>1, <1>2 DEF Init, TimerInv, SleepInv, ShortByLessThanATick

\* What a sleeper's difference is, whatever has wrapped.
LEMMA Elapsed ==
    ASSUME TypeOK, NEW c \in Nat, Called(c)
    PROVE  /\ (time_syscall - old_count) % Wrap = (Now - c * step_count) % Wrap
           /\ Now - c * step_count \in Nat
           /\ Now \in Nat /\ RealTime \in Now .. (Now + 5) /\ called \in Nat
<1>1. timer_count \in Nat /\ Now \in Nat /\ c * step_count \in Nat /\ half \in 0 .. 1 /\ called \in Nat
  BY DEF TypeOK, Now
<1>2. RealTime \in Now .. (Now + 5)
  BY <1>1 DEF RealTime, Now
<1>3. Now - c * step_count \in Nat
  BY <1>1 DEF Now, Called
<1>4. (time_syscall - old_count) % Wrap = (Now - c * step_count) % Wrap
  <2>1. time_syscall = Now % Wrap /\ old_count = (c * step_count) % Wrap
    BY DEF time_syscall, Now, Called
  <2>2. ((Now % Wrap) - ((c * step_count) % Wrap)) % Wrap = (Now - c * step_count) % Wrap
    <3>. DEFINE then == c * step_count
    <3>1. Now \in Int /\ then \in Int /\ Wrap \in Nat \ {0}
      BY <1>1
    <3>. HIDE DEF then
    <3>2. ((Now % Wrap) - (then % Wrap)) % Wrap = (Now - then) % Wrap
      BY <3>1, UnsignedDifference, Zenon
    <3>. QED
      BY <3>2 DEF then
  <2>. QED
    BY <2>1, <2>2
<1>. QED
  BY <1>1, <1>2, <1>3, <1>4

LEMMA NextInv == TimerInv /\ [Next]_vars => TimerInv'
<1>. SUFFICES ASSUME TimerInv, [Next]_vars PROVE TimerInv'
  OBVIOUS
<1>0. TypeOK /\ MatchInv /\ SleepInv /\ ShortByLessThanATick
  BY DEF TimerInv
<1>1. ASSUME NEW m \in Requests, sleep_syscall(m) PROVE TimerInv'
  <2>1. time_syscall \in 0 .. (Wrap - 1) /\ RealTime \in Nat /\ timer_count \in Nat
    BY <1>0, Division DEF TypeOK, time_syscall, RealTime
  <2>2. TypeOK'
    BY <1>0, <1>1, <2>1 DEF TypeOK, sleep_syscall
  <2>3. MatchInv'
    BY <1>0, <1>1 DEF MatchInv, Now, sleep_syscall
  <2>4. Called(timer_count)'
    BY <1>0, <1>1, <2>1 DEF TypeOK, Called, sleep_syscall, time_syscall, RealTime
  <2>5. SleepInv'
    BY <1>1, <2>1, <2>4 DEF SleepInv, sleep_syscall, Called, RealTime
  <2>6. ShortByLessThanATick'
    BY <1>1 DEF ShortByLessThanATick, sleep_syscall
  <2>. QED
    BY <2>2, <2>3, <2>5, <2>6 DEF TimerInv
<1>2. ASSUME sleep_returns PROVE TimerInv'
  <2>1. PICK c \in Nat : Called(c)
    BY <1>0, <1>2 DEF SleepInv, sleep_returns
  <2>2. /\ (time_syscall - old_count) % Wrap = (Now - c * step_count) % Wrap
        /\ Now - c * step_count \in Nat
        /\ Now \in Nat /\ RealTime \in Now .. (Now + 5) /\ called \in Nat
    BY <1>0, <2>1, Elapsed
  <2>3. millis \in Nat /\ millis <= Now - c * step_count
    <3>1. millis \in Nat /\ (time_syscall - old_count) % Wrap >= millis
      BY <1>0, <1>2 DEF TypeOK, sleep_returns, over
    <3>2. (Now - c * step_count) % Wrap <= Now - c * step_count
      BY <2>2, RemainderIsLess
    <3>3. (Now - c * step_count) % Wrap \in Int
      BY <2>2, Division
    <3>. QED
      BY <2>2, <3>1, <3>2, <3>3
  <2>4. RealTime - called \in Nat /\ RealTime - called > millis - step_count
    BY <2>1, <2>2, <2>3 DEF Called
  <2>5. slept' = [asked |-> millis, took |-> RealTime - called]
    BY <1>2 DEF sleep_returns
  <2>6. TypeOK' /\ ShortByLessThanATick'
    <3>1. slept'.asked = millis /\ slept'.took = RealTime - called
      BY <2>5
    <3>2. ShortByLessThanATick'
      BY <2>4, <3>1 DEF ShortByLessThanATick
    <3>3. millis \in 0 .. (Wrap - 1) /\ slept'.asked \in 0 .. (Wrap - 1) /\ slept'.took \in Nat
      BY <1>0, <2>4, <3>1 DEF TypeOK
    <3>4. asleep' \in BOOLEAN
      BY <1>2, Zenon DEF sleep_returns
    <3>5. /\ UNCHANGED <<timer_count, half, next_match, last_signal>>
          /\ millis' = 0 /\ old_count' = 0 /\ called' = 0
      BY <1>2 DEF sleep_returns
    <3>. QED
      BY <1>0, <3>2, <3>3, <3>4, <3>5 DEF TypeOK
  <2>7. MatchInv' /\ SleepInv'
    BY <1>0, <1>2 DEF MatchInv, Now, SleepInv, sleep_returns
  <2>. QED
    BY <2>6, <2>7 DEF TimerInv
<1>3. ASSUME HalfATick PROVE TimerInv'
  <2>1. TypeOK' /\ ShortByLessThanATick'
    BY <1>0, <1>3 DEF TypeOK, HalfATick, sleep_vars, ShortByLessThanATick
  <2>2. MatchInv'
    BY <1>0, <1>3 DEF MatchInv, Now, HalfATick
  <2>3. ASSUME NEW c \in Nat, Called(c) PROVE Called(c)'
    BY <1>0, <1>3, <2>3 DEF TypeOK, Called, HalfATick, sleep_vars, RealTime
  <2>. QED
    BY <1>0, <1>3, <2>1, <2>2, <2>3 DEF TimerInv, SleepInv, HalfATick, sleep_vars
<1>4. ASSUME C_IRQ_Handler PROVE TimerInv'
  <2>1. /\ timer_count' = timer_count + 1 /\ timer_count < MaxTicks
        /\ dev_update((timer_count' * step_count) % Wrap)
        /\ half' = 0 /\ UNCHANGED <<asleep, millis, old_count, called, slept>>
    BY <1>4 DEF C_IRQ_Handler, sleep_vars
  <2>2. TypeOK'
    <3>1. \A d \in Devices : (next_match[d] + dev_freq[d]) % Wrap \in 0 .. (Wrap - 1)
      <4>1. \A d \in Devices : next_match[d] + dev_freq[d] \in Int
        BY <1>0 DEF TypeOK
      <4>. QED
        BY <4>1, Division
    <3>2. next_match' \in [Devices -> 0 .. (Wrap - 1)] /\ last_signal' \in [Devices -> Nat]
      BY <1>0, <2>1, <3>1 DEF TypeOK, dev_update
    <3>. QED
      BY <1>0, <2>1, <3>2 DEF TypeOK
  <2>3. MatchInv'
    <3>. SUFFICES ASSUME NEW d \in Devices, Now' + dev_freq[d] < Wrap
                  PROVE  /\ last_signal'[d] % dev_freq[d] = 0
                         /\ last_signal'[d] % step_count = 0
                         /\ last_signal'[d] <= Now' /\ Now' < last_signal'[d] + dev_freq[d]
                         /\ next_match'[d] = last_signal'[d] + dev_freq[d]
      BY DEF MatchInv
    <3>1. /\ Now \in Nat /\ Now' = Now + 10 /\ Now % 10 = 0
          /\ dev_freq[d] \in Nat \ {0} /\ dev_freq[d] % 10 = 0
          /\ last_signal[d] \in Nat /\ next_match[d] \in Nat
      BY <1>0, <2>1 DEF TypeOK, Now
    <3>. HIDE DEF Devices
    <3>2. (timer_count' * step_count) % Wrap = Now'
      BY <3>1, RemainderIsLess DEF Now
    <3>3. /\ last_signal[d] % dev_freq[d] = 0
          /\ last_signal[d] % 10 = 0
          /\ last_signal[d] <= Now /\ Now < last_signal[d] + dev_freq[d]
          /\ next_match[d] = last_signal[d] + dev_freq[d]
      BY <1>0, <3>1 DEF MatchInv
    <3>4. CASE Now' >= next_match[d]
      <4>1. last_signal'[d] = Now' /\ next_match'[d] = (next_match[d] + dev_freq[d]) % Wrap
        BY <2>1, <3>2, <3>4 DEF dev_update, matches, Now
      <4>2. Now' = last_signal[d] + dev_freq[d]
        BY <3>1, <3>3, <3>4
      <4>3. (last_signal[d] + dev_freq[d]) % dev_freq[d] = 0
        BY <3>1, <3>3, NextMultiple
      <4>4. (next_match[d] + dev_freq[d]) % Wrap = next_match[d] + dev_freq[d]
        <5>1. next_match[d] + dev_freq[d] \in Nat /\ next_match[d] + dev_freq[d] < Wrap
          BY <3>1, <3>3, <4>2
        <5>. QED
          BY <5>1, RemainderIsLess
      <4>. QED
        BY <3>1, <3>3, <4>1, <4>2, <4>3, <4>4
    <3>5. CASE ~(Now' >= next_match[d])
      <4>1. last_signal'[d] = last_signal[d] /\ next_match'[d] = next_match[d]
        BY <1>0, <2>1, <3>2, <3>5 DEF dev_update, matches, Now, TypeOK
      <4>. QED
        BY <3>1, <3>3, <3>5, <4>1
    <3>. QED
      BY <3>4, <3>5
  <2>4. ASSUME NEW c \in Nat, Called(c) PROVE Called(c)'
    BY <1>0, <2>1, <2>4 DEF TypeOK, Called, RealTime
  <2>. QED
    BY <1>0, <2>1, <2>2, <2>3, <2>4 DEF TimerInv, SleepInv, ShortByLessThanATick
<1>5. ASSUME UNCHANGED vars PROVE TimerInv'
  BY <1>0, <1>5 DEF TimerInv, TypeOK, MatchInv, SleepInv, Called, ShortByLessThanATick, Now,
                    RealTime, vars, sleep_vars
<1>. QED
  BY <1>1, <1>2, <1>3, <1>4, <1>5 DEF Next

LEMMA AlwaysInv == Spec => []TimerInv
BY InitInv, NextInv, PTL DEF Spec

-----------------------------------------------------------------------------
(* The theorems.                                                           *)

\* Counts and matches stay below the wrap.
THEOREM TypeCorrect == Spec => []TypeOK
<1>1. TimerInv => TypeOK
  BY DEF TimerInv
<1>. QED
  BY <1>1, AlwaysInv, PTL

\* Whatever the periods and however wide the count, until the count comes within a
\* period of its wrap a device was last signalled at the last multiple of its
\* period (device.c:39, 83-105).
THEOREM SignalsAreOnTime == Spec => []SignalledOnTime
<1>1. TimerInv => SignalledOnTime
  <2>. SUFFICES ASSUME TimerInv, NEW d \in Devices, Now + dev_freq[d] < Wrap
                PROVE  last_signal[d] = Now - (Now % dev_freq[d])
    BY DEF SignalledOnTime
  <2>1. /\ last_signal[d] % dev_freq[d] = 0
        /\ last_signal[d] <= Now /\ Now < last_signal[d] + dev_freq[d]
        /\ last_signal[d] \in Nat /\ Now \in Nat /\ dev_freq[d] \in Nat \ {0}
    BY DEF TimerInv, MatchInv, TypeOK, Now
  <2>2. Now - last_signal[d] \in 0 .. (dev_freq[d] - 1) /\ last_signal[d] + (Now - last_signal[d]) = Now
    BY <2>1
  <2>3. (last_signal[d] + (Now - last_signal[d])) % dev_freq[d] = Now - last_signal[d]
    BY <2>1, <2>2, BehindMultiple
  <2>. QED
    BY <2>1, <2>2, <2>3
<1>. QED
  BY <1>1, AlwaysInv, PTL

\* A sleep of any length, begun and ended anywhere around the wrap, is short by less
\* than a tick (time.c:36-53).
THEOREM SleepsAreLongEnough == Spec => []ShortByLessThanATick
<1>1. TimerInv => ShortByLessThanATick
  BY DEF TimerInv
<1>. QED
  BY <1>1, AlwaysInv, PTL

\* A sleeper that has had its time and a tick sees it, through the wrap too.
THEOREM SleepersWake == Spec => []WakesInTime
<1>1. TimerInv => WakesInTime
  <2>. SUFFICES ASSUME TimerInv, asleep,
                       RealTime - called \in millis + step_count .. Wrap - step_count
                PROVE  over
    BY DEF WakesInTime
  <2>1. TypeOK /\ millis \in Nat
    BY DEF TimerInv, TypeOK
  <2>2. PICK c \in Nat : Called(c)
    BY DEF TimerInv, SleepInv
  <2>3. /\ (time_syscall - old_count) % Wrap = (Now - c * step_count) % Wrap
        /\ Now - c * step_count \in Nat
        /\ Now \in Nat /\ RealTime \in Now .. (Now + 5) /\ called \in Nat
    BY <2>1, <2>2, Elapsed
  <2>4. Now - c * step_count >= millis /\ Now - c * step_count < Wrap
    BY <2>1, <2>2, <2>3 DEF Called
  <2>5. (Now - c * step_count) % Wrap = Now - c * step_count
    BY <2>3, <2>4, RemainderIsLess
  <2>. QED
    BY <2>3, <2>4, <2>5 DEF over
<1>. QED
  BY <1>1, AlwaysInv, PTL
=============================================================================
