---------------------------- MODULE StartupProofs ----------------------------
(***************************************************************************)
(* From kmain to the first dispatch, proved for every array of tasks,      *)
(* every width of an unsigned long, every order of ticks and calls:        *)
(*                                                                         *)
(*   StageInv   how far the program has come determines which vectors are  *)
(*              patched;                                                   *)
(*   AdmInv     main's array always holds main's tasks, those of one       *)
(*              period in main's order, and is sorted once it has been     *)
(*              tested; the last answer is that to the array as it is;     *)
(*   BootInv    the devices are as many ticks from due as came, the        *)
(*              mutexes are as many as were created, and a main without    *)
(*              mutexes leaves the memory of the boot loader alone.        *)
(*                                                                         *)
(* The sorting and the sums are loops: what holds after every round is     *)
(* proved from the least round for which it would not (UpTo).              *)
(***************************************************************************)
EXTENDS Startup, FiniteSetTheorems, SequenceTheorems, WellFoundedInduction, TLAPS

Stages == {"kmain", "swi", "timer", "irq", "modeswitch", "main", "tasks", "stopped", "wild", "returned"}

Patched(v) == handler[v] = "kernel" /\ instruction[v] = "load"
Untouched  == ~timer_on /\ \A v \in Vectors : handler[v] = "boot loader"

StageInv ==
    /\ at \in Stages
    /\ handler \in [Vectors -> {"kernel", "boot loader"}]
    /\ at \in {"kmain", "swi"} => Untouched
    /\ at \in {"timer", "irq"} => Patched("swi") /\ handler["irq"] = "boot loader"
    /\ at \in {"irq", "modeswitch", "main", "tasks"} => timer_on
    /\ at \in {"modeswitch", "main", "tasks"} => \A v \in Vectors : Patched(v)
    /\ at = "returned" => Untouched \/ (Patched("swi") /\ handler["irq"] = "boot loader")

-----------------------------------------------------------------------------
LEMMA InitInv == StartupInit => StageInv
<1>. SUFFICES ASSUME StartupInit PROVE StageInv
  OBVIOUS
<1>1. at = "kmain" /\ handler = [v \in Vectors |-> "boot loader"] /\ ~timer_on
  BY Zenon DEF StartupInit
<1>. QED
  BY <1>1 DEF StageInv, Stages, Untouched

\* kmain goes from stage to stage, or returns.
LEMMA KmainStep == ASSUME StageInv, kmain PROVE StageInv'
<1>1. CASE initialise
  BY <1>1 DEF StageInv, initialise, Kmain, boot_vars, Stages, Untouched, Patched
<1>2. ASSUME NEW v \in Vectors, bad_vector(v) PROVE StageInv'
  BY <1>2 DEF StageInv, bad_vector, recognised, Kmain, boot_vars, Stages, Untouched, Patched, Vectors
<1>3. CASE patch("swi", "timer")
  <2>1. /\ at = "swi" /\ at' = "timer" /\ instruction["swi"] = "load"
        /\ handler' = [handler EXCEPT !["swi"] = "kernel"] /\ UNCHANGED <<instruction, timer_on>>
    BY <1>3 DEF patch, recognised, Kmain
  <2>. QED
    BY <2>1 DEF StageInv, Stages, Untouched, Patched, Vectors
<1>4. CASE start_timer
  <2>1. at = "timer" /\ at' = "irq" /\ timer_on' /\ UNCHANGED <<instruction, handler>>
    BY <1>4, Zenon DEF start_timer, Kmain
  <2>. QED
    BY <2>1 DEF StageInv, Stages, Untouched, Patched
<1>5. CASE patch("irq", "modeswitch")
  <2>1. /\ at = "irq" /\ at' = "modeswitch" /\ instruction["irq"] = "load"
        /\ handler' = [handler EXCEPT !["irq"] = "kernel"] /\ UNCHANGED <<instruction, timer_on>>
    BY <1>5 DEF patch, recognised, Kmain
  <2>2. Patched("swi")' /\ Patched("irq")'
    BY <2>1 DEF StageInv, Patched, Vectors
  <2>. QED
    BY <2>1, <2>2 DEF StageInv, Stages, Untouched, Vectors
<1>6. CASE modeswitch
  BY <1>6 DEF StageInv, modeswitch, Kmain, boot_vars, Stages, Untouched, Patched
<1>. QED
  BY <1>1, <1>2, <1>3, <1>4, <1>5, <1>6 DEF kmain

\* Nothing that main does, and no tick, patches anything.
LEMMA MainStep ==
    ASSUME StageInv, \/ early_tick \/ UNCHANGED startup_vars
                     \/ mutex_create \/ mutex_unlock \/ event_wait \/ start_tasks
    PROVE  StageInv'
<1>1. UNCHANGED <<instruction, handler, timer_on>>
  BY DEF early_tick, mutex_create, mutex_unlock, event_wait, start_tasks, boot_vars, startup_vars
<1>2. at' = at \/ (at = "main" /\ at' \in {"main", "tasks", "stopped", "wild"})
  BY DEF early_tick, mutex_create, mutex_unlock, event_wait, start_tasks, startup_vars
<1>. QED
  BY <1>1, <1>2 DEF StageInv, Stages, Untouched, Patched

LEMMA AlwaysInv == StartupSpec => []StageInv
<1>1. StageInv /\ [StartupNext]_startup_vars => StageInv'
  BY KmainStep, MainStep DEF StartupNext
<1>. QED
  BY <1>1, InitInv, PTL DEF StartupSpec

-----------------------------------------------------------------------------
\* Whatever main asks for, it runs with both vectors patched and the timer on; and
\* a kmain that returns has changed nothing, unless it was the second vector that it
\* did not know (main.c:96-142).
THEOREM VectorsArePatched == StartupSpec => []PatchesBothOrNone
<1>1. StageInv => PatchesBothOrNone
  BY DEF StageInv, PatchesBothOrNone, Untouched, Patched
<1>. QED
  BY <1>1, AlwaysInv, PTL

-----------------------------------------------------------------------------
(* Sums and sorting are defined by rounds: such a definition defines a     *)
(* function, and what each round keeps holds after any number of them.     *)

\* Any non-empty set of numbers has a least member.
LEMMA LeastExists ==
    ASSUME NEW S \in SUBSET Nat, S # {}
    PROVE  \E x \in S : \A y \in S : x <= y
<1>1. PICK x \in S : \A y \in S : ~ (<<y, x>> \in OpToRel(<, Nat))
  BY WFMin, NatLessThanWellFounded
<1>2. \A y \in S : x <= y
  <2>. SUFFICES ASSUME NEW y \in S, ~ (x <= y) PROVE FALSE
    OBVIOUS
  <2>1. y < x /\ y \in Nat /\ x \in Nat
    OBVIOUS
  <2>2. <<y, x>> \in OpToRel(<, Nat)
    BY <2>1 DEF OpToRel
  <2>. QED
    BY <1>1, <2>2
<1>. QED
  BY <1>2

\* A set of numbers up to n that has 0, and i + 1 with each i < n, has them all.
LEMMA UpTo ==
    ASSUME NEW n \in Nat, NEW G, 0 \in G,
           \A i \in 1 .. n : i - 1 \in G => i \in G
    PROVE  0 .. n \subseteq G
<1> DEFINE Bad == (0 .. n) \ G
<1>. SUFFICES ASSUME Bad # {} PROVE FALSE
  OBVIOUS
<1>1. PICK x \in Bad : \A y \in Bad : x <= y
  <2>1. Bad \in SUBSET Nat
    OBVIOUS
  <2>. HIDE DEF Bad
  <2>. QED
    BY <2>1, LeastExists
<1>2. x \in 1 .. n /\ x - 1 \notin Bad /\ x - 1 \in 0 .. n
  <2>1. x \in 0 .. n /\ x # 0
    OBVIOUS
  <2>2. x \in 1 .. n /\ x - 1 \in 0 .. n /\ ~(x <= x - 1)
    BY <2>1
  <2>. QED
    BY <1>1, <2>2
<1>3. x - 1 \in G
  BY <1>2
<1>. QED
  BY <1>2, <1>3

\* g[i] is what the first i of n rounds make of c; round i takes x to d[<<x, i>>].
MadeByRounds(S, c, n, d, g) ==
    g \in [0 .. n -> S] /\ g[0] = c /\ \A i \in 1 .. n : g[i] = d[<<g[i - 1], i>>]

LEMMA ByRounds ==
    ASSUME NEW S, NEW c \in S, NEW n \in Nat, NEW d \in [S \X (1 .. n) -> S]
    PROVE  \E g : MadeByRounds(S, c, n, d, g)
<1> DEFINE Rounds(k) == \E g \in [0 .. k -> S] :
              g[0] = c /\ \A i \in 1 .. k : g[i] = d[<<g[i - 1], i>>]
           Good == {k \in 0 .. n : Rounds(k)}
<1>1. 0 \in Good
  <2> DEFINE g == [i \in 0 .. 0 |-> c]
  <2>1. g \in [0 .. 0 -> S] /\ g[0] = c /\ \A i \in 1 .. 0 : g[i] = d[<<g[i - 1], i>>]
    OBVIOUS
  <2>. HIDE DEF g
  <2>2. Rounds(0)
    BY <2>1
  <2>. HIDE DEF Rounds
  <2>. QED
    BY <2>2
<1>2. ASSUME NEW k \in 1 .. n, k - 1 \in Good
      PROVE  k \in Good
  <2>1. PICK g \in [0 .. (k - 1) -> S] :
              g[0] = c /\ \A i \in 1 .. (k - 1) : g[i] = d[<<g[i - 1], i>>]
    BY <1>2
  <2> DEFINE h == [i \in 0 .. k |-> IF i = k THEN d[<<g[k - 1], k>>] ELSE g[i]]
  <2>2. g[k - 1] \in S /\ d[<<g[k - 1], k>>] \in S
    BY <2>1
  <2>3. h \in [0 .. k -> S] /\ h[0] = c
    BY <2>1, <2>2
  <2>4. \A i \in 1 .. k : h[i] = d[<<h[i - 1], i>>]
    BY <2>1
  <2>. HIDE DEF h
  <2>. QED
    BY <2>3, <2>4
<1>. HIDE DEF Good
<1>3. n \in Good
  BY <1>1, <1>2, UpTo
<1>. QED
  BY <1>3 DEF Good, MadeByRounds

-----------------------------------------------------------------------------
(* Sums.                                                                   *)

Numbers(c, n) == n \in Nat /\ c \in [1 .. n -> Nat]

LEMMA SumsDefined ==
    ASSUME NEW n, NEW c, Numbers(c, n)
    PROVE  /\ sums(c) \in [0 .. n -> Nat] /\ sums(c)[0] = 0
           /\ \A i \in 1 .. n : sums(c)[i] = sums(c)[i - 1] + c[i]
<1>1. n \in Nat /\ c \in [1 .. n -> Nat] /\ Len(c) = n
  BY DEF Numbers
<1> DEFINE d == [p \in Nat \X (1 .. n) |-> p[1] + c[p[2]]]
           f == CHOOSE sum : sum = [i \in 0 .. Len(c) |-> IF i = 0 THEN 0 ELSE sum[i - 1] + c[i]]
<1>2. d \in [Nat \X (1 .. n) -> Nat]
  BY <1>1
<1>3. PICK g : MadeByRounds(Nat, 0, n, d, g)
  <2>. HIDE DEF d
  <2>1. 0 \in Nat /\ n \in Nat
    BY <1>1
  <2>. QED
    BY <1>2, <2>1, ByRounds
<1>4. g = [i \in 0 .. Len(c) |-> IF i = 0 THEN 0 ELSE g[i - 1] + c[i]]
  <2>1. g \in [0 .. n -> Nat] /\ g[0] = 0 /\ \A i \in 1 .. n : g[i] = d[<<g[i - 1], i>>]
    BY <1>3 DEF MadeByRounds
  <2>2. ASSUME NEW i \in 1 .. n PROVE g[i] = g[i - 1] + c[i]
    <3>1. i - 1 \in 0 .. n /\ g[i - 1] \in Nat
      BY <1>1, <2>1
    <3>2. d[<<g[i - 1], i>>] = g[i - 1] + c[i]
      BY <1>1, <3>1
    <3>. QED
      BY <2>1, <3>2
  <2>. HIDE DEF d
  <2>. QED
    BY <1>1, <2>1, <2>2
<1>5. f = [i \in 0 .. n |-> IF i = 0 THEN 0 ELSE f[i - 1] + c[i]]
  BY <1>1, <1>4
<1>6. sums(c) = f
  BY DEF sums
<1>. HIDE DEF f
<1>7. f[0] = 0 /\ DOMAIN f = 0 .. n /\ \A i \in 1 .. n : f[i] = f[i - 1] + c[i]
  BY <1>1, <1>5
<1>8. \A i \in 0 .. n : f[i] \in Nat
  <2> DEFINE G == {i \in 0 .. n : f[i] \in Nat}
  <2>1. 0 \in G
    BY <1>1, <1>7
  <2>2. \A i \in 1 .. n : i - 1 \in G => i \in G
    BY <1>1, <1>7
  <2>. HIDE DEF G
  <2>3. 0 .. n \subseteq G
    BY <1>1, <2>1, <2>2, UpTo
  <2>. QED
    BY <2>3 DEF G
<1>9. f \in [0 .. n -> Nat]
  BY <1>5, <1>8
<1>. QED
  BY <1>6, <1>7, <1>9

\* Smaller numbers have smaller sums.
LEMMA SumsMonotone ==
    ASSUME NEW n, NEW c, NEW e, Numbers(c, n), Numbers(e, n),
           \A i \in 1 .. n : c[i] <= e[i]
    PROVE  \A i \in 0 .. n : sums(c)[i] <= sums(e)[i]
<1>. USE DEF Numbers
<1> DEFINE G == {i \in 0 .. n : sums(c)[i] <= sums(e)[i]}
<1>1. /\ sums(c) \in [0 .. n -> Nat] /\ sums(c)[0] = 0
      /\ \A i \in 1 .. n : sums(c)[i] = sums(c)[i - 1] + c[i]
      /\ sums(e) \in [0 .. n -> Nat] /\ sums(e)[0] = 0
      /\ \A i \in 1 .. n : sums(e)[i] = sums(e)[i - 1] + e[i]
  BY SumsDefined
<1>2. 0 \in G
  BY <1>1
<1>3. ASSUME NEW i \in 1 .. n, i - 1 \in G PROVE i \in G
  <2>1. sums(c)[i - 1] <= sums(e)[i - 1] /\ i - 1 \in 0 .. n
    BY <1>3
  <2>2. /\ sums(c)[i - 1] \in Nat /\ sums(e)[i - 1] \in Nat
        /\ c[i] \in Nat /\ e[i] \in Nat /\ c[i] <= e[i]
    BY <1>1, <2>1
  <2>3. sums(c)[i] <= sums(e)[i]
    BY <1>1, <2>1, <2>2
  <2>. QED
    BY <2>3
<1>. HIDE DEF G
<1>4. 0 .. n \subseteq G
  BY <1>2, <1>3, UpTo
<1>. QED
  BY <1>4 DEF G

\* The sum of numbers of at most b.
LEMMA SumsBounded ==
    ASSUME NEW n, NEW c, Numbers(c, n), NEW b \in Nat, \A i \in 1 .. n : c[i] <= b
    PROVE  \A i \in 0 .. n : sums(c)[i] <= b * i
<1>. USE DEF Numbers
<1> DEFINE G == {i \in 0 .. n : sums(c)[i] <= b * i}
<1>1. /\ sums(c) \in [0 .. n -> Nat] /\ sums(c)[0] = 0
      /\ \A i \in 1 .. n : sums(c)[i] = sums(c)[i - 1] + c[i]
  BY SumsDefined
<1>2. 0 \in G
  BY <1>1
<1>3. ASSUME NEW i \in 1 .. n, i - 1 \in G PROVE i \in G
  <2>1. sums(c)[i - 1] <= b * (i - 1) /\ i - 1 \in 0 .. n /\ i \in 0 .. n
    BY <1>3
  <2>2. sums(c)[i - 1] \in Nat /\ c[i] \in Nat /\ c[i] <= b /\ sums(c)[i] = sums(c)[i - 1] + c[i]
    BY <1>1, <2>1
  <2>3. b * (i - 1) + b = b * i /\ b * i \in Nat /\ b * (i - 1) \in Nat
    BY <2>1
  <2>4. sums(c)[i] <= b * i
    BY <2>1, <2>2, <2>3
  <2>. QED
    BY <2>1, <2>4
<1>. HIDE DEF G
<1>4. 0 .. n \subseteq G
  BY <1>2, <1>3, UpTo
<1>. QED
  BY <1>4 DEF G

LEMMA SumsOfShares ==
    ASSUME NEW n, NEW c, Numbers(c, n), \A i \in 1 .. n : c[i] <= 1000
    PROVE  \A i \in 0 .. n : sums(c)[i] <= 1000 * i
<1>1. 1000 \in Nat
  OBVIOUS
<1>. QED
  BY <1>1, SumsBounded

-----------------------------------------------------------------------------
(* The insertion sort.                                                     *)

Rec == [id : Nat, C : ulong, T : ulong, B : ulong]

Precedes(a, b) == a.T < b.T \/ (a.T = b.T /\ a.id < b.id)

InOrder(s) == \A i, j \in 1 .. Len(s) : i < j => Precedes(s[i], s[j])

\* Of tasks with one period, the one before has the smaller id.
Stable(s) == \A i, j \in 1 .. Len(s) : i < j /\ s[i].T = s[j].T => s[i].id < s[j].id

\* The same tasks.
SameTasks(s, r) == /\ \A i \in 1 .. Len(s) : \E j \in 1 .. Len(r) : s[i] = r[j]
                   /\ \A j \in 1 .. Len(r) : \E i \in 1 .. Len(s) : s[i] = r[j]

LEMMA RecFacts ==
    ASSUME NEW a \in Rec
    PROVE  a.id \in Nat /\ a.C \in Nat /\ a.T \in Nat /\ a.B \in Nat
           /\ a.C \in ulong /\ a.T \in ulong /\ a.B \in ulong
BY AdmissionAssumption DEF Rec, ulong

\* Max, a CHOOSE, is the greatest of any numbers up to n.
LEMMA GreatestUpTo ==
    ASSUME NEW n \in Nat, NEW S \in SUBSET (0 .. n), 0 \in S
    PROVE  Max(S) \in S /\ \A x \in S : x <= Max(S)
<1> DEFINE R == {n - x : x \in S}
<1>1. R \in SUBSET Nat /\ R # {}
  OBVIOUS
<1>2. PICK y \in R : \A z \in R : y <= z
  <2>. HIDE DEF R
  <2>. QED
    BY <1>1, LeastExists
<1>3. PICK x \in S : y = n - x
  OBVIOUS
<1>4. \A z \in S : x >= z
  <2>. SUFFICES ASSUME NEW z \in S PROVE x >= z
    OBVIOUS
  <2>1. n - x <= n - z
    BY <1>2, <1>3
  <2>2. x \in 0 .. n /\ z \in 0 .. n
    OBVIOUS
  <2>. QED
    BY <2>1, <2>2
<1>5. Max(S) \in S /\ \A z \in S : Max(S) >= z
  BY <1>4 DEF Max
<1>. QED
  BY <1>5

LEMMA Inserted ==
    ASSUME NEW q \in Seq(Rec), NEW e \in Rec, NEW p \in 0 .. Len(q)
    PROVE  /\ InsertAt(q, 1 + p, e) \in Seq(Rec)
           /\ Len(InsertAt(q, 1 + p, e)) = Len(q) + 1
           /\ \A i \in 1 .. Len(q) + 1 :
                 InsertAt(q, 1 + p, e)[i] =
                    IF i <= p THEN q[i] ELSE IF i = p + 1 THEN e ELSE q[i - 1]
<1> DEFINE a == SubSeq(q, 1, p)
           b == SubSeq(q, p + 1, Len(q))
<1>1. /\ a \in Seq(Rec) /\ Len(a) = p /\ \A i \in 1 .. p : a[i] = q[i]
      /\ b \in Seq(Rec) /\ Len(b) = Len(q) - p /\ \A i \in 1 .. (Len(q) - p) : b[i] = q[p + i]
  OBVIOUS
<1>2. InsertAt(q, 1 + p, e) = a \o <<e>> \o b
  <2>1. (1 + p) - 1 = p /\ 1 + p = p + 1
    OBVIOUS
  <2>. QED
    BY <2>1 DEF InsertAt
<1>. HIDE DEF a, b
<1> DEFINE c == a \o <<e>>
<1>3. c \in Seq(Rec) /\ Len(c) = p + 1 /\ \A i \in 1 .. (p + 1) : c[i] = IF i <= p THEN q[i] ELSE e
  BY <1>1
<1>. HIDE DEF c
<1>4. /\ c \o b \in Seq(Rec) /\ Len(c \o b) = Len(q) + 1
      /\ \A i \in 1 .. Len(q) + 1 : (c \o b)[i] = IF i <= p + 1 THEN c[i] ELSE b[i - (p + 1)]
  <2>1. c \o b \in Seq(Rec) /\ Len(c \o b) = Len(c) + Len(b)
    BY <1>1, <1>3, ConcatProperties
  <2>2. \A i \in 1 .. Len(c) + Len(b) : (c \o b)[i] = IF i <= Len(c) THEN c[i] ELSE b[i - Len(c)]
    BY <1>1, <1>3, ConcatProperties
  <2>3. Len(c) = p + 1 /\ Len(c) + Len(b) = Len(q) + 1
    BY <1>1, <1>3
  <2>. QED
    BY <2>1, <2>2, <2>3
<1>5. \A i \in 1 .. Len(q) + 1 : i > p + 1 => b[i - (p + 1)] = q[i - 1]
  <2>. SUFFICES ASSUME NEW i \in 1 .. Len(q) + 1, i > p + 1 PROVE b[i - (p + 1)] = q[i - 1]
    OBVIOUS
  <2>1. i - (p + 1) \in 1 .. (Len(q) - p) /\ p + (i - (p + 1)) = i - 1
    OBVIOUS
  <2>. QED
    BY <1>1, <2>1
<1>6. InsertAt(q, 1 + p, e) = c \o b
  BY <1>2 DEF c
<1>7. \A i \in 1 .. Len(q) + 1 :
         (c \o b)[i] = IF i <= p THEN q[i] ELSE IF i = p + 1 THEN e ELSE q[i - 1]
  <2>. SUFFICES ASSUME NEW i \in 1 .. Len(q) + 1
                PROVE  (c \o b)[i] = IF i <= p THEN q[i] ELSE IF i = p + 1 THEN e ELSE q[i - 1]
    OBVIOUS
  <2>1. i \in Int /\ p \in Int
    OBVIOUS
  <2>2. CASE i <= p
    BY <1>3, <1>4, <2>2
  <2>3. CASE i = p + 1
    BY <1>3, <1>4, <2>3
  <2>4. CASE i > p + 1
    BY <1>4, <1>5, <2>4
  <2>5. i <= p \/ i = p + 1 \/ i > p + 1
    BY <2>1
  <2>. QED
    BY <2>2, <2>3, <2>4, <2>5, Zenon
<1> DEFINE r == InsertAt(q, 1 + p, e)
<1>8. r = c \o b
  BY <1>6
<1>9. /\ r \in Seq(Rec) /\ Len(r) = Len(q) + 1
      /\ \A i \in 1 .. Len(q) + 1 : r[i] = IF i <= p THEN q[i] ELSE IF i = p + 1 THEN e ELSE q[i - 1]
  <2>. HIDE DEF r
  <2>. QED
    BY <1>4, <1>7, <1>8
<1>. QED
  BY <1>9, Zenon

\* A round puts the task at one place, and in a sorted array at the right one.
LEMMA InsertPlace ==
    ASSUME NEW q \in Seq(Rec), NEW e \in Rec
    PROVE  \E p \in 0 .. Len(q) :
              /\ insert(q, e) = InsertAt(q, 1 + p, e)
              /\ InOrder(q) => /\ \A i \in 1 .. p : q[i].T <= e.T
                               /\ \A i \in (p + 1) .. Len(q) : q[i].T > e.T
<1> DEFINE M == {0} \cup {i \in DOMAIN q : q[i].T <= e.T}
           p == Max(M)
<1>1. M \in SUBSET (0 .. Len(q)) /\ 0 \in M /\ Len(q) \in Nat
  OBVIOUS
<1>2. p \in M /\ \A x \in M : x <= p
  <2>. HIDE DEF M
  <2>. QED
    BY <1>1, GreatestUpTo
<1>3. p \in 0 .. Len(q) /\ (p # 0 => q[p].T <= e.T)
  BY <1>2
<1>4. insert(q, e) = InsertAt(q, 1 + p, e)
  BY DEF insert
<1>5. ASSUME NEW i \in (p + 1) .. Len(q) PROVE q[i].T > e.T
  <2>1. i \in 1 .. Len(q) /\ i \notin M
    BY <1>2, <1>3
  <2>2. q[i] \in Rec
    BY <2>1
  <2>3. q[i].T \in Nat /\ e.T \in Nat
    BY <2>2, RecFacts
  <2>. QED
    BY <2>1, <2>3
<1>. HIDE DEF p, M
<1>6. ASSUME InOrder(q), NEW i \in 1 .. p PROVE q[i].T <= e.T
  <2>1. p # 0 /\ i \in 1 .. Len(q) /\ p \in 1 .. Len(q)
    BY <1>3
  <2>2. q[i] \in Rec /\ q[p] \in Rec
    BY <2>1
  <2>3. q[i].T \in Nat /\ q[p].T \in Nat /\ e.T \in Nat
    BY <2>2, RecFacts
  <2>4. q[i].T <= q[p].T
    BY <1>6, <2>1, <2>3 DEF InOrder, Precedes
  <2>. QED
    BY <1>3, <2>1, <2>3, <2>4
<1>. QED
  BY <1>3, <1>4, <1>5, <1>6

\* A round keeps a sorted array sorted.
LEMMA InsertInOrder ==
    ASSUME NEW q \in Seq(Rec), NEW e \in Rec, InOrder(q),
           \A i \in 1 .. Len(q) : q[i].T = e.T => q[i].id < e.id
    PROVE  /\ insert(q, e) \in Seq(Rec) /\ Len(insert(q, e)) = Len(q) + 1
           /\ InOrder(insert(q, e))
           /\ \A i \in 1 .. Len(q) + 1 :
                 insert(q, e)[i] = e \/ \E j \in 1 .. Len(q) : insert(q, e)[i] = q[j]
           /\ \E i \in 1 .. Len(q) + 1 : insert(q, e)[i] = e
           /\ \A j \in 1 .. Len(q) : \E i \in 1 .. Len(q) + 1 : insert(q, e)[i] = q[j]
<1> DEFINE r == insert(q, e)
<1>1. PICK p \in 0 .. Len(q) :
              /\ r = InsertAt(q, 1 + p, e)
              /\ \A i \in 1 .. p : q[i].T <= e.T
              /\ \A i \in (p + 1) .. Len(q) : q[i].T > e.T
  BY InsertPlace
<1>. HIDE DEF r
<1>2. /\ r \in Seq(Rec) /\ Len(r) = Len(q) + 1
      /\ \A i \in 1 .. Len(q) + 1 : r[i] = IF i <= p THEN q[i] ELSE IF i = p + 1 THEN e ELSE q[i - 1]
  <2> DEFINE a == InsertAt(q, 1 + p, e)
  <2>1. /\ a \in Seq(Rec) /\ Len(a) = Len(q) + 1
        /\ \A i \in 1 .. Len(q) + 1 : a[i] = IF i <= p THEN q[i] ELSE IF i = p + 1 THEN e ELSE q[i - 1]
    BY Inserted, Zenon
  <2>2. r = a
    BY <1>1
  <2>. HIDE DEF a
  <2>. QED
    BY <2>1, <2>2
<1>3. InOrder(r)
  <2>. SUFFICES ASSUME NEW i \in 1 .. Len(q) + 1, NEW j \in 1 .. Len(q) + 1, i < j
                PROVE  Precedes(r[i], r[j])
    BY <1>2 DEF InOrder
  <2>1. \A k \in 1 .. Len(q) : q[k] \in Rec /\ q[k].T \in Nat /\ q[k].id \in Nat
    BY RecFacts
  <2>2. e.T \in Nat /\ e.id \in Nat
    BY RecFacts
  <2>3. CASE j <= p
    BY <1>2, <2>3 DEF InOrder
  <2>4. CASE j = p + 1
    <3>1. r[i] = q[i] /\ r[j] = e /\ i \in 1 .. p /\ i \in 1 .. Len(q)
      BY <1>2, <2>4
    <3>2. q[i].T <= e.T
      BY <1>1, <3>1
    <3>3. q[i].T < e.T \/ q[i].id < e.id
      BY <2>1, <2>2, <3>1, <3>2
    <3>. QED
      BY <2>1, <2>2, <3>1, <3>2, <3>3 DEF Precedes
  <2>5. CASE j > p + 1 /\ i = p + 1
    <3>1. r[i] = e /\ r[j] = q[j - 1] /\ j - 1 \in (p + 1) .. Len(q)
      BY <1>2, <2>5
    <3>2. e.T < q[j - 1].T
      BY <1>1, <2>1, <2>2, <3>1
    <3>. QED
      BY <3>1, <3>2 DEF Precedes
  <2>6. CASE j > p + 1 /\ i # p + 1
    <3>1. r[j] = q[j - 1] /\ j - 1 \in 1 .. Len(q)
      BY <1>2, <2>6
    <3>2. CASE i <= p
      <4>1. r[i] = q[i] /\ i \in 1 .. Len(q) /\ i < j - 1
        BY <1>2, <2>6, <3>2
      <4>. QED
        BY <3>1, <4>1 DEF InOrder
    <3>3. CASE i > p + 1
      <4>1. r[i] = q[i - 1] /\ i - 1 \in 1 .. Len(q) /\ i - 1 < j - 1
        BY <1>2, <3>3
      <4>. QED
        BY <3>1, <4>1 DEF InOrder
    <3>. QED
      BY <2>6, <3>2, <3>3
  <2>. QED
    BY <2>3, <2>4, <2>5, <2>6
<1>4. \A i \in 1 .. Len(q) + 1 : r[i] = e \/ \E j \in 1 .. Len(q) : r[i] = q[j]
  <2>. SUFFICES ASSUME NEW i \in 1 .. Len(q) + 1, i # p + 1
                PROVE  \E j \in 1 .. Len(q) : r[i] = q[j]
    BY <1>2
  <2>1. CASE i <= p
    BY <1>2, <2>1
  <2>2. CASE i > p + 1
    <3>1. i - 1 \in 1 .. Len(q) /\ r[i] = q[i - 1]
      BY <1>2, <2>2
    <3>. QED
      BY <3>1
  <2>. QED
    BY <2>1, <2>2
<1>5. p + 1 \in 1 .. Len(q) + 1 /\ r[p + 1] = e
  BY <1>2
<1>6. ASSUME NEW j \in 1 .. Len(q) PROVE \E i \in 1 .. Len(q) + 1 : r[i] = q[j]
  <2>1. CASE j <= p
    BY <1>2, <2>1
  <2>2. CASE j > p
    <3>1. j + 1 \in 1 .. Len(q) + 1 /\ r[j + 1] = q[j]
      BY <1>2, <2>2
    <3>. QED
      BY <3>1
  <2>. QED
    BY <2>1, <2>2
<1>. QED
  BY <1>2, <1>3, <1>4, <1>5, <1>6 DEF r

LEMMA PartsDefined ==
    ASSUME NEW s \in Seq(Rec)
    PROVE  /\ sorted_part(s) \in [0 .. Len(s) -> Seq(Rec)] /\ sorted_part(s)[0] = <<>>
           /\ \A i \in 1 .. Len(s) : sorted_part(s)[i] = insert(sorted_part(s)[i - 1], s[i])
<1> DEFINE n == Len(s)
           Q == Seq(Rec)
           d == [x \in Q \X (1 .. n) |-> insert(x[1], s[x[2]])]
           f == CHOOSE part : part = [i \in 0 .. n |-> IF i = 0 THEN <<>> ELSE insert(part[i - 1], s[i])]
<1>1. n \in Nat /\ <<>> \in Q /\ \A i \in 1 .. n : s[i] \in Rec
  OBVIOUS
<1>2. ASSUME NEW q \in Q, NEW i \in 1 .. n PROVE insert(q, s[i]) \in Q
  <2>1. s[i] \in Rec
    BY <1>1
  <2>2. PICK p \in 0 .. Len(q) : insert(q, s[i]) = InsertAt(q, 1 + p, s[i])
    BY <2>1, InsertPlace
  <2>3. InsertAt(q, 1 + p, s[i]) \in Seq(Rec)
    BY <2>1, Inserted
  <2>. QED
    BY <2>2, <2>3
<1>. HIDE DEF n, Q
<1>3. d \in [Q \X (1 .. n) -> Q]
  BY <1>2
<1>4. \A q \in Q : \A i \in 1 .. n : d[<<q, i>>] = insert(q, s[i])
  OBVIOUS
<1>5. PICK g : MadeByRounds(Q, <<>>, n, d, g)
  <2>. HIDE DEF d
  <2>. QED
    BY <1>1, <1>3, ByRounds
<1>. HIDE DEF d
<1>6. g = [i \in 0 .. n |-> IF i = 0 THEN <<>> ELSE insert(g[i - 1], s[i])]
  <2>1. g \in [0 .. n -> Q] /\ g[0] = <<>> /\ \A i \in 1 .. n : g[i] = d[<<g[i - 1], i>>]
    BY <1>5 DEF MadeByRounds
  <2>2. ASSUME NEW i \in 1 .. n PROVE g[i] = insert(g[i - 1], s[i])
    <3>1. i - 1 \in 0 .. n /\ g[i - 1] \in Q
      BY <1>1, <2>1
    <3>. QED
      BY <1>4, <2>1, <3>1
  <2>. QED
    BY <1>1, <2>1, <2>2
<1>7. f = [i \in 0 .. n |-> IF i = 0 THEN <<>> ELSE insert(f[i - 1], s[i])]
  BY <1>6
<1>8. sorted_part(s) = f
  BY DEF sorted_part, n
<1>. HIDE DEF f
<1>9. f[0] = <<>> /\ DOMAIN f = 0 .. n /\ \A i \in 1 .. n : f[i] = insert(f[i - 1], s[i])
  BY <1>1, <1>7
<1>10. \A i \in 0 .. n : f[i] \in Q
  <2> DEFINE G == {i \in 0 .. n : f[i] \in Q}
  <2>1. 0 \in G
    BY <1>1, <1>9
  <2>2. \A i \in 1 .. n : i - 1 \in G => i \in G
    BY <1>1, <1>2, <1>9
  <2>. HIDE DEF G
  <2>3. 0 .. n \subseteq G
    BY <1>1, <2>1, <2>2, UpTo
  <2>. QED
    BY <2>3 DEF G
<1>11. f \in [0 .. n -> Q]
  BY <1>7, <1>10
<1>. QED
  BY <1>8, <1>9, <1>11 DEF n, Q

\* The sorted array has the same tasks, in order.
LEMMA Sorted ==
    ASSUME NEW s \in Seq(Rec), Stable(s)
    PROVE  /\ insertion_sort(s) \in Seq(Rec) /\ Len(insertion_sort(s)) = Len(s)
           /\ InOrder(insertion_sort(s)) /\ SameTasks(insertion_sort(s), s)
<1> DEFINE n == Len(s)
           part(i) == sorted_part(s)[i]
           Ok(i) == /\ Len(part(i)) = i /\ InOrder(part(i))
                    /\ \A k \in 1 .. i : \E j \in 1 .. i : part(i)[k] = s[j]
                    /\ \A j \in 1 .. i : \E k \in 1 .. i : part(i)[k] = s[j]
           G == {i \in 0 .. n : Ok(i)}
<1>1. n \in Nat /\ \A i \in 1 .. n : s[i] \in Rec
  OBVIOUS
<1>2. /\ \A i \in 0 .. n : part(i) \in Seq(Rec)
      /\ part(0) = <<>> /\ \A i \in 1 .. n : part(i) = insert(part(i - 1), s[i])
  BY PartsDefined
<1>. HIDE DEF part
<1>3. 0 \in G
  BY <1>1, <1>2 DEF InOrder
<1>4. ASSUME NEW i \in 1 .. n, i - 1 \in G PROVE i \in G
  <2>1. Ok(i - 1) /\ i - 1 \in 0 .. n /\ i \in 0 .. n /\ (i - 1) + 1 = i
    BY <1>1, <1>4
  <2> DEFINE q == part(i - 1)
             r == part(i)
  <2>2. /\ q \in Seq(Rec) /\ s[i] \in Rec /\ r = insert(q, s[i]) /\ Len(q) = i - 1 /\ InOrder(q)
        /\ \A k \in 1 .. Len(q) : \E j \in 1 .. (i - 1) : q[k] = s[j]
        /\ \A j \in 1 .. (i - 1) : \E k \in 1 .. Len(q) : q[k] = s[j]
    BY <1>1, <1>2, <2>1
  <2>3. \A k \in 1 .. Len(q) : q[k].T = s[i].T => q[k].id < s[i].id
    <3>. SUFFICES ASSUME NEW k \in 1 .. Len(q), q[k].T = s[i].T PROVE q[k].id < s[i].id
      OBVIOUS
    <3>1. PICK j \in 1 .. (i - 1) : q[k] = s[j]
      BY <2>2
    <3>. QED
      BY <1>1, <3>1 DEF Stable
  <2>. HIDE DEF q, r
  <2>4. /\ r \in Seq(Rec) /\ Len(r) = Len(q) + 1 /\ InOrder(r)
        /\ \A k \in 1 .. Len(q) + 1 : r[k] = s[i] \/ \E j \in 1 .. Len(q) : r[k] = q[j]
        /\ \E k \in 1 .. Len(q) + 1 : r[k] = s[i]
        /\ \A j \in 1 .. Len(q) : \E k \in 1 .. Len(q) + 1 : r[k] = q[j]
    <3>1. /\ insert(q, s[i]) \in Seq(Rec) /\ Len(insert(q, s[i])) = Len(q) + 1
          /\ InOrder(insert(q, s[i]))
          /\ \A k \in 1 .. Len(q) + 1 :
                insert(q, s[i])[k] = s[i] \/ \E j \in 1 .. Len(q) : insert(q, s[i])[k] = q[j]
          /\ \E k \in 1 .. Len(q) + 1 : insert(q, s[i])[k] = s[i]
          /\ \A j \in 1 .. Len(q) : \E k \in 1 .. Len(q) + 1 : insert(q, s[i])[k] = q[j]
      BY <2>2, <2>3, InsertInOrder
    <3>. QED
      BY <2>2, <3>1
  <2>5. Len(q) = i - 1 /\ Len(q) + 1 = i
    BY <2>1, <2>2
  <2>6. \A k \in 1 .. i : \E j \in 1 .. i : r[k] = s[j]
    <3>. SUFFICES ASSUME NEW k \in 1 .. i, r[k] # s[i] PROVE \E j \in 1 .. i : r[k] = s[j]
      OBVIOUS
    <3>1. PICK l \in 1 .. Len(q) : r[k] = q[l]
      BY <2>4, <2>5
    <3>2. PICK j \in 1 .. (i - 1) : q[l] = s[j]
      BY <2>2
    <3>3. j \in 1 .. i
      OBVIOUS
    <3>. QED
      BY <3>1, <3>2, <3>3
  <2>7. \A j \in 1 .. i : \E k \in 1 .. i : r[k] = s[j]
    <3>. SUFFICES ASSUME NEW j \in 1 .. i PROVE \E k \in 1 .. i : r[k] = s[j]
      OBVIOUS
    <3>1. CASE j = i
      BY <2>4, <2>5, <3>1
    <3>2. CASE j # i
      <4>1. j \in 1 .. (i - 1)
        BY <3>2
      <4>2. PICK l \in 1 .. Len(q) : q[l] = s[j]
        BY <2>2, <4>1
      <4>. QED
        BY <2>4, <2>5, <4>2
    <3>. QED
      BY <3>1, <3>2
  <2>8. Len(r) = i
    BY <2>4, <2>5
  <2>. QED
    BY <2>1, <2>4, <2>6, <2>7, <2>8 DEF r
<1>. HIDE DEF G
<1>5. n \in G
  <2>. HIDE DEF n
  <2>1. 0 .. n \subseteq G
    BY <1>1, <1>3, <1>4, UpTo
  <2>. QED
    BY <1>1, <2>1
<1>6. Ok(n)
  BY <1>5 DEF G
<1>7. insertion_sort(s) = part(n)
  BY DEF insertion_sort, part
<1>. QED
  BY <1>1, <1>2, <1>6, <1>7 DEF SameTasks

\* A sorted array is left as it is.
LEMMA SortedAlready ==
    ASSUME NEW s \in Seq(Rec), InOrder(s)
    PROVE  insertion_sort(s) = s
<1> DEFINE n == Len(s)
           part(i) == sorted_part(s)[i]
           G == {i \in 0 .. n : Len(part(i)) = i /\ \A k \in 1 .. i : part(i)[k] = s[k]}
<1>1. n \in Nat /\ \A i \in 1 .. n : s[i] \in Rec
  OBVIOUS
<1>2. /\ \A i \in 0 .. n : part(i) \in Seq(Rec)
      /\ part(0) = <<>> /\ \A i \in 1 .. n : part(i) = insert(part(i - 1), s[i])
  BY PartsDefined
<1>. HIDE DEF part
<1>3. 0 \in G
  BY <1>1, <1>2
<1>4. ASSUME NEW i \in 1 .. n, i - 1 \in G PROVE i \in G
  <2> DEFINE q == part(i - 1)
             r == part(i)
  <2>1. /\ i - 1 \in 0 .. n /\ i \in 0 .. n /\ q \in Seq(Rec) /\ s[i] \in Rec /\ r = insert(q, s[i])
        /\ Len(q) = i - 1 /\ \A k \in 1 .. (i - 1) : q[k] = s[k]
    BY <1>1, <1>2, <1>4
  <2>. HIDE DEF q, r
  <2>2. InOrder(q) /\ \A k \in 1 .. Len(q) : q[k].T <= s[i].T
    <3>1. \A k, l \in 1 .. Len(q) : k < l => Precedes(q[k], q[l])
      BY <2>1 DEF InOrder
    <3>2. ASSUME NEW k \in 1 .. Len(q) PROVE q[k].T <= s[i].T
      <4>1. q[k] = s[k] /\ k \in 1 .. n /\ k < i
        BY <1>1, <2>1
      <4>2. s[k].T \in Nat /\ s[i].T \in Nat
        BY <1>1, <4>1, RecFacts
      <4>3. Precedes(s[k], s[i])
        BY <4>1 DEF InOrder
      <4>. QED
        BY <4>1, <4>2, <4>3 DEF Precedes
    <3>. QED
      BY <3>1, <3>2 DEF InOrder
  <2>3. PICK p \in 0 .. Len(q) :
              /\ r = InsertAt(q, 1 + p, s[i])
              /\ \A k \in (p + 1) .. Len(q) : q[k].T > s[i].T
    BY <2>1, <2>2, InsertPlace
  <2>4. p = Len(q)
    <3>. SUFFICES ASSUME p # Len(q) PROVE FALSE
      OBVIOUS
    <3>1. p + 1 \in (p + 1) .. Len(q) /\ p + 1 \in 1 .. Len(q)
      BY <2>1
    <3>2. q[p + 1].T > s[i].T /\ q[p + 1].T <= s[i].T /\ q[p + 1] \in Rec
      BY <2>1, <2>2, <2>3, <3>1
    <3>3. q[p + 1].T \in Nat /\ s[i].T \in Nat
      BY <2>1, <3>2, RecFacts
    <3>. QED
      BY <3>2, <3>3
  <2> DEFINE a == InsertAt(q, 1 + p, s[i])
  <2>5. /\ Len(a) = Len(q) + 1
        /\ \A k \in 1 .. Len(q) + 1 : a[k] = IF k <= p THEN q[k] ELSE IF k = p + 1 THEN s[i] ELSE q[k - 1]
    BY <2>1, Inserted, Zenon
  <2>6. r = a
    BY <2>3
  <2>. HIDE DEF a
  <2>7. Len(r) = i /\ \A k \in 1 .. i : r[k] = s[k]
    BY <2>1, <2>4, <2>5, <2>6
  <2>. QED
    BY <2>1, <2>7 DEF r
<1>. HIDE DEF G
<1>5. n \in G
  <2>. HIDE DEF n
  <2>1. 0 .. n \subseteq G
    BY <1>1, <1>3, <1>4, UpTo
  <2>. QED
    BY <1>1, <2>1
<1>6. Len(part(n)) = n /\ \A k \in 1 .. n : part(n)[k] = s[k]
  BY <1>5 DEF G
<1>7. insertion_sort(s) = part(n) /\ part(n) \in Seq(Rec)
  BY <1>1, <1>2 DEF insertion_sort, part
<1>. QED
  BY <1>1, <1>6, <1>7

-----------------------------------------------------------------------------
(* What task_create keeps.                                                 *)

\* The answer to a call with the array as it is.
Answer ==
    IF Len(tasks) > OS_MAX_TASKS THEN "EINVAL"
    ELSE IF ~in_ram THEN "EFAULT"
    ELSE IF \E i \in DOMAIN tasks : tasks[i].C > tasks[i].T THEN "ESCHED"
    ELSE IF \E i \in DOMAIN tasks : tasks[i].T = 0 THEN "raise"
    ELSE IF ~assign_schedule(tasks) THEN "UBTEST"
    ELSE "runs"

AdmInv ==
    /\ tasks \in Seq(Rec) /\ given \in Seq(Rec) /\ Len(tasks) = Len(given)
    /\ \A i \in 1 .. Len(given) : given[i].id = i
    /\ SameTasks(tasks, given)
    /\ Stable(tasks)
    /\ ret # "none" => /\ ret = Answer
                       /\ Len(tasks) > OS_MAX_TASKS \/ ~in_ram \/ InOrder(tasks)
    /\ ret = "runs" => tcbs = allocate_tasks(tasks)

LEMMA AdmInit == Init => AdmInv
<1>. SUFFICES ASSUME Init PROVE AdmInv
  OBVIOUS
<1>1. PICK a \in TaskSets :
         tasks = [i \in DOMAIN a |-> [id |-> i, C |-> a[i].C, T |-> a[i].T, B |-> a[i].B]]
  BY DEF Init
<1>2. given = tasks /\ ret = "none"
  BY DEF Init
<1>3. a \in Seq([C : ulong, T : ulong, B : ulong])
  BY AdmissionAssumption
<1>4. Len(a) \in Nat /\ DOMAIN a = 1 .. Len(a)
      /\ \A i \in 1 .. Len(a) : a[i].C \in ulong /\ a[i].T \in ulong /\ a[i].B \in ulong
  <2> DEFINE Params == [C : ulong, T : ulong, B : ulong]
  <2>1. \A i \in 1 .. Len(a) : a[i] \in Params
    <3>1. a \in Seq(Params)
      BY <1>3
    <3>. HIDE DEF Params
    <3>. QED
      BY <3>1
  <2>. QED
    BY <1>3, <2>1
<1>5. \A i \in 1 .. Len(a) : tasks[i] \in Rec /\ tasks[i].id = i
  BY <1>1, <1>4 DEF Rec
<1>6. tasks \in [1 .. Len(a) -> Rec]
  BY <1>1, <1>4, <1>5
<1>7. tasks \in Seq(Rec) /\ Len(tasks) = Len(a)
  BY <1>4, <1>6
<1>8. Stable(tasks)
  BY <1>5, <1>7 DEF Stable
<1>9. SameTasks(tasks, given)
  BY <1>2 DEF SameTasks
<1>. QED
  BY <1>2, <1>5, <1>7, <1>8, <1>9 DEF AdmInv

\* A call that is made at all: refused for the array's length or place, with nothing
\* changed, or answered for the sorted array.
LEMMA CreateCases ==
    ASSUME task_create
    PROVE  \/ /\ Len(tasks) > OS_MAX_TASKS /\ ret' = "EINVAL"
              /\ UNCHANGED <<tasks, in_ram, given, tcbs>>
           \/ /\ ~(Len(tasks) > OS_MAX_TASKS) /\ ~in_ram /\ ret' = "EFAULT"
              /\ UNCHANGED <<tasks, in_ram, given, tcbs>>
           \/ /\ ~(Len(tasks) > OS_MAX_TASKS) /\ in_ram
              /\ tasks' = insertion_sort(tasks) /\ UNCHANGED <<in_ram, given>>
              /\ ret' = IF \E i \in DOMAIN tasks' : tasks'[i].C > tasks'[i].T THEN "ESCHED"
                        ELSE IF \E i \in DOMAIN tasks' : tasks'[i].T = 0 THEN "raise"
                        ELSE IF ~assign_schedule(tasks') THEN "UBTEST" ELSE "runs"
              /\ ret' = "runs" => tcbs' = allocate_tasks(tasks')
BY Zenon DEF task_create, refuse

LEMMA SortStep ==
    ASSUME AdmInv, tasks' = insertion_sort(tasks)
    PROVE  /\ tasks' \in Seq(Rec) /\ Len(tasks') = Len(tasks) /\ InOrder(tasks') /\ Stable(tasks')
           /\ SameTasks(tasks', given)
           /\ InOrder(tasks) => tasks' = tasks
<1>1. tasks' \in Seq(Rec) /\ Len(tasks') = Len(tasks) /\ InOrder(tasks') /\ SameTasks(tasks', tasks)
  BY Sorted DEF AdmInv
<1>2. Stable(tasks')
  <2>. SUFFICES ASSUME NEW i \in 1 .. Len(tasks'), NEW j \in 1 .. Len(tasks'), i < j,
                       tasks'[i].T = tasks'[j].T
                PROVE  tasks'[i].id < tasks'[j].id
    BY DEF Stable
  <2>1. tasks'[i] \in Rec /\ tasks'[j] \in Rec
    BY <1>1
  <2>2. tasks'[i].T \in Nat /\ Precedes(tasks'[i], tasks'[j])
    BY <1>1, <2>1, RecFacts DEF InOrder
  <2>. QED
    BY <2>2 DEF Precedes
<1>3. SameTasks(tasks', given)
  <2>1. SameTasks(tasks, given)
    BY DEF AdmInv
  <2>2. ASSUME NEW i \in 1 .. Len(tasks') PROVE \E j \in 1 .. Len(given) : tasks'[i] = given[j]
    BY <1>1, <2>1 DEF SameTasks
  <2>3. ASSUME NEW j \in 1 .. Len(given) PROVE \E i \in 1 .. Len(tasks') : tasks'[i] = given[j]
    <3>1. PICK k \in 1 .. Len(tasks) : tasks[k] = given[j]
      BY <2>1 DEF SameTasks
    <3>2. PICK i \in 1 .. Len(tasks') : tasks'[i] = tasks[k]
      BY <1>1 DEF SameTasks
    <3>. QED
      BY <3>1, <3>2
  <2>. QED
    BY <2>2, <2>3 DEF SameTasks
<1>4. InOrder(tasks) => tasks' = tasks
  BY SortedAlready DEF AdmInv
<1>. QED
  BY <1>1, <1>2, <1>3, <1>4

\* A call keeps the invariant, and repeats the answer of the one before.
LEMMA CreateStep ==
    ASSUME AdmInv, task_create
    PROVE  AdmInv' /\ (ret # "none" => ret' = ret)
<1>1. CASE Len(tasks) > OS_MAX_TASKS /\ ret' = "EINVAL" /\ UNCHANGED <<tasks, in_ram, given, tcbs>>
  <2>1. Answer = "EINVAL" /\ Answer' = "EINVAL"
    BY <1>1 DEF Answer
  <2>. QED
    BY <1>1, <2>1 DEF AdmInv
<1>2. CASE ~(Len(tasks) > OS_MAX_TASKS) /\ ~in_ram /\ ret' = "EFAULT"
           /\ UNCHANGED <<tasks, in_ram, given, tcbs>>
  <2>1. Answer = "EFAULT" /\ Answer' = "EFAULT" /\ ~in_ram'
    BY <1>2, Zenon DEF Answer
  <2>. QED
    BY <1>2, <2>1 DEF AdmInv
<1>3. CASE /\ ~(Len(tasks) > OS_MAX_TASKS) /\ in_ram
           /\ tasks' = insertion_sort(tasks) /\ UNCHANGED <<in_ram, given>>
           /\ ret' = IF \E i \in DOMAIN tasks' : tasks'[i].C > tasks'[i].T THEN "ESCHED"
                     ELSE IF \E i \in DOMAIN tasks' : tasks'[i].T = 0 THEN "raise"
                     ELSE IF ~assign_schedule(tasks') THEN "UBTEST" ELSE "runs"
           /\ ret' = "runs" => tcbs' = allocate_tasks(tasks')
  <2>1. /\ tasks' \in Seq(Rec) /\ Len(tasks') = Len(tasks) /\ InOrder(tasks') /\ Stable(tasks')
        /\ SameTasks(tasks', given) /\ (InOrder(tasks) => tasks' = tasks)
    BY <1>3, SortStep
  <2>2. in_ram' /\ ~(Len(tasks') > OS_MAX_TASKS)
    BY <1>3, <2>1
  <2>3. ret' = Answer'
    BY <1>3, <2>2, Zenon DEF Answer
  <2>4. given' = given /\ (ret' = "runs" => tcbs' = allocate_tasks(tasks'))
    BY <1>3, Zenon
  <2>5. AdmInv'
    BY <2>1, <2>3, <2>4 DEF AdmInv
  <2>6. ASSUME ret # "none" PROVE ret' = ret
    <3>1. InOrder(tasks) /\ ret = Answer
      BY <1>3, <2>6 DEF AdmInv
    <3>2. tasks' = tasks /\ in_ram' = in_ram
      BY <1>3, <2>1, <3>1
    <3>3. Answer' = Answer
      BY <3>2 DEF Answer
    <3>. QED
      BY <2>3, <3>1, <3>3
  <2>. QED
    BY <2>5, <2>6
<1>. QED
  BY <1>1, <1>2, <1>3, CreateCases

\* Neither a tick nor anything else changes what task_create works on.
LEMMA AdmStep ==
    ASSUME AdmInv, [StartupNext]_startup_vars
    PROVE  AdmInv' /\ [ret # "none" => ret' = ret]_vars
<1>1. CASE task_create
  BY <1>1, CreateStep
<1>2. CASE UNCHANGED vars
  <2>1. UNCHANGED <<tasks, in_ram, given, tcbs, ret>>
    BY <1>2 DEF vars
  <2>2. Answer' = Answer
    BY <2>1 DEF Answer
  <2>. QED
    BY <1>2, <2>1, <2>2 DEF AdmInv
<1>3. task_create \/ UNCHANGED vars
  <2>1. kmain => UNCHANGED vars
    BY DEF kmain, initialise, bad_vector, patch, start_timer, modeswitch, Kmain
  <2>2. early_tick \/ mutex_create \/ mutex_unlock \/ event_wait \/ UNCHANGED startup_vars
           => UNCHANGED vars
    BY DEF early_tick, mutex_create, mutex_unlock, event_wait, startup_vars
  <2>3. start_tasks => task_create
    BY DEF start_tasks
  <2>. QED
    BY <2>1, <2>2, <2>3 DEF StartupNext
<1>. QED
  BY <1>1, <1>2, <1>3

LEMMA AlwaysAdm == StartupSpec => []AdmInv
<1>1. StartupInit => AdmInv
  BY AdmInit DEF StartupInit
<1>. QED
  BY <1>1, AdmStep, PTL DEF StartupSpec

-----------------------------------------------------------------------------
\* A main that calls task_create again with the array that a refused call has left
\* sorted gets the same answer, for all arrays of any length (proc.c:45-67).
THEOREM RefusedAgain == StartupSpec => SameAnswerAgain
<1>1. AdmInv /\ [StartupNext]_startup_vars => [ret # "none" => ret' = ret]_vars
  BY AdmStep
<1>. QED
  BY <1>1, AlwaysAdm, PTL DEF StartupSpec, SameAnswerAgain

\* The TCBs that have a task.
LEMMA TasksWithTcb ==
    ASSUME AdmInv, ret = "runs"
    PROVE  LET run == {p \in DOMAIN tcbs : tcbs[p] \in DOMAIN given}
           IN  /\ run = 1 .. (IF Len(tasks) < OS_MAX_TASKS - 2 THEN Len(tasks) ELSE OS_MAX_TASKS - 2)
               /\ \A p \in run : tcbs[p] = tasks[p].id /\ given[tcbs[p]] = tasks[p]
<1> DEFINE n == Len(tasks)
           run == {p \in DOMAIN tcbs : tcbs[p] \in DOMAIN given}
           top == IF n < OS_MAX_TASKS - 2 THEN n ELSE OS_MAX_TASKS - 2
<1>1. /\ tcbs = allocate_tasks(tasks) /\ n \in Nat /\ DOMAIN given = 1 .. n /\ DOMAIN tasks = 1 .. n
      /\ \A p \in 1 .. n : tasks[p] \in Rec /\ \E j \in 1 .. n : tasks[p] = given[j] /\ given[j].id = j
  <2>1. tcbs = allocate_tasks(tasks) /\ tasks \in Seq(Rec) /\ given \in Seq(Rec) /\ n = Len(given)
    BY DEF AdmInv
  <2>2. \A p \in 1 .. n : \E j \in 1 .. n : tasks[p] = given[j] /\ given[j].id = j
    BY <2>1 DEF AdmInv, SameTasks
  <2>. QED
    BY <2>1, <2>2
<1>2. \A p \in 1 .. n : tasks[p].id \in 1 .. n /\ given[tasks[p].id] = tasks[p]
  BY <1>1
<1>3. DOMAIN tcbs = 0 .. 63
      /\ \A p \in 0 .. 63 : tcbs[p] = IF p = 63 THEN -1 ELSE IF p \in 1 .. n THEN tasks[p].id ELSE 0
  BY <1>1 DEF allocate_tasks, IDLE_PRIO, OS_MAX_TASKS, IdleTask, NoTask
<1>. HIDE DEF n
<1>4. top \in Nat /\ \A p \in 0 .. 63 : p \in 1 .. top <=> p # 63 /\ p \in 1 .. n
  BY <1>1 DEF OS_MAX_TASKS
<1>7. top <= 62
  BY <1>1 DEF OS_MAX_TASKS
<1>8. \A p \in 0 .. 63 : tcbs[p] \in DOMAIN given <=> p \in 1 .. top
  <2>. SUFFICES ASSUME NEW p \in 0 .. 63 PROVE tcbs[p] \in 1 .. n <=> p \in 1 .. top
    BY <1>1
  <2>1. CASE p # 63 /\ p \in 1 .. n
    BY <1>2, <1>3, <1>4, <2>1
  <2>2. CASE ~(p # 63 /\ p \in 1 .. n)
    <3>1. tcbs[p] \in {-1, 0}
      BY <1>3, <2>2
    <3>. QED
      BY <1>4, <2>2, <3>1
  <2>. QED
    BY <2>1, <2>2
<1>. HIDE DEF top
<1>5. \A p \in 1 .. top : tcbs[p] = tasks[p].id /\ given[tcbs[p]] = tasks[p]
  <2>. SUFFICES ASSUME NEW p \in 1 .. top PROVE tcbs[p] = tasks[p].id /\ given[tcbs[p]] = tasks[p]
    OBVIOUS
  <2>1. p \in 0 .. 63 /\ p # 63 /\ p \in 1 .. n
    BY <1>4, <1>7
  <2>2. tcbs[p] = tasks[p].id
    BY <1>3, <2>1
  <2>. QED
    BY <1>2, <2>1, <2>2
<1>6. run = 1 .. top
  <2>1. \A p \in 1 .. top : p \in 0 .. 63
    BY <1>4, <1>7
  <2>. QED
    BY <1>3, <1>8, <2>1
<1>. QED
  BY <1>5, <1>6 DEF n, top

\* Each task that task_create admits gets one priority, by its period and, within a
\* period, by main's order, whatever the array; with all the tasks that proc.c:37
\* accepts, the ones of the longest periods get none.
THEOREM PrioritiesAreRateMonotonic == StartupSpec => []RateMonotonicPriorities
<1> DEFINE run == {p \in DOMAIN tcbs : tcbs[p] \in DOMAIN given}
           n   == Len(tasks)
           top == IF n < OS_MAX_TASKS - 2 THEN n ELSE OS_MAX_TASKS - 2
<1>1. ASSUME AdmInv, ret = "runs"
      PROVE  /\ \A p, q \in run : p < q => Precedes(given[tcbs[p]], given[tcbs[q]])
             /\ \A i \in DOMAIN given :
                   i \in {tcbs[p] : p \in run}
                   \/ /\ Len(given) > OS_MAX_TASKS - 2
                      /\ \A p \in run : Precedes(given[tcbs[p]], given[i])
             /\ Cardinality(run) = Min({Len(given), OS_MAX_TASKS - 2})
  <2>1. run = 1 .. top /\ \A p \in run : tcbs[p] = tasks[p].id /\ given[tcbs[p]] = tasks[p]
    BY <1>1, TasksWithTcb
  <2>2. /\ n \in Nat /\ Len(given) = n /\ DOMAIN given = 1 .. n /\ top \in 0 .. n
        /\ \A i \in 1 .. n : given[i].id = i /\ \E k \in 1 .. n : tasks[k] = given[i]
    BY <1>1 DEF AdmInv, SameTasks, OS_MAX_TASKS
  <2>3. InOrder(tasks)
    <3>1. Answer = "runs"
      BY <1>1 DEF AdmInv
    <3>2. ~(Len(tasks) > OS_MAX_TASKS) /\ in_ram
      BY <3>1, Zenon DEF Answer
    <3>. QED
      BY <1>1, <3>2 DEF AdmInv
  <2>4. \A p, q \in 1 .. n : p < q => Precedes(tasks[p], tasks[q])
    BY <2>3 DEF InOrder
  <2>. HIDE DEF run
  <2>5. \A p, q \in run : p < q => Precedes(given[tcbs[p]], given[tcbs[q]])
    BY <2>1, <2>2, <2>4
  <2>6. ASSUME NEW i \in 1 .. n
        PROVE  \/ i \in {tcbs[p] : p \in run}
               \/ n > OS_MAX_TASKS - 2 /\ \A p \in run : Precedes(given[tcbs[p]], given[i])
    <3>1. PICK k \in 1 .. n : tasks[k] = given[i]
      BY <2>2
    <3>2. CASE k \in run
      <4>1. tcbs[k] = i
        BY <2>1, <2>2, <3>1, <3>2
      <4>. QED
        BY <3>2, <4>1
    <3>3. CASE k \notin run
      <4>1. n > OS_MAX_TASKS - 2 /\ \A p \in run : p \in 1 .. n /\ p < k
        <5>1. k \notin 1 .. top
          BY <2>1, <3>3
        <5>2. n > OS_MAX_TASKS - 2 /\ top < k
          BY <2>2, <5>1 DEF OS_MAX_TASKS
        <5>3. \A p \in 1 .. top : p \in 1 .. n /\ p < k
          <6>1. top \in 0 .. n /\ n \in Nat /\ k \in 1 .. n /\ top < k
            BY <2>2, <5>2
          <6>. HIDE DEF top, n
          <6>2. top \in Nat /\ top <= n /\ k \in Nat
            BY <6>1
          <6>. QED
            BY <6>1, <6>2
        <5>. QED
          BY <2>1, <5>2, <5>3
      <4>. QED
        BY <2>1, <2>4, <3>1, <4>1
    <3>. QED
      BY <3>2, <3>3
  <2>7. Cardinality(run) = Min({n, OS_MAX_TASKS - 2})
    <3>1. Cardinality(1 .. top) = top
      <4>1. 1 \in Int /\ top \in Int /\ top >= 0
        BY <2>2
      <4>. HIDE DEF top
      <4>. QED
        BY <4>1, FS_Interval
    <3>2. Min({n, OS_MAX_TASKS - 2}) = top
      <4>1. top \in {n, OS_MAX_TASKS - 2} /\ \A y \in {n, OS_MAX_TASKS - 2} : top <= y
        BY <2>2 DEF OS_MAX_TASKS
      <4>2. {n, OS_MAX_TASKS - 2} \in SUBSET Nat
        BY <2>2 DEF OS_MAX_TASKS
      <4>3. Min({n, OS_MAX_TASKS - 2}) \in {n, OS_MAX_TASKS - 2}
            /\ \A y \in {n, OS_MAX_TASKS - 2} : Min({n, OS_MAX_TASKS - 2}) <= y
        BY <4>1 DEF Min
      <4>. HIDE DEF top
      <4>. QED
        BY <4>1, <4>2, <4>3
    <3>. QED
      BY <2>1, <3>1, <3>2
  <2>. QED
    BY <2>2, <2>5, <2>6, <2>7
<1>2. AdmInv => RateMonotonicPriorities
  BY <1>1 DEF RateMonotonicPriorities, Precedes
<1>. QED
  BY <1>2, AlwaysAdm, PTL

-----------------------------------------------------------------------------
(* The UB test.                                                            *)

LEMMA ModLe ==
    ASSUME NEW x \in Nat, NEW w \in Nat \ {0}
    PROVE  x % w \in Nat /\ x % w <= x /\ x % w < w
OBVIOUS

LEMMA DivMonotone ==
    ASSUME NEW a \in Nat, NEW b \in Nat, a <= b, NEW t \in Nat \ {0}
    PROVE  a \div t \in Nat /\ b \div t \in Nat /\ a \div t <= b \div t
OBVIOUS

LEMMA DivLe ==
    ASSUME NEW a \in Nat, NEW t \in Nat \ {0}
    PROVE  a \div t \in Nat /\ a \div t <= a
OBVIOUS

LEMMA UBFactors == \A k \in 1 .. 64 : ub_factor[k] \in Nat /\ ub_factor[k] <= 1000
BY DEF ub_factor

LEMMA UBFactorOf ==
    ASSUME NEW m, m \in 1 .. 64
    PROVE  ub_factor[m] \in Nat /\ ub_factor[m] <= 1000
BY UBFactors

\* Wrapping makes a share smaller, and nothing else changes it.
LEMMA PermilleFacts ==
    ASSUME NEW c \in Nat, NEW t \in Nat \ {0}
    PROVE  /\ permille(c, t) \in Nat /\ Share(c, t) \in Nat
           /\ permille(c, t) <= Share(c, t)
           /\ permille(c % Wrap, t) \in Nat
           /\ permille(c % Wrap, t) <= Share(c, t)
           /\ c * 1000 < Wrap => c % Wrap = c /\ permille(c, t) = Share(c, t)
           /\ Share(c, t) <= c * 1000
<1>1. Wrap \in Nat \ {0}
  BY AdmissionAssumption
<1> DEFINE m == c % Wrap
<1>2. m \in Nat /\ m <= c
  BY <1>1, ModLe
<1>3. /\ c * 1000 \in Nat /\ (c * 1000) % Wrap \in Nat /\ (c * 1000) % Wrap <= c * 1000
      /\ c * 1000 < Wrap => (c * 1000) % Wrap = c * 1000 /\ c % Wrap = c
  <2> DEFINE x == c * 1000
  <2>1. x \in Nat /\ c <= x
    OBVIOUS
  <2>. HIDE DEF x
  <2>2. x % Wrap \in Nat /\ x % Wrap <= x
    BY <1>1, <2>1, ModLe
  <2>3. x < Wrap => x % Wrap = x /\ c % Wrap = c
    BY <1>1, <2>1
  <2>. QED
    BY <2>1, <2>2, <2>3 DEF x
<1>. HIDE DEF m
<1>4. m * 1000 \in Nat /\ (m * 1000) % Wrap \in Nat /\ (m * 1000) % Wrap <= c * 1000
  <2> DEFINE x == m * 1000
  <2>1. x \in Nat /\ x <= c * 1000
    BY <1>2
  <2>. HIDE DEF x
  <2>2. x % Wrap \in Nat /\ x % Wrap <= x
    BY <1>1, <2>1, ModLe
  <2>3. c * 1000 \in Nat
    OBVIOUS
  <2>4. x % Wrap <= c * 1000
    BY <2>1, <2>2, <2>3
  <2>. QED
    BY <2>1, <2>2, <2>4 DEF x
<1>5. permille(c, t) \in Nat /\ Share(c, t) \in Nat /\ permille(c, t) <= Share(c, t)
  BY <1>3, DivMonotone DEF permille, Share
<1>6. permille(m, t) \in Nat /\ permille(m, t) <= Share(c, t)
  BY <1>3, <1>4, DivMonotone DEF permille, Share
<1>7. Share(c, t) <= c * 1000
  BY <1>3, DivLe DEF Share
<1>8. c * 1000 < Wrap => c % Wrap = c /\ permille(c, t) = Share(c, t)
  BY <1>3 DEF permille, Share
<1>. QED
  BY <1>5, <1>6, <1>7, <1>8 DEF m

LEMMA PermilleLe ==
    ASSUME NEW c \in Nat, NEW t \in Nat \ {0}
    PROVE  permille(c, t) \in Nat /\ Share(c, t) \in Nat /\ permille(c, t) <= Share(c, t)
BY PermilleFacts

LEMMA NothingLost ==
    ASSUME NEW c \in Nat, NEW t \in Nat \ {0}, c * 1000 < Wrap
    PROVE  /\ c % Wrap = c /\ permille(c, t) = Share(c, t)
           /\ Share(c, t) \in Nat /\ Share(c, t) <= c * 1000
BY PermilleFacts

\* What the kernel and the exact test add up.
LEMMA TestedNumbers ==
    ASSUME NEW s \in Seq(Rec), \A i \in 1 .. Len(s) : s[i].T # 0
    PROVE  LET c == [i \in 1 .. Len(s) |-> permille(s[i].C, s[i].T)]
           IN  /\ Numbers(c, Len(s)) /\ Numbers(Shares(s), Len(s))
               /\ \A i \in 1 .. Len(s) : c[i] <= Shares(s)[i]
<1>1. ASSUME NEW i \in 1 .. Len(s)
      PROVE  permille(s[i].C, s[i].T) \in Nat /\ Share(s[i].C, s[i].T) \in Nat
             /\ permille(s[i].C, s[i].T) <= Share(s[i].C, s[i].T)
  <2>1. s[i] \in Rec
    OBVIOUS
  <2>2. s[i].C \in Nat /\ s[i].T \in Nat \ {0}
    BY <2>1, RecFacts
  <2> DEFINE x == s[i].C
             t == s[i].T
  <2>3. x \in Nat /\ t \in Nat \ {0}
    BY <2>2
  <2>. HIDE DEF x, t
  <2>4. permille(x, t) \in Nat /\ Share(x, t) \in Nat /\ permille(x, t) <= Share(x, t)
    BY <2>3, PermilleLe
  <2>. QED
    BY <2>4 DEF x, t
<1>. QED
  BY <1>1 DEF Numbers, Shares

\* What the kernel adds up for task k is no more than what the exact test does, and
\* when nothing wraps, it is the exact sum of the first k - 2.
LEMMA InterferenceLe ==
    ASSUME NEW s \in Seq(Rec), \A i \in 1 .. Len(s) : s[i].T # 0, NEW k \in 1 .. Len(s)
    PROVE  /\ interference(s, k) \in Nat /\ sums(Shares(s))[k - 1] \in Nat
           /\ interference(s, k) <= sums(Shares(s))[k - 1]
           /\ (\A i \in 1 .. Len(s) : permille(s[i].C, s[i].T) = Share(s[i].C, s[i].T)) /\ k > 1
                 => interference(s, k) = sums(Shares(s))[k - 2]
<1> DEFINE n == Len(s)
           c == [i \in 1 .. n |-> permille(s[i].C, s[i].T)]
           e == Shares(s)
<1>1. Numbers(c, n) /\ Numbers(e, n) /\ \A i \in 1 .. n : c[i] <= e[i]
  BY TestedNumbers
<1>2. interference(s, k) = IF k - 2 > 0 THEN sums(c)[k - 2] ELSE 0
  BY DEF interference, utilisation
<1>3. (\A i \in 1 .. n : permille(s[i].C, s[i].T) = Share(s[i].C, s[i].T)) => c = e
  BY DEF Shares
<1>4. n \in Nat /\ k \in 1 .. n
  OBVIOUS
<1>. HIDE DEF n, c, e
<1>5. /\ sums(c) \in [0 .. n -> Nat] /\ sums(e) \in [0 .. n -> Nat] /\ sums(e)[0] = 0
      /\ \A i \in 1 .. n : sums(e)[i] = sums(e)[i - 1] + e[i]
      /\ \A i \in 0 .. n : sums(c)[i] <= sums(e)[i]
  BY <1>1, SumsDefined, SumsMonotone
<1>6. k - 1 \in 0 .. n /\ sums(e)[k - 1] \in Nat
  BY <1>4, <1>5
<1>7. CASE k = 1
  BY <1>2, <1>6, <1>7 DEF e
<1>8. CASE k # 1
  <2>1. k - 1 \in 1 .. n /\ k - 2 \in 0 .. n /\ (k - 1) - 1 = k - 2
    BY <1>4, <1>8
  <2>2. sums(e)[k - 1] = sums(e)[k - 2] + e[k - 1]
    BY <1>5, <2>1
  <2>3. e[k - 1] \in Nat /\ sums(e)[k - 2] \in Nat /\ sums(c)[k - 2] \in Nat
        /\ sums(c)[k - 2] <= sums(e)[k - 2]
    BY <1>1, <1>5, <2>1 DEF Numbers
  <2>4. k - 2 > 0 \/ k - 2 = 0
    BY <2>1
  <2>5. interference(s, k) \in Nat /\ interference(s, k) <= sums(e)[k - 1]
    BY <1>2, <2>2, <2>3, <2>4
  <2>6. c = e => interference(s, k) = sums(e)[k - 2]
    BY <1>2, <1>5, <2>4
  <2>. QED
    BY <1>3, <1>6, <2>5, <2>6 DEF e, n
<1>. QED
  BY <1>7, <1>8

\* A task set that passes the exact test passes the kernel's.
LEMMA PassesTheKernels ==
    ASSUME NEW s \in Seq(Rec), Len(s) <= 64, \A i \in 1 .. Len(s) : s[i].T # 0, PassesUBTest(s)
    PROVE  assign_schedule(s)
<1>. SUFFICES ASSUME NEW k \in 1 .. Len(s)
              PROVE  (interference(s, k) + permille((s[k].C + s[k].B) % Wrap, s[k].T)) % Wrap
                        <= ub_factor[k]
  BY DEF assign_schedule
<1> DEFINE a == interference(s, k)
           b == permille((s[k].C + s[k].B) % Wrap, s[k].T)
           A == sums(Shares(s))[k - 1]
           B == Share(s[k].C + s[k].B, s[k].T)
           u == ub_factor[k]
<1>1. a \in Nat /\ A \in Nat /\ a <= A
  BY InterferenceLe
<1>2. b \in Nat /\ B \in Nat /\ b <= B
  <2>1. s[k] \in Rec
    OBVIOUS
  <2>2. s[k].C \in Nat /\ s[k].B \in Nat /\ s[k].T \in Nat \ {0}
    BY <2>1, RecFacts
  <2> DEFINE x == s[k].C + s[k].B
             t == s[k].T
  <2>3. x \in Nat /\ t \in Nat \ {0}
    BY <2>2
  <2>. HIDE DEF x, t
  <2>4. permille(x % Wrap, t) \in Nat /\ Share(x, t) \in Nat /\ permille(x % Wrap, t) <= Share(x, t)
    BY <2>3, PermilleFacts
  <2>. QED
    BY <2>4 DEF x, t
<1>3. A + B <= u
  BY DEF PassesUBTest
<1>4. u \in Nat
  <2>1. Len(s) \in Nat /\ Len(s) <= 64 /\ k \in 1 .. Len(s)
    OBVIOUS
  <2>2. k \in 1 .. 64
    BY <2>1
  <2>. QED
    BY <2>2, UBFactors
<1>5. Wrap \in Nat \ {0}
  BY AdmissionAssumption
<1>. HIDE DEF a, b, A, B, u
<1>6. (a + b) % Wrap \in Nat /\ (a + b) % Wrap <= a + b
  BY <1>1, <1>2, <1>5, ModLe
<1>7. (a + b) % Wrap <= u
  BY <1>1, <1>2, <1>3, <1>4, <1>6
<1>. QED
  BY <1>7 DEF a, b, u

\* No task set that the exact UB test accepts is turned away, whatever the numbers in
\* it: what wraps, and the task that the sum leaves out, only make it smaller
\* (ub_test.c:37-42).
THEOREM NothingIsFalselyRejected == StartupSpec => []NoFalseRejection
<1>1. AdmInv => NoFalseRejection
  <2>. SUFFICES ASSUME AdmInv, ret = "UBTEST", PassesUBTest(tasks) PROVE FALSE
    BY DEF NoFalseRejection
  <2>1. Answer = "UBTEST" /\ tasks \in Seq(Rec)
    BY DEF AdmInv
  <2>2. /\ ~(Len(tasks) > OS_MAX_TASKS) /\ ~assign_schedule(tasks)
        /\ ~(\E i \in DOMAIN tasks : tasks[i].T = 0)
    BY <2>1, Zenon DEF Answer
  <2>3. Len(tasks) <= 64 /\ \A i \in 1 .. Len(tasks) : tasks[i].T # 0
    BY <2>1, <2>2 DEF OS_MAX_TASKS
  <2>. QED
    BY <2>1, <2>2, <2>3, PassesTheKernels
<1>. QED
  BY <1>1, AlwaysAdm, PTL

Others(s, j) == [i \in 1 .. Len(s) |-> IF i = j THEN 0 ELSE Shares(s)[i]]

\* No task's numbers are so large that a sum of the test passes the end of a word,
\* and none of them asks for more than its period.
RoomFor(s) == \A i \in 1 .. Len(s) : /\ s[i].T # 0 /\ s[i].C <= s[i].T
                                     /\ (s[i].C + s[i].B + Len(s)) * 1000 < Wrap

\* In an admitted set all but the task before the last one fit, when nothing wraps.
LEMMA AllButOneFit ==
    ASSUME NEW s \in Seq(Rec), Len(s) <= 64, assign_schedule(s), RoomFor(s)
    PROVE  \E j \in (1 .. Len(s)) \cup {0} : sums(Others(s, j))[Len(s)] <= 1000
<1> DEFINE n == Len(s)
           e == Shares(s)
           left == IF n = 0 THEN 0 ELSE n - 1
           o == [i \in 1 .. n |-> IF i = left THEN 0 ELSE e[i]]
<1>1. n \in Nat /\ n <= 64 /\ left \in (1 .. n) \cup {0}
  <2>1. n \in Nat /\ n <= 64
    OBVIOUS
  <2>. HIDE DEF n
  <2>. QED
    BY <2>1
<1>2. Numbers(e, n)
  BY TestedNumbers DEF RoomFor
<1>3. ASSUME NEW i \in 1 .. n
      PROVE  /\ permille(s[i].C, s[i].T) = Share(s[i].C, s[i].T)
             /\ permille((s[i].C + s[i].B) % Wrap, s[i].T) \in Nat
             /\ permille((s[i].C + s[i].B) % Wrap, s[i].T) + n * 1000 < Wrap
             /\ e[i] <= permille((s[i].C + s[i].B) % Wrap, s[i].T)
             /\ e[i] <= 1000
  <2>1. s[i] \in Rec
    OBVIOUS
  <2>2. s[i].C \in Nat /\ s[i].B \in Nat /\ s[i].T \in Nat \ {0}
    BY <2>1, RecFacts DEF RoomFor
  <2> DEFINE x == s[i].C
             y == s[i].C + s[i].B
             t == s[i].T
  <2>3. /\ x \in Nat /\ y \in Nat /\ t \in Nat \ {0} /\ x <= y /\ x <= t
        /\ (y + n) * 1000 < Wrap
    BY <2>2 DEF RoomFor
  <2>4. e[i] = Share(x, t)
    BY DEF Shares
  <2>. HIDE DEF x, y, t, e, n
  <2>5. Wrap \in Nat /\ x * 1000 < Wrap /\ y * 1000 < Wrap
    BY <1>1, <2>3, AdmissionAssumption
  <2>6. permille(x, t) = Share(x, t)
    BY <2>3, <2>5, NothingLost
  <2>7. /\ permille(y % Wrap, t) \in Nat /\ permille(y % Wrap, t) = Share(y, t)
        /\ Share(y, t) \in Nat /\ Share(y, t) <= y * 1000
    <3>1. /\ y % Wrap = y /\ permille(y, t) = Share(y, t)
          /\ Share(y, t) \in Nat /\ Share(y, t) <= y * 1000
      BY <2>3, <2>5, NothingLost
    <3>. QED
      BY <3>1
  <2>8. Share(x, t) <= Share(y, t) /\ Share(x, t) <= 1000 /\ Share(x, t) \in Nat
    <3>1. x * 1000 \in Nat /\ y * 1000 \in Nat /\ x * 1000 <= y * 1000
      BY <2>3
    <3>2. Share(x, t) <= Share(y, t) /\ Share(x, t) \in Nat
      BY <2>3, <3>1, DivMonotone DEF Share
    <3>3. t * 1000 \in Nat /\ x * 1000 <= t * 1000
      BY <2>3
    <3>4. (x * 1000) \div t <= (t * 1000) \div t
      BY <2>3, <3>1, <3>3, DivMonotone
    <3>5. (t * 1000) \div t = 1000
      BY <2>3
    <3>. QED
      BY <3>2, <3>4, <3>5 DEF Share
  <2>9. permille(y % Wrap, t) + n * 1000 < Wrap
    BY <1>1, <2>3, <2>5, <2>7
  <2>. QED
    BY <2>4, <2>6, <2>7, <2>8, <2>9 DEF x, y, t
<1>4. Numbers(o, n) /\ \A i \in 1 .. n : o[i] <= e[i]
  <2>1. n \in Nat /\ e \in [1 .. n -> Nat]
    BY <1>2 DEF Numbers
  <2>. HIDE DEF n, e, left
  <2>2. \A i \in 1 .. n : e[i] \in Nat /\ (IF i = left THEN 0 ELSE e[i]) \in Nat
    BY <2>1
  <2>. QED
    BY <2>1, <2>2 DEF Numbers
<1>5. /\ sums(o) \in [0 .. n -> Nat] /\ sums(o)[0] = 0
      /\ \A i \in 1 .. n : sums(o)[i] = sums(o)[i - 1] + o[i]
      /\ sums(e) \in [0 .. n -> Nat]
      /\ \A i \in 0 .. n : sums(o)[i] <= sums(e)[i] /\ sums(e)[i] <= 1000 * i
  <2>1. \A i \in 1 .. n : e[i] <= 1000
    BY <1>3
  <2>. HIDE DEF n, e, o
  <2>2. /\ sums(o) \in [0 .. n -> Nat] /\ sums(o)[0] = 0
        /\ \A i \in 1 .. n : sums(o)[i] = sums(o)[i - 1] + o[i]
        /\ sums(e) \in [0 .. n -> Nat]
    BY <1>2, <1>4, SumsDefined
  <2>3. \A i \in 0 .. n : sums(o)[i] <= sums(e)[i]
    BY <1>2, <1>4, SumsMonotone
  <2>4. \A i \in 0 .. n : sums(e)[i] <= 1000 * i
    BY <1>2, <2>1, SumsOfShares
  <2>. QED
    BY <2>2, <2>3, <2>4
<1>8. sums(Others(s, left))[n] = sums(o)[n]
  BY DEF Others
<1>6. CASE n = 0
  <2>1. sums(o)[n] <= 1000
    <3>. HIDE DEF o
    <3>. QED
      BY <1>5, <1>6
  <2>2. left \in (1 .. n) \cup {0} /\ sums(Others(s, left))[n] <= 1000
    BY <1>1, <1>8, <2>1
  <2>. HIDE DEF left
  <2>. QED
    BY <2>2
<1>7. CASE n # 0
  <2>1. n \in 1 .. n /\ n - 1 \in 0 .. n /\ left = n - 1
    BY <1>1, <1>7
  <2>2. o[n] = e[n] /\ e[n] \in Nat
    BY <1>2, <2>1 DEF Numbers
  <2> DEFINE b == permille((s[n].C + s[n].B) % Wrap, s[n].T)
             a == interference(s, n)
  <2>3. /\ (a + b) % Wrap <= ub_factor[n] /\ b \in Nat /\ b + n * 1000 < Wrap /\ e[n] <= b
        /\ a \in Nat /\ (n > 1 => a = sums(e)[n - 2])
    <3>1. (a + b) % Wrap <= ub_factor[n]
      BY <2>1 DEF assign_schedule
    <3>2. b \in Nat /\ b + n * 1000 < Wrap /\ e[n] <= b
      BY <1>3, <2>1
    <3>3. \A i \in 1 .. n : permille(s[i].C, s[i].T) = Share(s[i].C, s[i].T)
      BY <1>3
    <3>4. a \in Nat /\ (n > 1 => a = sums(e)[n - 2])
      BY <2>1, <3>3, InterferenceLe DEF RoomFor
    <3>. QED
      BY <3>1, <3>2, <3>4
  <2>4. ub_factor[n] \in Nat /\ ub_factor[n] <= 1000
    <3>1. n >= 1 /\ n <= 64 /\ n \in Nat
      BY <1>1, <1>7
    <3>2. n \in 1 .. 64
      <4>. HIDE DEF n
      <4>. QED
        BY <3>1
    <3>. HIDE DEF n, o, e, left, a, b
    <3>. QED
      BY <3>2, UBFactorOf
  <2>5. o[n - 1] = 0 \/ n = 1
    BY <1>1, <2>1
  <2>6. e[n] <= 1000
    BY <1>3, <2>1
  <2>7. Wrap \in Nat \ {0}
    BY AdmissionAssumption
  <2>8. sums(o)[n] <= 1000
    <3>. HIDE DEF n, e, o, left, a, b
    <3>1. CASE n = 1
      BY <1>5, <2>2, <2>6, <3>1
    <3>2. CASE n # 1
      <4>1. n - 1 \in 1 .. n /\ n - 2 \in 0 .. n /\ (n - 1) - 1 = n - 2 /\ n > 1
        BY <1>1, <2>1, <3>2
      <4>2. sums(o)[n] = sums(o)[n - 2] + e[n]
        <5>1. sums(o)[n] = sums(o)[n - 1] + e[n]
          BY <1>5, <2>1, <2>2
        <5>2. sums(o)[n - 1] = sums(o)[n - 2] + 0
          BY <1>5, <2>5, <3>2, <4>1
        <5>3. sums(o)[n - 2] \in Nat
          BY <1>5, <4>1
        <5>. QED
          BY <5>1, <5>2, <5>3
      <4>3. sums(o)[n - 2] <= a /\ sums(o)[n - 2] \in Nat /\ a <= 1000 * (n - 2)
        BY <1>5, <2>3, <4>1
      <4>4. a + b \in Nat /\ a + b < Wrap
        BY <1>1, <2>3, <2>7, <4>1, <4>3
      <4>5. (a + b) % Wrap = a + b
        BY <2>7, <4>4
      <4>6. a + b <= 1000
        BY <2>3, <2>4, <4>4, <4>5
      <4>. QED
        BY <2>2, <2>3, <4>2, <4>3, <4>6
    <3>. QED
      BY <3>1, <3>2
  <2>9. left \in (1 .. n) \cup {0} /\ sums(Others(s, left))[n] <= 1000
    BY <1>1, <1>8, <2>8
  <2>. HIDE DEF left
  <2>. QED
    BY <2>9
<1>. QED
  BY <1>6, <1>7

\* In every set that is admitted, however large its numbers as long as nothing wraps,
\* all but one of the tasks together have enough of the processor: what
\* AdmittedSetsFit claims of all is wrong by one task only (ub_test.c:37-42).
THEOREM AdmittedFitButForOne == StartupSpec => []FitsButForOne
<1>1. AdmInv => FitsButForOne
  <2>. SUFFICES ASSUME AdmInv, ret = "runs", NothingWraps
                PROVE  \E j \in DOMAIN tasks \cup {0} :
                          sums([i \in 1 .. Len(tasks) |-> IF i = j THEN 0 ELSE Shares(tasks)[i]])[Len(tasks)]
                             <= 1000
    BY Zenon DEF FitsButForOne
  <2>1. Answer = "runs" /\ tasks \in Seq(Rec)
    BY DEF AdmInv
  <2>2. /\ ~(Len(tasks) > OS_MAX_TASKS) /\ assign_schedule(tasks)
        /\ ~(\E i \in DOMAIN tasks : tasks[i].T = 0)
        /\ ~(\E i \in DOMAIN tasks : tasks[i].C > tasks[i].T)
    BY <2>1, Zenon DEF Answer
  <2>3. DOMAIN tasks = 1 .. Len(tasks) /\ Len(tasks) <= 64
    BY <2>1, <2>2 DEF OS_MAX_TASKS
  <2>4. RoomFor(tasks)
    <3>. SUFFICES ASSUME NEW i \in 1 .. Len(tasks)
                  PROVE  /\ tasks[i].T # 0 /\ tasks[i].C <= tasks[i].T
                         /\ (tasks[i].C + tasks[i].B + Len(tasks)) * 1000 < Wrap
      BY DEF RoomFor
    <3>1. tasks[i] \in Rec
      BY <2>1
    <3>2. tasks[i].C \in Nat /\ tasks[i].T \in Nat
      BY <3>1, RecFacts
    <3>. QED
      BY <2>2, <2>3, <3>2 DEF NothingWraps
  <2>5. \E j \in (1 .. Len(tasks)) \cup {0} :
           sums(Others(tasks, j))[Len(tasks)] <= 1000
    BY <2>1, <2>2, <2>3, <2>4, AllButOneFit
  <2>6. PICK j \in (1 .. Len(tasks)) \cup {0} : sums(Others(tasks, j))[Len(tasks)] <= 1000
    BY <2>5
  <2>7. j \in DOMAIN tasks \cup {0}
    BY <2>3
  <2>. QED
    BY <2>6, <2>7, Zenon DEF Others
<1>. QED
  BY <1>1, AlwaysAdm, PTL

-----------------------------------------------------------------------------
(* What ticks and calls before task_create leave behind.                   *)

Queued == {p \in DOMAIN tcbs : tcbs[p] # NoTask}

BootInv ==
    /\ timer_count \in 0 .. MaxTicks
    /\ at # "kmain" =>
          due = [d \in 0 .. (NUM_DEVICES - 1) |-> dev_freq[d] - (timer_count % dev_freq[d])]
    /\ byte1 \in {0, 240} /\ mutexid \in 0 .. MaxCreate
    /\ bAvailable = [m \in 1 .. OS_NUM_MUTEX |-> IF m <= mutexid /\ m < OS_NUM_MUTEX THEN 1 ELSE 0]
    /\ at \in {"kmain", "swi", "timer", "irq", "modeswitch"} => timer_count = 0
    /\ at \in {"main", "tasks"} /\ mutexid = 0 => byte1 = 0 \/ timer_count = 0
    /\ at = "tasks" => /\ ret = "runs" /\ cur_tcb = Min(Queued)
                       /\ ready = Queued \ ({cur_tcb} \ {IDLE_PRIO})

LEMMA BootInit == StartupInit => BootInv
<1>. SUFFICES ASSUME StartupInit PROVE BootInv
  OBVIOUS
<1>1. at = "kmain" /\ byte1 \in {0, 240} /\ timer_count = 0 /\ mutexid = 0 /\ bAvailable = [m \in 1 .. OS_NUM_MUTEX |-> 0]
  BY Zenon DEF StartupInit
<1>2. OS_NUM_MUTEX \in Nat /\ MaxCreate \in Nat /\ MaxTicks \in Nat
  BY StartupAssumption
<1>3. bAvailable = [m \in 1 .. OS_NUM_MUTEX |-> IF m <= mutexid /\ m < OS_NUM_MUTEX THEN 1 ELSE 0]
  BY <1>1, <1>2
<1>. QED
  BY <1>1, <1>2, <1>3 DEF BootInv

\* The remainder of a division.
LEMMA RemainderIs ==
    ASSUME NEW f \in Nat \ {0}, NEW q \in Int, NEW r \in 0 .. (f - 1)
    PROVE  (f * q + r) % f = r
OBVIOUS

\* One tick more.
LEMMA NextTick ==
    ASSUME NEW k \in Nat, NEW f \in Nat \ {0}
    PROVE  (IF f - (k % f) = 1 THEN f ELSE (f - (k % f)) - 1) = f - ((k + 1) % f)
<1> DEFINE r == k % f
<1>1. r \in 0 .. (f - 1)
  OBVIOUS
<1> DEFINE q == k \div f
<1>2. k = f * q + r /\ q \in Int
  OBVIOUS
<1>. HIDE DEF r, q
<1>4. (k + 1) % f = IF r = f - 1 THEN 0 ELSE r + 1
  <2>1. CASE r = f - 1
    <3>1. k + 1 = f * (q + 1) + 0 /\ q + 1 \in Int /\ 0 \in 0 .. (f - 1)
      BY <1>2, <2>1
    <3>. QED
      BY <2>1, <3>1, RemainderIs
  <2>2. CASE r # f - 1
    <3>1. k + 1 = f * q + (r + 1) /\ r + 1 \in 0 .. (f - 1)
      BY <1>1, <1>2, <2>2
    <3>. QED
      BY <1>2, <2>2, <3>1, RemainderIs
  <2>. QED
    BY <2>1, <2>2
<1>3. (IF f - r = 1 THEN f ELSE (f - r) - 1) = f - (IF r = f - 1 THEN 0 ELSE r + 1)
  BY <1>1
<1>. QED
  BY <1>3, <1>4 DEF r

LEMMA BootStep == ASSUME BootInv, [StartupNext]_startup_vars PROVE BootInv'
<1>0. /\ OS_NUM_MUTEX \in Nat \ {0} /\ MaxCreate \in Nat /\ MaxTicks \in Nat
      /\ dev_freq \in [0 .. (NUM_DEVICES - 1) -> Nat \ {0}]
  BY StartupAssumption
<1>1. CASE initialise
  <2>1. /\ at = "kmain" /\ at' = "swi" /\ due' = dev_freq
        /\ UNCHANGED <<byte1, timer_count, mutexid, bAvailable>>
    BY <1>1 DEF initialise, Kmain, boot_vars
  <2>2. timer_count' = 0
    BY <2>1 DEF BootInv
  <2>3. due' = [d \in 0 .. (NUM_DEVICES - 1) |-> dev_freq[d] - (timer_count' % dev_freq[d])]
    <3>1. \A d \in 0 .. (NUM_DEVICES - 1) : dev_freq[d] - (0 % dev_freq[d]) = dev_freq[d]
      BY <1>0
    <3>. QED
      BY <1>0, <2>1, <2>2, <3>1
  <2>. QED
    BY <2>1, <2>2, <2>3 DEF BootInv
<1>2. CASE kmain /\ ~initialise
  <2>1. /\ at \in {"swi", "timer", "irq", "modeswitch"}
        /\ at' \in {"returned", "timer", "irq", "modeswitch", "main"}
        /\ UNCHANGED late_vars /\ UNCHANGED byte1
    BY <1>2 DEF kmain, bad_vector, patch, start_timer, modeswitch, Kmain, Vectors, boot_vars
  <2>. QED
    BY <2>1 DEF BootInv, late_vars
<1>3. CASE early_tick
  <2>1. /\ at = "main" /\ timer_count < MaxTicks /\ timer_count' = timer_count + 1
        /\ due' = [d \in DOMAIN due |-> IF due[d] = 1 THEN dev_freq[d] ELSE due[d] - 1]
        /\ at' = IF byte1 > 0 THEN "wild" ELSE at
        /\ UNCHANGED <<byte1, mutexid, bAvailable>>
    BY <1>3, Zenon DEF early_tick, boot_vars
  <2>2. timer_count' \in 0 .. MaxTicks /\ timer_count \in Nat
    BY <1>0, <2>1 DEF BootInv
  <2>3. due' = [d \in 0 .. (NUM_DEVICES - 1) |-> dev_freq[d] - (timer_count' % dev_freq[d])]
    <3>1. due = [d \in 0 .. (NUM_DEVICES - 1) |-> dev_freq[d] - (timer_count % dev_freq[d])]
      BY <2>1 DEF BootInv
    <3>2. ASSUME NEW d \in 0 .. (NUM_DEVICES - 1)
          PROVE  (IF due[d] = 1 THEN dev_freq[d] ELSE due[d] - 1)
                    = dev_freq[d] - (timer_count' % dev_freq[d])
      <4>1. dev_freq[d] \in Nat \ {0} /\ due[d] = dev_freq[d] - (timer_count % dev_freq[d])
        BY <1>0, <3>1
      <4>. QED
        BY <2>1, <2>2, <4>1, NextTick
    <3>. QED
      BY <2>1, <3>1, <3>2
  <2>4. (at' = "main" /\ byte1' = 0) \/ at' = "wild"
    BY <2>1 DEF BootInv
  <2>. QED
    BY <2>1, <2>2, <2>3, <2>4 DEF BootInv
<1>4. CASE mutex_create
  <2>1. /\ at = "main" /\ mutexid < MaxCreate /\ mutexid' = mutexid + 1
        /\ bAvailable' = IF mutexid' > OS_NUM_MUTEX - 1 THEN bAvailable
                         ELSE [bAvailable EXCEPT ![mutexid'] = 1]
        /\ UNCHANGED <<at, byte1, timer_count, due>>
    BY <1>4 DEF mutex_create, boot_vars
  <2>2. mutexid' \in 0 .. MaxCreate /\ mutexid' # 0
    BY <1>0, <2>1 DEF BootInv
  <2>3. bAvailable' = [m \in 1 .. OS_NUM_MUTEX |-> IF m <= mutexid' /\ m < OS_NUM_MUTEX THEN 1 ELSE 0]
    <3>1. /\ mutexid \in Nat
          /\ bAvailable = [m \in 1 .. OS_NUM_MUTEX |-> IF m <= mutexid /\ m < OS_NUM_MUTEX THEN 1 ELSE 0]
      BY DEF BootInv
    <3>2. CASE mutexid' > OS_NUM_MUTEX - 1
      <4>1. \A m \in 1 .. OS_NUM_MUTEX :
               m <= mutexid' /\ m < OS_NUM_MUTEX <=> m <= mutexid /\ m < OS_NUM_MUTEX
        BY <1>0, <2>1, <3>1, <3>2
      <4>. QED
        BY <2>1, <3>1, <3>2, <4>1
    <3>3. CASE ~(mutexid' > OS_NUM_MUTEX - 1)
      <4>1. mutexid' \in 1 .. OS_NUM_MUTEX /\ mutexid' < OS_NUM_MUTEX
        BY <1>0, <2>1, <3>1, <3>3
      <4>2. \A m \in 1 .. OS_NUM_MUTEX :
               bAvailable'[m] = IF m = mutexid' THEN 1 ELSE bAvailable[m]
        BY <2>1, <3>1, <3>3, <4>1
      <4>3. \A m \in 1 .. OS_NUM_MUTEX :
               bAvailable'[m] = IF m <= mutexid' /\ m < OS_NUM_MUTEX THEN 1 ELSE 0
        BY <1>0, <2>1, <3>1, <4>1, <4>2
      <4>4. bAvailable' = [m \in 1 .. OS_NUM_MUTEX |-> bAvailable'[m]]
        BY <2>1, <3>1, <3>3
      <4>. QED
        BY <4>3, <4>4
    <3>. QED
      BY <3>2, <3>3
  <2>. QED
    BY <2>1, <2>2, <2>3 DEF BootInv
<1>5. CASE start_tasks
  <2>1. /\ at = "main"
        /\ at' = IF ret' = "runs" THEN "tasks" ELSE IF ret' = "raise" THEN "stopped" ELSE at
        /\ ret' = "runs" => cur_tcb' = Min(Queued') /\ ready' = Queued' \ ({cur_tcb'} \ {IDLE_PRIO})
        /\ UNCHANGED <<byte1, timer_count, due, mutexid, bAvailable>>
    BY <1>5, Zenon DEF start_tasks, boot_vars, Queued, most_urgent
  <2>. QED
    BY <2>1 DEF BootInv
<1>6. CASE UNCHANGED startup_vars
  <2>1. UNCHANGED <<at, byte1, ret, tcbs, timer_count, due, mutexid, bAvailable, ready, cur_tcb>>
    BY <1>6 DEF startup_vars, late_vars, boot_vars, vars
  <2>2. UNCHANGED Queued
    BY <2>1 DEF Queued
  <2>. QED
    BY <2>1, <2>2 DEF BootInv
<1>7. CASE mutex_unlock
  <2>1. /\ at = "main" /\ \E m \in 1 .. OS_NUM_MUTEX : bAvailable[m] = 1
        /\ byte1' \in {0, 240} /\ UNCHANGED <<at, timer_count, due, mutexid, bAvailable>>
    BY <1>7 DEF mutex_unlock, late_vars
  <2>2. mutexid # 0
    <3>1. PICK m \in 1 .. OS_NUM_MUTEX : bAvailable[m] = 1
      BY <2>1
    <3>2. m <= mutexid /\ m \in Nat /\ 1 <= m
      BY <1>0, <3>1 DEF BootInv
    <3>. QED
      BY <3>2
  <2>. QED
    BY <2>1, <2>2 DEF BootInv
<1>8. CASE event_wait
  <2>1. /\ at = "main" /\ at' \in {"main", "wild"}
        /\ UNCHANGED <<byte1, timer_count, due, mutexid, bAvailable>>
    BY <1>8 DEF event_wait, late_vars, boot_vars
  <2>. QED
    BY <2>1 DEF BootInv
<1>. QED
  BY <1>1, <1>2, <1>3, <1>4, <1>5, <1>6, <1>7, <1>8 DEF StartupNext

LEMMA AlwaysBoot == StartupSpec => []BootInv
BY BootInit, BootStep, PTL DEF StartupSpec

\* Min, a CHOOSE, is the least of any numbers.
LEMMA LeastIs ==
    ASSUME NEW S \in SUBSET Nat, NEW x \in S, \A y \in S : x <= y
    PROVE  Min(S) = x
<1>1. Min(S) \in S /\ \A y \in S : Min(S) <= y
  BY DEF Min
<1>2. Min(S) <= x /\ x <= Min(S) /\ Min(S) \in Nat /\ x \in Nat
  BY <1>1
<1>. QED
  BY <1>2

\* The TCBs that are queued for n tasks.
LEMMA QueuedTcbs ==
    ASSUME AdmInv, ret = "runs", Len(given) <= IDLE_PRIO - 1
    PROVE  Queued = (1 .. Len(given)) \cup {IDLE_PRIO}
<1>1. /\ tcbs = allocate_tasks(tasks) /\ DOMAIN tasks = 1 .. Len(given) /\ Len(given) \in Nat
      /\ \A p \in 1 .. Len(given) : tasks[p].id # NoTask
  <2>1. tcbs = allocate_tasks(tasks) /\ tasks \in Seq(Rec) /\ given \in Seq(Rec) /\ Len(tasks) = Len(given)
    BY DEF AdmInv
  <2>2. \A p \in 1 .. Len(given) : \E j \in 1 .. Len(given) : tasks[p] = given[j] /\ given[j].id = j
    BY <2>1 DEF AdmInv, SameTasks
  <2>. QED
    BY <2>1, <2>2 DEF NoTask
<1> DEFINE n == Len(given)
<1>2. n \in Nat /\ n <= 62
  BY <1>1 DEF IDLE_PRIO, OS_MAX_TASKS
<1>3. DOMAIN tcbs = 0 .. 63
      /\ \A p \in 0 .. 63 : tcbs[p] = IF p = 63 THEN -1 ELSE IF p \in 1 .. n THEN tasks[p].id ELSE 0
  BY <1>1 DEF allocate_tasks, IDLE_PRIO, OS_MAX_TASKS, IdleTask, NoTask
<1>4. \A p \in 1 .. n : tasks[p].id # 0
  BY <1>1 DEF NoTask
<1>. HIDE DEF n
<1>5. ASSUME NEW p \in 0 .. 63 PROVE tcbs[p] # 0 <=> p \in (1 .. n) \cup {63}
  <2>1. CASE p = 63
    BY <1>3, <2>1
  <2>2. CASE p # 63 /\ p \in 1 .. n
    <3>1. tcbs[p] = tasks[p].id
      BY <1>3, <2>2
    <3>. QED
      BY <1>4, <2>2, <3>1
  <2>3. CASE p # 63 /\ p \notin 1 .. n
    BY <1>3, <2>3
  <2>. QED
    BY <2>1, <2>2, <2>3
<1>6. (1 .. n) \cup {63} \subseteq 0 .. 63
  BY <1>2
<1>7. Queued = (1 .. n) \cup {63}
  <2>1. \A p \in Queued : p \in (1 .. n) \cup {63}
    BY <1>3, <1>5 DEF Queued, NoTask
  <2>2. \A p \in (1 .. n) \cup {63} : p \in Queued
    BY <1>3, <1>5, <1>6 DEF Queued, NoTask
  <2>. QED
    BY <2>1, <2>2
<1>. QED
  BY <1>7 DEF n, IDLE_PRIO, OS_MAX_TASKS

\* Whatever main did before, the tasks start in a state that module Kernel starts
\* from, for any number of tasks up to 62, any mutexes, devices and ticks, so that
\* the theorems about the running kernel hold of what task_create leaves
\* (main.c:67-153, sched.c:42-80).
THEOREM StartupReachesTheKernel == StartupSpec => []StartsTheKernel
<1>1. ASSUME AdmInv, BootInv, at = "tasks", NEW n \in 1 .. (IDLE_PRIO - 1), Len(given) = n
      PROVE  K(n)!Init
  <2>1. /\ OS_NUM_MUTEX \in Nat \ {0} /\ n \in 1 .. 62 /\ IDLE_PRIO = 63
    BY <1>1, StartupAssumption DEF IDLE_PRIO, OS_MAX_TASKS
  <2>2. Queued = (1 .. n) \cup {IDLE_PRIO} /\ cur_tcb = Min(Queued)
        /\ ready = Queued \ ({cur_tcb} \ {IDLE_PRIO})
    BY <1>1, <2>1, QueuedTcbs DEF BootInv
  <2>3. cur_tcb = 1
    <3>1. Queued \in SUBSET Nat /\ 1 \in Queued /\ \A y \in Queued : 1 <= y
      BY <2>1, <2>2
    <3>. QED
      BY <2>2, <3>1, LeastIs
  <2>4. ready = (K(n)!Tasks \cup {K(n)!IDLE_PRIO}) \ {1}
    BY <2>1, <2>2, <2>3 DEF K!Tasks, K!IDLE_PRIO
  <2>5. K(n)!Tcbs = {0, IDLE_PRIO} \cup 1 .. n
    BY <2>1 DEF K!Tcbs, K!Tasks, K!IDLE_PRIO
  <2>6. mutexid \in 0 .. MaxCreate
        /\ bAvailable = [m \in 1 .. OS_NUM_MUTEX |-> IF m <= mutexid /\ m < OS_NUM_MUTEX THEN 1 ELSE 0]
    BY <1>1 DEF BootInv
  <2>7. timer_count \in 0 .. MaxTicks
        /\ due = [d \in 0 .. (NUM_DEVICES - 1) |-> dev_freq[d] - (timer_count % dev_freq[d])]
    BY <1>1 DEF BootInv
  <2>. QED
    BY <2>3, <2>4, <2>5, <2>6, <2>7 DEF K!Init, K!native_prio, K!Mutexes, K!Devices
<1>2. ASSUME AdmInv, BootInv, at = "tasks", Len(given) = 0
      PROVE  cur_tcb = IDLE_PRIO
  <2>1. Queued = (1 .. 0) \cup {IDLE_PRIO} /\ cur_tcb = Min(Queued) /\ IDLE_PRIO = 63
    BY <1>2, QueuedTcbs DEF BootInv, IDLE_PRIO, OS_MAX_TASKS
  <2>2. Queued \in SUBSET Nat /\ IDLE_PRIO \in Queued /\ \A y \in Queued : IDLE_PRIO <= y
    BY <2>1
  <2>. QED
    BY <2>1, <2>2, LeastIs
<1>3. AdmInv /\ BootInv => StartsTheKernel
  BY <1>1, <1>2 DEF StartsTheKernel, BootInv
<1>. QED
  BY <1>3, AlwaysAdm, AlwaysBoot, PTL
=============================================================================
