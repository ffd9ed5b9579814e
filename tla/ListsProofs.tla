----------------------------- MODULE ListsProofs -----------------------------
(***************************************************************************)
(* The linked lists do what module Kernel says of sequences and sets, for  *)
(* any number of tasks, mutexes and devices and any nesting of locks, as   *)
(* long as each task_create was made when nobody waited.                   *)
(***************************************************************************)
EXTENDS Lists, FiniteSetTheorems, WellFoundedInduction, TLAPS

-----------------------------------------------------------------------------
(* Lists on one link per TCB.                                              *)

\* A list is a sequence of tasks without repetition.
LEMMA ListFacts ==
    ASSUME NEW s \in TaskLists
    PROVE  /\ s \in Seq(K!Tasks) /\ Len(s) \in Nat /\ DOMAIN s = 1 .. Len(s)
           /\ \A i \in 1 .. Len(s) : s[i] \in K!Tasks /\ s[i] # NULL
           /\ \A i, j \in 1 .. Len(s) : s[i] = s[j] => i = j
           /\ Range(s) = {s[i] : i \in 1 .. Len(s)} /\ Range(s) \subseteq K!Tasks
<1>1. PICK n \in 0 .. NumTasks : s \in [1 .. n -> 1 .. NumTasks]
  BY DEF TaskLists
<1>2. n \in Nat /\ s \in Seq(K!Tasks)
  BY <1>1, ListsAssumption DEF K!Tasks
<1>3. Len(s) = n /\ DOMAIN s = 1 .. n
  BY <1>1, <1>2
<1>4. IsInjective(s)
  BY DEF TaskLists
<1>5. NULL \notin K!Tasks
  BY ListsAssumption DEF K!Tasks, IDLE_PRIO
<1>. QED
  BY <1>1, <1>2, <1>3, <1>4, <1>5 DEF IsInjective, Range, K!Tasks

\* And every such sequence is one: it cannot be longer than there are tasks.
LEMMA SequenceIsList ==
    ASSUME NEW s \in Seq(K!Tasks), \A i, j \in 1 .. Len(s) : s[i] = s[j] => i = j
    PROVE  s \in TaskLists
<1>1. /\ Len(s) \in Nat /\ DOMAIN s = 1 .. Len(s)
      /\ s \in [1 .. Len(s) -> 1 .. NumTasks] /\ NumTasks \in Nat
  BY ListsAssumption DEF K!Tasks
<1>2. s \in Injection(1 .. Len(s), 1 .. NumTasks)
  BY <1>1 DEF Injection, IsInjective
<1>3. Len(s) <= NumTasks
  <2>1. /\ IsFiniteSet(1 .. NumTasks) /\ Cardinality(1 .. NumTasks) = NumTasks
        /\ Cardinality(1 .. Len(s)) = Len(s)
    <3>1. \A n \in Nat : IsFiniteSet(1 .. n) /\ Cardinality(1 .. n) = n
      BY FS_Interval
    <3>. QED
      BY <1>1, <3>1
  <2>2. Cardinality(1 .. Len(s)) <= Cardinality(1 .. NumTasks)
    BY <1>2, <2>1, FS_Injection
  <2>. QED
    BY <2>1, <2>2
<1>4. Len(s) \in 0 .. NumTasks
  BY <1>1, <1>3
<1>. QED
  BY <1>1, <1>4 DEF TaskLists, IsInjective

\* Any non-empty set of numbers has a least member.
LEMMA LeastExists ==
    ASSUME NEW S \in SUBSET Nat, S # {}
    PROVE  \E x \in S : \A y \in S : x <= y
<1>1. PICK x \in S : \A y \in S : ~ (<<y, x>> \in OpToRel(<, Nat))
  BY WFMin, NatLessThanWellFounded
<1>2. \A y \in S : x <= y
  <2>. SUFFICES ASSUME NEW y \in S, ~ (x <= y) PROVE FALSE
    OBVIOUS
  <2>1. y < x /\ y \in Nat /\ x \in Nat
    OBVIOUS
  <2>2. <<y, x>> \in OpToRel(<, Nat)
    BY <2>1 DEF OpToRel
  <2>. QED
    BY <1>1, <2>2
<1>. QED
  BY <1>2

\* Two lists that a pointer leads along begin alike, up to the end of the first.
LEMMA SameBeginning ==
    ASSUME NEW q, NEW first, NEW s \in TaskLists, NEW r \in TaskLists,
           LeadsAlong(q, first, s), LeadsAlong(q, first, r)
    PROVE  \A i \in 1 .. Len(s) : i <= Len(r) /\ r[i] = s[i]
<1> DEFINE D == {i \in 1 .. Len(s) : ~(i <= Len(r) /\ r[i] = s[i])}
<1>. SUFFICES ASSUME D # {} PROVE FALSE
  OBVIOUS
<1>1. D \in SUBSET Nat
  BY ListFacts
<1>2. PICK i \in D : \A j \in D : i <= j
  BY <1>1, LeastExists
<1>3. /\ Len(s) \in Nat /\ Len(r) \in Nat /\ i \in 1 .. Len(s)
      /\ DOMAIN s = 1 .. Len(s) /\ DOMAIN r = 1 .. Len(r)
      /\ s[i] # NULL
  BY ListFacts
<1>6. ~(i <= Len(r) /\ r[i] = s[i])
  BY <1>2
<1>4. CASE i = 1
  <2>1. first = s[1] /\ first # NULL
    BY <1>3, <1>4 DEF LeadsAlong, After
  <2>2. Len(r) # 0 /\ first = r[1]
    BY <1>3, <2>1 DEF LeadsAlong, After
  <2>. QED
    BY <1>3, <1>4, <1>6, <2>1, <2>2
<1>5. CASE i # 1
  <2>1. i - 1 \in 1 .. Len(s) /\ ~(i <= i - 1)
    BY <1>3, <1>5
  <2>2. i - 1 \notin D
    BY <1>2, <2>1
  <2>3. i - 1 <= Len(r) /\ r[i - 1] = s[i - 1] /\ i - 1 \in 1 .. Len(r)
    BY <1>3, <2>1, <2>2
  <2>4. q[s[i - 1]] = s[i]
    BY <1>3, <2>1 DEF LeadsAlong, After
  <2>5. q[r[i - 1]] = After(r, i - 1)
    BY <1>3, <2>3 DEF LeadsAlong
  <2>6. i - 1 # Len(r) /\ r[i] = s[i]
    BY <1>3, <2>1, <2>3, <2>4, <2>5 DEF After
  <2>. QED
    BY <1>2, <1>3, <2>3, <2>6
<1>. QED
  BY <1>4, <1>5

\* A pointer leads along one list at most, so that ListFrom is that list.
LEMMA ListUnique ==
    ASSUME NEW q, NEW first, NEW s \in TaskLists, LeadsAlong(q, first, s)
    PROVE  ListFrom(q, first) = s
<1>1. ASSUME NEW r \in TaskLists, LeadsAlong(q, first, r)
      PROVE  r = s
  <2>1. /\ \A i \in 1 .. Len(s) : i <= Len(r) /\ r[i] = s[i]
        /\ \A i \in 1 .. Len(r) : i <= Len(s)
    BY <1>1, SameBeginning
  <2>2. Len(s) = Len(r)
    <3>1. Len(s) \in Nat /\ Len(r) \in Nat
      BY ListFacts
    <3>2. Len(s) # 0 => Len(s) <= Len(r)
      BY <2>1, <3>1
    <3>3. Len(r) # 0 => Len(r) <= Len(s)
      BY <2>1, <3>1
    <3>. QED
      BY <3>1, <3>2, <3>3
  <2>. QED
    BY <2>1, <2>2, ListFacts
<1>2. CASE first = NULL
  <2>1. Len(s) = 0
    <3>1. Len(s) # 0 => s[1] # NULL
      BY ListFacts
    <3>. QED
      BY <1>2, <3>1 DEF LeadsAlong, After
  <2>2. s = <<>>
    BY <2>1, ListFacts
  <2>. QED
    BY <1>2, <2>2 DEF ListFrom
<1>3. CASE first # NULL
  BY <1>1, <1>3 DEF ListFrom
<1>. QED
  BY <1>2, <1>3

\* NULL is the empty list.
LEMMA EmptyList ==
    ASSUME NEW q
    PROVE  <<>> \in TaskLists /\ LeadsAlong(q, NULL, <<>>) /\ Range(<<>>) = {}
<1>1. <<>> \in TaskLists
  <2>1. <<>> \in Seq(K!Tasks) /\ 1 .. Len(<<>>) = {}
    OBVIOUS
  <2>. QED
    BY <2>1, SequenceIsList
<1>. QED
  BY <1>1 DEF LeadsAlong, After, Range

\* NULL leads along the empty list only; of any other, both ends are on it.
LEMMA Ends ==
    ASSUME NEW q, NEW first, NEW s \in TaskLists, LeadsAlong(q, first, s)
    PROVE  /\ first = NULL <=> s = <<>>
           /\ first # NULL => first \in Range(s) /\ Last(s) \in Range(s)
<1>1. /\ s \in Seq(K!Tasks) /\ Len(s) \in Nat
      /\ \A i \in 1 .. Len(s) : s[i] # NULL /\ s[i] \in Range(s)
  BY ListFacts
<1>2. first = IF Len(s) = 0 THEN NULL ELSE s[1]
  BY <1>1 DEF LeadsAlong, After
<1>3. CASE Len(s) = 0
  <2>1. s = <<>>
    BY <1>1, <1>3
  <2>. QED
    BY <1>2, <1>3, <2>1
<1>4. CASE Len(s) # 0
  <2>1. 1 \in 1 .. Len(s) /\ Len(s) \in 1 .. Len(s) /\ s # <<>>
    BY <1>1, <1>4
  <2>. QED
    BY <1>1, <1>2, <1>4, <2>1 DEF Last
<1>. QED
  BY <1>3, <1>4

\* Links that no TCB of a list has do not matter to it.
LEMMA OtherLinks ==
    ASSUME NEW q, NEW r, NEW first, NEW s \in TaskLists, LeadsAlong(q, first, s),
           \A t \in Range(s) : r[t] = q[t]
    PROVE  LeadsAlong(r, first, s)
BY ListFacts DEF LeadsAlong

\* The caller's link ends a list, and the rear's leads to it: mutex.c:91-105.
LEMMA LinkAtRear ==
    ASSUME NEW q, NEW r, NEW first, NEW s \in TaskLists, LeadsAlong(q, first, s),
           NEW t \in K!Tasks \ Range(s), r[t] = NULL,
           \A u \in Range(s) : r[u] = IF u = Last(s) THEN t ELSE q[u]
    PROVE  /\ Append(s, t) \in TaskLists
           /\ LeadsAlong(r, IF first = NULL THEN t ELSE first, Append(s, t))
           /\ Range(Append(s, t)) = Range(s) \cup {t}
           /\ Last(Append(s, t)) = t
<1> DEFINE a == Append(s, t)
           n == Len(s)
<1>1. /\ s \in Seq(K!Tasks) /\ n \in Nat /\ DOMAIN s = 1 .. n
      /\ \A i \in 1 .. n : s[i] \in K!Tasks /\ s[i] # NULL /\ s[i] \in Range(s)
      /\ \A i, j \in 1 .. n : s[i] = s[j] => i = j
      /\ Range(s) = {s[i] : i \in 1 .. n}
  BY ListFacts
<1>2. /\ a \in Seq(K!Tasks) /\ Len(a) = n + 1 /\ DOMAIN a = 1 .. (n + 1)
      /\ \A i \in 1 .. n : a[i] = s[i]
      /\ a[n + 1] = t
  BY <1>1
<1>. HIDE DEF a
<1>3. \A i, j \in 1 .. Len(a) : a[i] = a[j] => i = j
  <2>1. \A i \in 1 .. Len(a) : i \in 1 .. n \/ i = n + 1
    BY <1>1, <1>2
  <2>2. \A i \in 1 .. n : a[i] # t
    BY <1>1, <1>2
  <2>. QED
    BY <1>1, <1>2, <2>1, <2>2
<1>4. a \in TaskLists
  BY <1>2, <1>3, SequenceIsList
<1>5. Range(a) = Range(s) \cup {t}
  <2>1. Range(a) = {a[i] : i \in 1 .. (n + 1)}
    BY <1>2 DEF Range
  <2>2. 1 .. (n + 1) = (1 .. n) \cup {n + 1}
    BY <1>1
  <2>. QED
    BY <1>1, <1>2, <2>1, <2>2
<1>6. Last(a) = t
  BY <1>2 DEF Last
<1>7. (IF first = NULL THEN t ELSE first) = After(a, 0)
  <2>1. first = IF n = 0 THEN NULL ELSE s[1]
    BY <1>1 DEF LeadsAlong, After
  <2>2. After(a, 0) = a[1]
    BY <1>1, <1>2 DEF After
  <2>. QED
    BY <1>1, <1>2, <2>1, <2>2
<1>8. ASSUME NEW i \in 1 .. (n + 1)
      PROVE  r[a[i]] = After(a, i)
  <2>1. CASE i = n + 1
    BY <1>2, <2>1 DEF After
  <2>2. CASE i # n + 1
    <3>1. i \in 1 .. n /\ After(a, i) = a[i + 1] /\ a[i] = s[i] /\ s[i] \in Range(s)
      BY <1>1, <1>2, <2>2 DEF After
    <3>2. CASE i = n
      BY <1>1, <1>2, <3>1, <3>2 DEF Last
    <3>3. CASE i # n
      <4>1. s[i] # Last(s) /\ i + 1 \in 1 .. n
        <5>1. n \in 1 .. n /\ i + 1 \in 1 .. n /\ Last(s) = s[n]
          BY <1>1, <3>1, <3>3 DEF Last
        <5>. QED
          BY <1>1, <3>1, <3>3, <5>1
      <4>2. q[s[i]] = s[i + 1]
        BY <1>1, <3>1, <3>3 DEF LeadsAlong, After
      <4>. QED
        BY <1>2, <3>1, <4>1, <4>2
    <3>. QED
      BY <3>2, <3>3
  <2>. QED
    BY <2>1, <2>2
<1>9. LeadsAlong(r, IF first = NULL THEN t ELSE first, a)
  BY <1>2, <1>7, <1>8 DEF LeadsAlong
<1>. QED
  BY <1>4, <1>5, <1>6, <1>9 DEF a

\* The caller's link leads to what was the first: device.c:69-76.
LEMMA LinkAtHead ==
    ASSUME NEW q, NEW r, NEW first, NEW s \in TaskLists, LeadsAlong(q, first, s),
           NEW t \in K!Tasks \ Range(s), r[t] = first,
           \A u \in Range(s) : r[u] = q[u]
    PROVE  \E a \in TaskLists : LeadsAlong(r, t, a) /\ Range(a) = Range(s) \cup {t}
<1> DEFINE n == Len(s)
           a == [i \in 1 .. (n + 1) |-> IF i = 1 THEN t ELSE s[i - 1]]
<1>1. /\ s \in Seq(K!Tasks) /\ n \in Nat /\ DOMAIN s = 1 .. n
      /\ \A i \in 1 .. n : s[i] \in K!Tasks /\ s[i] # NULL /\ s[i] \in Range(s)
      /\ \A i, j \in 1 .. n : s[i] = s[j] => i = j
      /\ Range(s) = {s[i] : i \in 1 .. n}
  BY ListFacts
<1>2. /\ DOMAIN a = 1 .. (n + 1) /\ n + 1 \in Nat
      /\ a[1] = t
      /\ \A i \in 2 .. (n + 1) : i - 1 \in 1 .. n /\ a[i] = s[i - 1]
      /\ \A i \in 1 .. n : a[i + 1] = s[i]
      /\ \A i \in 1 .. (n + 1) : i = 1 \/ i \in 2 .. (n + 1)
  BY <1>1
<1>3. a \in Seq(K!Tasks) /\ Len(a) = n + 1
  <2>1. a \in [1 .. (n + 1) -> K!Tasks]
    BY <1>1, <1>2
  <2>. QED
    BY <1>2, <2>1
<1>. HIDE DEF a
<1>4. \A i, j \in 1 .. Len(a) : a[i] = a[j] => i = j
  <2>1. \A i \in 2 .. (n + 1) : a[i] # t
    BY <1>1, <1>2
  <2>2. \A i, j \in 2 .. (n + 1) : a[i] = a[j] => i = j
    BY <1>1, <1>2
  <2>. QED
    BY <1>2, <1>3, <2>1, <2>2
<1>5. a \in TaskLists
  BY <1>3, <1>4, SequenceIsList
<1>6. Range(a) = Range(s) \cup {t}
  <2>1. Range(a) = {a[i] : i \in 1 .. (n + 1)}
    BY <1>2 DEF Range
  <2>2. \A i \in 1 .. n : i + 1 \in 1 .. (n + 1)
    BY <1>1
  <2>3. 1 \in 1 .. (n + 1)
    BY <1>1
  <2>4. Range(s) \cup {t} \subseteq Range(a)
    BY <1>1, <1>2, <2>1, <2>2, <2>3
  <2>5. Range(a) \subseteq Range(s) \cup {t}
    BY <1>1, <1>2, <2>1
  <2>. QED
    BY <2>4, <2>5
<1>7. t = After(a, 0)
  BY <1>1, <1>2, <1>3 DEF After
<1>8. ASSUME NEW i \in 1 .. (n + 1)
      PROVE  r[a[i]] = After(a, i)
  <2>1. CASE i = 1
    <3>1. first = IF n = 0 THEN NULL ELSE s[1]
      BY <1>1 DEF LeadsAlong, After
    <3>2. After(a, 1) = IF n = 0 THEN NULL ELSE s[1]
      BY <1>1, <1>2, <1>3 DEF After
    <3>. QED
      BY <1>2, <2>1, <3>1, <3>2
  <2>2. CASE i # 1
    <3>1. i - 1 \in 1 .. n /\ a[i] = s[i - 1] /\ s[i - 1] \in Range(s)
      BY <1>1, <1>2, <2>2
    <3>2. q[s[i - 1]] = After(s, i - 1)
      BY <1>1, <3>1 DEF LeadsAlong
    <3>3. After(a, i) = After(s, i - 1)
      BY <1>1, <1>2, <1>3, <3>1 DEF After
    <3>. QED
      BY <3>1, <3>2, <3>3
  <2>. QED
    BY <2>1, <2>2
<1>9. LeadsAlong(r, t, a)
  BY <1>2, <1>7, <1>8 DEF LeadsAlong
<1>. QED
  BY <1>5, <1>6, <1>9

\* The head moves on to the second, and the first's link is cleared:
\* mutex.c:145-153.
LEMMA Unlink ==
    ASSUME NEW q, NEW r, NEW first, NEW s \in TaskLists, LeadsAlong(q, first, s),
           first # NULL, \A u \in Range(s) \ {first} : r[u] = q[u]
    PROVE  /\ s # <<>> /\ first = Head(s) /\ first \in Range(s)
           /\ Tail(s) \in TaskLists
           /\ LeadsAlong(r, q[first], Tail(s))
           /\ Range(Tail(s)) = Range(s) \ {first}
           /\ q[first] # NULL => Last(Tail(s)) = Last(s)
<1> DEFINE n == Len(s)
           a == Tail(s)
<1>1. /\ s \in Seq(K!Tasks) /\ n \in Nat /\ DOMAIN s = 1 .. n
      /\ \A i \in 1 .. n : s[i] \in K!Tasks /\ s[i] # NULL /\ s[i] \in Range(s)
      /\ \A i, j \in 1 .. n : s[i] = s[j] => i = j
      /\ Range(s) = {s[i] : i \in 1 .. n}
  BY ListFacts
<1>2. n # 0 /\ first = s[1] /\ 1 \in 1 .. n
  BY <1>1 DEF LeadsAlong, After
<1>3. s # <<>> /\ Head(s) = s[1]
  BY <1>1, <1>2
<1>4. /\ a \in Seq(K!Tasks) /\ Len(a) = n - 1 /\ DOMAIN a = 1 .. (n - 1)
      /\ \A i \in 1 .. (n - 1) : a[i] = s[i + 1] /\ i + 1 \in 1 .. n
  BY <1>1, <1>3
<1>. HIDE DEF a
<1>5. a \in TaskLists
  <2>1. \A i, j \in 1 .. Len(a) : a[i] = a[j] => i = j
    BY <1>1, <1>4
  <2>. QED
    BY <1>4, <2>1, SequenceIsList
<1>6. Range(a) = Range(s) \ {first}
  <2>1. Range(a) = {a[i] : i \in 1 .. (n - 1)}
    BY <1>4 DEF Range
  <2>2. \A i \in 1 .. (n - 1) : a[i] # first /\ a[i] \in Range(s)
    BY <1>1, <1>2, <1>4
  <2>3. ASSUME NEW u \in Range(s) \ {first}
        PROVE  u \in Range(a)
    <3>1. PICK i \in 1 .. n : u = s[i]
      BY <1>1
    <3>2. i - 1 \in 1 .. (n - 1) /\ (i - 1) + 1 = i
      BY <1>1, <1>2, <2>3, <3>1
    <3>3. a[i - 1] = u
      BY <1>4, <3>1, <3>2
    <3>. QED
      BY <2>1, <3>2, <3>3
  <2>. QED
    BY <2>1, <2>2, <2>3
<1>7. q[first] = After(a, 0)
  <2>1. q[s[1]] = After(s, 1)
    BY <1>1, <1>2 DEF LeadsAlong
  <2>2. After(s, 1) = After(a, 0)
    BY <1>1, <1>2, <1>4 DEF After
  <2>. QED
    BY <1>2, <2>1, <2>2
<1>8. ASSUME NEW i \in 1 .. (n - 1)
      PROVE  r[a[i]] = After(a, i)
  <2>1. a[i] = s[i + 1] /\ i + 1 \in 1 .. n /\ a[i] # first /\ a[i] \in Range(s)
    BY <1>1, <1>2, <1>4
  <2>2. q[s[i + 1]] = After(s, i + 1)
    BY <1>1, <2>1 DEF LeadsAlong
  <2>3. After(s, i + 1) = After(a, i)
    <3>1. CASE i = n - 1
      BY <1>1, <1>4, <3>1 DEF After
    <3>2. CASE i # n - 1
      <4>1. i + 1 \in 1 .. (n - 1) /\ i + 1 # n
        <5>1. n \in Nat /\ i \in 1 .. (n - 1)
          BY <1>1
        <5>. HIDE DEF n
        <5>. QED
          BY <3>2, <5>1
      <4>2. a[i + 1] = s[(i + 1) + 1]
        BY <1>4, <4>1
      <4>. QED
        BY <1>1, <1>4, <3>2, <4>1, <4>2 DEF After
    <3>. QED
      BY <3>1, <3>2
  <2>. QED
    BY <2>1, <2>2, <2>3
<1>9. q[first] # NULL => Last(a) = Last(s)
  <2>1. q[first] # NULL => n - 1 # 0
    BY <1>4, <1>7 DEF After
  <2>. QED
    BY <1>1, <1>2, <1>4, <2>1 DEF Last
<1>10. LeadsAlong(r, q[first], a)
  BY <1>4, <1>7, <1>8 DEF LeadsAlong
<1>. QED
  BY <1>1, <1>2, <1>3, <1>5, <1>6, <1>9, <1>10 DEF a

-----------------------------------------------------------------------------
(* The invariant.                                                          *)

PointersOK ==
    /\ ready \in SUBSET K!Tcbs
    /\ cur_tcb \in K!Tcbs
    /\ cur_prio \in [K!Tcbs -> K!Tcbs]
    /\ bLock \in [K!Mutexes -> {0, 1}]
    /\ pHolding_Tcb \in [K!Mutexes -> K!Tasks \cup {NULL}]
    /\ sleep_queue \in [K!Tcbs -> K!Tasks \cup {NULL}]
    /\ mutex_head \in [K!Mutexes -> K!Tasks \cup {NULL}]
    /\ rear \in [K!Mutexes -> K!Tasks \cup {NULL}]
    /\ dev_head \in [K!Devices -> K!Tasks \cup {NULL}]

ListAt(h) == From(FirstOf(h))
Asleep    == UNION {Range(ListAt(h)) : h \in Heads}

\* Every pointer leads along a list.
Listed == \A h \in Heads : \E s \in TaskLists : LeadsAlong(sleep_queue, FirstOf(h), s)

\* No task is on two lists.
Apart == \A g, h \in Heads : g # h => Range(ListAt(g)) \cap Range(ListAt(h)) = {}

RearIsLast == \A m \in K!Mutexes :
    mutex_head[m] # NULL => Last(From(mutex_head[m])) = rear[m]

\* What runs or is queued to run is on no list.
Awake == /\ cur_tcb \notin Asleep /\ cur_tcb \notin ready \cap K!Tasks
         /\ ready \cap Asleep = {}

\* A TCB has its own priority or 0; who waits for a device has its own.
OwnOrTop == /\ \A t \in K!Tcbs : cur_prio[t] \in {0, t}
            /\ \A d \in K!Devices : \A t \in Range(From(dev_head[d])) : cur_prio[t] # 0

\* Nobody has or waits for a mutex that is free.
FreeIsFree == \A m \in K!Mutexes :
    bLock[m] = 0 => pHolding_Tcb[m] = NULL /\ mutex_head[m] = NULL

\* Whoever is queued under priority 0 is lost, and has a mutex for ever.
LostHolds == 0 \in ready => \E m \in K!Mutexes :
    /\ pHolding_Tcb[m] \in K!Tasks
    /\ pHolding_Tcb[m] \notin {cur_tcb} \cup ready \cup Asleep

LInv ==
    /\ PointersOK /\ Listed /\ Apart /\ RearIsLast
    /\ Awake /\ OwnOrTop /\ FreeIsFree /\ LostHolds
    /\ ~hung

IInv == clean => LInv

-----------------------------------------------------------------------------
(* What a step does to the lists.                                          *)

LEMMA TcbFacts ==
    /\ K!Tasks \subseteq K!Tcbs /\ 0 \in K!Tcbs /\ IDLE_PRIO \in K!Tcbs /\ K!Tcbs \subseteq Nat
    /\ 0 \notin K!Tasks /\ IDLE_PRIO \notin K!Tasks /\ 1 \in K!Tasks
    /\ NULL \notin K!Tcbs /\ \A t \in K!Tcbs : t = 0 \/ t = IDLE_PRIO \/ t \in K!Tasks
    /\ \A t \in K!Tasks : 1 <= t /\ t < IDLE_PRIO
    /\ K!IDLE_PRIO = IDLE_PRIO
<1>1. K!IDLE_PRIO = IDLE_PRIO
  BY DEF K!IDLE_PRIO, IDLE_PRIO
<1>. QED
  BY <1>1, ListsAssumption DEF K!Tasks, K!Tcbs, IDLE_PRIO

\* A head is that of a device or of a mutex.
LEMMA HeadCases ==
    /\ \A d \in K!Devices : /\ <<"device", d>> \in Heads
                            /\ FirstOf(<<"device", d>>) = dev_head[d]
                            /\ ListAt(<<"device", d>>) = From(dev_head[d])
    /\ \A m \in K!Mutexes : /\ <<"mutex", m>> \in Heads
                            /\ FirstOf(<<"mutex", m>>) = mutex_head[m]
                            /\ ListAt(<<"mutex", m>>) = From(mutex_head[m])
    /\ \A h \in Heads : \/ \E d \in K!Devices : h = <<"device", d>>
                        \/ \E m \in K!Mutexes : h = <<"mutex", m>>
    /\ \A d, e : <<"device", d>> = <<"device", e>> => d = e
    /\ \A m, n : <<"mutex", m>> = <<"mutex", n>> => m = n
    /\ \A d, m : <<"device", d>> # <<"mutex", m>>
BY DEF Heads, FirstOf, ListAt

LEMMA TheList ==
    ASSUME Listed, NEW h \in Heads
    PROVE  ListAt(h) \in TaskLists /\ LeadsAlong(sleep_queue, FirstOf(h), ListAt(h))
<1>1. PICK s \in TaskLists : LeadsAlong(sleep_queue, FirstOf(h), s)
  BY DEF Listed
<1>2. ListAt(h) = s
  BY <1>1, ListUnique DEF ListAt, From
<1>. QED
  BY <1>1, <1>2

LEMMA NewList ==
    ASSUME NEW h, NEW s \in TaskLists, LeadsAlong(sleep_queue', FirstOf(h)', s)
    PROVE  ListAt(h)' = s
BY ListUnique DEF ListAt, From

\* Only tasks are asleep.
LEMMA AsleepAreTasks ==
    ASSUME Listed
    PROVE  Asleep \subseteq K!Tasks /\ \A h \in Heads : Range(ListAt(h)) \subseteq Asleep
<1>1. \A h \in Heads : Range(ListAt(h)) \subseteq K!Tasks
  BY TheList, ListFacts
<1>. QED
  BY <1>1 DEF Asleep

\* A step that changes one list.
LEMMA OneList ==
    ASSUME Listed, NEW g \in Heads,
           NEW a \in TaskLists, LeadsAlong(sleep_queue', FirstOf(g)', a),
           \A h \in Heads \ {g} : /\ FirstOf(h)' = FirstOf(h)
                                  /\ \A t \in Range(ListAt(h)) : sleep_queue'[t] = sleep_queue[t]
    PROVE  /\ Listed'
           /\ ListAt(g)' = a
           /\ \A h \in Heads \ {g} : ListAt(h)' = ListAt(h)
<1>1. ListAt(g)' = a
  BY NewList
<1>2. ASSUME NEW h \in Heads \ {g}
      PROVE  /\ ListAt(h) \in TaskLists
             /\ LeadsAlong(sleep_queue', FirstOf(h)', ListAt(h))
             /\ ListAt(h)' = ListAt(h)
  <2>1. ListAt(h) \in TaskLists /\ LeadsAlong(sleep_queue, FirstOf(h), ListAt(h))
    BY TheList
  <2>2. LeadsAlong(sleep_queue', FirstOf(h), ListAt(h))
    BY <2>1, OtherLinks
  <2>3. LeadsAlong(sleep_queue', FirstOf(h)', ListAt(h))
    BY <2>2
  <2>. QED
    BY <2>1, <2>3, NewList
<1>3. Listed'
  BY <1>2 DEF Listed
<1>. QED
  BY <1>1, <1>2, <1>3

\* One task more on one list.
LEMMA OneMoreAsleep ==
    ASSUME Listed, Apart, NEW g \in Heads, NEW t, t \notin Asleep,
           Range(ListAt(g)') = Range(ListAt(g)) \cup {t},
           \A h \in Heads \ {g} : ListAt(h)' = ListAt(h)
    PROVE  Apart' /\ Asleep' = Asleep \cup {t}
<1> DEFINE R(h) == Range(ListAt(h))
<1>1. R(g)' = R(g) \cup {t} /\ \A h \in Heads \ {g} : R(h)' = R(h)
  OBVIOUS
<1>2. Heads' = Heads
  BY DEF Heads, K!Devices, K!Mutexes
<1>3. /\ Asleep = UNION {R(h) : h \in Heads}
      /\ Asleep' = UNION {R(h)' : h \in Heads}
      /\ \A h, k \in Heads : h # k => R(h) \cap R(k) = {}
  BY <1>2 DEF Asleep, Apart
<1>4. Apart' <=> \A h, k \in Heads : h # k => R(h)' \cap R(k)' = {}
  BY <1>2 DEF Apart
<1>. HIDE DEF R
<1>5. \A h, k \in Heads : h # k => R(h)' \cap R(k)' = {}
  BY <1>1, <1>3
<1>6. Asleep' = Asleep \cup {t}
  BY <1>1, <1>3
<1>. QED
  BY <1>4, <1>5, <1>6

\* One task fewer.
LEMMA OneAwakened ==
    ASSUME Listed, Apart, NEW g \in Heads, NEW t \in Range(ListAt(g)),
           Range(ListAt(g)') = Range(ListAt(g)) \ {t},
           \A h \in Heads \ {g} : ListAt(h)' = ListAt(h)
    PROVE  Apart' /\ Asleep' = Asleep \ {t}
<1> DEFINE R(h) == Range(ListAt(h))
<1>1. R(g)' = R(g) \ {t} /\ t \in R(g) /\ \A h \in Heads \ {g} : R(h)' = R(h)
  OBVIOUS
<1>2. Heads' = Heads
  BY DEF Heads, K!Devices, K!Mutexes
<1>3. /\ Asleep = UNION {R(h) : h \in Heads}
      /\ Asleep' = UNION {R(h)' : h \in Heads}
      /\ \A h, k \in Heads : h # k => R(h) \cap R(k) = {}
  BY <1>2 DEF Asleep, Apart
<1>4. Apart' <=> \A h, k \in Heads : h # k => R(h)' \cap R(k)' = {}
  BY <1>2 DEF Apart
<1>. HIDE DEF R
<1>5. \A h, k \in Heads : h # k => R(h)' \cap R(k)' = {}
  BY <1>1, <1>3
<1>6. Asleep' = Asleep \ {t}
  BY <1>1, <1>3
<1>. QED
  BY <1>4, <1>5, <1>6

-----------------------------------------------------------------------------
(* What a dispatch does to the run queue.                                  *)

\* The TCB of the smallest number is taken out.
LEMMA Dispatched ==
    ASSUME NEW r \in SUBSET K!Tcbs, K!dispatch(r)
    PROVE  /\ cur_tcb' \in K!Tcbs
           /\ ready' \subseteq r
           /\ cur_tcb' \in K!Tasks => cur_tcb' \in r /\ cur_tcb' \notin ready'
           /\ 0 \notin r /\ 1 \in r => cur_tcb' = 1 /\ ready' = r \ {1}
<1>1. CASE r = {}
  BY <1>1, TcbFacts DEF K!dispatch, K!HighestPrio, K!TakeFrom
<1>2. CASE r # {}
  <2>1. r \in SUBSET Nat
    BY TcbFacts
  <2>2. PICK x \in r : \A y \in r : x <= y
    BY <1>2, <2>1, LeastExists
  <2>3. K!Min(r) \in r /\ \A y \in r : K!Min(r) <= y
    BY <2>2 DEF K!Min
  <2>4. cur_tcb' = K!Min(r) /\ ready' = K!TakeFrom(r, K!Min(r))
    BY <1>2 DEF K!dispatch, K!HighestPrio
  <2>5. 0 \notin r /\ 1 \in r => K!Min(r) = 1
    <3>. SUFFICES ASSUME 0 \notin r, 1 \in r PROVE K!Min(r) = 1
      OBVIOUS
    <3>1. K!Min(r) \in Nat /\ K!Min(r) # 0 /\ K!Min(r) <= 1
      BY <2>1, <2>3
    <3>. QED
      BY <3>1
  <2>6. 1 # IDLE_PRIO
    BY DEF IDLE_PRIO
  <2>. QED
    BY <2>3, <2>4, <2>5, <2>6, TcbFacts DEF K!TakeFrom
<1>. QED
  BY <1>1, <1>2

\* A task goes to sleep: who is dispatched was queued, and so is on no list.
LEMMA FallsAsleep ==
    ASSUME LInv, Listed', K!TaskRuns, K!dispatch_sleep, UNCHANGED pHolding_Tcb,
           Asleep' = Asleep \cup {cur_tcb}
    PROVE  /\ cur_tcb' \in K!Tcbs /\ ready' \in SUBSET K!Tcbs
           /\ Awake' /\ LostHolds'
<1>1. ready \in SUBSET K!Tcbs /\ cur_tcb \in K!Tasks
  BY DEF LInv, PointersOK, K!TaskRuns
<1>2. /\ cur_tcb' \in K!Tcbs /\ ready' \subseteq ready
      /\ cur_tcb' \in K!Tasks => cur_tcb' \in ready /\ cur_tcb' \notin ready'
  BY <1>1, Dispatched DEF K!dispatch_sleep
<1>3. Asleep \subseteq K!Tasks /\ Asleep' \subseteq K!Tasks
  <2>1. Asleep \subseteq K!Tasks
    BY AsleepAreTasks DEF LInv
  <2>. QED
    BY <1>1, <2>1
<1>4. Awake
  BY DEF LInv
<1>5. Awake'
  BY <1>1, <1>2, <1>3, <1>4 DEF Awake
<1>6. LostHolds'
  <2>1. LostHolds
    BY DEF LInv
  <2>. QED
    BY <1>1, <1>2, <1>4, <2>1 DEF LostHolds, Awake
<1>. QED
  BY <1>1, <1>2, <1>5, <1>6

-----------------------------------------------------------------------------
(* Step by step: each keeps the invariant and is a step of the kernel.     *)

\* No list changes when neither a head nor a link does.
LEMMA SameLists ==
    ASSUME UNCHANGED list_vars
    PROVE  /\ \A h : FirstOf(h)' = FirstOf(h) /\ ListAt(h)' = ListAt(h)
           /\ Asleep' = Asleep
           /\ Listed => Listed'
           /\ Apart => Apart'
           /\ RearIsLast => RearIsLast'
           /\ \A m : From(mutex_head[m])' = From(mutex_head[m])
           /\ \A d : From(dev_head[d])' = From(dev_head[d])
<1>1. \A h : FirstOf(h)' = FirstOf(h) /\ ListAt(h)' = ListAt(h)
  BY DEF list_vars, FirstOf, ListAt, From
<1>. QED
  BY <1>1 DEF list_vars, From, Asleep, Listed, Apart, RearIsLast, Heads, K!Devices, K!Mutexes

\* A task that finds a mutex free.
LEMMA LockFreeStep ==
    ASSUME LInv, NEW m \in K!Mutexes, lock_free(m)
    PROVE  LInv' /\ K!TaskRuns /\ K!lock_free(m)
<1>. USE DEF LInv
<1>1. /\ UNCHANGED list_vars /\ UNCHANGED <<ready, cur_tcb, hung>>
      /\ cur_tcb \in K!Tasks /\ pHolding_Tcb[m] # cur_tcb /\ bLock[m] = 0
      /\ pHolding_Tcb' = [pHolding_Tcb EXCEPT ![m] = cur_tcb]
      /\ bLock' = [bLock EXCEPT ![m] = 1]
      /\ cur_prio' = [cur_prio EXCEPT ![cur_tcb] = 0]
  BY DEF lock_free, Unlisted, Usable, K!TaskRuns
<1>2. PointersOK'
  BY <1>1, TcbFacts DEF PointersOK, list_vars
<1>3. Listed' /\ Apart' /\ RearIsLast' /\ Asleep' = Asleep
  BY <1>1, SameLists
<1>4. Awake'
  BY <1>1, <1>3 DEF Awake
<1>5. OwnOrTop'
  <2>1. \A d \in K!Devices : cur_tcb \notin Range(From(dev_head[d]))
    BY HeadCases, AsleepAreTasks DEF Awake
  <2>2. \A d \in K!Devices : Range(From(dev_head[d])) \subseteq K!Tasks
    BY HeadCases, AsleepAreTasks
  <2>3. \A d \in K!Devices : From(dev_head[d])' = From(dev_head[d])
    BY <1>1, SameLists
  <2>. QED
    BY <1>1, <2>1, <2>2, <2>3, TcbFacts DEF OwnOrTop, PointersOK
<1>6. FreeIsFree'
  BY <1>1 DEF FreeIsFree, PointersOK, list_vars
<1>7. LostHolds'
  <2>. SUFFICES ASSUME 0 \in ready PROVE LostHolds'
    BY <1>1 DEF LostHolds
  <2>1. PICK n \in K!Mutexes : /\ pHolding_Tcb[n] \in K!Tasks
                               /\ pHolding_Tcb[n] \notin {cur_tcb} \cup ready \cup Asleep
    BY DEF LostHolds
  <2>2. n # m
    BY <1>1, <2>1, TcbFacts DEF FreeIsFree
  <2>. QED
    BY <1>1, <1>3, <2>1, <2>2 DEF LostHolds, PointersOK
<1>8. K!lock_free(m)
  <2>1. /\ \A n : From(mutex_head[n])' = From(mutex_head[n])
        /\ \A d : From(dev_head[d])' = From(dev_head[d])
    BY <1>1, SameLists
  <2>. QED
    BY <1>1, <2>1 DEF lock_free, Usable, K!lock_free, K!relocks, K!raised_prio
<1>. QED
  BY <1>1, <1>2, <1>3, <1>4, <1>5, <1>6, <1>7, <1>8 DEF K!TaskRuns

\* A task that blocks on a mutex.
LEMMA LockWaitStep ==
    ASSUME LInv, NEW m \in K!Mutexes, lock_wait(m)
    PROVE  LInv' /\ K!TaskRuns /\ K!lock_wait(m)
<1>. USE DEF LInv
<1> DEFINE g == <<"mutex", m>>
           s == ListAt(g)
           a == Append(s, cur_tcb)
<1>1. /\ cur_tcb \in K!Tasks /\ K!dispatch_sleep
      /\ sleep_queue' = linked_at_rear(m)
      /\ mutex_head' = [mutex_head EXCEPT ![m] = IF @ = NULL THEN cur_tcb ELSE @]
      /\ rear' = [rear EXCEPT ![m] = cur_tcb]
      /\ UNCHANGED <<cur_prio, holds_lock, lock_vars, due, dev_head, hung>>
  BY DEF lock_wait, Usable, K!TaskRuns
<1>2. g \in Heads /\ FirstOf(g) = mutex_head[m] /\ s = From(mutex_head[m])
  BY HeadCases
<1>. HIDE DEF g
<1>3. s \in TaskLists /\ LeadsAlong(sleep_queue, FirstOf(g), s) /\ Range(s) \subseteq Asleep
  BY <1>2, TheList, AsleepAreTasks
<1>4. cur_tcb \notin Asleep
  BY DEF Awake
<1>5. /\ mutex_head[m] # NULL => rear[m] = Last(s) /\ Last(s) \in Range(s)
      /\ mutex_head[m] = NULL => Range(s) = {}
  BY <1>2, <1>3, Ends, EmptyList DEF RearIsLast
<1>6. /\ sleep_queue'[cur_tcb] = NULL
      /\ \A u \in Range(s) : sleep_queue'[u] = IF u = Last(s) THEN cur_tcb ELSE sleep_queue[u]
      /\ \A u \in Asleep \ Range(s) : sleep_queue'[u] = sleep_queue[u]
      /\ sleep_queue' \in [K!Tcbs -> K!Tasks \cup {NULL}]
  <2> DEFINE ended == [sleep_queue EXCEPT ![cur_tcb] = NULL]
  <2>1. /\ ended \in [K!Tcbs -> K!Tasks \cup {NULL}]
        /\ ended[cur_tcb] = NULL
        /\ \A u \in K!Tasks \ {cur_tcb} : ended[u] = sleep_queue[u]
    BY <1>1, TcbFacts DEF PointersOK
  <2>2. sleep_queue' = IF mutex_head[m] = NULL THEN ended ELSE [ended EXCEPT ![rear[m]] = cur_tcb]
    BY <1>1 DEF linked_at_rear
  <2>3. Asleep \subseteq K!Tasks \ {cur_tcb} /\ Range(s) \subseteq K!Tasks \ {cur_tcb}
    BY <1>3, <1>4, AsleepAreTasks
  <2>. HIDE DEF ended
  <2>4. CASE mutex_head[m] = NULL
    BY <1>1, <1>5, <2>1, <2>2, <2>3, <2>4
  <2>5. CASE mutex_head[m] # NULL
    <3>1. rear[m] = Last(s) /\ rear[m] \in Range(s) /\ rear[m] # cur_tcb /\ rear[m] \in K!Tcbs
      BY <1>5, <2>3, <2>5, TcbFacts
    <3>. QED
      BY <1>1, <2>1, <2>2, <2>3, <2>5, <3>1, TcbFacts
  <2>. QED
    BY <2>4, <2>5
<1>. HIDE DEF s
<1>7. /\ a \in TaskLists
      /\ LeadsAlong(sleep_queue', FirstOf(g)', a)
      /\ Range(a) = Range(s) \cup {cur_tcb}
      /\ Last(a) = cur_tcb
  <2>1. FirstOf(g)' = IF FirstOf(g) = NULL THEN cur_tcb ELSE FirstOf(g)
    BY <1>1, <1>2, HeadCases DEF g, PointersOK, FirstOf
  <2>2. cur_tcb \in K!Tasks \ Range(s)
    BY <1>1, <1>3, <1>4
  <2>3. /\ a \in TaskLists
        /\ LeadsAlong(sleep_queue', IF FirstOf(g) = NULL THEN cur_tcb ELSE FirstOf(g), a)
        /\ Range(a) = Range(s) \cup {cur_tcb}
        /\ Last(a) = cur_tcb
    BY <1>3, <1>6, <2>2, LinkAtRear
  <2>. QED
    BY <2>1, <2>3
<1>8. \A h \in Heads \ {g} : /\ FirstOf(h)' = FirstOf(h)
                             /\ \A t \in Range(ListAt(h)) : sleep_queue'[t] = sleep_queue[t]
  <2>. SUFFICES ASSUME NEW h \in Heads \ {g}
                PROVE  /\ FirstOf(h)' = FirstOf(h)
                       /\ \A t \in Range(ListAt(h)) : sleep_queue'[t] = sleep_queue[t]
    OBVIOUS
  <2>1. FirstOf(h)' = FirstOf(h)
    <3>1. CASE \E d \in K!Devices : h = <<"device", d>>
      BY <1>1, <3>1 DEF FirstOf
    <3>2. CASE \E n \in K!Mutexes : h = <<"mutex", n>>
      BY <1>1, <3>2 DEF FirstOf, PointersOK, g
    <3>. QED
      BY <3>1, <3>2, HeadCases
  <2>2. Range(ListAt(h)) \subseteq Asleep \ Range(s)
    BY <1>2, AsleepAreTasks DEF Apart, s
  <2>. QED
    BY <1>6, <2>1, <2>2
<1>9. Listed' /\ ListAt(g)' = a /\ \A h \in Heads \ {g} : ListAt(h)' = ListAt(h)
  BY <1>2, <1>7, <1>8, OneList
<1>10. Apart' /\ Asleep' = Asleep \cup {cur_tcb}
  BY <1>2, <1>4, <1>7, <1>9, OneMoreAsleep DEF s
<1>11. cur_tcb' \in K!Tcbs /\ ready' \in SUBSET K!Tcbs /\ Awake' /\ LostHolds'
  BY <1>1, <1>9, <1>10, FallsAsleep DEF K!TaskRuns, lock_vars
<1>12. PointersOK'
  BY <1>1, <1>6, <1>11, TcbFacts DEF PointersOK, lock_vars
<1>13. /\ From(mutex_head[m])' = Append(From(mutex_head[m]), cur_tcb)
       /\ \A n \in K!Mutexes \ {m} : From(mutex_head[n])' = From(mutex_head[n])
       /\ \A d \in K!Devices : From(dev_head[d])' = From(dev_head[d])
  <2>1. \A d \in K!Devices : ListAt(<<"device", d>>)' = ListAt(<<"device", d>>)
    BY <1>9, HeadCases DEF g
  <2>2. \A n \in K!Mutexes \ {m} : ListAt(<<"mutex", n>>)' = ListAt(<<"mutex", n>>)
    BY <1>9, HeadCases DEF g
  <2>. QED
    BY <1>9, <2>1, <2>2 DEF g, s, ListAt, FirstOf
<1>14. RearIsLast'
  <2>1. Last(From(mutex_head[m])') = rear'[m]
    BY <1>1, <1>2, <1>7, <1>13 DEF PointersOK
  <2>2. \A n \in K!Mutexes \ {m} : mutex_head'[n] = mutex_head[n] /\ rear'[n] = rear[n]
    BY <1>1 DEF PointersOK
  <2>3. \A n \in K!Mutexes \ {m} : mutex_head'[n] # NULL => Last(From(mutex_head[n])') = rear'[n]
    BY <1>13, <2>2 DEF RearIsLast
  <2>4. K!Mutexes' = K!Mutexes
    BY DEF K!Mutexes
  <2>. QED
    BY <2>1, <2>3, <2>4 DEF RearIsLast
<1>15. OwnOrTop'
  BY <1>1, <1>13 DEF OwnOrTop, K!Devices, K!Tcbs, K!Tasks
<1>16. FreeIsFree'
  BY <1>1 DEF FreeIsFree, PointersOK, lock_vars, lock_wait
<1>17. K!lock_wait(m)
  <2>1. [n \in 1 .. OS_NUM_MUTEX |-> From(mutex_head[n])']
          = [[n \in 1 .. OS_NUM_MUTEX |-> From(mutex_head[n])] EXCEPT ![m] = Append(@, cur_tcb)]
    BY <1>13 DEF K!Mutexes
  <2>2. [d \in 0 .. (NUM_DEVICES - 1) |-> Range(From(dev_head[d])')]
          = [d \in 0 .. (NUM_DEVICES - 1) |-> Range(From(dev_head[d]))]
    BY <1>13 DEF K!Devices
  <2>. QED
    BY <1>1, <2>1, <2>2 DEF K!lock_wait, K!relocks, K!at_rear, lock_wait, Usable, lock_vars
<1>. QED
  BY <1>1, <1>9, <1>10, <1>11, <1>12, <1>14, <1>15, <1>16, <1>17 DEF K!TaskRuns

\* A task that gives a mutex up, to the first that waits for it or to nobody.
LEMMA UnlockStep ==
    ASSUME LInv, NEW m \in K!Mutexes, mutex_unlock(m)
    PROVE  LInv' /\ K!TaskRuns /\ K!unlock(m)
<1>. USE DEF LInv
<1> DEFINE g == <<"mutex", m>>
           s == ListAt(g)
           next == mutex_head[m]
<1>1. /\ cur_tcb \in K!Tasks /\ pHolding_Tcb[m] = cur_tcb /\ K!TaskRuns
      /\ cur_prio' = [cur_prio EXCEPT ![cur_tcb] = cur_tcb]
      /\ UNCHANGED <<cur_tcb, mutexid, bAvailable, due, dev_head, hung>>
  BY DEF mutex_unlock, Usable, K!TaskRuns, K!native_prio
<1>2. g \in Heads /\ FirstOf(g) = next /\ s = From(next)
  BY HeadCases
<1>. HIDE DEF g
<1>3. s \in TaskLists /\ LeadsAlong(sleep_queue, next, s) /\ Range(s) \subseteq Asleep
  BY <1>2, TheList, AsleepAreTasks
<1>4. cur_tcb \notin Asleep /\ Asleep \subseteq K!Tasks
  BY AsleepAreTasks DEF Awake
<1>5. \A d \in K!Devices : Range(From(dev_head[d])) \subseteq Asleep
  BY HeadCases, AsleepAreTasks
<1>6. \A t \in K!Tcbs : cur_prio'[t] \in {0, t} /\ (t # cur_tcb => cur_prio'[t] = cur_prio[t])
  BY <1>1, TcbFacts DEF OwnOrTop, PointersOK
<1>7. \A d \in K!Devices : \A t \in Range(From(dev_head[d])) : cur_prio'[t] # 0
  <2>. SUFFICES ASSUME NEW d \in K!Devices, NEW t \in Range(From(dev_head[d]))
                PROVE  cur_prio'[t] # 0
    OBVIOUS
  <2>1. t \in K!Tcbs /\ t # cur_tcb
    BY <1>4, <1>5, TcbFacts
  <2>2. cur_prio[t] # 0
    BY DEF OwnOrTop
  <2>. QED
    BY <1>6, <2>1, <2>2
<1>8. CASE next = NULL
  <2>1. /\ bLock' = [bLock EXCEPT ![m] = 0]
        /\ pHolding_Tcb' = [pHolding_Tcb EXCEPT ![m] = NULL]
        /\ UNCHANGED <<ready, mutex_head, rear, sleep_queue>>
        /\ holds_lock' = [holds_lock EXCEPT ![cur_tcb] = 0]
    BY <1>8 DEF mutex_unlock
  <2>2. UNCHANGED list_vars
    BY <1>1, <2>1 DEF list_vars
  <2>3. Listed' /\ Apart' /\ RearIsLast' /\ Asleep' = Asleep
    BY <2>2, SameLists
  <2>4. PointersOK'
    BY <1>1, <2>1, TcbFacts DEF PointersOK
  <2>5. Awake'
    BY <1>1, <2>1, <2>3 DEF Awake
  <2>6. OwnOrTop'
    BY <1>6, <1>7, <2>2, SameLists DEF OwnOrTop, K!Devices, K!Tcbs, K!Tasks
  <2>7. FreeIsFree'
    BY <1>8, <2>1 DEF FreeIsFree, PointersOK
  <2>8. LostHolds'
    <3>. SUFFICES ASSUME 0 \in ready PROVE LostHolds'
      BY <2>1 DEF LostHolds
    <3>1. PICK n \in K!Mutexes : /\ pHolding_Tcb[n] \in K!Tasks
                                 /\ pHolding_Tcb[n] \notin {cur_tcb} \cup ready \cup Asleep
      BY DEF LostHolds
    <3>2. n # m
      BY <1>1, <3>1
    <3>. QED
      BY <1>1, <2>1, <2>3, <3>1, <3>2 DEF LostHolds, PointersOK
  <2>9. K!unlock(m)
    <3>1. /\ \A n : From(mutex_head[n])' = From(mutex_head[n])
          /\ \A d : From(dev_head[d])' = From(dev_head[d])
      BY <2>2, SameLists
    <3>2. From(mutex_head[m]) = <<>>
      BY <1>2, <1>3, <1>8, Ends
    <3>. QED
      BY <1>1, <2>1, <3>1, <3>2 DEF K!unlock, K!Mutexes, mutex_unlock, Usable, K!native_prio
  <2>. QED
    BY <1>1, <2>3, <2>4, <2>5, <2>6, <2>7, <2>8, <2>9
<1>9. CASE next # NULL
  <2>1. /\ ready' = ready \cup {cur_prio[next]}
        /\ mutex_head' = [mutex_head EXCEPT ![m] = sleep_queue[next]]
        /\ rear' = IF sleep_queue[next] # NULL THEN rear ELSE [rear EXCEPT ![m] = NULL]
        /\ sleep_queue' = [sleep_queue EXCEPT ![next] = NULL]
        /\ bLock' = [bLock EXCEPT ![m] = 1]
        /\ pHolding_Tcb' = [pHolding_Tcb EXCEPT ![m] = next]
        /\ holds_lock' = [holds_lock EXCEPT ![cur_tcb] = 0, ![next] = 1]
    BY <1>9 DEF mutex_unlock, second
  <2>2. next \in K!Tasks /\ next \in K!Tcbs
    BY <1>9, TcbFacts DEF PointersOK
  <2>3. /\ \A u \in K!Tcbs \ {next} : sleep_queue'[u] = sleep_queue[u]
        /\ sleep_queue' \in [K!Tcbs -> K!Tasks \cup {NULL}]
        /\ sleep_queue[next] \in K!Tasks \cup {NULL}
    BY <2>1, <2>2 DEF PointersOK
  <2>. HIDE DEF s
  <2>4. /\ s # <<>> /\ next = Head(s) /\ next \in Range(s)
        /\ Tail(s) \in TaskLists
        /\ LeadsAlong(sleep_queue', sleep_queue[next], Tail(s))
        /\ Range(Tail(s)) = Range(s) \ {next}
        /\ sleep_queue[next] # NULL => Last(Tail(s)) = Last(s)
    <3>1. \A u \in Range(s) \ {next} : sleep_queue'[u] = sleep_queue[u]
      BY <1>3, <1>4, <2>3, TcbFacts
    <3>. HIDE DEF next
    <3>. QED
      BY <1>3, <1>9, <3>1, Unlink
  <2>5. FirstOf(g)' = sleep_queue[next]
    BY <2>1 DEF g, FirstOf, PointersOK
  <2>6. \A h \in Heads \ {g} : /\ FirstOf(h)' = FirstOf(h)
                               /\ \A t \in Range(ListAt(h)) : sleep_queue'[t] = sleep_queue[t]
    <3>. SUFFICES ASSUME NEW h \in Heads \ {g}
                  PROVE  /\ FirstOf(h)' = FirstOf(h)
                         /\ \A t \in Range(ListAt(h)) : sleep_queue'[t] = sleep_queue[t]
      OBVIOUS
    <3>1. FirstOf(h)' = FirstOf(h)
      <4>1. CASE \E d \in K!Devices : h = <<"device", d>>
        BY <1>1, <4>1 DEF FirstOf
      <4>2. CASE \E n \in K!Mutexes : h = <<"mutex", n>>
        BY <2>1, <4>2 DEF FirstOf, PointersOK, g
      <4>. QED
        BY <4>1, <4>2, HeadCases
    <3>2. Range(ListAt(h)) \subseteq Asleep \ Range(s)
      BY <1>2, AsleepAreTasks DEF Apart, s
    <3>3. Range(ListAt(h)) \subseteq K!Tcbs \ {next}
      BY <1>4, <2>4, <3>2, TcbFacts
    <3>. QED
      BY <2>3, <3>1, <3>3
  <2>7. Listed' /\ ListAt(g)' = Tail(s) /\ \A h \in Heads \ {g} : ListAt(h)' = ListAt(h)
    BY <1>2, <2>4, <2>5, <2>6, OneList
  <2>8. Apart' /\ Asleep' = Asleep \ {next}
    BY <1>2, <2>4, <2>7, OneAwakened DEF s
  <2>9. next # cur_tcb /\ next \notin ready /\ next \in Asleep
    BY <1>3, <1>4, <2>4 DEF Awake
  <2>10. cur_prio[next] \in {0, next} /\ ready' \in SUBSET K!Tcbs
    <3>1. cur_prio[next] \in {0, next}
      BY <2>2 DEF OwnOrTop
    <3>. HIDE DEF next
    <3>. QED
      BY <2>1, <2>2, <3>1, TcbFacts DEF PointersOK
  <2>11. PointersOK'
    BY <1>1, <2>1, <2>2, <2>3, <2>10, TcbFacts DEF PointersOK
  <2>12. Awake'
    BY <1>1, <1>4, <2>1, <2>8, <2>9, <2>10, TcbFacts DEF Awake
  <2>13. /\ From(mutex_head[m])' = Tail(From(mutex_head[m]))
         /\ \A n \in K!Mutexes \ {m} : From(mutex_head[n])' = From(mutex_head[n])
         /\ \A d \in K!Devices : From(dev_head[d])' = From(dev_head[d])
    <3>1. \A d \in K!Devices : ListAt(<<"device", d>>)' = ListAt(<<"device", d>>)
      BY <2>7, HeadCases DEF g
    <3>2. \A n \in K!Mutexes \ {m} : ListAt(<<"mutex", n>>)' = ListAt(<<"mutex", n>>)
      BY <2>7, HeadCases DEF g
    <3>. QED
      BY <2>7, <3>1, <3>2 DEF g, s, ListAt, FirstOf
  <2>14. RearIsLast'
    <3>1. mutex_head'[m] = sleep_queue[next]
      BY <2>1 DEF PointersOK
    <3>2. sleep_queue[next] # NULL => Last(From(mutex_head[m])') = rear'[m]
      BY <1>2, <1>9, <2>1, <2>4, <2>13 DEF RearIsLast
    <3>3. \A n \in K!Mutexes \ {m} : mutex_head'[n] = mutex_head[n] /\ rear'[n] = rear[n]
      BY <2>1 DEF PointersOK
    <3>4. \A n \in K!Mutexes \ {m} : mutex_head'[n] # NULL => Last(From(mutex_head[n])') = rear'[n]
      BY <2>13, <3>3 DEF RearIsLast
    <3>5. K!Mutexes' = K!Mutexes
      BY DEF K!Mutexes
    <3>. QED
      BY <3>1, <3>2, <3>4, <3>5 DEF RearIsLast
  <2>15. OwnOrTop'
    BY <1>6, <1>7, <2>13 DEF OwnOrTop, K!Devices, K!Tcbs, K!Tasks
  <2>16. FreeIsFree'
    BY <2>1 DEF FreeIsFree, PointersOK
  <2>17. LostHolds'
    <3>1. CASE 0 \in ready
      <4>1. PICK n \in K!Mutexes : /\ pHolding_Tcb[n] \in K!Tasks
                                   /\ pHolding_Tcb[n] \notin {cur_tcb} \cup ready \cup Asleep
        BY <3>1 DEF LostHolds
      <4>2. n # m /\ pHolding_Tcb'[n] = pHolding_Tcb[n]
        BY <1>1, <2>1, <4>1 DEF PointersOK
      <4>3. pHolding_Tcb[n] # next /\ pHolding_Tcb[n] # 0
        BY <2>9, <4>1, TcbFacts
      <4>. QED
        BY <1>1, <2>1, <2>8, <2>10, <4>1, <4>2, <4>3 DEF LostHolds, K!Mutexes, K!Tasks
    <3>2. CASE 0 \notin ready /\ cur_prio[next] = 0
      <4>1. pHolding_Tcb'[m] = next
        BY <2>1 DEF PointersOK
      <4>2. next # 0
        BY <2>2, TcbFacts
      <4>. QED
        BY <1>1, <2>1, <2>2, <2>8, <2>9, <3>2, <4>1, <4>2 DEF LostHolds, K!Mutexes, K!Tasks
    <3>3. CASE 0 \notin ready /\ cur_prio[next] # 0
      BY <2>1, <3>3 DEF LostHolds
    <3>. QED
      BY <3>1, <3>2, <3>3
  <2>18. K!unlock(m)
    <3>1. [n \in 1 .. OS_NUM_MUTEX |-> From(mutex_head[n])']
            = [[n \in 1 .. OS_NUM_MUTEX |-> From(mutex_head[n])] EXCEPT ![m] = Tail(@)]
      BY <2>13 DEF K!Mutexes
    <3>2. [d \in 0 .. (NUM_DEVICES - 1) |-> Range(From(dev_head[d])')]
            = [d \in 0 .. (NUM_DEVICES - 1) |-> Range(From(dev_head[d]))]
      BY <2>13 DEF K!Devices
    <3>3. From(mutex_head[m]) # <<>> /\ Head(From(mutex_head[m])) = next
      BY <1>2, <2>4
    <3>. QED
      BY <1>1, <2>1, <3>1, <3>2, <3>3 DEF K!unlock, K!Mutexes, mutex_unlock, Usable, K!native_prio
  <2>. QED
    BY <1>1, <2>7, <2>8, <2>11, <2>12, <2>14, <2>15, <2>16, <2>17, <2>18
<1>. QED
  BY <1>8, <1>9

\* A task that waits for a device.
LEMMA EventWaitStep ==
    ASSUME LInv, NEW dev \in K!Devices, event_wait(dev)
    PROVE  LInv' /\ K!TaskRuns /\ K!dev_wait(dev)
<1>. USE DEF LInv
<1> DEFINE g == <<"device", dev>>
           s == ListAt(g)
<1>1. /\ cur_tcb \in K!Tasks /\ K!dispatch_sleep /\ cur_prio[cur_tcb] # 0
      /\ sleep_queue' = [sleep_queue EXCEPT ![cur_tcb] = dev_head[dev]]
      /\ dev_head' = [dev_head EXCEPT ![dev] = cur_tcb]
      /\ UNCHANGED <<cur_prio, holds_lock, lock_vars, due, mutex_head, rear, hung>>
  BY DEF event_wait, K!TaskRuns
<1>2. g \in Heads /\ FirstOf(g) = dev_head[dev] /\ s = From(dev_head[dev])
  BY HeadCases
<1>. HIDE DEF g
<1>3. s \in TaskLists /\ LeadsAlong(sleep_queue, FirstOf(g), s) /\ Range(s) \subseteq Asleep
  BY <1>2, TheList, AsleepAreTasks
<1>4. cur_tcb \notin Asleep /\ Asleep \subseteq K!Tasks
  BY AsleepAreTasks DEF Awake
<1>5. /\ sleep_queue'[cur_tcb] = dev_head[dev]
      /\ \A u \in K!Tasks \ {cur_tcb} : sleep_queue'[u] = sleep_queue[u]
      /\ sleep_queue' \in [K!Tcbs -> K!Tasks \cup {NULL}]
  BY <1>1, TcbFacts DEF PointersOK
<1>. HIDE DEF s
<1>6. PICK a \in TaskLists : /\ LeadsAlong(sleep_queue', cur_tcb, a)
                             /\ Range(a) = Range(s) \cup {cur_tcb}
  <2>1. /\ cur_tcb \in K!Tasks \ Range(s)
        /\ sleep_queue'[cur_tcb] = FirstOf(g)
        /\ \A u \in Range(s) : sleep_queue'[u] = sleep_queue[u]
    BY <1>1, <1>2, <1>3, <1>4, <1>5
  <2>. QED
    BY <1>3, <2>1, LinkAtHead
<1>7. FirstOf(g)' = cur_tcb
  BY <1>1 DEF g, FirstOf, PointersOK
<1>8. \A h \in Heads \ {g} : /\ FirstOf(h)' = FirstOf(h)
                             /\ \A t \in Range(ListAt(h)) : sleep_queue'[t] = sleep_queue[t]
  <2>. SUFFICES ASSUME NEW h \in Heads \ {g}
                PROVE  /\ FirstOf(h)' = FirstOf(h)
                       /\ \A t \in Range(ListAt(h)) : sleep_queue'[t] = sleep_queue[t]
    OBVIOUS
  <2>1. FirstOf(h)' = FirstOf(h)
    <3>1. CASE \E d \in K!Devices : h = <<"device", d>>
      BY <1>1, <3>1 DEF FirstOf, PointersOK, g
    <3>2. CASE \E n \in K!Mutexes : h = <<"mutex", n>>
      BY <1>1, <3>2 DEF FirstOf
    <3>. QED
      BY <3>1, <3>2, HeadCases
  <2>2. Range(ListAt(h)) \subseteq K!Tasks \ {cur_tcb}
    BY <1>4, AsleepAreTasks
  <2>. QED
    BY <1>5, <2>1, <2>2
<1>9. Listed' /\ ListAt(g)' = a /\ \A h \in Heads \ {g} : ListAt(h)' = ListAt(h)
  BY <1>2, <1>6, <1>7, <1>8, OneList
<1>10. Apart' /\ Asleep' = Asleep \cup {cur_tcb}
  BY <1>2, <1>4, <1>6, <1>9, OneMoreAsleep DEF s
<1>11. cur_tcb' \in K!Tcbs /\ ready' \in SUBSET K!Tcbs /\ Awake' /\ LostHolds'
  BY <1>1, <1>9, <1>10, FallsAsleep DEF K!TaskRuns, lock_vars
<1>12. PointersOK'
  BY <1>1, <1>5, <1>11, TcbFacts DEF PointersOK, lock_vars
<1>13. /\ Range(From(dev_head[dev])') = Range(From(dev_head[dev])) \cup {cur_tcb}
       /\ \A d \in K!Devices \ {dev} : From(dev_head[d])' = From(dev_head[d])
       /\ \A m \in K!Mutexes : From(mutex_head[m])' = From(mutex_head[m])
  <2>1. \A d \in K!Devices \ {dev} : ListAt(<<"device", d>>)' = ListAt(<<"device", d>>)
    BY <1>9, HeadCases DEF g
  <2>2. \A m \in K!Mutexes : ListAt(<<"mutex", m>>)' = ListAt(<<"mutex", m>>)
    BY <1>9, HeadCases DEF g
  <2>. QED
    BY <1>6, <1>9, <2>1, <2>2 DEF g, s, ListAt, FirstOf
<1>14. RearIsLast'
  BY <1>1, <1>13 DEF RearIsLast, K!Mutexes
<1>15. OwnOrTop'
  <2>1. \A d \in K!Devices : \A t \in Range(From(dev_head[d])') : cur_prio[t] # 0
    BY <1>1, <1>13 DEF OwnOrTop
  <2>. QED
    BY <1>1, <2>1 DEF OwnOrTop, K!Devices, K!Tcbs, K!Tasks
<1>16. FreeIsFree'
  BY <1>1 DEF FreeIsFree, lock_vars, K!Mutexes
<1>17. K!dev_wait(dev)
  <2>1. [m \in 1 .. OS_NUM_MUTEX |-> From(mutex_head[m])']
          = [m \in 1 .. OS_NUM_MUTEX |-> From(mutex_head[m])]
    BY <1>13 DEF K!Mutexes
  <2>2. [d \in 0 .. (NUM_DEVICES - 1) |-> Range(From(dev_head[d])')]
          = [[d \in 0 .. (NUM_DEVICES - 1) |-> Range(From(dev_head[d]))]
                EXCEPT ![dev] = @ \cup {cur_tcb}]
    BY <1>13 DEF K!Devices
  <2>. QED
    BY <1>1, <2>1, <2>2 DEF K!dev_wait, K!mutex_vars, lock_vars
<1>. QED
  BY <1>1, <1>9, <1>10, <1>11, <1>12, <1>14, <1>15, <1>16, <1>17 DEF K!TaskRuns

\* A tick: the lists of the signalled devices are given up with their links.
LEMMA TickStep ==
    ASSUME LInv, dev_update
    PROVE  LInv' /\ K!dev_update
<1>. USE DEF LInv
<1> DEFINE signalled == {d \in K!Devices : due[d] = 1}
           woken     == UNION {Range(From(dev_head[d])) : d \in signalled}
           queued    == ready \cup {cur_prio[t] : t \in woken}
           saved     == queued \cup {cur_prio[cur_tcb]}
<1>1. \A d \in signalled : ~Circular(dev_head[d])
  BY HeadCases DEF Listed, Circular
<1>2. /\ dev_head' = [d \in K!Devices |-> IF d \in signalled THEN NULL ELSE dev_head[d]]
      /\ due' = [d \in K!Devices |-> K!match_in(d)]
      /\ IF K!preempts(queued) THEN K!dispatch_save(queued)
                               ELSE ready' = queued /\ UNCHANGED cur_tcb
      /\ UNCHANGED <<cur_prio, holds_lock, lock_vars, sleep_queue, mutex_head, rear, hung>>
  BY <1>1 DEF dev_update
<1>. HIDE DEF signalled
<1>3. signalled \subseteq K!Devices
  BY DEF signalled
<1>4. /\ \A d \in K!Devices : From(dev_head[d])' = IF d \in signalled THEN <<>> ELSE From(dev_head[d])
      /\ \A m : From(mutex_head[m])' = From(mutex_head[m])
  <2>1. ASSUME NEW d \in K!Devices
        PROVE  From(dev_head[d])' = IF d \in signalled THEN <<>> ELSE From(dev_head[d])
    <3>1. From(dev_head[d])' = ListFrom(sleep_queue, dev_head'[d])
      BY <1>2 DEF From
    <3>2. CASE d \in signalled
      <4>1. dev_head'[d] = NULL
        BY <1>2, <3>2
      <4>2. ListFrom(sleep_queue, NULL) = <<>>
        BY DEF ListFrom
      <4>. QED
        BY <3>1, <3>2, <4>1, <4>2
    <3>3. CASE d \notin signalled
      <4>1. dev_head'[d] = dev_head[d]
        BY <1>2, <3>3
      <4>. QED
        BY <3>1, <3>3, <4>1 DEF From
    <3>. QED
      BY <3>2, <3>3
  <2>2. \A m : From(mutex_head[m])' = From(mutex_head[m])
    BY <1>2 DEF From
  <2>. QED
    BY <2>1, <2>2
<1>5. ASSUME NEW h \in Heads
      PROVE  /\ ListAt(h)' \in TaskLists
             /\ LeadsAlong(sleep_queue', FirstOf(h)', ListAt(h)')
             /\ ListAt(h)' = ListAt(h) \/ ListAt(h)' = <<>>
  <2>1. ListAt(h) \in TaskLists /\ LeadsAlong(sleep_queue, FirstOf(h), ListAt(h))
    BY TheList
  <2>2. \/ FirstOf(h)' = FirstOf(h) /\ ListAt(h)' = ListAt(h)
        \/ FirstOf(h)' = NULL /\ ListAt(h)' = <<>>
    <3>1. CASE \E d \in K!Devices : h = <<"device", d>>
      BY <1>2, <1>4, <3>1 DEF FirstOf, ListAt
    <3>2. CASE \E m \in K!Mutexes : h = <<"mutex", m>>
      BY <1>2, <1>4, <3>2 DEF FirstOf, ListAt
    <3>. QED
      BY <3>1, <3>2, HeadCases
  <2>. QED
    BY <1>2, <2>1, <2>2, EmptyList
<1>6. Heads' = Heads /\ K!Mutexes' = K!Mutexes /\ K!Devices' = K!Devices
  BY DEF Heads, K!Devices, K!Mutexes
<1>7. Listed'
  BY <1>5, <1>6 DEF Listed
<1>8. Apart' /\ Asleep' \subseteq Asleep
  <2>1. \A h \in Heads : Range(ListAt(h)') \subseteq Range(ListAt(h))
    BY <1>5, EmptyList
  <2>. QED
    BY <1>6, <2>1 DEF Apart, Asleep
<1>9. RearIsLast'
  BY <1>2, <1>4, <1>6 DEF RearIsLast
<1>10. woken \subseteq Asleep /\ Asleep \subseteq K!Tasks /\ woken \cap Asleep' = {}
  <2>1. \A d \in signalled : Range(From(dev_head[d])) \subseteq Asleep
    BY <1>3, HeadCases, AsleepAreTasks
  <2>2. ASSUME NEW d \in signalled, NEW h \in Heads
        PROVE  Range(From(dev_head[d])) \cap Range(ListAt(h)') = {}
    <3>1. CASE h = <<"device", d>>
      <4>1. ListAt(h)' = <<>>
        BY <1>3, <1>4, <3>1 DEF ListAt, FirstOf
      <4>. QED
        BY <4>1, EmptyList
    <3>2. CASE h # <<"device", d>>
      <4>1. <<"device", d>> \in Heads /\ ListAt(<<"device", d>>) = From(dev_head[d])
        BY <1>3, HeadCases
      <4>2. Range(From(dev_head[d])) \cap Range(ListAt(h)) = {}
        BY <3>2, <4>1 DEF Apart
      <4>3. Range(ListAt(h)') \subseteq Range(ListAt(h))
        BY <1>5, EmptyList
      <4>. QED
        BY <4>2, <4>3
    <3>. QED
      BY <3>1, <3>2
  <2>. QED
    BY <1>6, <2>1, <2>2, AsleepAreTasks DEF Asleep
<1>11. \A t \in woken : cur_prio[t] = t /\ t \in K!Tasks
  <2>. SUFFICES ASSUME NEW t \in woken PROVE cur_prio[t] = t /\ t \in K!Tasks
    OBVIOUS
  <2>1. t \in K!Tasks /\ t \in K!Tcbs
    BY <1>10, TcbFacts
  <2>2. cur_prio[t] # 0
    BY <1>3 DEF OwnOrTop
  <2>. QED
    BY <2>1, <2>2 DEF OwnOrTop
<1>. HIDE DEF woken
<1>12. queued = ready \cup woken /\ queued \in SUBSET K!Tcbs
  <2>1. {cur_prio[t] : t \in woken} = woken
    BY <1>11
  <2>2. woken \subseteq K!Tcbs /\ ready \subseteq K!Tcbs
    BY <1>10, TcbFacts DEF PointersOK
  <2>. QED
    BY <2>1, <2>2
<1>. HIDE DEF queued
<1>13. /\ cur_tcb' \in K!Tcbs /\ ready' \in SUBSET K!Tcbs
       /\ Awake' /\ LostHolds'
  <2>1. LostHolds /\ Awake /\ cur_tcb \in K!Tcbs /\ ready \in SUBSET K!Tcbs
    BY DEF PointersOK
  <2>2. CASE ~K!preempts(queued)
    <3>1. ready' = queued /\ cur_tcb' = cur_tcb
      BY <1>2, <2>2
    <3>2. Awake'
      BY <1>8, <1>10, <1>12, <2>1, <3>1 DEF Awake
    <3>3. LostHolds'
      BY <1>2, <1>6, <1>8, <1>10, <1>12, <2>1, <3>1, TcbFacts DEF LostHolds, lock_vars
    <3>. QED
      BY <1>12, <2>1, <3>1, <3>2, <3>3
  <2>3. CASE K!preempts(queued)
    <3>1. K!dispatch(saved)
      BY <1>2, <2>3 DEF K!dispatch_save
    <3>2. cur_prio[cur_tcb] # 0
      <4>1. K!HighestPrio(queued) \in Nat
        <5>1. CASE queued = {}
          BY <5>1 DEF K!HighestPrio
        <5>2. CASE queued # {}
          <6>1. queued \in SUBSET Nat
            BY <1>12, TcbFacts
          <6>2. PICK x \in queued : \A y \in queued : x <= y
            BY <5>2, <6>1, LeastExists
          <6>3. K!Min(queued) \in queued
            BY <6>2 DEF K!Min
          <6>. QED
            BY <5>2, <6>1, <6>3 DEF K!HighestPrio
        <5>. QED
          BY <5>1, <5>2
      <4>. QED
        BY <2>3, <4>1 DEF K!preempts
    <3>3. cur_prio[cur_tcb] = cur_tcb
      BY <2>1, <3>2 DEF OwnOrTop
    <3>4. saved = ready \cup woken \cup {cur_tcb} /\ saved \in SUBSET K!Tcbs
      BY <1>12, <2>1, <3>3
    <3>. HIDE DEF saved
    <3>5. /\ cur_tcb' \in K!Tcbs /\ ready' \subseteq saved
          /\ cur_tcb' \in K!Tasks => cur_tcb' \in saved /\ cur_tcb' \notin ready'
      BY <3>1, <3>4, Dispatched
    <3>6. saved \cap Asleep' = {}
      BY <1>8, <1>10, <2>1, <3>4 DEF Awake
    <3>7. Awake'
      BY <1>8, <1>10, <3>5, <3>6 DEF Awake, K!Tasks
    <3>8. LostHolds'
      <4>. SUFFICES ASSUME 0 \in ready' PROVE LostHolds'
        BY DEF LostHolds
      <4>1. 0 \in ready
        BY <1>10, <3>2, <3>3, <3>4, <3>5, TcbFacts
      <4>2. PICK n \in K!Mutexes : /\ pHolding_Tcb[n] \in K!Tasks
                                   /\ pHolding_Tcb[n] \notin {cur_tcb} \cup ready \cup Asleep
        BY <2>1, <4>1 DEF LostHolds
      <4>3. pHolding_Tcb[n] \notin saved
        BY <1>10, <3>4, <4>2
      <4>4. pHolding_Tcb' = pHolding_Tcb
        BY <1>2 DEF lock_vars
      <4>. QED
        BY <1>6, <1>8, <3>5, <4>2, <4>3, <4>4 DEF LostHolds, K!Tasks
    <3>. QED
      BY <3>4, <3>5, <3>7, <3>8
  <2>. QED
    BY <2>2, <2>3
<1>14. PointersOK'
  <2>1. dev_head' \in [K!Devices -> K!Tasks \cup {NULL}]
    BY <1>2 DEF PointersOK
  <2>. QED
    BY <1>2, <1>13, <2>1 DEF PointersOK, lock_vars
<1>15. OwnOrTop'
  <2>1. \A d \in K!Devices : \A t \in Range(From(dev_head[d])') : cur_prio[t] # 0
    BY <1>4, EmptyList DEF OwnOrTop
  <2>. QED
    BY <1>2, <1>6, <2>1 DEF OwnOrTop, K!Tcbs, K!Tasks
<1>16. FreeIsFree'
  BY <1>2, <1>6 DEF FreeIsFree, lock_vars
<1>17. K!dev_update
  <2> DEFINE Waiting == [d \in 0 .. (NUM_DEVICES - 1) |-> Range(From(dev_head[d]))]
  <2>1. [d \in 0 .. (NUM_DEVICES - 1) |-> Range(From(dev_head[d])')]
          = [d \in K!Devices |-> IF d \in signalled THEN {} ELSE Waiting[d]]
    BY <1>4, EmptyList DEF K!Devices
  <2>2. [m \in 1 .. OS_NUM_MUTEX |-> From(mutex_head[m])']
          = [m \in 1 .. OS_NUM_MUTEX |-> From(mutex_head[m])]
    BY <1>4
  <2>3. woken = UNION {Waiting[d] : d \in signalled}
    BY <1>3 DEF woken, K!Devices
  <2>. QED
    BY <1>2, <2>1, <2>2, <2>3 DEF K!dev_update, K!mutex_vars, lock_vars, signalled, queued
<1>. QED
  BY <1>2, <1>7, <1>8, <1>9, <1>13, <1>14, <1>15, <1>16, <1>17

\* A step that leaves lists, run queue, priorities and locks as they are.
LEMMA NothingListed ==
    ASSUME LInv, UNCHANGED <<ready, cur_tcb, cur_prio, bLock, pHolding_Tcb, list_vars, hung>>
    PROVE  LInv'
<1>. USE DEF LInv
<1>1. PointersOK'
  BY DEF PointersOK, list_vars, K!Tcbs, K!Tasks, K!Mutexes, K!Devices
<1>2. Listed' /\ Apart' /\ RearIsLast' /\ Asleep' = Asleep
  BY SameLists
<1>3. Awake' /\ LostHolds'
  BY <1>2 DEF Awake, LostHolds, K!Tasks, K!Mutexes
<1>4. OwnOrTop'
  <2>1. \A d : From(dev_head[d])' = From(dev_head[d])
    BY SameLists
  <2>. QED
    BY <2>1 DEF OwnOrTop, K!Tcbs, K!Tasks, K!Devices
<1>5. FreeIsFree'
  BY DEF FreeIsFree, list_vars, K!Mutexes
<1>. QED
  BY <1>1, <1>2, <1>3, <1>4, <1>5

\* Another mutex.
LEMMA MutexCreateStep ==
    ASSUME LInv, mutex_create
    PROVE  LInv' /\ K!mutex_create
BY NothingListed DEF mutex_create, Unlisted, K!mutex_create

\* Lists that are all empty.
LEMMA NoneAsleep ==
    ASSUME \A h \in Heads : FirstOf(h) = NULL
    PROVE  /\ Listed /\ Apart /\ RearIsLast /\ Asleep = {}
           /\ \A m \in K!Mutexes : From(mutex_head[m]) = <<>>
           /\ \A d \in K!Devices : From(dev_head[d]) = <<>>
<1>1. \A h \in Heads : ListAt(h) = <<>> /\ LeadsAlong(sleep_queue, FirstOf(h), <<>>)
  BY EmptyList DEF ListAt, From, ListFrom
<1>2. <<>> \in TaskLists /\ Range(<<>>) = {}
  BY EmptyList
<1>3. \A m \in K!Mutexes : mutex_head[m] = NULL
  BY HeadCases
<1>4. /\ \A m \in K!Mutexes : From(mutex_head[m]) = <<>>
      /\ \A d \in K!Devices : From(dev_head[d]) = <<>>
  BY <1>1, HeadCases
<1>. QED
  BY <1>1, <1>2, <1>3, <1>4 DEF Listed, Apart, RearIsLast, Asleep

\* A task_create when nobody waits and no mutex is held.
LEMMA CreateStep ==
    ASSUME LInv, task_create, quiet
    PROVE  /\ LInv'
           /\ cur_tcb' = 1 /\ ready' = (K!Tasks \cup {IDLE_PRIO}) \ {1}
           /\ \A t \in K!Tasks : cur_prio'[t] = t /\ holds_lock'[t] = 0
           /\ \A m \in K!Mutexes : pHolding_Tcb'[m] = NULL
           /\ K!DevSleepers' = {} /\ K!MutexSleepers' = {}
<1>. USE DEF LInv
<1> DEFINE all == K!Tasks \cup {IDLE_PRIO}
<1>1. /\ cur_prio' = [t \in K!Tcbs |-> t]
      /\ sleep_queue' = [t \in K!Tcbs |-> NULL]
      /\ holds_lock' = [t \in K!Tcbs |-> 0]
      /\ K!dispatch(ready \cup K!Tasks \cup {IDLE_PRIO})
      /\ UNCHANGED <<lock_vars, due, mutex_head, rear, dev_head, hung>>
  BY DEF task_create
<1>2. /\ \A m \in K!Mutexes : bLock[m] = 0 /\ pHolding_Tcb[m] = NULL /\ mutex_head[m] = NULL
      /\ \A d \in K!Devices : dev_head[d] = NULL
  BY DEF quiet, FreeIsFree
<1>3. 0 \notin ready
  BY <1>2, TcbFacts DEF LostHolds
<1>4. /\ ready \cup K!Tasks \cup {IDLE_PRIO} = all
      /\ all \in SUBSET K!Tcbs /\ 0 \notin all /\ 1 \in all
  <2>1. \A t \in ready : t \in K!Tasks \/ t = IDLE_PRIO
    BY <1>3, TcbFacts DEF PointersOK
  <2>2. ready \cup K!Tasks \cup {IDLE_PRIO} = all
    BY <2>1
  <2>3. IDLE_PRIO # 0
    BY DEF IDLE_PRIO
  <2>. QED
    BY <2>2, <2>3, TcbFacts
<1>5. cur_tcb' = 1 /\ ready' = all \ {1}
  <2>. HIDE DEF all
  <2>1. K!dispatch(all)
    BY <1>1, <1>4
  <2>. QED
    BY <1>4, <2>1, Dispatched
<1>6. Heads' = Heads /\ K!Mutexes' = K!Mutexes /\ K!Devices' = K!Devices /\ K!Tcbs' = K!Tcbs
      /\ K!Tasks' = K!Tasks
  BY DEF Heads, K!Devices, K!Mutexes, K!Tcbs, K!Tasks
<1>7. \A h \in Heads : FirstOf(h)' = NULL
  <2>1. \A h \in Heads : FirstOf(h) = NULL
    BY <1>2, HeadCases
  <2>. QED
    BY <1>1, <2>1 DEF FirstOf
<1>8. /\ Listed' /\ Apart' /\ RearIsLast' /\ Asleep' = {}
      /\ \A m \in K!Mutexes : From(mutex_head[m])' = <<>>
      /\ \A d \in K!Devices : From(dev_head[d])' = <<>>
  <2>1. \A h \in Heads : ListAt(h)' = <<>> /\ LeadsAlong(sleep_queue', FirstOf(h)', <<>>)
    BY <1>7, EmptyList DEF ListAt, From, ListFrom
  <2>2. <<>> \in TaskLists /\ Range(<<>>) = {}
    BY EmptyList
  <2>3. \A m \in K!Mutexes : mutex_head'[m] = NULL
    BY <1>1, <1>2
  <2>4. /\ \A m \in K!Mutexes : From(mutex_head[m])' = <<>>
        /\ \A d \in K!Devices : From(dev_head[d])' = <<>>
    BY <1>1, <1>2 DEF From, ListFrom
  <2>. QED
    BY <1>6, <2>1, <2>2, <2>3, <2>4 DEF Listed, Apart, RearIsLast, Asleep
<1>9. PointersOK'
  BY <1>1, <1>4, <1>5, <1>6, TcbFacts DEF PointersOK, lock_vars
<1>10. Awake'
  BY <1>5, <1>8 DEF Awake
<1>11. OwnOrTop'
  BY <1>1, <1>6, <1>8, EmptyList DEF OwnOrTop
<1>12. FreeIsFree'
  BY <1>1, <1>2, <1>6 DEF FreeIsFree, lock_vars
<1>13. LostHolds'
  BY <1>4, <1>5 DEF LostHolds
<1>14. K!DevSleepers' = {} /\ K!MutexSleepers' = {}
  <2>1. \A d \in K!Devices :
           [e \in 0 .. (NUM_DEVICES - 1) |-> Range(From(dev_head[e])')][d] = {}
    BY <1>8, EmptyList DEF K!Devices
  <2>2. \A m \in K!Mutexes : [n \in 1 .. OS_NUM_MUTEX |-> From(mutex_head[n])'][m] = <<>>
    BY <1>8 DEF K!Mutexes
  <2>3. K!DevSleepers' = {}
    BY <1>6, <2>1 DEF K!DevSleepers
  <2>4. K!MutexSleepers' = {}
    <3>1. \A m \in K!Mutexes : K!Blocked(m)' = {}
      BY <2>2, EmptyList DEF K!Blocked, K!Range, Range
    <3>. QED
      BY <1>6, <3>1 DEF K!MutexSleepers
  <2>. QED
    BY <2>3, <2>4
<1>. QED
  BY <1>1, <1>2, <1>5, <1>8, <1>9, <1>10, <1>11, <1>12, <1>13, <1>14, TcbFacts DEF lock_vars

-----------------------------------------------------------------------------
(* Every step.                                                             *)

\* The lists start out empty.
LEMMA InitInv == Init => LInv
<1>. SUFFICES ASSUME Init PROVE LInv
  OBVIOUS
<1>1. \A h \in Heads : FirstOf(h) = NULL
  BY DEF Init, Heads, FirstOf
<1>2. Listed /\ Apart /\ RearIsLast /\ Asleep = {}
      /\ \A d \in K!Devices : From(dev_head[d]) = <<>>
  BY <1>1, NoneAsleep
<1>3. PointersOK
  BY TcbFacts DEF Init, PointersOK
<1>4. Awake
  BY <1>2, TcbFacts DEF Init, Awake
<1>5. OwnOrTop
  BY <1>2, EmptyList DEF Init, OwnOrTop
<1>6. FreeIsFree /\ ~hung
  BY DEF Init, FreeIsFree
<1>7. LostHolds
  <2>1. 0 \notin ready
    <3>1. 0 # IDLE_PRIO
      BY DEF IDLE_PRIO
    <3>. QED
      BY <3>1, TcbFacts DEF Init
  <2>. QED
    BY <2>1 DEF LostHolds
<1>. QED
  BY <1>2, <1>3, <1>4, <1>5, <1>6, <1>7 DEF LInv

\* A call of module Lists, or a tick, as a step of the kernel.
CallOrTick ==
    \/ mutex_create
    \/ \E m \in K!Mutexes : lock_free(m) \/ lock_wait(m) \/ mutex_unlock(m)
    \/ \E dev \in K!Devices : event_wait(dev)
    \/ dev_update

LEMMA CallStep ==
    ASSUME LInv, CallOrTick
    PROVE  LInv' /\ K!Next
<1>1. CASE mutex_create
  BY <1>1, MutexCreateStep DEF K!Next
<1>2. ASSUME NEW m \in K!Mutexes, lock_free(m) \/ lock_wait(m) \/ mutex_unlock(m)
      PROVE  LInv' /\ K!Next
  <2>1. m \in 0 .. (OS_NUM_MUTEX + 1)
    BY ListsAssumption DEF K!Mutexes
  <2>2. CASE lock_free(m)
    <3>1. LInv' /\ K!TaskRuns /\ K!lock_free(m)
      BY <2>2, LockFreeStep
    <3>2. K!mutex_lock(m)
      BY <3>1 DEF K!mutex_lock, AnyLock
    <3>. QED
      BY <2>1, <3>1, <3>2 DEF K!Next
  <2>3. CASE lock_wait(m)
    <3>1. LInv' /\ K!TaskRuns /\ K!lock_wait(m)
      BY <2>3, LockWaitStep
    <3>2. K!mutex_lock(m)
      BY <3>1 DEF K!mutex_lock, AnyLock
    <3>. QED
      BY <2>1, <3>1, <3>2 DEF K!Next
  <2>4. CASE mutex_unlock(m)
    <3>1. LInv' /\ K!TaskRuns /\ K!unlock(m)
      BY <2>4, UnlockStep
    <3>2. K!mutex_unlock(m)
      BY <3>1 DEF K!mutex_unlock
    <3>. QED
      BY <2>1, <3>1, <3>2 DEF K!Next
  <2>. QED
    BY <1>2, <2>2, <2>3, <2>4
<1>3. ASSUME NEW dev \in K!Devices, event_wait(dev)
      PROVE  LInv' /\ K!Next
  <2>1. LInv' /\ K!TaskRuns /\ K!dev_wait(dev)
    BY <1>3, EventWaitStep
  <2>2. K!event_wait(dev)
    BY <2>1 DEF K!event_wait
  <2>3. dev \in 0 .. NUM_DEVICES
    BY ListsAssumption DEF K!Devices
  <2>. QED
    BY <2>1, <2>2, <2>3 DEF K!Next
<1>4. CASE dev_update
  BY <1>4, TickStep DEF K!Next, K!C_IRQ_Handler
<1>. QED
  BY <1>1, <1>2, <1>3, <1>4 DEF CallOrTick

\* A step of Next is one of those, a task_create, or none at all.
LEMMA StepCases ==
    ASSUME [Next]_vars
    PROVE  (CallOrTick /\ UNCHANGED <<starts, clean>>) \/ task_create \/ UNCHANGED vars
<1>1. CASE CallOrTick \/ task_create \/ UNCHANGED vars
  <2>1. CallOrTick => UNCHANGED <<starts, clean>>
    BY DEF CallOrTick, mutex_create, lock_free, lock_wait, mutex_unlock, event_wait, dev_update,
           Unlisted
  <2>. QED
    BY <1>1, <2>1
<1>. QED
  BY <1>1 DEF Next, CallOrTick

\* What a step keeps, and what it is of the kernel.
LEMMA StepKeeps ==
    ASSUME IInv, [Next]_vars
    PROVE  IInv' /\ (clean => K!Next \/ task_create \/ UNCHANGED K!vars)
<1>1. CASE CallOrTick /\ UNCHANGED <<starts, clean>>
  BY <1>1, CallStep DEF IInv
<1>2. CASE task_create
  <2>1. clean' => clean /\ quiet
    BY <1>2 DEF task_create
  <2>. QED
    BY <1>2, <2>1, CreateStep DEF IInv
<1>3. CASE UNCHANGED vars
  <2>1. UNCHANGED <<ready, cur_tcb, cur_prio, bLock, pHolding_Tcb, list_vars, hung>>
        /\ UNCHANGED clean
    BY <1>3 DEF vars, lock_vars
  <2>2. UNCHANGED K!vars
    BY <1>3, SameLists DEF vars, lock_vars, list_vars, K!vars, K!mutex_vars, From
  <2>3. LInv => LInv'
    BY <2>1, NothingListed
  <2>. QED
    BY <2>1, <2>2, <2>3 DEF IInv
<1>. QED
  BY <1>1, <1>2, <1>3, StepCases

LEMMA AlwaysInv == Spec => []IInv
<1>1. Init => IInv
  BY InitInv DEF IInv
<1>2. IInv /\ [Next]_vars => IInv'
  BY StepKeeps
<1>. QED
  BY <1>1, <1>2, PTL DEF Spec

-----------------------------------------------------------------------------
(* The properties.                                                         *)

\* For any number of tasks, mutexes and devices and any nesting of locks: no list
\* is circular, no task is on two, a mutex's rear is the last of its list, and the
\* timer interrupt always ends, as long as each task_create came when nobody waited
\* (device.c:65-104, mutex.c:91-108, 138-160).
THEOREM ListsStaySound == Spec => []ListsSound
<1>1. IInv => ListsSound
  <2>. SUFFICES ASSUME LInv PROVE ListsSound
    BY DEF IInv, ListsSound
  <2>1. \A h \in Heads : ~Circular(FirstOf(h))
    BY DEF LInv, Listed, Circular
  <2>2. \A g, h \in Heads : g # h => Range(From(FirstOf(g))) \cap Range(From(FirstOf(h))) = {}
    BY DEF LInv, Apart, ListAt
  <2>. QED
    BY <2>1, <2>2 DEF LInv, RearIsLast, ListsSound
<1>. QED
  BY <1>1, AlwaysInv, PTL

\* Every call and every tick on the linked lists is a step of module Kernel on
\* sequences and sets: what the proofs about Kernel show for its steps holds of the
\* pointers, however long the lists and however the locks are nested.
THEOREM PointersImplementKernel == Spec => StepsOfTheKernel
<1>1. IInv /\ [Next]_vars => [clean => K!Next \/ task_create]_(K!vars)
  BY StepKeeps
<1>. QED
  BY <1>1, AlwaysInv, PTL DEF Spec, StepsOfTheKernel

\* A task_create when nobody waits and no mutex is held restores the state the
\* first one left, whatever the tasks did in between (sched.c:53-105): no priority
\* stays raised or queued, and no TCB stays linked.
THEOREM CleanCreateStartsAfresh == Spec => StartsAfresh
<1> DEFINE Fresh ==
             /\ cur_tcb' = 1 /\ ready' = (K!Tasks \cup {IDLE_PRIO}) \ {1}
             /\ \A t \in K!Tasks : cur_prio'[t] = t /\ holds_lock'[t] = 0
             /\ \A m \in K!Mutexes : pHolding_Tcb'[m] = NULL
             /\ K!DevSleepers' = {} /\ K!MutexSleepers' = {}
<1>1. ASSUME IInv, [Next]_vars, starts' # starts, clean'
      PROVE  Fresh
  <2>. HIDE DEF Fresh
  <2>1. task_create
    BY <1>1, StepCases DEF vars
  <2>2. clean /\ quiet
    BY <1>1, <2>1 DEF task_create
  <2>. QED
    BY <1>1, <2>1, <2>2, CreateStep DEF IInv, Fresh
<1>. HIDE DEF Fresh
<1>2. IInv /\ [Next]_vars => [starts' # starts /\ clean' => Fresh]_vars
  BY <1>1
<1>3. StartsAfresh <=> [][starts' # starts /\ clean' => Fresh]_vars
  BY DEF StartsAfresh, Fresh
<1>. QED
  BY <1>2, <1>3, AlwaysInv, PTL DEF Spec
=============================================================================
