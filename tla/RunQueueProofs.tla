--------------------------- MODULE RunQueueProofs ---------------------------
(***************************************************************************)
(* The two-level bitmap keeps its levels consistent and implements the     *)
(* abstract ready queue, for every set of priorities in use.               *)
(***************************************************************************)
EXTENDS RunQueue, TLAPS

IInv == TypeOK /\ TrieConsistent

-----------------------------------------------------------------------------
(* Splitting a priority into a byte and a bit, and back.                   *)

\* prio >> 3 and prio & 7 address a bit of the table, and together they
\* determine the priority.
LEMMA SplitPrio ==
    ASSUME NEW p \in Prio
    PROVE  Group(p) \in Bits /\ Place(p) \in Bits /\ PrioOf(Group(p), Place(p)) = p
BY SMT DEF Prio, OS_MAX_TASKS, Group, Place, Bits, PrioOf

\* Every bit of the table stands for one priority.
LEMMA JoinPrio ==
    ASSUME NEW y \in Bits, NEW x \in Bits
    PROVE  /\ PrioOf(y, x) \in Prio
           /\ Group(PrioOf(y, x)) = y
           /\ Place(PrioOf(y, x)) = x
BY SMT DEF Prio, OS_MAX_TASKS, Group, Place, Bits, PrioOf

\* Priorities are ordered by byte first, then by bit.
LEMMA PrioOrder ==
    ASSUME NEW p \in Prio, NEW q \in Prio,
           \/ Group(p) < Group(q)
           \/ Group(p) = Group(q) /\ Place(p) <= Place(q)
    PROVE  p <= q
BY SMT DEF Prio, OS_MAX_TASKS, Group, Place

\* The idle task sits in the last bit of the last byte.
LEMMA IdlePrioIsPrio == IDLE_PRIO \in Prio
BY DEF IDLE_PRIO, Prio, OS_MAX_TASKS

-----------------------------------------------------------------------------
(* The lookup table.                                                       *)

\* Min, a CHOOSE, is the lowest of any bits there are.
LEMMA LowestBit ==
    ASSUME NEW byte \in SUBSET Bits, byte # {}
    PROVE  Min(byte) \in byte /\ \A i \in byte : Min(byte) <= i
<1>1. \E i \in byte : \A j \in byte : i <= j
  <2>. SUFFICES ASSUME \A i \in byte : \E j \in byte : ~(i <= j)
                PROVE  FALSE
    OBVIOUS
  <2>1. \A i \in byte : i \in 0 .. 7
    BY DEF Bits
  <2>2. 0 \notin byte
    BY <2>1
  <2>3. 1 \notin byte
    BY <2>1, <2>2
  <2>4. 2 \notin byte
    BY <2>1, <2>2, <2>3
  <2>5. 3 \notin byte
    BY <2>1, <2>2, <2>3, <2>4
  <2>6. 4 \notin byte
    BY <2>1, <2>2, <2>3, <2>4, <2>5
  <2>7. 5 \notin byte
    BY <2>1, <2>2, <2>3, <2>4, <2>5, <2>6
  <2>8. 6 \notin byte
    BY <2>1, <2>2, <2>3, <2>4, <2>5, <2>6, <2>7
  <2>9. 7 \notin byte
    BY <2>1, <2>2, <2>3, <2>4, <2>5, <2>6, <2>7, <2>8
  <2>. QED
    BY <2>1, <2>2, <2>3, <2>4, <2>5, <2>6, <2>7, <2>8, <2>9
<1>. QED
  BY <1>1 DEF Min

\* A member that is at most every other one is the Min.
LEMMA LeastIsMin ==
    ASSUME NEW S \in SUBSET Nat, NEW m \in S, \A n \in S : m <= n
    PROVE  Min(S) = m
<1>1. Min(S) \in S /\ \A n \in S : Min(S) <= n
  BY DEF Min
<1>2. m <= Min(S) /\ Min(S) <= m /\ m \in Nat /\ Min(S) \in Nat
  BY <1>1
<1>. QED
  BY <1>2

\* The columns after the first: the lowest 1 bit of the low nibble.
LEMMA LowNibble ==
    ASSUME NEW i \in 1 .. 15
    PROVE  rest_of_row[i] = IF i % 2 = 1 THEN 0 ELSE IF i % 4 = 2 THEN 1
                            ELSE IF i % 8 = 4 THEN 2 ELSE 3
BY DEF rest_of_row

\* The first column: that of the high nibble, and 0 for the zero byte.
LEMMA HighNibble ==
    ASSUME NEW i \in 0 .. 15
    PROVE  first_column[i + 1] = IF i = 0 THEN 0 ELSE IF i % 2 = 1 THEN 4
                                 ELSE IF i % 4 = 2 THEN 5 ELSE IF i % 8 = 4 THEN 6 ELSE 7
BY DEF first_column

\* The literals of the table, for each of the 256 bytes.
LEMMA TableFindsLowestBit ==
    ASSUME NEW byte \in SUBSET Bits
    PROVE  prio_unmap_table(Number(byte)) = prio_unmap(byte)
<1> DEFINE bit(i, value) == IF i \in byte THEN value ELSE 0
           low  == bit(0, 1) + bit(1, 2) + bit(2, 4) + bit(3, 8)
           high == bit(4, 1) + bit(5, 2) + bit(6, 4) + bit(7, 8)
<1>1. Number(byte) = low + 16 * high
  BY DEF Number
<1>2. low \in 0 .. 15 /\ high \in 0 .. 15
  OBVIOUS
<1>3. /\ low = 0 <=> byte \cap 0 .. 3 = {}
      /\ high = 0 <=> byte \cap 4 .. 7 = {}
  OBVIOUS
<1>4. /\ low % 2 = 1 <=> 0 \in byte
      /\ low % 4 = 2 <=> 0 \notin byte /\ 1 \in byte
      /\ low % 8 = 4 <=> 0 \notin byte /\ 1 \notin byte /\ 2 \in byte
      /\ high % 2 = 1 <=> 4 \in byte
      /\ high % 4 = 2 <=> 4 \notin byte /\ 5 \in byte
      /\ high % 8 = 4 <=> 4 \notin byte /\ 5 \notin byte /\ 6 \in byte
  OBVIOUS
<1>. HIDE DEF low, high
<1>5. (low + 16 * high) % 16 = low /\ (low + 16 * high) \div 16 = high
  BY <1>2
<1>6. prio_unmap_table(Number(byte)) = IF low = 0 THEN first_column[high + 1] ELSE rest_of_row[low]
  BY <1>1, <1>5 DEF prio_unmap_table
<1>7. CASE low # 0
  <2>1. byte # {} /\ low \in 1 .. 15
    BY <1>2, <1>3, <1>7
  <2>2. Min(byte) \in byte /\ \A i \in byte : Min(byte) <= i
    BY <2>1, LowestBit
  <2>3. PICK i \in byte : i \in 0 .. 3
    BY <1>3, <1>7
  <2>4. Min(byte) \in 0 .. 3
    <3>1. Min(byte) \in Bits /\ Min(byte) <= i
      BY <2>2
    <3>. HIDE DEF bit
    <3>. QED
      BY <2>3, <3>1 DEF Bits
  <2>5. rest_of_row[low] = Min(byte)
    BY <1>4, <2>1, <2>2, <2>4, LowNibble
  <2>. QED
    BY <1>6, <1>7, <2>1, <2>5 DEF prio_unmap
<1>8. CASE low = 0
  <2>1. CASE byte = {}
    BY <1>2, <1>3, <1>6, <1>8, <2>1, HighNibble DEF prio_unmap
  <2>2. CASE byte # {}
    <3>1. Min(byte) \in byte /\ \A i \in byte : Min(byte) <= i
      BY <2>2, LowestBit
    <3>2. Min(byte) \in 4 .. 7
      <4>1. Min(byte) \in Bits /\ Min(byte) \notin 0 .. 3
        BY <1>3, <1>8, <3>1
      <4>. QED
        BY <4>1 DEF Bits
    <3>4. high # 0
      BY <1>3, <3>1, <3>2
    <3>3. first_column[high + 1] = Min(byte)
      BY <1>2, <1>4, <3>1, <3>2, <3>4, HighNibble
    <3>. QED
      BY <1>6, <1>8, <2>2, <3>3 DEF prio_unmap
  <2>. QED
    BY <2>1, <2>2
<1>. QED
  BY <1>7, <1>8

-----------------------------------------------------------------------------
(* What the three functions of run_queue.c do to the set of ready          *)
(* priorities.                                                             *)

\* Membership of a priority in the abstract set, bit by bit.
LEMMA ReadyBit ==
    ASSUME NEW p \in Prio
    PROVE  p \in ReadyPrios <=> Place(p) \in run_bits[Group(p)]
BY DEF ReadyPrios

\* highest_prio(): two table lookups find the smallest ready priority.
LEMMA HighestIsMin ==
    ASSUME IInv, ReadyPrios # {}
    PROVE  /\ highest_prio = Min(ReadyPrios)
           /\ highest_prio \in ReadyPrios
           /\ highest_prio \in Prio
<1> DEFINE y == prio_unmap(group_run_bits)
           x == prio_unmap(run_bits[y])
<1>. USE DEF IInv
<1>1. PICK p \in ReadyPrios : TRUE
  OBVIOUS
<1>2. p \in Prio /\ Place(p) \in run_bits[Group(p)]
  BY DEF ReadyPrios
<1>3. Group(p) \in group_run_bits
  BY <1>2, SplitPrio DEF TrieConsistent
<1>4. y = Min(group_run_bits) /\ group_run_bits \in SUBSET Bits
  BY <1>3 DEF prio_unmap, TypeOK
<1>5. y \in group_run_bits /\ \A z \in group_run_bits : y <= z
  BY <1>3, <1>4, LowestBit
<1>6. y \in Bits /\ run_bits[y] # {} /\ run_bits[y] \in SUBSET Bits
  BY <1>5 DEF TrieConsistent, TypeOK
<1>7. x = Min(run_bits[y])
  BY <1>6 DEF prio_unmap
<1>8. x \in run_bits[y] /\ \A z \in run_bits[y] : x <= z
  BY <1>6, <1>7, LowestBit
<1>9. x \in Bits
  BY <1>6, <1>8
<1> DEFINE h == PrioOf(y, x)
<1>10. h \in Prio /\ Group(h) = y /\ Place(h) = x
  BY <1>6, <1>9, JoinPrio
<1>11. h \in ReadyPrios
  BY <1>8, <1>10, ReadyBit
<1>12. \A q \in ReadyPrios : h <= q
  <2>. SUFFICES ASSUME NEW q \in ReadyPrios PROVE h <= q
    OBVIOUS
  <2>1. q \in Prio /\ Place(q) \in run_bits[Group(q)] /\ Group(q) \in Bits /\ Place(q) \in Bits
    BY SplitPrio DEF ReadyPrios
  <2>2. Group(q) \in group_run_bits
    BY <2>1 DEF TrieConsistent
  <2>3. y <= Group(q)
    BY <1>5, <2>2
  <2>4. CASE y = Group(q)
    <3>1. x <= Place(q)
      BY <1>8, <2>1, <2>4
    <3>. QED
      BY <3>1, <2>1, <2>4, <1>10, PrioOrder
  <2>5. CASE y # Group(q)
    <3>1. y < Group(q)
      BY <2>1, <2>3, <2>5, <1>6 DEF Bits
    <3>. QED
      BY <3>1, <2>1, <1>10, PrioOrder
  <2>. QED
    BY <2>4, <2>5
<1>13. ReadyPrios \in SUBSET Nat
  BY DEF ReadyPrios, Prio, OS_MAX_TASKS
<1>14. Min(ReadyPrios) = h
  <2>. HIDE DEF h
  <2>. QED
    BY <1>11, <1>12, <1>13, LeastIsMin
<1>. QED
  BY <1>10, <1>11, <1>14 DEF highest_prio

\* runqueue_add(prio) inserts exactly its priority, whatever was in before.
LEMMA AddStep ==
    ASSUME IInv, NEW p \in Prio, runqueue_add(p)
    PROVE  IInv' /\ ReadyPrios' = ReadyPrios \cup {p}
<1>. USE DEF IInv, runqueue_add
<1>1. Group(p) \in Bits /\ Place(p) \in Bits /\ PrioOf(Group(p), Place(p)) = p
  BY SplitPrio
<1>2. TypeOK'
  BY <1>1 DEF TypeOK
<1>3. TrieConsistent'
  BY <1>1 DEF TypeOK, TrieConsistent
<1>4. ASSUME NEW q \in Prio
      PROVE  Place(q) \in run_bits'[Group(q)]
                <=> (Place(q) \in run_bits[Group(q)] \/ q = p)
  <2>1. Group(q) \in Bits /\ Place(q) \in Bits /\ PrioOf(Group(q), Place(q)) = q
    BY SplitPrio
  <2>. QED
    BY <1>1, <2>1 DEF TypeOK
<1>. QED
  BY <1>2, <1>3, <1>4 DEF ReadyPrios

\* runqueue_remove(prio) of a ready priority takes out exactly that one, and
\* nothing when it is the idle priority: the XORs never set a bit.
LEMMA RemoveStep ==
    ASSUME IInv, NEW p \in Prio, p \in ReadyPrios, runqueue_remove(p)
    PROVE  IInv' /\ ReadyPrios' = TakeFrom(ReadyPrios, p)
<1>. USE DEF IInv, runqueue_remove
<1>1. Group(p) \in Bits /\ Place(p) \in Bits /\ PrioOf(Group(p), Place(p)) = p
  BY SplitPrio
<1>2. Place(p) \in run_bits[Group(p)]
  BY ReadyBit
<1>3. CASE p = IDLE_PRIO
  BY <1>3 DEF TypeOK, TrieConsistent, ReadyPrios, TakeFrom
<1>4. CASE p # IDLE_PRIO
  <2> DEFINE byte == SymDiff({Place(p)}, run_bits[Group(p)])
  <2>1. byte = run_bits[Group(p)] \ {Place(p)}
    BY <1>2 DEF SymDiff
  <2>2. Group(p) \in group_run_bits
    BY <1>1, <1>2 DEF TrieConsistent
  <2>3. SymDiff(group_run_bits, {Group(p)}) = group_run_bits \ {Group(p)}
    BY <2>2 DEF SymDiff
  <2>4. /\ taken' = p
        /\ run_bits' = [run_bits EXCEPT ![Group(p)] = byte]
        /\ group_run_bits' = IF byte = {} THEN group_run_bits \ {Group(p)}
                                          ELSE group_run_bits
    BY <1>4, <2>3
  <2>. HIDE DEF byte, runqueue_remove
  <2>5. TypeOK'
    BY <1>1, <2>1, <2>4 DEF TypeOK
  <2>6. TrieConsistent'
    BY <1>1, <2>1, <2>2, <2>4 DEF TypeOK, TrieConsistent
  <2>7. ASSUME NEW q \in Prio
        PROVE  Place(q) \in run_bits'[Group(q)]
                  <=> (Place(q) \in run_bits[Group(q)] /\ q # p)
    <3>1. Group(q) \in Bits /\ Place(q) \in Bits /\ PrioOf(Group(q), Place(q)) = q
      BY SplitPrio
    <3>. QED
      BY <1>1, <2>1, <2>4, <3>1 DEF TypeOK
  <2>. QED
    BY <1>4, <2>5, <2>6, <2>7 DEF ReadyPrios, TakeFrom
<1>. QED
  BY <1>3, <1>4

-----------------------------------------------------------------------------
(* The invariant and the refinement.                                       *)

\* The zeroed bitmaps of the loaded image satisfy the invariant.
LEMMA InitInvariant == Init => IInv
BY DEF Init, IInv, TypeOK, TrieConsistent, Bits

\* Every step keeps the invariant, and is a step of the abstract queue.
LEMMA StepInvariant == IInv /\ [Next]_vars => IInv' /\ [Abstract!Next]_(Abstract!vars)
<1>. SUFFICES ASSUME IInv, [Next]_vars
              PROVE  IInv' /\ [Abstract!Next]_(Abstract!vars)
  OBVIOUS
<1>1. ASSUME NEW p \in Users \cup {IDLE_PRIO}, runqueue_add(p)
      PROVE  IInv' /\ Abstract!Next
  <2>1. p \in Prio
    BY UsersAssumption, IdlePrioIsPrio
  <2>2. IInv' /\ ReadyPrios' = ReadyPrios \cup {p}
    BY <1>1, <2>1, AddStep
  <2>. QED
    BY <1>1, <2>2 DEF Abstract!Next, Abstract!Add, runqueue_add,
       Abstract!IDLE_PRIO, IDLE_PRIO
<1>2. CASE take_highest
  <2>1. IDLE_PRIO \in ReadyPrios
    BY <1>2, IdlePrioIsPrio, ReadyBit DEF take_highest
  <2>2. /\ highest_prio = Min(ReadyPrios)
        /\ highest_prio \in ReadyPrios
        /\ highest_prio \in Prio
    BY <2>1, HighestIsMin
  <2>3. runqueue_remove(highest_prio)
    BY <1>2 DEF take_highest
  <2>4. IInv' /\ ReadyPrios' = TakeFrom(ReadyPrios, highest_prio)
    BY <2>2, <2>3, RemoveStep
  <2>5. taken' = highest_prio
    BY <2>3 DEF runqueue_remove
  <2>6. Abstract!Min(ReadyPrios) = Min(ReadyPrios)
    BY DEF Abstract!Min, Min
  <2>7. Abstract!IDLE_PRIO = IDLE_PRIO
    BY DEF Abstract!IDLE_PRIO, IDLE_PRIO
  <2>8. Abstract!TakeFrom(ReadyPrios, highest_prio) = TakeFrom(ReadyPrios, highest_prio)
    BY <2>7 DEF Abstract!TakeFrom, TakeFrom
  <2>9. Abstract!TakeHighest
    BY <2>1, <2>2, <2>4, <2>5, <2>6, <2>7, <2>8 DEF Abstract!TakeHighest
  <2>. QED
    BY <2>4, <2>9 DEF Abstract!Next
<1>3. CASE UNCHANGED vars
  <2>1. IInv'
    BY <1>3 DEF vars, IInv, TypeOK, TrieConsistent
  <2>2. UNCHANGED Abstract!vars
    BY <1>3 DEF vars, Abstract!vars, ReadyPrios
  <2>. QED
    BY <2>1, <2>2
<1>. QED
  BY <1>1, <1>2, <1>3 DEF Next

\* In every reachable state the group byte of run_queue.c summarises the eight
\* bit bytes exactly, whichever priorities the kernel uses.
THEOREM TrieAlwaysConsistent == Spec => [](TypeOK /\ TrieConsistent)
<1>1. Spec => []IInv
  BY InitInvariant, StepInvariant, PTL DEF Spec
<1>. QED
  BY <1>1, PTL DEF IInv

\* Each of the 256 literals of prio_unmap_table is the lowest 1 bit of its index
\* (run_queue.c:40), so every lookup that highest_prio makes is right.
THEOREM TableAlwaysRight == Spec => []LookupsFindLowestBit
<1>1. IInv => LookupsFindLowestBit
  <2>. SUFFICES ASSUME IInv, NEW byte \in {group_run_bits} \cup {run_bits[y] : y \in Bits}
                PROVE  prio_unmap_table(Number(byte)) = prio_unmap(byte)
    BY DEF LookupsFindLowestBit
  <2>1. byte \in SUBSET Bits
    BY DEF IInv, TypeOK
  <2>. QED
    BY <2>1, TableFindsLowestBit
<1>2. Spec => []IInv
  BY InitInvariant, StepInvariant, PTL DEF Spec
<1>. QED
  BY <1>1, <1>2, PTL

\* The bitmap of run_queue.c implements the abstract ready queue: what a
\* dispatcher gets is the most urgent ready priority and nothing else changes.
THEOREM RunQueueRefinesReadyQueue == Spec => ImplementsReadyQueue
<1>1. Init => Abstract!Init
  <2>. SUFFICES ASSUME Init PROVE ReadyPrios = {} /\ taken = NotYet
    BY DEF Abstract!Init
  <2>1. \A p \in Prio : run_bits[Group(p)] = {}
    BY SplitPrio DEF Init
  <2>. QED
    BY <2>1 DEF Init, ReadyPrios
<1>2. Spec => []IInv
  BY InitInvariant, StepInvariant, PTL DEF Spec
<1>3. Spec => [][Abstract!Next]_(Abstract!vars)
  BY <1>2, StepInvariant, PTL DEF Spec
<1>. QED
  BY <1>1, <1>3, PTL DEF Spec, ImplementsReadyQueue, Abstract!Spec
=============================================================================
