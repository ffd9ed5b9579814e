---------------------------- MODULE ConsoleProofs ----------------------------
(***************************************************************************)
(* The console, proved for every alphabet, every size of the buffer and    *)
(* every width of an unsigned number that holds it.                        *)
(***************************************************************************)
EXTENDS Console, SequenceTheorems, TLAPS

Line == Letters \cup {NL}

\* The first n characters of a buffer b.
StoredIn(b, n) == [k \in 1 .. n |-> b[k - 1]]

\* Where the loops stand.
IndexInv ==
    /\ i \in 0 .. Size
    /\ pc = "write" => i < Size
    /\ pc = "typo" => ret = i
    /\ pc \in {"read", "typo"} => echo = <<>>

\* As long as a line is typed, and nothing has strayed, it is letters, and they are
\* in the buffer.
TypedInv ==
    pc \in {"read", "typo"} /\ ~strayed =>
        /\ screen = StoredIn(buf, i)
        /\ pc = "read" => \A k \in 0 .. (i - 1) : buf[k] \in Letters

\* An ended line has one newline, its last character.
Ended(n) ==
    /\ n \in 1 .. Size
    /\ screen = StoredIn(buf, n)
    /\ buf[n - 1] = NL
    /\ \A k \in 0 .. (n - 2) : buf[k] \in Letters

EndedInv ==
    pc \in {"typo", "write"} /\ finish = "newline" /\ ~strayed => Ended(ret)

\* The echo is what the buffer begins with, and has met no newline yet.
EchoInv ==
    pc = "write" => /\ ret < Size
                    /\ echo = StoredIn(buf, i)
                    /\ \A k \in 0 .. (i - 1) : buf[k] # NL

ConsoleInv ==
    /\ TypeOK
    /\ IndexInv
    /\ TypedInv
    /\ EndedInv
    /\ EchoInv

-----------------------------------------------------------------------------
USE ConsoleAssumption DEF EOT, BS, NL, NUL

\* Where i starts, and that an erase takes it back by one, through the wrap.
LEMMA StepBack == ASSUME i \in 1 .. Size PROVE (step_back + 1) % Wrap = i - 1
<1>1. CASE i = 1
  <2>1. step_back = Wrap - 1
    BY <1>1 DEF step_back
  <2>. QED
    BY <1>1, <2>1
<1>2. CASE i > 1
  <2>1. step_back = i - 2
    BY <1>2 DEF step_back
  <2>. QED
    BY <1>2, <2>1
<1>. QED
  BY <1>1, <1>2

LEMMA StoredIsLine ==
    ASSUME NEW S, NEW b \in [0 .. Size -> S], NEW n \in 0 .. Size
    PROVE  /\ StoredIn(b, n) \in Seq(S) /\ Len(StoredIn(b, n)) = n
           /\ \A k \in 1 .. n : StoredIn(b, n)[k] = b[k - 1]
<1>1. StoredIn(b, n) \in [1 .. n -> S] /\ n \in Nat
  BY DEF StoredIn
<1>2. StoredIn(b, n) \in Seq(S)
  BY <1>1, IsASeq DEF StoredIn
<1>3. Len(StoredIn(b, n)) = n
  BY <1>1, <1>2, LenProperties
<1>. QED
  BY <1>2, <1>3 DEF StoredIn

\* It is one character more when the character behind it is appended,
LEMMA OneMore ==
    ASSUME NEW S, NEW b \in [0 .. Size -> S], NEW n \in 0 .. (Size - 1)
    PROVE  StoredIn(b, n + 1) = Append(StoredIn(b, n), b[n])
<1>. DEFINE s == StoredIn(b, n)  t == StoredIn(b, n + 1)
<1>1. s \in Seq(S) /\ Len(s) = n /\ \A k \in 1 .. n : s[k] = b[k - 1]
  BY StoredIsLine, n \in 0 .. Size
<1>2. t \in Seq(S) /\ Len(t) = n + 1 /\ \A k \in 1 .. (n + 1) : t[k] = b[k - 1]
  BY StoredIsLine, n + 1 \in 0 .. Size
<1>3. b[n] \in S
  OBVIOUS
<1>. HIDE DEF s, t
<1>4. /\ Append(s, b[n]) \in Seq(S) /\ Len(Append(s, b[n])) = n + 1
      /\ \A k \in 1 .. n : Append(s, b[n])[k] = s[k]
      /\ Append(s, b[n])[n + 1] = b[n]
  BY <1>1, <1>3, AppendProperties
<1>5. \A k \in 1 .. (n + 1) : Append(s, b[n])[k] = t[k]
  BY <1>1, <1>2, <1>4
<1>6. t = Append(s, b[n])
  BY <1>2, <1>4, <1>5, SeqEqual
<1>. QED
  BY <1>6 DEF s, t

\* and one less without its last one.
LEMMA OneLess ==
    ASSUME NEW S, NEW b \in [0 .. Size -> S], NEW n \in 1 .. Size
    PROVE  Front(StoredIn(b, n)) = StoredIn(b, n - 1) /\ StoredIn(b, n) # <<>>
<1>. DEFINE s == StoredIn(b, n)  t == StoredIn(b, n - 1)
<1>1. s \in Seq(S) /\ Len(s) = n /\ \A k \in 1 .. n : s[k] = b[k - 1]
  BY StoredIsLine, n \in 0 .. Size
<1>2. t \in Seq(S) /\ Len(t) = n - 1 /\ \A k \in 1 .. (n - 1) : t[k] = b[k - 1]
  BY StoredIsLine, n - 1 \in 0 .. Size
<1>. HIDE DEF s, t
<1>3. /\ Front(s) \in Seq(S) /\ Len(Front(s)) = n - 1
      /\ \A k \in 1 .. (n - 1) : Front(s)[k] = s[k]
  BY <1>1, SubSeqProperties DEF Front
<1>4. Front(s) = t
  BY <1>1, <1>2, <1>3, SeqEqual
<1>5. s # <<>>
  BY <1>1
<1>. QED
  BY <1>4, <1>5 DEF s, t

\* Bytes from n on do not matter.
LEMMA SameBeginning ==
    ASSUME NEW b, NEW c, NEW n \in 0 .. Size, \A k \in 0 .. (n - 1) : b[k] = c[k]
    PROVE  StoredIn(b, n) = StoredIn(c, n)
<1>1. \A k \in 1 .. n : b[k - 1] = c[k - 1]
  OBVIOUS
<1>. QED
  BY <1>1 DEF StoredIn

-----------------------------------------------------------------------------
(* The invariant is inductive.                                             *)

LEMMA InitInv == Init => ConsoleInv
<1>. SUFFICES ASSUME Init PROVE ConsoleInv
  OBVIOUS
<1>1. TypeOK
  <2>1. strayed \in BOOLEAN
    BY Zenon DEF Init
  <2>2. screen \in Seq(Letters \cup {NL}) /\ echo \in Seq(Letters \cup {NL, NUL})
    BY EmptySeq DEF Init
  <2>. QED
    BY <2>1, <2>2 DEF Init, TypeOK
<1>. QED
  BY <1>1 DEF Init, ConsoleInv, IndexInv, TypedInv, EndedInv, EchoInv

\* The read call begins.
LEMMA ReadStep == ASSUME ConsoleInv, read_syscall PROVE ConsoleInv'
<1>1. /\ pc' = "read" /\ i' = 0 /\ screen' = <<>> /\ finish' = "none" /\ echo' = <<>>
      /\ ret' = ret /\ buf' = buf
  BY DEF read_syscall
<1>2. strayed' \in BOOLEAN
  BY Zenon DEF read_syscall
<1>3. screen' \in Seq(Letters \cup {NL}) /\ echo' \in Seq(Letters \cup {NL, NUL})
  BY <1>1, EmptySeq
<1>4. TypeOK'
  BY <1>1, <1>2, <1>3 DEF ConsoleInv, TypeOK
<1>5. screen' = StoredIn(buf', i')
  BY <1>1 DEF StoredIn
<1>. QED
  BY <1>1, <1>4, <1>5 DEF ConsoleInv, IndexInv, TypedInv, EndedInv, EchoInv

\* A key.
LEMMA KeyStep ==
    ASSUME ConsoleInv, NEW key \in Keys, take_key(key)
    PROVE  ConsoleInv'
<1>0. /\ TypeOK /\ IndexInv /\ TypedInv /\ EndedInv /\ EchoInv
      /\ pc = "read" /\ i \in 0 .. (Size - 1) /\ echo = <<>>
      /\ buf \in [0 .. Size -> Letters \cup {NL, NUL}]
  BY DEF ConsoleInv, take_key, IndexInv, TypeOK
<1>1. CASE key = EOT /\ eot_key
  <2>1. /\ pc' = "typo" /\ ret' = i /\ finish' = "eot"
        /\ UNCHANGED <<i, buf, screen, strayed, echo>>
    BY <1>1 DEF eot_key, returns
  <2>2. TypeOK'
    BY <1>0, <2>1 DEF TypeOK
  <2>3. IndexInv' /\ TypedInv'
    BY <1>0, <2>1 DEF IndexInv, TypedInv
  <2>. QED
    BY <2>1, <2>2, <2>3 DEF ConsoleInv, EndedInv, EchoInv
<1>2. CASE key = BS /\ erase_key
  <2>0. UNCHANGED <<pc, ret, buf, finish, echo>>
    BY <1>2 DEF erase_key
  <2>1. CASE i > 0
    <3>1. i' = i - 1 /\ screen' = (IF screen = <<>> THEN <<>> ELSE Front(screen)) /\ strayed' = strayed
      BY <1>0, <1>2, <2>1, StepBack DEF erase_key
    <3>2. screen' \in Seq(Letters \cup {NL})
      <4>1. screen \in Seq(Letters \cup {NL})
        BY <1>0 DEF TypeOK
      <4>2. CASE screen = <<>>
        BY <3>1, <4>1, <4>2
      <4>3. CASE screen # <<>>
        <5>1. Len(screen) \in Nat /\ \A k \in 1 .. Len(screen) : screen[k] \in Letters \cup {NL}
          BY <4>1, LenProperties, ElementOfSeq
        <5>2. SubSeq(screen, 1, Len(screen) - 1) \in Seq(Letters \cup {NL})
          BY <5>1, SubSeqProperties
        <5>. QED
          BY <3>1, <4>3, <5>2 DEF Front
      <4>. QED
        BY <4>2, <4>3
    <3>3. TypeOK'
      BY <1>0, <2>0, <2>1, <3>1, <3>2 DEF TypeOK
    <3>4. TypedInv'
      <4>. SUFFICES ASSUME ~strayed
                    PROVE  screen' = StoredIn(buf, i - 1) /\ \A k \in 0 .. (i - 2) : buf[k] \in Letters
        BY <1>0, <2>0, <3>1 DEF TypedInv
      <4>1. screen = StoredIn(buf, i) /\ \A k \in 0 .. (i - 1) : buf[k] \in Letters
        BY <1>0 DEF TypedInv
      <4>2. Front(StoredIn(buf, i)) = StoredIn(buf, i - 1) /\ StoredIn(buf, i) # <<>>
        BY <1>0, <2>1, OneLess, i \in 1 .. Size
      <4>. QED
        BY <1>0, <3>1, <4>1, <4>2
    <3>. QED
      BY <1>0, <2>0, <2>1, <3>1, <3>3, <3>4 DEF ConsoleInv, IndexInv, EndedInv, EchoInv
  <2>2. CASE ~(i > 0)
    <3>1. i' = 1 /\ strayed' = TRUE /\ screen' = screen
      BY <1>2, <2>2 DEF erase_key
    <3>2. strayed' \in BOOLEAN
      BY <3>1, Zenon
    <3>3. TypeOK'
      BY <1>0, <2>0, <3>1, <3>2 DEF TypeOK
    <3>. QED
      BY <1>0, <2>0, <3>1, <3>3 DEF ConsoleInv, IndexInv, TypedInv, EndedInv, EchoInv
  <2>. QED
    BY <2>1, <2>2
<1>3. CASE key = NL /\ newline_key
  <2>1. /\ buf' = [buf EXCEPT ![i] = NL, ![i + 1] = NUL] /\ screen' = Append(screen, NL)
        /\ i' = i + 1 /\ pc' = "typo" /\ ret' = i + 1 /\ finish' = "newline"
        /\ UNCHANGED <<strayed, echo>>
    BY <1>3 DEF newline_key, returns, line_ended
  <2>2. /\ buf' \in [0 .. Size -> Letters \cup {NL, NUL}] /\ buf'[i] = NL
        /\ \A k \in 0 .. (i - 1) : buf'[k] = buf[k]
    BY <1>0, <2>1
  <2>3. TypeOK'
    <3>1. screen' \in Seq(Letters \cup {NL})
      BY <1>0, <2>1, AppendProperties DEF TypeOK
    <3>. QED
      BY <1>0, <2>1, <2>2, <3>1 DEF TypeOK
  <2>4. ~strayed => Ended(ret)'
    <3>. SUFFICES ASSUME ~strayed PROVE Ended(ret)'
      OBVIOUS
    <3>1. screen = StoredIn(buf, i) /\ \A k \in 0 .. (i - 1) : buf[k] \in Letters
      BY <1>0 DEF TypedInv
    <3>2. StoredIn(buf', i) = StoredIn(buf, i)
      BY <1>0, <2>2, SameBeginning
    <3>3. StoredIn(buf', i + 1) = Append(StoredIn(buf', i), buf'[i])
      BY <1>0, <2>2, OneMore
    <3>4. screen' = StoredIn(buf', i + 1)
      BY <2>1, <2>2, <3>1, <3>2, <3>3
    <3>5. \A k \in 0 .. (i - 1) : buf'[k] \in Letters
      BY <1>0, <2>2, <3>1
    <3>. QED
      <4>1. ret' \in 1 .. Size /\ ret' - 1 = i /\ ret' - 2 = i - 1
        BY <1>0, <2>1
      <4>. QED
        BY <2>1, <2>2, <3>4, <3>5, <4>1 DEF Ended
  <2>5. TypedInv'
    BY <2>1, <2>4 DEF TypedInv, Ended
  <2>. QED
    BY <1>0, <2>1, <2>3, <2>4, <2>5 DEF ConsoleInv, IndexInv, EndedInv, EchoInv
<1>4. CASE key \in Letters /\ letter_key(key)
  <2>1. /\ buf' = [buf EXCEPT ![i] = key] /\ screen' = Append(screen, key)
        /\ i' = i + 1 /\ UNCHANGED <<pc, ret, strayed, finish, echo>>
    BY <1>4 DEF letter_key
  <2>2. /\ buf' \in [0 .. Size -> Letters \cup {NL, NUL}] /\ buf'[i] = key
        /\ \A k \in 0 .. (i - 1) : buf'[k] = buf[k]
    BY <1>0, <1>4, <2>1
  <2>3. TypeOK'
    <3>1. screen' \in Seq(Letters \cup {NL})
      BY <1>0, <1>4, <2>1, AppendProperties DEF TypeOK
    <3>. QED
      BY <1>0, <2>1, <2>2, <3>1 DEF TypeOK
  <2>4. TypedInv'
    <3>. SUFFICES ASSUME ~strayed
                  PROVE  screen' = StoredIn(buf', i + 1) /\ \A k \in 0 .. i : buf'[k] \in Letters
      <4>1. i' - 1 = i
        BY <1>0, <2>1
      <4>. QED
        BY <1>0, <2>1, <4>1 DEF TypedInv
    <3>1. screen = StoredIn(buf, i) /\ \A k \in 0 .. (i - 1) : buf[k] \in Letters
      BY <1>0 DEF TypedInv
    <3>2. StoredIn(buf', i) = StoredIn(buf, i)
      BY <1>0, <2>2, SameBeginning
    <3>3. StoredIn(buf', i + 1) = Append(StoredIn(buf', i), buf'[i])
      BY <1>0, <2>2, OneMore
    <3>4. screen' = StoredIn(buf', i + 1)
      BY <2>1, <2>2, <3>1, <3>2, <3>3
    <3>5. \A k \in 0 .. i : buf'[k] \in Letters
      BY <1>0, <1>4, <2>2, <3>1
    <3>. QED
      BY <3>4, <3>5
  <2>. QED
    BY <1>0, <2>1, <2>3, <2>4 DEF ConsoleInv, IndexInv, EndedInv, EchoInv
<1>. QED
  BY <1>1, <1>2, <1>3, <1>4 DEF take_key

\* The ways out of read, and the program.
LEMMA ReturnStep ==
    ASSUME ConsoleInv, read_full \/ typo \/ write_full
           \/ \E fd_is_right \in BOOLEAN, place \in Places : refused(fd_is_right, place)
    PROVE  ConsoleInv'
<1>0. TypeOK /\ IndexInv /\ TypedInv /\ EndedInv /\ EchoInv
  BY DEF ConsoleInv
<1>1. CASE \E fd_is_right \in BOOLEAN, place \in Places : refused(fd_is_right, place)
  <2>1. pc = "main" /\ ret' = -1 /\ UNCHANGED <<pc, i, buf, screen, strayed, finish, echo>>
    BY <1>1 DEF refused
  <2>2. TypeOK'
    BY <1>0, <2>1 DEF TypeOK
  <2>. QED
    BY <1>0, <2>1, <2>2 DEF ConsoleInv, IndexInv, TypedInv, EndedInv, EchoInv
<1>2. CASE read_full
  <2>1. /\ pc = "read" /\ pc' = "typo" /\ ret' = i /\ finish' = "full"
        /\ UNCHANGED <<i, buf, screen, strayed, echo>>
    BY <1>2 DEF read_full, returns
  <2>2. TypeOK'
    BY <1>0, <2>1 DEF TypeOK
  <2>. QED
    BY <1>0, <2>1, <2>2 DEF ConsoleInv, IndexInv, TypedInv, EndedInv, EchoInv
<1>3. CASE typo
  <2>1. pc = "typo" /\ UNCHANGED <<ret, buf, screen, strayed, finish, echo>>
    BY <1>3 DEF typo
  <2>2. CASE ret >= Size
    <3>1. pc' = "main" /\ i' = i
      BY <1>3, <2>2 DEF typo
    <3>2. TypeOK'
      BY <1>0, <2>1, <3>1 DEF TypeOK
    <3>. QED
      BY <1>0, <2>1, <3>1, <3>2 DEF ConsoleInv, IndexInv, TypedInv, EndedInv, EchoInv
  <2>3. CASE ~(ret >= Size)
    <3>1. pc' = "write" /\ i' = 0
      BY <1>3, <2>3 DEF typo
    <3>2. TypeOK'
      BY <1>0, <2>1, <3>1 DEF TypeOK
    <3>3. echo' = StoredIn(buf', i') /\ ret' < Size
      BY <1>0, <2>1, <2>3, <3>1 DEF IndexInv, StoredIn, TypeOK
    <3>4. EndedInv'
      BY <1>0, <2>1, <3>1 DEF EndedInv, Ended
    <3>. QED
      BY <2>1, <3>1, <3>2, <3>3, <3>4 DEF ConsoleInv, IndexInv, TypedInv, EchoInv
  <2>. QED
    BY <2>2, <2>3
<1>4. CASE write_full
  <2>1. pc' = "main" /\ ret' = i /\ UNCHANGED <<i, buf, screen, strayed, finish, echo>>
    BY <1>4 DEF write_full
  <2>2. TypeOK'
    BY <1>0, <2>1 DEF TypeOK
  <2>. QED
    BY <1>0, <2>1, <2>2 DEF ConsoleInv, IndexInv, TypedInv, EndedInv, EchoInv
<1>. QED
  BY <1>1, <1>2, <1>3, <1>4

\* A character of the echo.
LEMMA PutStep == ASSUME ConsoleInv, put_char PROVE ConsoleInv'
<1>0. /\ TypeOK /\ IndexInv /\ TypedInv /\ EndedInv /\ EchoInv
      /\ pc = "write" /\ i \in 0 .. (Size - 2)
      /\ buf \in [0 .. Size -> Letters \cup {NL, NUL}]
  BY DEF ConsoleInv, put_char, IndexInv, TypeOK
<1>1. /\ echo' = Append(echo, buf[i]) /\ i' = i + 1
      /\ UNCHANGED <<buf, screen, strayed, finish>>
      /\ IF buf[i] = NL THEN pc' = "main" /\ ret' = i + 1 ELSE UNCHANGED <<pc, ret>>
  BY DEF put_char, line_ends
<1>2. TypeOK'
  <2>1. echo' \in Seq(Letters \cup {NL, NUL})
    BY <1>0, <1>1, AppendProperties DEF TypeOK
  <2>2. pc' \in {"main", "write"} /\ ret' \in -1 .. Size
    BY <1>0, <1>1 DEF TypeOK
  <2>. QED
    BY <1>0, <1>1, <2>1, <2>2 DEF TypeOK
<1>3. CASE buf[i] = NL
  BY <1>0, <1>1, <1>2, <1>3 DEF ConsoleInv, IndexInv, TypedInv, EndedInv, EchoInv
<1>4. CASE buf[i] # NL
  <2>1. StoredIn(buf, i + 1) = Append(StoredIn(buf, i), buf[i])
    BY <1>0, OneMore, i \in 0 .. (Size - 1)
  <2>2. echo' = StoredIn(buf', i') /\ \A k \in 0 .. (i' - 1) : buf'[k] # NL
    BY <1>0, <1>1, <1>4, <2>1 DEF EchoInv
  <2>3. EchoInv'
    BY <1>0, <1>1, <1>4, <2>2 DEF EchoInv
  <2>4. EndedInv'
    BY <1>0, <1>1, <1>4 DEF EndedInv, Ended
  <2>. QED
    BY <1>0, <1>1, <1>2, <1>4, <2>3, <2>4 DEF ConsoleInv, IndexInv, TypedInv
<1>. QED
  BY <1>3, <1>4

LEMMA NextInv == ConsoleInv /\ [Next]_vars => ConsoleInv'
<1>1. ASSUME ConsoleInv, UNCHANGED vars PROVE ConsoleInv'
  BY <1>1 DEF ConsoleInv, TypeOK, IndexInv, TypedInv, EndedInv, EchoInv, Ended, vars
<1>. QED
  BY <1>1, ReadStep, KeyStep, ReturnStep, PutStep DEF Next

LEMMA AlwaysInv == Spec => []ConsoleInv
BY InitInv, NextInv, PTL DEF Spec

-----------------------------------------------------------------------------
(* The theorems.                                                           *)

\* The index of both calls stays between 0 and the size of the buffer: it is back
\* in range after every erase, which takes it through the wrap (io.c:46-60).
THEOREM TypeCorrect == Spec => []TypeOK
<1>1. ConsoleInv => TypeOK
  BY DEF ConsoleInv
<1>. QED
  BY <1>1, AlwaysInv, PTL

\* Whatever is typed and corrected, what is on the screen is what is in the buffer
\* (io.c:47-72), unless erase was pressed on an empty line.
THEOREM ScreenIsBuffer == Spec => []SeenIsStored
<1>1. ConsoleInv => SeenIsStored
  BY DEF ConsoleInv, TypedInv, SeenIsStored, StoredIn, Stored
<1>. QED
  BY <1>1, AlwaysInv, PTL

\* An ended line is echoed to its end, and no further (typo.c:22-24, io.c:107-113).
THEOREM LinesAreEchoed == Spec => EchoesTheLine
<1>1. ASSUME ConsoleInv, Next, pc = "write", pc' = "main", finish = "newline", ~strayed
      PROVE  echo' = screen
  <2>0. /\ TypeOK /\ IndexInv /\ EndedInv /\ EchoInv /\ Ended(ret)
        /\ ret \in 1 .. (Size - 1) /\ i \in 0 .. (Size - 1)
        /\ buf \in [0 .. Size -> Letters \cup {NL, NUL}]
    BY <1>1 DEF ConsoleInv, IndexInv, TypeOK, EndedInv, EchoInv, Ended
  <2>1. i < ret
    <3>1. buf[ret - 1] = NL /\ \A k \in 0 .. (i - 1) : buf[k] # NL
      BY <1>1, <2>0 DEF Ended, EchoInv
    <3>. QED
      BY <2>0, <3>1
  <2>2. CASE put_char
    <3>1. buf[i] = NL /\ echo' = Append(echo, buf[i])
      BY <1>1, <2>2 DEF put_char, line_ends
    <3>2. i = ret - 1
      <4>1. \A k \in 0 .. (ret - 2) : buf[k] \in Letters
        BY <2>0 DEF Ended
      <4>2. NL \notin Letters
        OBVIOUS
      <4>. QED
        BY <2>0, <2>1, <3>1, <4>1, <4>2
    <3>3. StoredIn(buf, i + 1) = Append(StoredIn(buf, i), buf[i])
      BY <2>0, OneMore
    <3>4. echo = StoredIn(buf, i) /\ screen = StoredIn(buf, ret)
      BY <1>1, <2>0 DEF EchoInv, Ended
    <3>5. i + 1 = ret
      BY <2>0, <3>2
    <3>. QED
      BY <3>1, <3>3, <3>4, <3>5
  <2>3. CASE write_full
    BY <2>0, <2>1, <2>3 DEF write_full
  <2>. QED
    BY <1>1, <2>2, <2>3 DEF Next, refused, read_syscall, take_key, eot_key, erase_key, newline_key,
                            letter_key, read_full, typo, returns
<1>2. ConsoleInv /\ [Next]_vars =>
          [pc = "write" /\ pc' = "main" /\ finish = "newline" /\ ~strayed => echo' = screen]_vars
  BY <1>1
<1>. QED
  BY <1>2, AlwaysInv, PTL DEF Spec, EchoesTheLine
=============================================================================
