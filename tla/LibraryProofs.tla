---------------------------- MODULE LibraryProofs ----------------------------
(***************************************************************************)
(* The user library, proved for every call whose arguments are those its   *)
(* format takes, for every text, memory and number, and whatever the width *)
(* of a long is: every property of the run of module Library.              *)
(*                                                                         *)
(*   OnlyTheDestination,  the functions that write: memmove, memset,       *)
(*   TheCopyIsReturned    strcpy, strncpy, strcat, strncat                 *)
(*   FunctionsAgree       the functions that read                          *)
(*   TheTextArrives       printf and snprintf keep the text                *)
(*   FieldsAreFilled      a directive fills its field                      *)
(*   NumbersAreReadBack   strtol, strtoul and sscanf read what is printed  *)
(*   TheTextIsScanned     sscanf stays in the text                         *)
(***************************************************************************)
EXTENDS Library, FiniteSetTheorems, SequenceTheorems, WellFoundedInduction, TLAPS

-----------------------------------------------------------------------------
(* The functions that write.  The invariant says of each how far it has come:
   which part of the result is in memory, and that what is still to be read is
   as the caller left it.  *)

Functions == {"memmove", "memset", "strcpy", "strncpy", "strcat", "strncat"}

\* The call is one that CInit allows.
LegalCall ==
    /\ fun \in Functions
    /\ to \in 0 .. MemSize /\ from \in 0 .. MemSize /\ n \in 0 .. MemSize
    /\ to_end \in 0 .. MemSize /\ from_end \in 0 .. MemSize
    /\ mem0 \in [Addr -> Char]
    /\ Legal

\* k bytes have been copied to a and no other byte has changed.
HasCopied(a, k) == \A b \in Addr : mem[b] = Copied(a, k)[b]

MoveInv ==
    fun = "memmove" =>
        /\ d \in 0 .. n
        /\ pc \in {"copy", "returned"}
        /\ pc = "returned" => d = IF upwards THEN n ELSE 0
        /\ IF upwards THEN HasCopied(to, d)
           ELSE \A b \in Addr : mem[b] = IF b \in (to + d) .. (to + n - 1)
                                         THEN mem0[from + (b - to)] ELSE mem0[b]

SetInv ==
    fun = "memset" =>
        /\ d \in to .. (to + n)
        /\ pc \in {"copy", "returned"}
        /\ pc = "copy" => count = to + n - d
        /\ pc = "returned" => d = to + n
        /\ \A b \in Addr : mem[b] = IF b \in to .. (d - 1) THEN from ELSE mem0[b]

\* seek goes to the end of the first string and has changed nothing.
SeekInv ==
    pc = "seek" =>
        /\ fun \in {"strcat", "strncat"}
        /\ d \in to .. to_end /\ s = from /\ count = n
        /\ HasCopied(to_end, 0)

CopyInv ==
    fun \in {"strcpy", "strcat"} =>
        /\ pc \in {"seek", "copy", "returned"}
        /\ fun = "strcpy" => pc # "seek"
        /\ pc = "copy" => /\ s \in from .. from_end
                          /\ d = to_end + (s - from)
                          /\ HasCopied(to_end, s - from)
        /\ pc = "returned" => HasCopied(to_end, length + 1)

\* The places of the text in memory, up to the one of the terminator.
NcatInv ==
    fun = "strncat" =>
        /\ pc \in {"seek", "copy", "end", "returned"}
        /\ pc = "copy" => /\ s \in from .. from_end /\ s - from < n
                          /\ d = to_end + (s - from)
                          /\ count = n - (s - from)
                          /\ HasCopied(to_end, s - from)
        /\ pc = "end" => /\ n > 0
                         /\ d = to_end + Least(n, length)
                         /\ \A b \in Addr \ {d} : mem[b] = Copied(to_end, Least(n, length))[b]
        /\ pc = "returned" =>
              IF n = 0 THEN HasCopied(to_end, 0)
              ELSE /\ mem[to_end + Least(n, length)] = 0
                   /\ \A b \in Addr \ {to_end + Least(n, length)} :
                         mem[b] = Copied(to_end, Least(n, length))[b]

\* Once the source has not ended in time, only what lies before the destination
\* is known, and that the count is too large to run out in the memory.
NcpyInv ==
    fun = "strncpy" =>
        /\ pc \in {"copy", "fill", "returned", "outside"}
        /\ pc = "copy" => /\ s \in from .. from_end /\ s - from <= n
                          /\ d = to + (s - from)
                          /\ count = n - (s - from)
                          /\ HasCopied(to, s - from)
        /\ (pc # "copy" /\ EndsInTime) =>
              /\ pc # "outside"
              /\ d \in (to + length + 1) .. (to + n)
              /\ pc = "fill" => count = to + n - d
              /\ pc = "returned" => d = to + n
              /\ \A b \in Addr : mem[b] = IF b \in (to + length) .. (d - 1) THEN 0
                                          ELSE Copied(to, length)[b]
        /\ (pc # "copy" /\ ~EndsInTime) =>
              /\ pc # "returned"
              /\ d \in (to + n) .. MemSize
              /\ pc = "fill" => count = SizeMax - (d - (to + n))
              /\ \A b \in Addr : b < to => mem[b] = mem0[b]

IInv ==
    /\ LegalCall
    /\ CTypeOK
    /\ MoveInv /\ SetInv /\ SeekInv /\ CopyInv /\ NcatInv /\ NcpyInv

-----------------------------------------------------------------------------
USE CopyAssumption DEF Addr

LEMMA SameCall ==
    ASSUME LegalCall, UNCHANGED call_vars
    PROVE  /\ LegalCall'
           /\ fun' = fun /\ to' = to /\ from' = from /\ n' = n /\ mem0' = mem0
           /\ to_end' = to_end /\ from_end' = from_end
           /\ length' = length /\ upwards' = upwards /\ EndsInTime' = EndsInTime
BY DEF LegalCall, Legal, Ends, Apart, length, Least, call_vars, upwards, EndsInTime

\* Every call starts within the invariant.
LEMMA InitInv == CInit => IInv
<1>. SUFFICES ASSUME CInit PROVE IInv
  OBVIOUS
<1>1. LegalCall
  BY DEF CInit, LegalCall, Functions
<1>2. CTypeOK
  BY <1>1 DEF CInit, CTypeOK, LegalCall
<1>3. \A a \in 0 .. MemSize : HasCopied(a, 0)
  BY <1>1 DEF CInit, HasCopied, Copied
<1>4. MoveInv
  BY <1>1 DEF CInit, LegalCall, MoveInv, HasCopied, Copied, upwards
<1>5. SetInv
  BY <1>1 DEF CInit, LegalCall, SetInv
<1>6. SeekInv
  BY <1>1, <1>3 DEF CInit, LegalCall, Legal, Ends, SeekInv
<1>7. CopyInv
  BY <1>1, <1>3 DEF CInit, LegalCall, Legal, Ends, CopyInv
<1>8. NcatInv
  BY DEF CInit, NcatInv
<1>9. NcpyInv
  BY <1>1, <1>3 DEF CInit, LegalCall, Legal, Ends, NcpyInv
<1>. QED
  BY <1>1, <1>2, <1>4, <1>5, <1>6, <1>7, <1>8, <1>9 DEF IInv

LEMMA MoveStep ==
    ASSUME IInv, memmove_up \/ memmove_down
    PROVE  IInv'
<1>1. fun = "memmove" /\ pc = "copy" /\ UNCHANGED <<call_vars, s, count>>
  BY DEF memmove_up, memmove_down
<1>2. LegalCall' /\ fun' = fun /\ to' = to /\ from' = from /\ n' = n /\ mem0' = mem0
      /\ upwards' = upwards
  BY <1>1, SameCall DEF IInv
<1>3. to + n <= MemSize /\ from + n <= MemSize /\ to \in Nat /\ from \in Nat /\ n \in Nat
      /\ mem0 \in [Addr -> Char]
  BY <1>1 DEF IInv, LegalCall, Legal
<1>4. CTypeOK' /\ MoveInv'
  <2>1. CASE memmove_up
    <3>1. upwards /\ to < from
      BY <2>1 DEF memmove_up, upwards
    <3>2. d \in 0 .. n /\ \A b \in Addr : mem[b] = IF b \in to .. (to + d - 1)
                                              THEN mem0[from + (b - to)] ELSE mem0[b]
      BY <1>1, <3>1 DEF IInv, MoveInv, HasCopied, Copied
    <3>3. CASE d # n
      <4>1. mem' = [mem EXCEPT ![to + d] = mem[from + d]] /\ d' = d + 1 /\ pc' = "copy"
        BY <1>1, <2>1, <3>3 DEF memmove_up, store
      <4>2. from + d \in Addr /\ to + d \in Addr /\ mem[from + d] = mem0[from + d]
        BY <1>3, <3>1, <3>2, <3>3
      <4>3. CTypeOK'
        BY <1>1, <1>3, <3>2, <3>3, <4>1, <4>2 DEF IInv, CTypeOK
      <4>4. \A b \in Addr : mem'[b] = IF b \in to .. (to + d' - 1)
                                     THEN mem0[from + (b - to)] ELSE mem0[b]
        BY <1>3, <3>2, <3>3, <4>1, <4>2 DEF IInv, CTypeOK
      <4>. QED
        BY <1>2, <1>3, <3>1, <3>2, <3>3, <4>1, <4>3, <4>4 DEF MoveInv, HasCopied, Copied
    <3>4. CASE d = n
      BY <1>1, <1>2, <2>1, <3>1, <3>2, <3>4 DEF memmove_up, IInv, CTypeOK, MoveInv, HasCopied, Copied
    <3>. QED
      BY <3>3, <3>4
  <2>2. CASE memmove_down
    <3>1. ~upwards /\ from <= to
      BY <1>3, <2>2 DEF memmove_down, upwards
    <3>2. d \in 0 .. n /\ \A b \in Addr : mem[b] = IF b \in (to + d) .. (to + n - 1)
                                              THEN mem0[from + (b - to)] ELSE mem0[b]
      BY <1>1, <3>1 DEF IInv, MoveInv
    <3>3. CASE d # 0
      <4>1. mem' = [mem EXCEPT ![to + d - 1] = mem[from + d - 1]] /\ d' = d - 1 /\ pc' = "copy"
        BY <1>1, <2>2, <3>3 DEF memmove_down, store
      <4>2. from + d - 1 \in Addr /\ to + d - 1 \in Addr
            /\ mem[from + d - 1] = mem0[from + d - 1]
        BY <1>3, <3>1, <3>2, <3>3
      <4>3. CTypeOK'
        BY <1>1, <1>3, <3>2, <3>3, <4>1, <4>2 DEF IInv, CTypeOK
      <4>4. \A b \in Addr : mem'[b] = IF b \in (to + d') .. (to + n - 1)
                                     THEN mem0[from + (b - to)] ELSE mem0[b]
        BY <1>3, <3>2, <3>3, <4>1, <4>2 DEF IInv, CTypeOK
      <4>. QED
        BY <1>2, <1>3, <3>1, <3>2, <3>3, <4>1, <4>3, <4>4 DEF MoveInv
    <3>4. CASE d = 0
      BY <1>1, <1>2, <2>2, <3>1, <3>2, <3>4 DEF memmove_down, IInv, CTypeOK, MoveInv
    <3>. QED
      BY <3>3, <3>4
  <2>. QED
    BY <2>1, <2>2
<1>5. SetInv' /\ CopyInv' /\ NcatInv' /\ NcpyInv'
  BY <1>1, <1>2 DEF SetInv, CopyInv, NcatInv, NcpyInv
<1>6. SeekInv'
  BY <1>1, <1>2, <1>4 DEF SeekInv, MoveInv
<1>. QED
  BY <1>2, <1>4, <1>5, <1>6 DEF IInv

LEMMA SetStep ==
    ASSUME IInv, memset
    PROVE  IInv'
<1>1. fun = "memset" /\ pc = "copy" /\ UNCHANGED <<call_vars, s>> /\ count' = dec(count)
  BY DEF memset
<1>2. LegalCall' /\ fun' = fun /\ to' = to /\ from' = from /\ n' = n /\ mem0' = mem0
  BY <1>1, SameCall DEF IInv
<1>3. to + n <= MemSize /\ to \in Nat /\ from \in Char /\ n \in Nat /\ mem0 \in [Addr -> Char]
  BY <1>1 DEF IInv, LegalCall, Legal
<1>4. d \in to .. (to + n) /\ count = to + n - d
      /\ \A b \in Addr : mem[b] = IF b \in to .. (d - 1) THEN from ELSE mem0[b]
  BY <1>1 DEF IInv, SetInv
<1>5. count' \in 0 .. SizeMax /\ (count > 0 => count' = count - 1)
  BY <1>1, <1>3, <1>4 DEF dec
<1>6. CTypeOK' /\ SetInv'
  <2>1. CASE count > 0
    <3>1. mem' = [mem EXCEPT ![d] = from] /\ d' = d + 1 /\ pc' = "copy"
      BY <1>1, <2>1 DEF memset, to_be_set, store
    <3>2. \A b \in Addr : mem'[b] = IF b \in to .. (d' - 1) THEN from ELSE mem0[b]
      BY <1>3, <1>4, <2>1, <3>1 DEF IInv, CTypeOK
    <3>. QED
      BY <1>1, <1>2, <1>3, <1>4, <1>5, <2>1, <3>1, <3>2 DEF IInv, CTypeOK, SetInv
  <2>2. CASE ~(count > 0)
    BY <1>1, <1>2, <1>3, <1>4, <1>5, <2>2 DEF memset, to_be_set, IInv, CTypeOK, SetInv
  <2>. QED
    BY <2>1, <2>2
<1>7. MoveInv' /\ CopyInv' /\ NcatInv' /\ NcpyInv'
  BY <1>1, <1>2 DEF MoveInv, CopyInv, NcatInv, NcpyInv
<1>8. SeekInv'
  BY <1>1, <1>2, <1>6 DEF SeekInv, SetInv
<1>. QED
  BY <1>2, <1>6, <1>7, <1>8 DEF IInv

LEMMA SeekStep ==
    ASSUME IInv, seek
    PROVE  IInv'
<1>1. pc = "seek" /\ UNCHANGED <<call_vars, mem, s, count>>
  BY DEF seek
<1>2. LegalCall' /\ fun' = fun /\ to' = to /\ from' = from /\ n' = n /\ mem0' = mem0
      /\ to_end' = to_end /\ from_end' = from_end /\ length' = length
  BY <1>1, SameCall DEF IInv
<1>3. fun \in {"strcat", "strncat"} /\ d \in to .. to_end /\ s = from /\ count = n
      /\ HasCopied(to_end, 0)
  BY <1>1 DEF IInv, SeekInv
<1>4. to \in Nat /\ to_end \in Addr /\ from \in Nat /\ from_end \in Nat /\ from <= from_end
      /\ n \in Nat /\ mem0 \in [Addr -> Char] /\ mem0[to_end] = 0
  BY <1>3 DEF IInv, LegalCall, Legal, Ends
<1>5. HasCopied(to_end, 0)'
  BY <1>1, <1>2, <1>3 DEF HasCopied, Copied
<1>6. /\ CTypeOK' /\ d' \in to .. to_end
      /\ pc' = "copy" => d' = to_end /\ (fun = "strncat" => n # 0)
      /\ pc' \in {"seek", "copy", "returned"}
      /\ pc' = "returned" => fun = "strncat" /\ n = 0
  <2>1. mem[to_end] = 0
    BY <1>3, <1>4 DEF HasCopied, Copied
  <2>2. CASE fun = "strncat" /\ n = 0
    BY <1>1, <1>3, <2>2 DEF seek, IInv, CTypeOK
  <2>3. CASE ~(fun = "strncat" /\ n = 0) /\ mem[d] # 0
    BY <1>1, <1>3, <1>4, <2>1, <2>3 DEF seek, IInv, CTypeOK
  <2>4. CASE ~(fun = "strncat" /\ n = 0) /\ mem[d] = 0
    <3>1. d = to_end
      <4>1. mem[d] = mem0[d]
        BY <1>3, <1>4 DEF HasCopied, Copied
      <4>. QED
        BY <1>3, <1>4, <2>4, <4>1 DEF IInv, LegalCall, Legal, Ends
    <3>. QED
      BY <1>1, <1>3, <2>4, <3>1 DEF seek, IInv, CTypeOK
  <2>. QED
    BY <2>2, <2>3, <2>4
<1>7. CopyInv'
  BY <1>1, <1>2, <1>3, <1>4, <1>5, <1>6 DEF CopyInv
<1>8. NcatInv'
  BY <1>1, <1>2, <1>3, <1>4, <1>5, <1>6 DEF NcatInv
<1>9. SeekInv' /\ MoveInv' /\ SetInv' /\ NcpyInv'
  BY <1>1, <1>2, <1>3, <1>5, <1>6 DEF SeekInv, MoveInv, SetInv, NcpyInv
<1>. QED
  BY <1>2, <1>6, <1>7, <1>8, <1>9 DEF IInv

LEMMA CopyStep ==
    ASSUME IInv, copy_string
    PROVE  IInv'
<1>1. fun \in {"strcpy", "strcat"} /\ pc = "copy" /\ UNCHANGED <<call_vars, count>>
      /\ mem' = [mem EXCEPT ![d] = mem[s]] /\ d' = d + 1 /\ s' = s + 1
      /\ pc' = IF mem[s] = 0 THEN "returned" ELSE "copy"
  BY DEF copy_string, store
<1>2. LegalCall' /\ fun' = fun /\ from' = from /\ mem0' = mem0 /\ to_end' = to_end
      /\ from_end' = from_end /\ length' = length
  BY <1>1, SameCall DEF IInv
<1>3. s \in from .. from_end /\ d = to_end + (s - from) /\ HasCopied(to_end, s - from)
  BY <1>1 DEF IInv, CopyInv
<1>4. /\ from \in Addr /\ from_end \in Addr /\ mem0 \in [Addr -> Char]
      /\ to_end \in Nat /\ to_end + (from_end - from) < MemSize
      /\ mem0[from_end] = 0 /\ \A b \in from .. (from_end - 1) : mem0[b] # 0
      /\ to_end + (from_end - from) + 1 <= from \/ from_end + 1 <= to_end
  <2>1. LegalCall /\ length \in Int
    BY DEF IInv, LegalCall, length
  <2>2. /\ Ends(mem0, from, from_end) /\ to_end + length < MemSize /\ to <= to_end
        /\ Apart(to, (to_end - to) + length + 1, from, length + 1)
    BY <1>1, <2>1 DEF LegalCall, Legal, Ends
  <2>. QED
    BY <2>1, <2>2 DEF LegalCall, Ends, Apart, length
<1>5. s \in Addr /\ d \in Addr /\ mem[s] = mem0[s]
  BY <1>3, <1>4 DEF HasCopied, Copied
<1>6. HasCopied(to_end, s - from)' /\ CTypeOK'
  BY <1>1, <1>2, <1>3, <1>4, <1>5 DEF HasCopied, Copied, IInv, CTypeOK
<1>7. CopyInv'
  <2>1. mem[s] = 0 <=> s = from_end
    BY <1>3, <1>4, <1>5
  <2>2. CASE s = from_end
    BY <1>1, <1>2, <1>3, <1>4, <1>6, <2>1, <2>2 DEF CopyInv, length
  <2>3. CASE s # from_end
    <3>1. s + 1 \in from .. from_end /\ d' = to_end + (s' - from) /\ pc' = "copy"
      BY <1>1, <1>3, <1>4, <2>1, <2>3
    <3>. QED
      BY <1>1, <1>2, <1>6, <3>1 DEF CopyInv
  <2>. QED
    BY <2>2, <2>3
<1>8. SeekInv' /\ MoveInv' /\ SetInv' /\ NcatInv' /\ NcpyInv'
  BY <1>1, <1>2 DEF SeekInv, MoveInv, SetInv, NcatInv, NcpyInv
<1>. QED
  BY <1>2, <1>6, <1>7, <1>8 DEF IInv

LEMMA NcatStep ==
    ASSUME IInv, strncat_copy \/ strncat_end
    PROVE  IInv'
<1>1. fun = "strncat" /\ UNCHANGED call_vars
  BY DEF strncat_copy, strncat_end
<1>2. LegalCall' /\ fun' = fun /\ from' = from /\ n' = n /\ mem0' = mem0
      /\ to_end' = to_end /\ from_end' = from_end /\ length' = length
  BY <1>1, SameCall DEF IInv
<1>3. /\ from \in Addr /\ from_end \in Addr /\ from <= from_end
      /\ mem0 \in [Addr -> Char] /\ to_end \in Nat /\ n \in Nat
      /\ mem0[from_end] = 0 /\ \A b \in from .. (from_end - 1) : mem0[b] # 0
      /\ length = from_end - from
      /\ Least(n, length) \in Nat /\ Least(n, length) <= n /\ Least(n, length) <= length
      /\ Least(n, length) = n \/ Least(n, length) = length
      /\ to_end + Least(n, length) < MemSize
      /\ to_end + Least(n, length) + 1 <= from \/ from_end + 1 <= to_end
  BY <1>1 DEF IInv, LegalCall, Legal, Ends, Apart, length, Least
<1>4. Least(n, length)' = Least(n, length)
  BY <1>2
<1>5. CTypeOK' /\ NcatInv' /\ pc' # "seek"
  <2>1. CASE strncat_copy
    <3>1. pc = "copy" /\ mem' = [mem EXCEPT ![d] = mem[s]] /\ s' = s + 1
          /\ IF mem[s] = 0 THEN pc' = "end" /\ d' = d /\ count' = count
             ELSE d' = d + 1 /\ count' = count - 1 /\ pc' = IF count = 1 THEN "end" ELSE "copy"
      BY <2>1 DEF strncat_copy, store
    <3>2. s \in from .. from_end /\ s - from < n /\ d = to_end + (s - from)
          /\ count = n - (s - from) /\ HasCopied(to_end, s - from)
      BY <1>1, <3>1 DEF IInv, NcatInv
    <3>3. s \in Addr /\ d \in Addr /\ mem[s] = mem0[s]
      BY <1>3, <3>2 DEF HasCopied, Copied
    <3>4. CTypeOK'
      <4>1. mem \in [Addr -> Char] /\ d \in 0 .. MemSize /\ s \in Nat /\ count \in 0 .. SizeMax
        BY DEF IInv, CTypeOK
      <4>2. mem' \in [Addr -> Char]
        BY <3>1, <3>3, <4>1
      <4>3. count >= 1
        BY <1>3, <3>2
      <4>4. d' \in 0 .. MemSize /\ s' \in Nat /\ count' \in 0 .. SizeMax
        <5>1. d < MemSize
          BY <3>3
        <5>2. d' \in {d, d + 1} /\ s' = s + 1 /\ count' \in {count, count - 1}
          BY <3>1
        <5>. QED
          BY <4>1, <4>3, <5>1, <5>2
      <4>5. pc' \in {"end", "copy"}
        BY <3>1
      <4>. QED
        BY <4>2, <4>4, <4>5 DEF CTypeOK
    <3>5. HasCopied(to_end, s - from)'
      <4>1. \A b \in Addr : mem[b] = IF b \in to_end .. (to_end + (s - from) - 1)
                                    THEN mem0[from + (b - to_end)] ELSE mem0[b]
        BY <3>2 DEF HasCopied, Copied
      <4>2. \A b \in Addr : mem'[b] = IF b = d THEN mem0[s] ELSE mem[b]
        BY <3>1, <3>3 DEF IInv, CTypeOK
      <4>3. \A b \in Addr : mem'[b] = IF b \in to_end .. (to_end + (s' - from) - 1)
                                     THEN mem0[from + (b - to_end)] ELSE mem0[b]
        <5>1. /\ from \in Int /\ from_end \in Int /\ to_end \in Int /\ s \in from .. from_end
              /\ d = to_end + (s - from) /\ s' = s + 1
          BY <1>3, <3>1, <3>2
        <5>. SUFFICES ASSUME NEW b \in Addr
                      PROVE  mem'[b] = IF b \in to_end .. (to_end + (s' - from) - 1)
                                       THEN mem0[from + (b - to_end)] ELSE mem0[b]
          OBVIOUS
        <5>2. CASE b = d
          BY <4>2, <5>1, <5>2
        <5>3. CASE b # d
          BY <4>1, <4>2, <5>1, <5>3
        <5>. QED
          BY <5>2, <5>3
      <4>. QED
        BY <1>2, <4>3 DEF HasCopied, Copied
    <3>6. CASE s = from_end
      <4>1. pc' = "end" /\ d' = d /\ Least(n, length) = length /\ d = to_end + length
        BY <1>3, <3>1, <3>2, <3>3, <3>6
      <4>2. \A b \in Addr \ {d} : mem'[b] = Copied(to_end, length)[b]
        BY <1>3, <3>1, <3>2, <3>6 DEF HasCopied, Copied, IInv, CTypeOK
      <4>. QED
        BY <1>2, <1>3, <3>2, <3>4, <4>1, <4>2 DEF NcatInv, Copied
    <3>7. CASE s # from_end
      <4>0. /\ from \in Int /\ from_end \in Int /\ to_end \in Int /\ n \in Int /\ length \in Int
            /\ n <= length => Least(n, length) = n
        BY <1>3 DEF Least
      <4>1. mem[s] # 0 /\ d' = d + 1 /\ count' = count - 1 /\ s' = s + 1
            /\ pc' = IF count = 1 THEN "end" ELSE "copy"
        <5>1. mem0[s] # 0
          BY <1>3, <3>2, <3>7
        <5>. QED
          BY <3>1, <3>3, <5>1
      <4>2. CASE count = 1
        <5>1. pc' = "end" /\ n > 0 /\ Least(n, length) = n /\ s' - from = n
              /\ d' = to_end + n
          <6>1. n = s - from + 1 /\ n <= length
            BY <1>3, <4>0, <3>2, <3>7, <4>2
          <6>. QED
            BY <4>0, <3>2, <4>1, <4>2, <6>1
        <5>. QED
          BY <1>2, <1>3, <3>4, <3>5, <5>1 DEF NcatInv, HasCopied, Copied
      <4>3. CASE count # 1
        <5>1. s' \in from .. from_end /\ s' - from < n /\ d' = to_end + (s' - from)
              /\ count' = n - (s' - from) /\ pc' = "copy"
          BY <4>0, <3>2, <3>7, <4>1, <4>3
        <5>. QED
          BY <1>2, <3>4, <3>5, <5>1 DEF NcatInv
      <4>. QED
        BY <4>2, <4>3
    <3>. QED
      BY <3>6, <3>7
  <2>2. CASE strncat_end
    <3>1. pc = "end" /\ mem' = [mem EXCEPT ![d] = 0] /\ pc' = "returned" /\ UNCHANGED <<d, s, count>>
      BY <2>2 DEF strncat_end, store
    <3>2. n > 0 /\ d = to_end + Least(n, length)
          /\ \A b \in Addr \ {d} : mem[b] = Copied(to_end, Least(n, length))[b]
      BY <1>1, <3>1 DEF IInv, NcatInv
    <3>3. CTypeOK'
      BY <1>3, <3>1, <3>2 DEF IInv, CTypeOK
    <3>4. mem'[d] = 0 /\ \A b \in Addr \ {d} : mem'[b] = Copied(to_end, Least(n, length))[b]
      BY <1>3, <3>1, <3>2 DEF IInv, CTypeOK
    <3>. QED
      BY <1>2, <1>3, <1>4, <3>1, <3>2, <3>3, <3>4 DEF NcatInv, Copied
  <2>. QED
    BY <2>1, <2>2
<1>6. SeekInv' /\ MoveInv' /\ SetInv' /\ CopyInv' /\ NcpyInv'
  BY <1>1, <1>2, <1>5 DEF SeekInv, MoveInv, SetInv, CopyInv, NcpyInv
<1>. QED
  BY <1>2, <1>5, <1>6 DEF IInv

LEMMA NcpyStep ==
    ASSUME IInv, strncpy
    PROVE  IInv'
<1>1. fun = "strncpy" /\ UNCHANGED call_vars /\ count' = dec(count)
  BY DEF strncpy
<1>2. LegalCall' /\ fun' = fun /\ to' = to /\ from' = from /\ n' = n /\ mem0' = mem0
      /\ from_end' = from_end /\ length' = length /\ EndsInTime' = EndsInTime
  BY <1>1, SameCall DEF IInv
<1>3. /\ from \in Addr /\ from_end \in Addr /\ from <= from_end
      /\ mem0 \in [Addr -> Char] /\ to \in Nat /\ n \in Nat /\ to + n <= MemSize
      /\ mem0[from_end] = 0 /\ \A b \in from .. (from_end - 1) : mem0[b] # 0
      /\ length = from_end - from
      /\ to + n <= from \/ from_end + 1 <= to
      /\ EndsInTime <=> length < n
  <2>1. LegalCall /\ length \in Int
    BY DEF IInv, LegalCall, length
  <2>2. /\ Ends(mem0, from, from_end) /\ to + n <= MemSize
        /\ Apart(to, n, from, length + 1)
    BY <1>1, <2>1 DEF LegalCall, Legal
  <2>. QED
    BY <2>1, <2>2 DEF LegalCall, Ends, Apart, length, EndsInTime
<1>4. count \in 0 .. SizeMax /\ count' \in 0 .. SizeMax /\ (count > 0 => count' = count - 1)
      /\ (count = 0 => count' = SizeMax)
  BY <1>1 DEF IInv, CTypeOK, dec
<1>5. ASSUME pc = "copy"
      PROVE  /\ s \in from .. from_end /\ s - from <= n /\ d = to + (s - from)
             /\ count = n - (s - from) /\ HasCopied(to, s - from)
  BY <1>1, <1>5 DEF IInv, NcpyInv
<1>6. CTypeOK' /\ NcpyInv' /\ pc' # "seek"
  <2>1. CASE pc = "copy" /\ count > 0
    <3>1. mem' = [mem EXCEPT ![d] = mem[s]] /\ d' = d + 1 /\ s' = s + 1
          /\ pc' = IF mem[s] = 0 THEN "fill" ELSE "copy"
      BY <2>1 DEF strncpy, store
    <3>2. /\ s \in from .. from_end /\ s - from < n /\ d = to + (s - from)
          /\ count = n - (s - from) /\ HasCopied(to, s - from)
      BY <1>3, <1>5, <2>1
    <3>3. s \in Addr /\ d \in Addr /\ mem[s] = mem0[s]
      BY <1>3, <3>2 DEF HasCopied, Copied
    <3>4. CTypeOK' /\ \A b \in Addr : mem'[b] = IF b = d THEN mem0[s] ELSE mem[b]
      BY <1>3, <1>4, <3>1, <3>2, <3>3 DEF IInv, CTypeOK
    <3>5. \A b \in Addr : mem'[b] = IF b \in to .. (to + (s' - from) - 1)
                                   THEN mem0[from + (b - to)] ELSE mem0[b]
      <4>1. \A b \in Addr : mem[b] = IF b \in to .. (to + (s - from) - 1)
                                    THEN mem0[from + (b - to)] ELSE mem0[b]
        BY <3>2 DEF HasCopied, Copied
      <4>2. /\ from \in Int /\ from_end \in Int /\ to \in Int /\ s \in from .. from_end
            /\ d = to + (s - from) /\ s' = s + 1
        BY <1>3, <3>1, <3>2
      <4>. SUFFICES ASSUME NEW b \in Addr
                    PROVE  mem'[b] = IF b \in to .. (to + (s' - from) - 1)
                                     THEN mem0[from + (b - to)] ELSE mem0[b]
        OBVIOUS
      <4>3. CASE b = d
        BY <3>4, <4>2, <4>3
      <4>4. CASE b # d
        BY <3>4, <4>1, <4>2, <4>4
      <4>. QED
        BY <4>3, <4>4
    <3>6. CASE s = from_end
      <4>1. pc' = "fill" /\ EndsInTime /\ d' = to + length + 1 /\ count' = n - (length + 1)
            /\ length \in Nat /\ length < n /\ to \in Nat /\ n \in Nat
            /\ d = to + length /\ s' - from = length + 1
        <5>1. pc' = "fill"
          BY <1>3, <3>1, <3>3, <3>6
        <5>2. /\ from \in Nat /\ length = from_end - from /\ length \in Nat /\ to \in Nat
              /\ n \in Nat /\ s - from < n /\ d = to + (s - from) /\ count = n - (s - from)
              /\ EndsInTime <=> length < n
          BY <1>3, <3>2
        <5>3. d' = d + 1 /\ s' = s + 1 /\ count' = count - 1
          BY <1>4, <2>1, <3>1
        <5>4. s - from = length /\ s \in Int
          BY <1>3, <3>6
        <5>5. length < n /\ EndsInTime /\ d = to + length /\ count = n - length
          BY <5>2, <5>4
        <5>6. d' = to + length + 1 /\ count' = n - (length + 1)
          BY <5>2, <5>3, <5>5
        <5>7. s' - from = length + 1
          BY <5>2, <5>3, <5>4
        <5>. QED
          BY <5>1, <5>2, <5>5, <5>6, <5>7
      <4>2. mem'[d] = 0
        BY <1>3, <3>3, <3>4, <3>6
      <4>3. \A b \in Addr : mem'[b] = IF b \in (to + length) .. (d' - 1) THEN 0
                                     ELSE Copied(to, length)[b]
        <5>. SUFFICES ASSUME NEW b \in Addr
                      PROVE  mem'[b] = IF b \in (to + length) .. (d' - 1) THEN 0
                                       ELSE IF b \in to .. (to + length - 1)
                                            THEN mem0[from + (b - to)] ELSE mem0[b]
          BY DEF Copied
        <5>1. CASE b = d
          BY <4>1, <4>2, <5>1
        <5>2. CASE b # d
          BY <3>5, <4>1, <5>2
        <5>. QED
          BY <5>1, <5>2
      <4>4. d' \in (to + length + 1) .. (to + n) /\ count' = to + n - d'
        BY <4>1
      <4>. QED
        BY <1>2, <3>4, <4>1, <4>3, <4>4 DEF NcpyInv, Copied
    <3>7. CASE s # from_end
      <4>1. pc' = "copy"
        BY <1>3, <3>1, <3>2, <3>3, <3>7
      <4>2. s' \in from .. from_end /\ s' - from <= n /\ d' = to + (s' - from)
            /\ count' = n - (s' - from)
        <5>1. /\ from \in Nat /\ from_end \in Nat /\ to \in Nat /\ n \in Nat
              /\ s \in from .. from_end /\ s - from < n /\ d = to + (s - from)
              /\ count = n - (s - from)
          BY <1>3, <3>2
        <5>. QED
          BY <1>4, <2>1, <3>1, <3>7, <5>1
      <4>3. HasCopied(to, s - from)'
        BY <1>2, <3>5 DEF HasCopied, Copied
      <4>. QED
        BY <1>2, <3>4, <4>1, <4>2, <4>3 DEF NcpyInv
    <3>. QED
      BY <3>6, <3>7
  <2>2. CASE pc = "copy" /\ ~(count > 0)
    <3>1. UNCHANGED <<mem, d, s>> /\ pc' = "fill" /\ count = 0
      BY <1>4, <2>2 DEF strncpy
    <3>2. ~EndsInTime /\ d = to + n
      BY <1>3, <1>5, <2>2, <3>1
    <3>3. \A b \in Addr : b < to => mem[b] = mem0[b]
      BY <1>3, <1>5, <2>2 DEF HasCopied, Copied
    <3>. QED
      BY <1>2, <1>3, <1>4, <3>1, <3>2, <3>3 DEF IInv, CTypeOK, NcpyInv
  <2>3. CASE pc = "fill" /\ count > 0
    <3>1. CASE d \in Addr
      <4>1. mem' = [mem EXCEPT ![d] = 0] /\ d' = d + 1 /\ UNCHANGED <<s, pc>>
        BY <2>3, <3>1 DEF strncpy, store
      <4>2. CTypeOK' /\ \A b \in Addr : mem'[b] = IF b = d THEN 0 ELSE mem[b]
        BY <1>4, <2>3, <3>1, <4>1 DEF IInv, CTypeOK
      <4>3. CASE EndsInTime
        <5>1. /\ d \in (to + length + 1) .. (to + n) /\ count = to + n - d
              /\ \A b \in Addr : mem[b] = IF b \in (to + length) .. (d - 1) THEN 0
                                          ELSE Copied(to, length)[b]
          BY <1>1, <2>3, <4>3 DEF IInv, NcpyInv
        <5>2. d' \in (to + length + 1) .. (to + n) /\ count' = to + n - d'
          BY <1>3, <1>4, <2>3, <4>1, <5>1
        <5>3. \A b \in Addr : mem'[b] = IF b \in (to + length) .. (d' - 1) THEN 0
                                       ELSE Copied(to, length)[b]
          BY <1>3, <4>1, <4>2, <5>1
        <5>. QED
          BY <1>2, <2>3, <4>1, <4>2, <4>3, <5>2, <5>3 DEF NcpyInv, Copied
      <4>4. CASE ~EndsInTime
        <5>1. /\ d \in (to + n) .. MemSize /\ count = SizeMax - (d - (to + n))
              /\ \A b \in Addr : b < to => mem[b] = mem0[b]
          BY <1>1, <2>3, <4>4 DEF IInv, NcpyInv
        <5>2. d' \in (to + n) .. MemSize /\ count' = SizeMax - (d' - (to + n))
          BY <1>3, <1>4, <2>3, <3>1, <4>1, <5>1
        <5>3. \A b \in Addr : b < to => mem'[b] = mem0[b]
          BY <1>3, <4>2, <5>1
        <5>. QED
          BY <1>2, <2>3, <4>1, <4>2, <4>4, <5>2, <5>3 DEF NcpyInv
      <4>. QED
        BY <4>3, <4>4
    <3>2. CASE d \notin Addr
      <4>1. pc' = "outside" /\ UNCHANGED <<mem, d, s>>
        BY <2>3, <3>2 DEF strncpy
      <4>2. ~EndsInTime
        BY <1>1, <1>3, <2>3, <3>2 DEF IInv, NcpyInv
      <4>. QED
        BY <1>1, <1>2, <1>4, <2>3, <4>1, <4>2 DEF IInv, CTypeOK, NcpyInv
    <3>. QED
      BY <3>1, <3>2
  <2>4. CASE pc = "fill" /\ ~(count > 0)
    <3>1. pc' = "returned" /\ UNCHANGED <<mem, d, s>> /\ count = 0
      BY <1>4, <2>4 DEF strncpy
    <3>2. EndsInTime
      BY <1>1, <1>3, <2>4, <3>1 DEF IInv, NcpyInv
    <3>3. d = to + n
      BY <1>1, <1>3, <2>4, <3>1, <3>2 DEF IInv, NcpyInv
    <3>. QED
      BY <1>1, <1>2, <1>3, <1>4, <2>4, <3>1, <3>2, <3>3 DEF IInv, CTypeOK, NcpyInv, Copied
  <2>. QED
    BY <2>1, <2>2, <2>3, <2>4 DEF strncpy
<1>7. SeekInv' /\ MoveInv' /\ SetInv' /\ CopyInv' /\ NcatInv'
  BY <1>1, <1>2, <1>6 DEF SeekInv, MoveInv, SetInv, CopyInv, NcatInv
<1>. QED
  BY <1>2, <1>6, <1>7 DEF IInv

LEMMA NextInv == IInv /\ [CNext]_cvars => IInv'
<1>1. ASSUME IInv, UNCHANGED cvars PROVE IInv'
  <2>1. LegalCall' /\ fun' = fun /\ to' = to /\ from' = from /\ n' = n /\ mem0' = mem0
        /\ to_end' = to_end /\ from_end' = from_end
        /\ length' = length /\ upwards' = upwards /\ EndsInTime' = EndsInTime
        /\ UNCHANGED <<mem, d, s, count, pc>>
    BY <1>1, SameCall DEF IInv, cvars
  <2>2. CTypeOK' /\ MoveInv' /\ SetInv' /\ SeekInv'
    BY <1>1, <2>1 DEF IInv, CTypeOK, MoveInv, SetInv, SeekInv, HasCopied, Copied
  <2>3. CopyInv' /\ NcatInv' /\ NcpyInv'
    BY <1>1, <2>1 DEF IInv, CopyInv, NcatInv, NcpyInv, HasCopied, Copied
  <2>. QED
    BY <2>1, <2>2, <2>3 DEF IInv
<1>. QED
  BY <1>1, MoveStep, SetStep, SeekStep, CopyStep, NcatStep, NcpyStep DEF CNext

LEMMA AlwaysInv == CSpec => []IInv
BY InitInv, NextInv, PTL DEF CSpec

-----------------------------------------------------------------------------
(* The theorems.                                                            *)

LEMMA InvKeepsDestination == IInv => WritesOnlyTheDestination
<1>. SUFFICES ASSUME IInv, NEW b \in Addr, mem[b] # mem0[b]
              PROVE  CASE fun \in {"memmove", "memset"} -> b \in to .. (to + n - 1)
                       [] fun \in {"strcpy", "strcat"}  -> b \in to_end .. (to_end + length)
                       [] fun = "strncat" -> b \in to_end .. (to_end + n)
                       [] fun = "strncpy" -> b >= to /\ (EndsInTime => b < to + n)
  BY DEF WritesOnlyTheDestination
<1>1. /\ LegalCall /\ b \in Nat /\ to \in Nat /\ n \in Nat /\ to_end \in Nat
      /\ from \in Nat /\ from_end \in Nat /\ length = from_end - from
  BY DEF IInv, LegalCall, length
<1>2. CASE fun = "memmove"
  BY <1>1, <1>2 DEF IInv, MoveInv, HasCopied, Copied
<1>3. CASE fun = "memset"
  BY <1>1, <1>3 DEF IInv, SetInv
<1>4. CASE fun \in {"strcpy", "strcat"}
  <2>1. length \in Nat
    BY <1>1, <1>4 DEF LegalCall, Legal, Ends, length
  <2>2. PICK k \in 0 .. (length + 1) : HasCopied(to_end, k)
    <3>1. CASE pc = "seek"
      BY <2>1, <3>1 DEF IInv, SeekInv
    <3>2. CASE pc = "copy"
      <4>1. s \in from .. from_end /\ HasCopied(to_end, s - from)
        BY <1>4, <3>2 DEF IInv, CopyInv
      <4>2. s - from \in 0 .. (length + 1)
        BY <1>1, <4>1
      <4>. QED
        BY <4>1, <4>2
    <3>3. CASE pc = "returned"
      BY <1>4, <2>1, <3>3 DEF IInv, CopyInv
    <3>. QED
      BY <1>4, <3>1, <3>2, <3>3 DEF IInv, CopyInv
  <2>3. b \in to_end .. (to_end + k - 1)
    BY <2>2 DEF HasCopied, Copied
  <2>4. b \in to_end .. (to_end + length)
    BY <1>1, <2>1, <2>3
  <2>. QED
    BY <1>4, <2>4
<1>5. CASE fun = "strncat"
  <2>1. Least(n, length) \in Int /\ Least(n, length) <= n
    BY <1>1 DEF Least
  <2>2. CASE pc \in {"seek", "copy"} \/ (pc = "returned" /\ n = 0)
    <3>1. PICK k \in 0 .. n : HasCopied(to_end, k)
      <4>1. CASE pc = "copy"
        <5>1. s \in from .. from_end /\ s - from < n /\ HasCopied(to_end, s - from)
          BY <1>5, <4>1 DEF IInv, NcatInv
        <5>2. s - from \in 0 .. n
          BY <1>1, <5>1
        <5>. QED
          BY <5>1, <5>2
      <4>2. CASE pc # "copy"
        BY <1>1, <1>5, <2>2, <4>2 DEF IInv, SeekInv, NcatInv
      <4>. QED
        BY <4>1, <4>2
    <3>2. b \in to_end .. (to_end + k - 1)
      BY <3>1 DEF HasCopied, Copied
    <3>3. b \in to_end .. (to_end + n)
      BY <1>1, <3>2
    <3>. QED
      BY <1>5, <3>3
  <2>3. CASE pc = "end" \/ (pc = "returned" /\ n # 0)
    <3>1. b # to_end + Least(n, length) => mem[b] = Copied(to_end, Least(n, length))[b]
      BY <1>5, <2>3 DEF IInv, NcatInv
    <3>2. b \in to_end .. (to_end + Least(n, length))
      <4>1. b = to_end + Least(n, length) \/ b \in to_end .. (to_end + Least(n, length) - 1)
        BY <3>1 DEF Copied
      <4>2. Least(n, length) >= 0
        <5>1. length \in Nat
          BY <1>1, <1>5 DEF LegalCall, Legal, Ends, length
        <5>. QED
          BY <1>1, <5>1 DEF Least
      <4>. QED
        BY <1>1, <2>1, <4>1, <4>2
    <3>3. b \in to_end .. (to_end + n)
      BY <1>1, <2>1, <3>2
    <3>. QED
      BY <1>5, <3>3
  <2>. QED
    BY <1>5, <2>2, <2>3 DEF IInv, NcatInv
<1>6. CASE fun = "strncpy"
  <2>1. b >= to /\ (EndsInTime => b < to + n)
    <3>1. CASE pc = "copy"
      <4>1. s \in from .. from_end /\ s - from <= n /\ HasCopied(to, s - from)
        BY <1>6, <3>1 DEF IInv, NcpyInv
      <4>2. b \in to .. (to + (s - from) - 1)
        BY <4>1 DEF HasCopied, Copied
      <4>. QED
        BY <1>1, <4>1, <4>2
    <3>2. CASE pc # "copy" /\ EndsInTime
      <4>1. /\ d \in (to + length + 1) .. (to + n)
            /\ mem[b] = IF b \in (to + length) .. (d - 1) THEN 0 ELSE Copied(to, length)[b]
        BY <1>6, <3>2 DEF IInv, NcpyInv
      <4>2. length \in Nat
        BY <1>1, <1>6 DEF LegalCall, Legal, Ends, length
      <4>3. b \in (to + length) .. (d - 1) \/ b \in to .. (to + length - 1)
        BY <4>1 DEF Copied
      <4>4. length < n
        BY <3>2 DEF EndsInTime
      <4>. QED
        BY <1>1, <4>1, <4>2, <4>3, <4>4
    <3>3. CASE pc # "copy" /\ ~EndsInTime
      <4>1. ~(b < to)
        BY <1>6, <3>3 DEF IInv, NcpyInv
      <4>. QED
        BY <1>1, <3>3, <4>1
    <3>. QED
      BY <3>1, <3>2, <3>3
  <2>. QED
    BY <1>6, <2>1
<1>. QED
  BY <1>1, <1>2, <1>3, <1>4, <1>5, <1>6 DEF LegalCall, Functions

\* At every step of every legal call, in a memory of any size, only bytes of the
\* destination differ from what the caller had there (strncat.c:47-48); a strncpy
\* whose source does not end in time keeps what lies before the destination.
THEOREM OnlyTheDestination == CSpec => []WritesOnlyTheDestination
BY InvKeepsDestination, AlwaysInv, PTL

LEMMA InvReturnsCopy == IInv => ReturnsTheCopy
<1>. SUFFICES ASSUME IInv PROVE ReturnsTheCopy
  OBVIOUS
<1>1. /\ LegalCall /\ to \in Nat /\ n \in Nat /\ to_end \in Nat /\ mem0 \in [Addr -> Char]
      /\ from \in Nat /\ from_end \in Nat /\ length = from_end - from /\ mem \in [Addr -> Char]
  BY DEF IInv, LegalCall, CTypeOK, length
<1>2. pc = "outside" => fun = "strncpy" /\ ~EndsInTime
  BY <1>1 DEF IInv, LegalCall, Functions, MoveInv, SetInv, CopyInv, NcatInv, NcpyInv
<1>3. pc = "returned" /\ fun = "strncpy" => EndsInTime
  BY DEF IInv, NcpyInv
<1>4. ASSUME pc = "returned", fun = "memmove" PROVE mem = Copied(to, n)
  BY <1>1, <1>4 DEF IInv, MoveInv, HasCopied, Copied
<1>5. ASSUME pc = "returned", fun = "memset"
      PROVE  mem = [b \in Addr |-> IF b \in to .. (to + n - 1) THEN from ELSE mem0[b]]
  BY <1>1, <1>5 DEF IInv, SetInv
<1>6. ASSUME pc = "returned", fun \in {"strcpy", "strcat"}
      PROVE  mem = Copied(to_end, length + 1) /\ (fun = "strcpy" => to_end = to)
  BY <1>1, <1>6 DEF IInv, CopyInv, HasCopied, Copied, LegalCall, Legal
<1>7. ASSUME pc = "returned", fun = "strncat"
      PROVE  mem = IF n = 0 THEN mem0
                   ELSE With(Copied(to_end, Least(n, length)), to_end + Least(n, length), 0)
  <2>1. CASE n = 0
    BY <1>1, <1>7, <2>1 DEF IInv, NcatInv, HasCopied, Copied
  <2>2. CASE n # 0
    BY <1>1, <1>7, <2>2 DEF IInv, NcatInv, With, Copied
  <2>. QED
    BY <2>1, <2>2
<1>8. ASSUME pc = "returned", fun = "strncpy"
      PROVE  mem = [b \in Addr |-> IF b \in (to + length) .. (to + n - 1) THEN 0
                                   ELSE Copied(to, length)[b]]
  BY <1>1, <1>3, <1>8 DEF IInv, NcpyInv, Copied
<1>. QED
  BY <1>1, <1>2, <1>3, <1>4, <1>5, <1>6, <1>7, <1>8 DEF ReturnsTheCopy, LegalCall, Functions

\* Every function that returns has left exactly what C says, memmove whatever the
\* overlap of its regions; only a strncpy whose source does not end in time leaves
\* its destination, and that one never returns.
THEOREM TheCopyIsReturned == CSpec => []ReturnsTheCopy
BY InvReturnsCopy, AlwaysInv, PTL

\* Among the other calls of the library.
Copying == IF job = "copy" THEN IInv ELSE mem = mem0 /\ pc = "none"

\* And so in the library as a whole, whose other functions leave that memory alone.
THEOREM TheMemoryIsKept == Spec => [](WritesOnlyTheDestination /\ ReturnsTheCopy)
<1>1. Init => Copying
  <2>1. CInit => IInv
    BY InitInv
  <2>2. NoCopy => mem = mem0 /\ pc = "none"
    BY DEF NoCopy
  <2>. QED
    BY <2>1, <2>2 DEF Init, Copying
<1>2. Copying /\ [Next]_lvars => Copying'
  <2>. SUFFICES ASSUME Copying, [Next]_lvars PROVE Copying'
    OBVIOUS
  <2>1. job' = job /\ (job = "copy" => [CNext]_cvars) /\ (job # "copy" => UNCHANGED cvars)
    BY DEF Next, lvars
  <2>2. CASE job = "copy"
    <3>1. IInv /\ [CNext]_cvars
      BY <2>1, <2>2 DEF Copying
    <3>2. IInv'
      BY <3>1, NextInv
    <3>. QED
      BY <2>1, <2>2, <3>2 DEF Copying
  <2>3. CASE job # "copy"
    BY <2>1, <2>3 DEF Copying, cvars, call_vars
  <2>. QED
    BY <2>2, <2>3
<1>3. Copying => WritesOnlyTheDestination /\ ReturnsTheCopy
  <2>1. CASE job = "copy"
    BY <2>1, InvKeepsDestination, InvReturnsCopy DEF Copying
  <2>2. CASE job # "copy"
    BY <2>2 DEF Copying, WritesOnlyTheDestination, ReturnsTheCopy
  <2>. QED
    BY <2>1, <2>2
<1>. QED
  BY <1>1, <1>2, <1>3, PTL DEF Spec

HIDE CopyAssumption DEF Addr

-----------------------------------------------------------------------------
(* The functions that read: each is the least place where something holds.  *)

\* Any non-empty set of numbers has a least member.
LEMMA LeastExists ==
    ASSUME NEW S \in SUBSET Nat, S # {}
    PROVE  \E x \in S : \A y \in S : x <= y
<1>1. PICK x \in S : \A y \in S : ~ (<<y, x>> \in OpToRel(<, Nat))
  BY WFMin, NatLessThanWellFounded
<1>2. \A y \in S : x <= y
  <2>. SUFFICES ASSUME NEW y \in S, ~ (x <= y) PROVE FALSE
    OBVIOUS
  <2>1. y < x /\ y \in Nat /\ x \in Nat
    OBVIOUS
  <2>2. <<y, x>> \in OpToRel(<, Nat)
    BY <2>1 DEF OpToRel
  <2>. QED
    BY <1>1, <2>2
<1>. QED
  BY <1>2

\* A set of numbers up to m that has 0, and i + 1 with each i < m, has them all.
LEMMA UpTo ==
    ASSUME NEW m \in Nat, NEW G, 0 \in G,
           \A i \in 1 .. m : i - 1 \in G => i \in G
    PROVE  0 .. m \subseteq G
<1> DEFINE Bad == (0 .. m) \ G
<1>. SUFFICES ASSUME Bad # {} PROVE FALSE
  OBVIOUS
<1>1. PICK x \in Bad : \A y \in Bad : x <= y
  <2>1. Bad \in SUBSET Nat
    OBVIOUS
  <2>. HIDE DEF Bad
  <2>. QED
    BY <2>1, LeastExists
<1>2. x \in 1 .. m /\ x - 1 \notin Bad /\ x - 1 \in 0 .. m
  <2>1. x \in 0 .. m /\ x # 0
    OBVIOUS
  <2>2. x \in 1 .. m /\ x - 1 \in 0 .. m /\ ~(x <= x - 1)
    BY <2>1
  <2>. QED
    BY <1>1, <2>2
<1>3. x - 1 \in G
  BY <1>2
<1>. QED
  BY <1>2, <1>3

\* g[i] is what the first i of m rounds make of c; round i takes x to step[<<x, i>>].
MadeByRounds(S, c, m, step, g) ==
    g \in [0 .. m -> S] /\ g[0] = c /\ \A i \in 1 .. m : g[i] = step[<<g[i - 1], i>>]

LEMMA ByRounds ==
    ASSUME NEW S, NEW c \in S, NEW m \in Nat, NEW step \in [S \X (1 .. m) -> S]
    PROVE  \E g : MadeByRounds(S, c, m, step, g)
<1> DEFINE Rounds(k) == \E g \in [0 .. k -> S] :
              g[0] = c /\ \A i \in 1 .. k : g[i] = step[<<g[i - 1], i>>]
           Good == {k \in 0 .. m : Rounds(k)}
<1>1. 0 \in Good
  <2> DEFINE g == [i \in 0 .. 0 |-> c]
  <2>1. g \in [0 .. 0 -> S] /\ g[0] = c /\ \A i \in 1 .. 0 : g[i] = step[<<g[i - 1], i>>]
    OBVIOUS
  <2>. HIDE DEF g
  <2>2. Rounds(0)
    BY <2>1
  <2>. HIDE DEF Rounds
  <2>. QED
    BY <2>2
<1>2. ASSUME NEW k \in 1 .. m, k - 1 \in Good
      PROVE  k \in Good
  <2>0. /\ \A i \in 1 .. (k - 1) : i \in 0 .. (k - 1) /\ i - 1 \in 0 .. (k - 1)
        /\ k - 1 \in 0 .. (k - 1)
    <3>1. m \in Int /\ k \in Int
      OBVIOUS
    <3>. QED
      BY ONLY <3>1
  <2>1. PICK g \in [0 .. (k - 1) -> S] :
              g[0] = c /\ \A i \in 1 .. (k - 1) : g[i] = step[<<g[i - 1], i>>]
    BY <1>2
  <2> DEFINE h == [i \in 0 .. k |-> IF i = k THEN step[<<g[k - 1], k>>] ELSE g[i]]
  <2>2. g[k - 1] \in S /\ step[<<g[k - 1], k>>] \in S
    BY <2>1
  <2>3. h \in [0 .. k -> S] /\ h[0] = c
    BY <2>1, <2>2
  <2>4. \A i \in 1 .. k : h[i] = step[<<h[i - 1], i>>]
    <3>1. \A i \in 0 .. (k - 1) : h[i] = g[i]
      OBVIOUS
    <3>2. h[k] = step[<<g[k - 1], k>>]
      OBVIOUS
    <3>. HIDE DEF h
    <3>3. h[k] = step[<<h[k - 1], k>>]
      BY Zenon, <2>0, <3>1, <3>2
    <3>4. ASSUME NEW i \in 1 .. (k - 1) PROVE h[i] = step[<<h[i - 1], i>>]
      <4>1. i \in 0 .. (k - 1) /\ i - 1 \in 0 .. (k - 1)
        BY Zenon, <2>0
      <4>2. h[i] = g[i] /\ h[i - 1] = g[i - 1] /\ g[i] = step[<<g[i - 1], i>>]
        BY <2>1, <3>1, <4>1
      <4>. QED
        BY <4>2
    <3>5. \A i \in 1 .. k : i = k \/ i \in 1 .. (k - 1)
      OBVIOUS
    <3>. QED
      BY Zenon, <3>3, <3>4, <3>5
  <2>. HIDE DEF h
  <2>. QED
    BY <2>3, <2>4
<1>. HIDE DEF Good
<1>3. m \in Good
  BY <1>1, <1>2, UpTo
<1>. QED
  BY <1>3 DEF Good, MadeByRounds


-----------------------------------------------------------------------------
(* Loops over a text.                                                       *)

LEMMA MinIsLeast ==
    ASSUME NEW S \in SUBSET Nat, S # {}
    PROVE  Min(S) \in S /\ \A y \in S : Min(S) <= y
BY LeastExists DEF Min

LEMMA MinIs ==
    ASSUME NEW S \in SUBSET Int, NEW x \in S, \A y \in S : x <= y
    PROVE  Min(S) = x
<1>1. Min(S) \in S /\ \A y \in S : Min(S) <= y
  BY DEF Min
<1>2. Min(S) \in Int /\ x \in Int
  BY <1>1
<1>3. Min(S) <= x
  BY <1>1
<1>4. x <= Min(S)
  BY <1>1
<1>. QED
  BY <1>2, <1>3, <1>4

LEMMA MaxIsGreatest ==
    ASSUME NEW S \in SUBSET Int, S # {}, NEW b \in Int, \A y \in S : y <= b
    PROVE  Max(S) \in S /\ \A y \in S : y <= Max(S)
<1> DEFINE gaps == {b - y : y \in S}
<1>1. gaps \in SUBSET Nat /\ gaps # {}
  <2>1. \A y \in S : y \in Int /\ b - y \in Nat
    OBVIOUS
  <2>. QED
    BY <2>1
<1>2. PICK g \in gaps : \A h \in gaps : g <= h
  <2>. HIDE DEF gaps
  <2>. QED
    BY <1>1, LeastExists
<1>3. PICK x \in S : g = b - x
  OBVIOUS
<1>4. \A y \in S : y <= x
  <2>. SUFFICES ASSUME NEW y \in S PROVE y <= x
    OBVIOUS
  <2>1. b - y \in gaps
    OBVIOUS
  <2>2. b - x <= b - y
    BY <1>2, <1>3, <2>1
  <2>3. x \in Int /\ y \in Int
    OBVIOUS
  <2>. QED
    BY <2>2, <2>3
<1>. QED
  BY <1>4 DEF Max

\* Where a loop that passes the characters of C stops.
LEMMA PassedStops ==
    ASSUME NEW S, NEW t \in Seq(S), NEW C
    PROVE  /\ Passed(t, C) \in 0 .. Len(t)
           /\ \A i \in 1 .. Passed(t, C) : t[i] \in C
           /\ Passed(t, C) < Len(t) => t[Passed(t, C) + 1] \notin C
<1> DEFINE stopped == {i \in DOMAIN t : t[i] \notin C}
<1>1. stopped \in SUBSET Nat /\ DOMAIN t = 1 .. Len(t) /\ Len(t) \in Nat
  OBVIOUS
<1>2. CASE stopped = {}
  BY <1>1, <1>2 DEF Passed
<1>3. CASE stopped # {}
  <2>1. Passed(t, C) = Min(stopped) - 1
    BY <1>3 DEF Passed
  <2>2. Min(stopped) \in stopped /\ \A i \in stopped : Min(stopped) <= i
    <3>. HIDE DEF stopped
    <3>. QED
      BY <1>1, <1>3, MinIsLeast
  <2>3. Min(stopped) \in 1 .. Len(t) /\ t[Min(stopped)] \notin C
    BY <1>1, <2>2
  <2>4. Passed(t, C) \in 0 .. Len(t) /\ Passed(t, C) + 1 = Min(stopped)
    BY <2>1, <2>3
  <2>5. ASSUME NEW i \in 1 .. Passed(t, C) PROVE t[i] \in C
    <3>1. i \in DOMAIN t /\ ~(Min(stopped) <= i)
      BY <1>1, <2>3, <2>4
    <3>. QED
      BY <2>2, <3>1
  <2>. QED
    BY <2>3, <2>4, <2>5
<1>. QED
  BY <1>2, <1>3

\* It stops at one place only.
LEMMA PassedIs ==
    ASSUME NEW S, NEW t \in Seq(S), NEW C, NEW k \in 0 .. Len(t),
           \A i \in 1 .. k : t[i] \in C,
           k < Len(t) => t[k + 1] \notin C
    PROVE  Passed(t, C) = k
<1>1. /\ Passed(t, C) \in 0 .. Len(t)
      /\ \A i \in 1 .. Passed(t, C) : t[i] \in C
      /\ Passed(t, C) < Len(t) => t[Passed(t, C) + 1] \notin C
  BY PassedStops
<1> DEFINE p == Passed(t, C)
<1>. HIDE DEF p
<1>2. p \in 0 .. Len(t) /\ (\A i \in 1 .. p : t[i] \in C) /\ (p < Len(t) => t[p + 1] \notin C)
  BY <1>1 DEF p
<1>3. ~ (p < k)
  <2>. SUFFICES ASSUME p < k PROVE FALSE
    OBVIOUS
  <2>1. p + 1 \in 1 .. k /\ p < Len(t)
    BY <1>2
  <2>. QED
    BY <1>2, <2>1
<1>4. ~ (k < p)
  <2>. SUFFICES ASSUME k < p PROVE FALSE
    OBVIOUS
  <2>1. k + 1 \in 1 .. p /\ k < Len(t)
    BY <1>2
  <2>. QED
    BY <1>2, <2>1
<1>. QED
  BY <1>2, <1>3, <1>4 DEF p

-----------------------------------------------------------------------------
(* The string functions that read.                                          *)

CString == Seq(Nat \ {0})

\* Reading a string up to its end.
LEMMA AtFacts ==
    ASSUME NEW a \in CString, NEW k \in Nat
    PROVE  /\ At(a, k) \in Nat
           /\ At(a, k) # 0 <=> k < Len(a)
           /\ k < Len(a) => At(a, k) = a[k + 1]
<1>1. CASE k < Len(a)
  <2>1. k + 1 \in 1 .. Len(a)
    BY <1>1 DEF CString
  <2>2. a[k + 1] \in Nat \ {0}
    BY <2>1 DEF CString
  <2>. QED
    BY <1>1, <2>2 DEF At
<1>2. CASE ~(k < Len(a))
  BY <1>2 DEF At
<1>. QED
  BY <1>1, <1>2

\* The first place where two strings differ, or both end.
StopsAt(a, b, k) ==
    /\ k \in 0 .. Len(a) /\ k \in 0 .. Len(b)
    /\ At(a, k) # At(b, k) \/ At(a, k) = 0
    /\ \A i \in 0 .. (k - 1) : At(a, i) = At(b, i) /\ At(a, i) # 0

LEMMA StopsThere ==
    ASSUME NEW a \in CString, NEW b \in CString
    PROVE  StopsAt(a, b, stops(a, b))
<1> DEFINE ends == {k \in 0 .. Len(a) : At(a, k) # At(b, k) \/ At(a, k) = 0}
<1>1. Len(a) \in Nat /\ Len(b) \in Nat
  BY DEF CString
<1>2. ends \in SUBSET Nat /\ ends # {}
  <2>1. At(a, Len(a)) = 0
    BY <1>1, AtFacts
  <2>. QED
    BY <1>1, <2>1
<1> DEFINE k == Min(ends)
<1>3. stops(a, b) = k
  BY DEF stops
<1>4. k \in ends /\ \A i \in ends : k <= i
  <2>. HIDE DEF ends
  <2>. QED
    BY <1>2, MinIsLeast
<1>. HIDE DEF k
<1>5. k \in 0 .. Len(a) /\ (At(a, k) # At(b, k) \/ At(a, k) = 0)
  BY <1>4
<1>6. ASSUME NEW i \in 0 .. (k - 1) PROVE At(a, i) = At(b, i) /\ At(a, i) # 0
  <2>1. ~(k <= i) /\ i \in 0 .. Len(a)
    BY <1>1, <1>5
  <2>2. i \notin ends
    BY <1>4, <2>1
  <2>. QED
    BY <2>1, <2>2
<1>7. k \in 0 .. Len(b)
  <2>1. CASE k = 0
    BY <1>1, <2>1
  <2>2. CASE k # 0
    <3>1. k - 1 \in 0 .. (k - 1) /\ k - 1 \in Nat
      BY <1>5, <2>2
    <3>2. At(b, k - 1) # 0
      BY <1>6, <3>1
    <3>3. k - 1 < Len(b)
      BY <3>1, <3>2, AtFacts
    <3>. QED
      BY <1>1, <1>5, <3>3
  <2>. QED
    BY <2>1, <2>2
<1>. QED
  BY <1>3, <1>5, <1>6, <1>7 DEF StopsAt

LEMMA StopsOnce ==
    ASSUME NEW a \in CString, NEW b \in CString, NEW k, StopsAt(a, b, k)
    PROVE  stops(a, b) = k
<1> DEFINE m == stops(a, b)
<1>1. StopsAt(a, b, m)
  BY StopsThere
<1>. HIDE DEF m
<1>2. k \in Nat /\ m \in Nat
  BY <1>1 DEF StopsAt, CString
<1>3. ~(k < m)
  <2>. SUFFICES ASSUME k < m PROVE FALSE
    OBVIOUS
  <2>1. k \in 0 .. (m - 1)
    BY <1>2
  <2>. QED
    BY <1>1, <2>1 DEF StopsAt
<1>4. ~(m < k)
  <2>. SUFFICES ASSUME m < k PROVE FALSE
    OBVIOUS
  <2>1. m \in 0 .. (k - 1)
    BY <1>2
  <2>. QED
    BY <1>1, <2>1 DEF StopsAt
<1>. QED
  BY <1>2, <1>3, <1>4 DEF m

LEMMA StopsCommutes ==
    ASSUME NEW a \in CString, NEW b \in CString
    PROVE  stops(a, b) = stops(b, a)
<1>1. StopsAt(a, b, stops(a, b))
  BY StopsThere
<1>2. StopsAt(b, a, stops(a, b))
  BY <1>1 DEF StopsAt
<1>. QED
  BY <1>2, StopsOnce

\* What strcmp returns, from the place where it stops.
LEMMA StrcmpAt ==
    ASSUME NEW a \in CString, NEW b \in CString, NEW k, StopsAt(a, b, k)
    PROVE  /\ k \in Nat /\ At(a, k) \in Nat /\ At(b, k) \in Nat
           /\ strcmp(a, b) = At(a, k) - At(b, k)
<1>1. k \in Nat
  BY DEF StopsAt, CString
<1>. QED
  BY <1>1, StopsOnce, AtFacts DEF strcmp

LEMMA StrcmpZero ==
    ASSUME NEW a \in CString, NEW b \in CString
    PROVE  strcmp(a, b) = 0 <=> a = b
<1>1. PICK k : StopsAt(a, b, k)
  BY StopsThere
<1>2. k \in Nat /\ At(a, k) \in Nat /\ At(b, k) \in Nat /\ strcmp(a, b) = At(a, k) - At(b, k)
  BY <1>1, StrcmpAt
<1>3. ASSUME a = b PROVE strcmp(a, b) = 0
  BY <1>2, <1>3
<1>4. ASSUME strcmp(a, b) = 0 PROVE a = b
  <2>1. At(a, k) = 0 /\ At(b, k) = 0
    BY <1>1, <1>2, <1>4 DEF StopsAt
  <2>2. k = Len(a) /\ k = Len(b)
    BY <1>1, <1>2, <2>1, AtFacts DEF StopsAt, CString
  <2>3. ASSUME NEW i \in 1 .. Len(a) PROVE a[i] = b[i]
    <3>1. i - 1 \in 0 .. (k - 1) /\ i - 1 \in Nat /\ (i - 1) + 1 = i
      BY <1>2, <2>2
    <3>2. At(a, i - 1) = At(b, i - 1) /\ i - 1 < Len(a) /\ i - 1 < Len(b)
      BY <1>1, <2>2, <3>1 DEF StopsAt
    <3>3. At(a, i - 1) = a[i]
      BY <3>1, <3>2, AtFacts
    <3>4. At(b, i - 1) = b[i]
      BY <3>1, <3>2, AtFacts
    <3>. QED
      BY <3>2, <3>3, <3>4
  <2>. QED
    BY <2>2, <2>3, SeqEqual DEF CString
<1>. QED
  BY <1>3, <1>4

LEMMA StrcmpTurns ==
    ASSUME NEW a \in CString, NEW b \in CString
    PROVE  strcmp(a, b) = -strcmp(b, a)
<1>1. PICK k : StopsAt(a, b, k)
  BY StopsThere
<1>2. StopsAt(b, a, k)
  BY <1>1 DEF StopsAt
<1>3. /\ At(a, k) \in Nat /\ At(b, k) \in Nat
      /\ strcmp(a, b) = At(a, k) - At(b, k) /\ strcmp(b, a) = At(b, k) - At(a, k)
  BY <1>1, <1>2, StrcmpAt
<1>. QED
  BY <1>3

LEMMA StrcmpOrders ==
    ASSUME NEW a \in CString, NEW b \in CString, NEW c \in CString,
           strcmp(a, b) <= 0, strcmp(b, c) <= 0
    PROVE  strcmp(a, c) <= 0
<1>1. PICK i : StopsAt(a, b, i)
  BY StopsThere
<1>2. PICK j : StopsAt(b, c, j)
  BY StopsThere
<1>3. i \in Nat /\ At(a, i) \in Nat /\ At(b, i) \in Nat /\ At(a, i) <= At(b, i)
  <2>1. /\ i \in Nat /\ At(a, i) \in Nat /\ At(b, i) \in Nat
        /\ strcmp(a, b) = At(a, i) - At(b, i)
    BY <1>1, StrcmpAt
  <2>. QED
    BY <2>1
<1>4. j \in Nat /\ At(b, j) \in Nat /\ At(c, j) \in Nat /\ At(b, j) <= At(c, j)
  <2>1. /\ j \in Nat /\ At(b, j) \in Nat /\ At(c, j) \in Nat
        /\ strcmp(b, c) = At(b, j) - At(c, j)
    BY <1>2, StrcmpAt
  <2>. QED
    BY <2>1
<1>5. CASE i < j
  <2>1. i \in 0 .. (j - 1)
    BY <1>3, <1>4, <1>5
  <2>2. At(b, i) = At(c, i) /\ At(b, i) # 0
    BY <1>2, <2>1 DEF StopsAt
  <2>3. ASSUME NEW k \in 0 .. (i - 1) PROVE At(a, k) = At(c, k) /\ At(a, k) # 0
    <3>1. k \in 0 .. (j - 1)
      BY <1>3, <1>4, <1>5
    <3>. QED
      BY <1>1, <1>2, <3>1 DEF StopsAt
  <2>4. i \in 0 .. Len(c) /\ i \in 0 .. Len(a)
    BY <1>1, <1>2, <1>3, <1>4, <1>5 DEF StopsAt, CString
  <2>5. StopsAt(a, c, i)
    BY <1>1, <2>2, <2>3, <2>4 DEF StopsAt
  <2>6. strcmp(a, c) = At(a, i) - At(c, i)
    BY <2>5, StrcmpAt
  <2>. QED
    BY <1>3, <2>2, <2>6
<1>6. CASE j < i
  <2>1. j \in 0 .. (i - 1)
    BY <1>3, <1>4, <1>6
  <2>2. At(a, j) = At(b, j) /\ At(a, j) # 0
    BY <1>1, <2>1 DEF StopsAt
  <2>3. ASSUME NEW k \in 0 .. (j - 1) PROVE At(a, k) = At(c, k) /\ At(a, k) # 0
    <3>1. k \in 0 .. (i - 1)
      BY <1>3, <1>4, <1>6
    <3>. QED
      BY <1>1, <1>2, <3>1 DEF StopsAt
  <2>4. j \in 0 .. Len(c) /\ j \in 0 .. Len(a)
    BY <1>1, <1>2, <1>3, <1>4, <1>6 DEF StopsAt, CString
  <2>5. StopsAt(a, c, j)
    BY <1>2, <2>2, <2>3, <2>4 DEF StopsAt
  <2>6. strcmp(a, c) = At(a, j) - At(c, j)
    BY <2>5, StrcmpAt
  <2>. QED
    BY <1>4, <2>2, <2>6
<1>7. CASE i = j
  <2>1. \A k \in 0 .. (i - 1) : At(a, k) = At(c, k) /\ At(a, k) # 0
    BY <1>1, <1>2, <1>7 DEF StopsAt
  <2>2. At(a, i) # At(c, i) \/ At(a, i) = 0
    <3>. SUFFICES ASSUME At(a, i) = At(c, i), At(a, i) # 0 PROVE FALSE
      OBVIOUS
    <3>1. At(a, i) = At(b, i)
      BY <1>3, <1>4, <1>7
    <3>. QED
      BY <1>1, <3>1 DEF StopsAt
  <2>3. StopsAt(a, c, i)
    BY <1>1, <1>2, <1>7, <2>1, <2>2 DEF StopsAt
  <2>4. strcmp(a, c) = At(a, i) - At(c, i)
    BY <2>3, StrcmpAt
  <2>. QED
    BY <1>3, <1>4, <1>7, <2>4
<1>. QED
  BY <1>3, <1>4, <1>5, <1>6, <1>7

\* The first k characters of a string.
LEMMA PrefixAt ==
    ASSUME NEW a \in CString, NEW k \in Nat
    PROVE  LET p == SubSeq(a, 1, Min({k, Len(a)}))
           IN  p \in CString /\ (k \in 0 .. Len(a) => Len(p) = k)
               /\ \A i \in Nat : At(p, i) = IF i < k THEN At(a, i) ELSE 0
<1> DEFINE m == Min({k, Len(a)})
           p == SubSeq(a, 1, m)
<1>1. Len(a) \in Nat
  BY DEF CString
<1>2. m = IF k <= Len(a) THEN k ELSE Len(a)
  <2>1. CASE k <= Len(a)
    <3>1. {k, Len(a)} \in SUBSET Int /\ k \in {k, Len(a)} /\ \A y \in {k, Len(a)} : k <= y
      BY <1>1, <2>1
    <3>. QED
      BY <2>1, <3>1, MinIs
  <2>2. CASE ~(k <= Len(a))
    <3>1. {k, Len(a)} \in SUBSET Int /\ Len(a) \in {k, Len(a)} /\ \A y \in {k, Len(a)} : Len(a) <= y
      BY <1>1, <2>2
    <3>. QED
      BY <2>2, <3>1, MinIs
  <2>. QED
    BY <2>1, <2>2
<1>. HIDE DEF m
<1>3. m \in 0 .. Len(a)
  BY <1>1, <1>2
<1>4. p \in CString /\ Len(p) = m /\ \A i \in 1 .. m : p[i] = a[i]
  BY <1>1, <1>3 DEF CString
<1>. HIDE DEF p
<1>5. ASSUME NEW i \in Nat PROVE At(p, i) = IF i < k THEN At(a, i) ELSE 0
  <2>1. CASE i < m
    <3>1. At(p, i) = p[i + 1]
      BY <1>4, <2>1, AtFacts
    <3>2. i + 1 \in 1 .. m /\ i < Len(a) /\ i < k
      BY <1>1, <1>2, <2>1
    <3>3. At(a, i) = a[i + 1]
      BY <3>2, AtFacts
    <3>. QED
      BY <1>4, <3>1, <3>2, <3>3
  <2>2. CASE ~(i < m)
    <3>1. At(p, i) = 0
      BY <1>4, <2>2, AtFacts
    <3>2. ~(i < k) \/ At(a, i) = 0
      BY <1>1, <1>2, <2>2, AtFacts
    <3>. QED
      BY <3>1, <3>2
  <2>. QED
    BY <2>1, <2>2
<1>6. k \in 0 .. Len(a) => Len(p) = k
  BY <1>1, <1>2, <1>4
<1>. QED
  BY <1>4, <1>5, <1>6 DEF p, m

LEMMA StrncmpAgrees ==
    ASSUME NEW a \in CString, NEW b \in CString, NEW k \in Nat
    PROVE  strncmp(a, b, k) = strcmp(SubSeq(a, 1, Min({k, Len(a)})), SubSeq(b, 1, Min({k, Len(b)})))
<1> DEFINE p == SubSeq(a, 1, Min({k, Len(a)}))
           q == SubSeq(b, 1, Min({k, Len(b)}))
<1>1. p \in CString /\ (k \in 0 .. Len(a) => Len(p) = k)
      /\ \A i \in Nat : At(p, i) = IF i < k THEN At(a, i) ELSE 0
  BY PrefixAt
<1>2. q \in CString /\ (k \in 0 .. Len(b) => Len(q) = k)
      /\ \A i \in Nat : At(q, i) = IF i < k THEN At(b, i) ELSE 0
  BY PrefixAt
<1>. HIDE DEF p, q
<1> DEFINE m == stops(a, b)
<1>3. StopsAt(a, b, m) /\ m \in Nat /\ Len(a) \in Nat /\ Len(b) \in Nat
  BY StopsThere DEF StopsAt, CString
<1>. HIDE DEF m
<1>4. CASE k <= m
  <2>1. k \in 0 .. Len(a) /\ k \in 0 .. Len(b)
    BY <1>3, <1>4 DEF StopsAt
  <2>2. At(p, k) = 0 /\ At(q, k) = 0
    BY <1>1, <1>2
  <2>3. ASSUME NEW i \in 0 .. (k - 1) PROVE At(p, i) = At(q, i) /\ At(p, i) # 0
    <3>1. i \in Nat /\ i < k /\ i \in 0 .. (m - 1)
      BY <1>3, <1>4
    <3>2. At(p, i) = At(a, i) /\ At(q, i) = At(b, i)
      BY <1>1, <1>2, <3>1
    <3>. QED
      BY <1>3, <3>1, <3>2 DEF StopsAt
  <2>4. StopsAt(p, q, k)
    BY <1>1, <1>2, <2>1, <2>2, <2>3 DEF StopsAt
  <2>5. strcmp(p, q) = 0
    BY <1>1, <1>2, <2>2, <2>4, StrcmpAt
  <2>6. strncmp(a, b, k) = 0
    BY <1>4 DEF strncmp, m
  <2>. QED
    BY <2>5, <2>6 DEF p, q
<1>5. CASE ~(k <= m)
  <2>1. m < k
    BY <1>3, <1>5
  <2>2. At(p, m) = At(a, m) /\ At(q, m) = At(b, m)
    BY <1>1, <1>2, <1>3, <2>1
  <2>3. ASSUME NEW i \in 0 .. (m - 1) PROVE At(p, i) = At(q, i) /\ At(p, i) # 0
    <3>1. i \in Nat /\ i < k
      BY <1>3, <2>1
    <3>2. At(p, i) = At(a, i) /\ At(q, i) = At(b, i)
      BY <1>1, <1>2, <3>1
    <3>. QED
      BY <1>3, <3>2 DEF StopsAt
  <2>4. m \in 0 .. Len(p) /\ m \in 0 .. Len(q)
    <3>1. ASSUME NEW r \in CString, \A i \in 0 .. (m - 1) : At(r, i) # 0 PROVE m \in 0 .. Len(r)
      <4>1. Len(r) \in Nat
        BY DEF CString
      <4>2. CASE m = 0
        BY <4>1, <4>2
      <4>3. CASE m # 0
        <5>1. m - 1 \in Nat /\ m - 1 \in 0 .. (m - 1)
          BY <1>3, <4>3
        <5>2. m - 1 < Len(r)
          BY <3>1, <5>1, AtFacts
        <5>. QED
          BY <1>3, <4>1, <5>2
      <4>. QED
        BY <4>2, <4>3
    <3>. QED
      BY <1>1, <1>2, <2>3, <3>1
  <2>5. StopsAt(p, q, m)
    BY <1>3, <2>2, <2>3, <2>4 DEF StopsAt
  <2>6. strcmp(p, q) = At(a, m) - At(b, m)
    BY <1>1, <1>2, <2>2, <2>5, StrcmpAt
  <2>7. strncmp(a, b, k) = At(a, m) - At(b, m)
    BY <1>5 DEF strncmp, m
  <2>. QED
    BY <2>6, <2>7 DEF p, q
<1>. QED
  BY <1>4, <1>5

-----------------------------------------------------------------------------
LEMMA SearchedStops ==
    ASSUME NEW a \in CString, NEW C
    PROVE  /\ Passed(a, C) \in 0 .. Len(a)
           /\ \A i \in 1 .. Passed(a, C) : a[i] \in C
           /\ Passed(a, C) < Len(a) => a[Passed(a, C) + 1] \notin C
BY PassedStops DEF CString

\* strchr finds the first place, when there is one.
LEMMA StrchrFinds ==
    ASSUME NEW a \in CString, NEW c \in Nat \ {0}
    PROVE  /\ strchr(a, c) = -1 <=> c \notin Range(a)
           /\ strchr(a, c) # -1 => /\ strchr(a, c) \in 0 .. (Len(a) - 1)
                                   /\ a[strchr(a, c) + 1] = c
                                   /\ \A i \in 1 .. strchr(a, c) : a[i] # c
<1> DEFINE k == Passed(a, Range(a) \ {c})
<1>1. /\ k \in 0 .. Len(a) /\ Len(a) \in Nat
      /\ \A i \in 1 .. k : a[i] \in Range(a) \ {c}
      /\ k < Len(a) => a[k + 1] \notin Range(a) \ {c}
  BY SearchedStops DEF CString
<1>2. strchr(a, c) = IF k = Len(a) THEN -1 ELSE k
  BY DEF strchr, Found, NULL_POINTER
<1>. HIDE DEF k
<1>3. DOMAIN a = 1 .. Len(a) /\ Range(a) = {a[i] : i \in 1 .. Len(a)}
  BY DEF Range, CString
<1>4. CASE k = Len(a)
  <2>1. c \notin Range(a)
    BY <1>1, <1>3, <1>4
  <2>. QED
    BY <1>2, <1>4, <2>1
<1>5. CASE k # Len(a)
  <2>1. k \in 0 .. (Len(a) - 1) /\ k + 1 \in 1 .. Len(a) /\ k # -1
    BY <1>1, <1>5
  <2>2. a[k + 1] \in Range(a)
    BY <1>3, <2>1
  <2>3. a[k + 1] = c
    BY <1>1, <2>1, <2>2
  <2>. QED
    BY <1>1, <1>2, <1>5, <2>1, <2>2, <2>3
<1>. QED
  BY <1>4, <1>5

\* Any search for the first place of c finds that one.
LEMMA FirstPlace ==
    ASSUME NEW a \in CString, NEW c \in Nat \ {0}, NEW k \in 0 .. (Len(a) - 1),
           a[k + 1] = c, \A i \in 1 .. k : a[i] # c
    PROVE  strchr(a, c) = k
<1>1. Len(a) \in Nat /\ c \in Range(a)
  BY DEF Range, CString
<1> DEFINE m == strchr(a, c)
<1>2. m \in 0 .. (Len(a) - 1) /\ a[m + 1] = c /\ \A i \in 1 .. m : a[i] # c
  BY <1>1, StrchrFinds
<1>. HIDE DEF m
<1>3. ~(k < m)
  <2>. SUFFICES ASSUME k < m PROVE FALSE
    OBVIOUS
  <2>1. k + 1 \in 1 .. m
    BY <1>1, <1>2
  <2>. QED
    BY <1>2, <2>1
<1>4. ~(m < k)
  <2>. SUFFICES ASSUME m < k PROVE FALSE
    OBVIOUS
  <2>1. m + 1 \in 1 .. k
    BY <1>1, <1>2
  <2>. QED
    BY <1>2, <2>1
<1>. QED
  BY <1>1, <1>2, <1>3, <1>4 DEF m

\* strcspn stops at the first character of the set, strpbrk too when there is one.
LEMMA StrcspnStops ==
    ASSUME NEW a \in CString, NEW b \in CString
    PROVE  /\ strcspn(a, b) \in 0 .. Len(a)
           /\ \A i \in 1 .. strcspn(a, b) : a[i] \notin Range(b)
           /\ strcspn(a, b) < Len(a) => a[strcspn(a, b) + 1] \in Range(b)
           /\ strpbrk(a, b) = IF strcspn(a, b) = Len(a) THEN -1 ELSE strcspn(a, b)
<1> DEFINE k == Passed(a, Range(a) \ Range(b))
<1>1. /\ k \in 0 .. Len(a) /\ Len(a) \in Nat
      /\ \A i \in 1 .. k : a[i] \in Range(a) \ Range(b)
      /\ k < Len(a) => a[k + 1] \notin Range(a) \ Range(b)
  BY SearchedStops DEF CString
<1>2. strcspn(a, b) = k /\ strpbrk(a, b) = IF k = Len(a) THEN -1 ELSE k
  BY DEF strcspn, strpbrk, Found, NULL_POINTER
<1>. HIDE DEF k
<1>3. k < Len(a) => a[k + 1] \in Range(a)
  BY <1>1 DEF Range, CString
<1>. QED
  BY <1>1, <1>2, <1>3

LEMMA StrpbrkAgrees ==
    ASSUME NEW a \in CString, NEW b \in CString
    PROVE  strpbrk(a, b) = IF \A i \in DOMAIN b : strchr(a, b[i]) = -1 THEN -1 ELSE strcspn(a, b)
<1> DEFINE k == strcspn(a, b)
<1>1. /\ k \in 0 .. Len(a) /\ Len(a) \in Nat
      /\ \A i \in 1 .. k : a[i] \notin Range(b)
      /\ k < Len(a) => a[k + 1] \in Range(b)
      /\ strpbrk(a, b) = IF k = Len(a) THEN -1 ELSE k
  BY StrcspnStops DEF CString
<1>. HIDE DEF k
<1>2. \A i \in DOMAIN b : b[i] \in Nat \ {0}
  BY DEF CString
<1>3. Range(a) = {a[i] : i \in 1 .. Len(a)} /\ Range(b) = {b[i] : i \in DOMAIN b}
  BY DEF Range, CString
<1>4. CASE k = Len(a)
  <2>1. \A i \in DOMAIN b : b[i] \notin Range(a)
    BY <1>1, <1>3, <1>4
  <2>2. \A i \in DOMAIN b : strchr(a, b[i]) = -1
    BY <1>2, <2>1, StrchrFinds
  <2>. QED
    BY <1>1, <1>4, <2>2
<1>5. CASE k # Len(a)
  <2>1. PICK i \in DOMAIN b : a[k + 1] = b[i]
    BY <1>1, <1>3, <1>5
  <2>2. b[i] \in Range(a)
    BY <1>1, <1>3, <1>5, <2>1
  <2>3. strchr(a, b[i]) # -1
    BY <1>2, <2>2, StrchrFinds
  <2>. QED
    BY <1>1, <1>5, <2>3 DEF k
<1>. QED
  BY <1>4, <1>5

\* One character is found in the same place by all.
LEMMA OneCharacter ==
    ASSUME NEW a \in CString, NEW c \in Nat \ {0}
    PROVE  strchr(a, c) = strpbrk(a, <<c>>) /\ strrchr(a, c) >= strchr(a, c)
<1>1. strchr(a, c) = strpbrk(a, <<c>>)
  <2>1. <<c>> \in CString /\ DOMAIN <<c>> = {1} /\ <<c>>[1] = c /\ Range(<<c>>) = {c}
    BY DEF CString, Range
  <2> DEFINE k == strcspn(a, <<c>>)
  <2>2. /\ k \in 0 .. Len(a) /\ Len(a) \in Nat
        /\ \A i \in 1 .. k : a[i] \notin Range(<<c>>)
        /\ k < Len(a) => a[k + 1] \in Range(<<c>>)
    <3>1. Len(a) \in Nat
      BY DEF CString
    <3>. QED
      BY ONLY <3>1, <2>1, StrcspnStops, a \in CString
  <2>3. strpbrk(a, <<c>>) = IF strchr(a, c) = -1 THEN -1 ELSE k
    BY <2>1, StrpbrkAgrees
  <2>4. strpbrk(a, <<c>>) = IF k = Len(a) THEN -1 ELSE k
    BY <2>1, StrcspnStops
  <2>. HIDE DEF k
  <2>5. CASE strchr(a, c) = -1
    BY <2>3, <2>5
  <2>6. CASE strchr(a, c) # -1
    <3>1. k # Len(a)
      BY <2>2, <2>3, <2>4, <2>6
    <3>2. k \in 0 .. (Len(a) - 1) /\ a[k + 1] = c /\ \A i \in 1 .. k : a[i] # c
      BY <2>1, <2>2, <3>1
    <3>. QED
      BY <2>3, <2>6, <3>2, FirstPlace
  <2>. QED
    BY <2>5, <2>6
<1>2. strrchr(a, c) >= strchr(a, c)
  <2> DEFINE all == {-1} \cup {i - 1 : i \in {j \in DOMAIN a : a[j] = c}}
  <2>1. DOMAIN a = 1 .. Len(a) /\ Len(a) \in Nat
    BY DEF CString
  <2>2. all \in SUBSET Int /\ all # {} /\ \A y \in all : y <= Len(a)
    BY <2>1
  <2>3. strrchr(a, c) = Max(all)
    BY DEF strrchr, NULL_POINTER
  <2>4. Max(all) \in all /\ \A y \in all : y <= Max(all)
    <3>. HIDE DEF all
    <3>1. Len(a) \in Int
      BY <2>1
    <3>. QED
      BY <2>2, <3>1, MaxIsGreatest
  <2>5. strchr(a, c) \in all
    <3>1. CASE strchr(a, c) = -1
      BY <3>1
    <3>2. CASE strchr(a, c) # -1
      <4> DEFINE k == strchr(a, c)
      <4>1. k \in 0 .. (Len(a) - 1) /\ a[k + 1] = c
        BY <3>2, StrchrFinds
      <4>. HIDE DEF k
      <4>2. k + 1 \in DOMAIN a /\ k = (k + 1) - 1
        BY <2>1, <4>1
      <4>3. k \in all
        BY <4>1, <4>2
      <4>. QED
        BY <4>3 DEF k
    <3>. QED
      BY <3>1, <3>2
  <2>. HIDE DEF all
  <2>6. strchr(a, c) <= Max(all) /\ strchr(a, c) \in Int /\ Max(all) \in Int
    BY <2>2, <2>4, <2>5
  <2>. QED
    BY <2>3, <2>6
<1>. QED
  BY <1>1, <1>2

-----------------------------------------------------------------------------
(* strstr.                                                                  *)

hits(a, b) == {k \in places(a, b) : SubSeq(a, k + 1, k + Len(b)) = b}

\* A hit is a place from which all of the needle is read.
LEMMA HitRead ==
    ASSUME NEW a \in CString, NEW b \in CString, NEW k \in 0 .. (Len(a) - Len(b))
    PROVE  k \in hits(a, b) <=> \A i \in 1 .. Len(b) : a[k + i] = b[i]
<1> DEFINE p == SubSeq(a, k + 1, k + Len(b))
<1>1. Len(a) \in Nat /\ Len(b) \in Nat /\ k \in Nat /\ k + Len(b) <= Len(a)
  BY DEF CString
<1>2. p \in CString /\ Len(p) = Len(b) /\ \A i \in 1 .. Len(b) : p[i] = a[k + i]
  <2>1. Len(p) = Len(b)
    BY <1>1 DEF CString
  <2>2. p \in CString
    BY <1>1 DEF CString
  <2>3. ASSUME NEW i \in 1 .. Len(b) PROVE p[i] = a[k + i]
    <3>1. (k + 1) + i - 1 = k + i
      BY <1>1
    <3>2. p[i] = a[(k + 1) + i - 1]
      BY <1>1, <2>1 DEF CString
    <3>. QED
      BY <3>1, <3>2
  <2>. QED
    BY <2>1, <2>2, <2>3
<1>3. k \in hits(a, b) <=> p = b
  BY DEF hits, places
<1>. HIDE DEF p
<1>4. p = b <=> \A i \in 1 .. Len(b) : p[i] = b[i]
  BY <1>2, SeqEqual DEF CString
<1>. QED
  BY <1>2, <1>3, <1>4

\* strstr finds the first hit.
LEMMA StrstrFinds ==
    ASSUME NEW a \in CString, NEW b \in CString
    PROVE  /\ strstr(a, b) = -1 <=> hits(a, b) = {}
           /\ strstr(a, b) # -1 => strstr(a, b) \in hits(a, b)
           /\ \A k \in hits(a, b) : strstr(a, b) \in 0 .. k
           /\ hits(a, b) \subseteq 0 .. (Len(a) - Len(b))
<1>1. strstr(a, b) = IF hits(a, b) = {} THEN -1 ELSE Min(hits(a, b))
  BY DEF strstr, hits, NULL_POINTER
<1>2. Len(a) \in Nat /\ Len(b) \in Nat
  BY DEF CString
<1>3. hits(a, b) \subseteq 0 .. (Len(a) - Len(b)) /\ hits(a, b) \in SUBSET Nat
  BY <1>2 DEF hits, places
<1>4. CASE hits(a, b) # {}
  <2>1. /\ Min(hits(a, b)) \in hits(a, b)
        /\ \A k \in hits(a, b) : Min(hits(a, b)) <= k
    BY <1>3, <1>4, MinIsLeast
  <2>. QED
    BY <1>1, <1>3, <1>4, <2>1
<1>. QED
  BY <1>1, <1>3, <1>4

\* What strncmp sees at a place of the haystack.
LEMMA StrncmpHit ==
    ASSUME NEW a \in CString, NEW b \in CString, NEW k \in 0 .. (Len(a) - Len(b))
    PROVE  strncmp(Drop(a, k), b, Len(b)) = 0 <=> k \in hits(a, b)
<1> DEFINE q == Drop(a, k)
           m == stops(q, b)
<1>1. Len(a) \in Nat /\ Len(b) \in Nat /\ k \in Nat /\ k + Len(b) <= Len(a) /\ k <= Len(a)
  BY DEF CString
<1>2. q \in CString /\ Len(q) = Len(a) - k /\ \A i \in 1 .. Len(b) : q[i] = a[k + i]
  <2>1. Len(q) = Len(a) - k
    BY <1>1 DEF CString, Drop
  <2>2. q \in CString
    BY <1>1 DEF CString, Drop
  <2>3. ASSUME NEW i \in 1 .. Len(b) PROVE q[i] = a[k + i]
    <3>1. (k + 1) + i - 1 = k + i /\ i \in 1 .. Len(q)
      BY <1>1, <2>1
    <3>2. q[i] = a[(k + 1) + i - 1]
      BY <1>1, <2>1, <3>1 DEF CString, Drop
    <3>. QED
      BY <3>1, <3>2
  <2>. QED
    BY <2>1, <2>2, <2>3
<1>3. k \in hits(a, b) <=> \A i \in 1 .. Len(b) : q[i] = b[i]
  BY <1>2, HitRead
<1>. HIDE DEF q
<1>4. StopsAt(q, b, m)
  BY <1>2, StopsThere
<1>5. strncmp(q, b, Len(b)) = IF Len(b) <= m THEN 0 ELSE At(q, m) - At(b, m)
  BY DEF strncmp
<1>. HIDE DEF m
<1>6. m \in Nat /\ m <= Len(b) /\ m <= Len(q)
  BY <1>1, <1>2, <1>4 DEF StopsAt
<1>7. CASE Len(b) <= m
  <2>1. ASSUME NEW i \in 1 .. Len(b) PROVE q[i] = b[i]
    <3>1. i - 1 \in Nat /\ i - 1 \in 0 .. (m - 1) /\ (i - 1) + 1 = i /\ i - 1 < Len(b) /\ i - 1 < Len(q)
      BY <1>1, <1>2, <1>6, <1>7
    <3>2. At(q, i - 1) = At(b, i - 1)
      BY <1>4, <3>1 DEF StopsAt
    <3>3. At(q, i - 1) = q[i]
      BY <1>2, <3>1, AtFacts
    <3>4. At(b, i - 1) = b[i]
      BY <3>1, AtFacts
    <3>. QED
      BY <3>2, <3>3, <3>4
  <2>. QED
    BY <1>3, <1>5, <1>7, <2>1 DEF q
<1>8. CASE ~(Len(b) <= m)
  <2>1. m < Len(b) /\ m < Len(q) /\ m + 1 \in 1 .. Len(b)
    BY <1>1, <1>2, <1>6, <1>8
  <2>2. At(q, m) = q[m + 1] /\ At(q, m) # 0 /\ At(q, m) \in Nat
    BY <1>2, <1>6, <2>1, AtFacts
  <2>3. At(b, m) = b[m + 1] /\ At(b, m) \in Nat
    BY <1>6, <2>1, AtFacts
  <2>4. At(q, m) # At(b, m)
    BY <1>4, <2>2 DEF StopsAt
  <2>5. At(q, m) - At(b, m) # 0
    BY <2>2, <2>3, <2>4
  <2>6. q[m + 1] # b[m + 1]
    BY <2>2, <2>3, <2>4
  <2>7. k \notin hits(a, b)
    BY <1>3, <2>1, <2>6
  <2>8. strncmp(q, b, Len(b)) # 0
    BY <1>5, <1>8, <2>5
  <2>. QED
    BY <2>7, <2>8 DEF q
<1>. QED
  BY <1>7, <1>8

LEMMA StrstrOfOne ==
    ASSUME NEW a \in CString, NEW c \in Nat \ {0}
    PROVE  strchr(a, c) = strstr(a, <<c>>)
<1>1. <<c>> \in CString /\ Len(<<c>>) = 1 /\ <<c>>[1] = c /\ 1 .. Len(<<c>>) = {1}
  BY DEF CString
<1>2. Len(a) \in Nat /\ Range(a) = {a[i] : i \in 1 .. Len(a)}
  BY DEF CString, Range
<1>3. ASSUME NEW k \in 0 .. (Len(a) - 1) PROVE k \in hits(a, <<c>>) <=> a[k + 1] = c
  <2>1. k \in 0 .. (Len(a) - Len(<<c>>))
    BY <1>1
  <2>2. k \in hits(a, <<c>>) <=> \A i \in 1 .. Len(<<c>>) : a[k + i] = <<c>>[i]
    BY <1>1, <2>1, HitRead
  <2>3. k \in hits(a, <<c>>) <=> \A i \in {1} : a[k + i] = <<c>>[i]
    BY <1>1, <2>2
  <2>. QED
    BY <1>1, <2>3
<1> DEFINE m == strstr(a, <<c>>)
<1>4. /\ m = -1 <=> hits(a, <<c>>) = {}
      /\ m # -1 => m \in hits(a, <<c>>)
      /\ \A k \in hits(a, <<c>>) : m \in 0 .. k
      /\ hits(a, <<c>>) \subseteq 0 .. (Len(a) - 1)
  BY <1>1, StrstrFinds
<1>. HIDE DEF m
<1>5. CASE m = -1
  <2>1. ASSUME NEW i \in 1 .. Len(a) PROVE a[i] # c
    <3>1. i - 1 \in 0 .. (Len(a) - 1) /\ (i - 1) + 1 = i
      BY <1>2
    <3>. QED
      BY <1>3, <1>4, <1>5, <3>1
  <2>2. c \notin Range(a)
    BY <1>2, <2>1
  <2>. QED
    BY <1>5, <2>2, StrchrFinds DEF m
<1>6. CASE m # -1
  <2>1. m \in 0 .. (Len(a) - 1) /\ a[m + 1] = c
    BY <1>3, <1>4, <1>6
  <2>2. ASSUME NEW i \in 1 .. m PROVE a[i] # c
    <3>1. i - 1 \in 0 .. (Len(a) - 1) /\ (i - 1) + 1 = i /\ ~(m \in 0 .. (i - 1))
      BY <1>2, <2>1
    <3>. QED
      BY <1>3, <1>4, <3>1
  <2>. QED
    BY <2>1, <2>2, FirstPlace DEF m
<1>. QED
  BY <1>5, <1>6

\* Of the characters a string begins with, none or all are in the set.
LEMMA SpansExclude ==
    ASSUME NEW a \in CString, NEW b \in CString
    PROVE  strspn(a, b) = 0 \/ strcspn(a, b) = 0
<1>1. strspn(a, b) \in Nat /\ \A i \in 1 .. strspn(a, b) : a[i] \in Range(b)
  <2>1. Len(a) \in Nat
    BY DEF CString
  <2>. QED
    BY <2>1, SearchedStops DEF strspn
<1>2. strcspn(a, b) \in Nat /\ \A i \in 1 .. strcspn(a, b) : a[i] \notin Range(b)
  <2>1. Len(a) \in Nat
    BY DEF CString
  <2>. QED
    BY ONLY <2>1, StrcspnStops, a \in CString, b \in CString
<1> DEFINE j == strspn(a, b)
           k == strcspn(a, b)
<1>. HIDE DEF j, k
<1>3. ASSUME j # 0, k # 0 PROVE FALSE
  <2>1. 1 \in 1 .. j /\ 1 \in 1 .. k
    BY <1>1, <1>2, <1>3 DEF j, k
  <2>. QED
    BY <1>1, <1>2, <2>1 DEF j, k
<1>. QED
  BY <1>3 DEF j, k

\* A set passes at most what one of its characters passes.
LEMMA StrcspnOfOne ==
    ASSUME NEW a \in CString, NEW b \in CString, NEW c \in Nat \ {0}, strchr(b, c) # -1
    PROVE  strcspn(a, <<c>>) >= strcspn(a, b)
<1>1. c \in Range(b)
  BY StrchrFinds
<1>2. <<c>> \in CString /\ Range(<<c>>) = {c}
  <2>1. <<c>> \in CString /\ DOMAIN <<c>> = {1} /\ <<c>>[1] = c
    BY DEF CString
  <2>. QED
    BY <2>1 DEF Range
<1>3. Len(a) \in Nat
  BY DEF CString
<1> DEFINE k == strcspn(a, <<c>>)
           m == strcspn(a, b)
<1>4. k \in 0 .. Len(a) /\ (k < Len(a) => a[k + 1] \in Range(<<c>>))
  BY ONLY <1>2, StrcspnStops, a \in CString
<1>5. m \in 0 .. Len(a) /\ \A i \in 1 .. m : a[i] \notin Range(b)
  BY ONLY StrcspnStops, a \in CString, b \in CString
<1>. HIDE DEF k, m
<1>6. ASSUME k < m PROVE FALSE
  <2>1. k < Len(a) /\ k + 1 \in 1 .. m
    BY <1>3, <1>4, <1>5, <1>6
  <2>2. a[k + 1] = c
    BY <1>2, <1>4, <2>1
  <2>. QED
    BY <1>1, <1>5, <2>1, <2>2
<1>7. k >= m
  BY <1>3, <1>4, <1>5, <1>6
<1>. QED
  BY <1>7 DEF k, m

\* What strstr finds is the first place at which strncmp finds the needle.
LEMMA StrstrAgrees ==
    ASSUME NEW a \in CString, NEW b \in CString
    PROVE  /\ strstr(a, b) >= 0 => strncmp(Drop(a, strstr(a, b)), b, Len(b)) = 0
           /\ \A k \in 0 .. (Len(a) - Len(b)) :
                 strncmp(Drop(a, k), b, Len(b)) = 0 => strstr(a, b) \in 0 .. k
<1> DEFINE m == strstr(a, b)
<1>1. /\ m # -1 => m \in hits(a, b)
      /\ \A k \in hits(a, b) : m \in 0 .. k
      /\ hits(a, b) \subseteq 0 .. (Len(a) - Len(b))
  BY StrstrFinds
<1>. HIDE DEF m
<1>2. ASSUME m >= 0 PROVE strncmp(Drop(a, m), b, Len(b)) = 0
  <2>1. m \in hits(a, b) /\ m \in 0 .. (Len(a) - Len(b))
    BY <1>1, <1>2
  <2>. QED
    BY <2>1, StrncmpHit
<1>3. ASSUME NEW k \in 0 .. (Len(a) - Len(b)), strncmp(Drop(a, k), b, Len(b)) = 0
      PROVE  m \in 0 .. k
  BY <1>1, <1>3, StrncmpHit
<1>. QED
  BY <1>2, <1>3 DEF m

-----------------------------------------------------------------------------
\* The strings that are searched are never written.
Searched == job = "search" => s1 \in CString /\ s2 \in CString

LEMMA StringsAreCStrings == Strings \subseteq CString
BY LibraryAssumption DEF CString

LEMMA SearchedIsInvariant == Spec => []Searched
<1>1. Init => Searched
  <2>1. CASE job = "search"
    BY <2>1, StringsAreCStrings DEF Init, Searched
  <2>. QED
    BY <2>1 DEF Searched
<1>2. Searched /\ [Next]_lvars => Searched'
  BY DEF Searched, Next, lvars
<1>. QED
  BY <1>1, <1>2, PTL DEF Spec

LEMMA CharactersOf ==
    ASSUME NEW a \in CString, NEW c \in Range(a)
    PROVE  c \in Nat \ {0}
BY DEF CString, Range

\* However long the strings and whatever characters: the comparing and the
\* searching functions agree with each other (tasks/libc/string).
THEOREM FunctionsAgree == Spec => []StringFunctionsAgree
<1>1. Searched => StringFunctionsAgree
  <2>. SUFFICES ASSUME Searched, job = "search" PROVE StringFunctionsAgree
    BY DEF StringFunctionsAgree
  <2>1. s1 \in CString /\ s2 \in CString
    BY DEF Searched
  <2>2. (strcmp(s1, s2) = 0) <=> (s1 = s2)
    BY <2>1, StrcmpZero
  <2>3. strcmp(s1, s2) = -strcmp(s2, s1)
    BY <2>1, StrcmpTurns
  <2>4. \A t \in Strings : (strcmp(s1, s2) <= 0 /\ strcmp(s2, t) <= 0) => strcmp(s1, t) <= 0
    BY <2>1, StrcmpOrders, StringsAreCStrings
  <2>5. \A k \in 0 .. (Len(s1) + 1) :
           strncmp(s1, s2, k) = strcmp(SubSeq(s1, 1, Min({k, Len(s1)})), SubSeq(s2, 1, Min({k, Len(s2)})))
    <3>1. \A k \in 0 .. (Len(s1) + 1) : k \in Nat
      OBVIOUS
    <3>. QED
      BY <2>1, <3>1, StrncmpAgrees
  <2>6. strspn(s1, s2) = 0 \/ strcspn(s1, s2) = 0
    BY <2>1, SpansExclude
  <2>7. strpbrk(s1, s2) = IF \A i \in DOMAIN s2 : strchr(s1, s2[i]) = -1
                          THEN -1 ELSE strcspn(s1, s2)
    BY <2>1, StrpbrkAgrees
  <2>8. ASSUME NEW c \in Range(s1) \cup Range(s2)
        PROVE  /\ strchr(s1, c) = strstr(s1, <<c>>) /\ strchr(s1, c) = strpbrk(s1, <<c>>)
               /\ strrchr(s1, c) >= strchr(s1, c)
               /\ strchr(s2, c) # -1 => strcspn(s1, <<c>>) >= strcspn(s1, s2)
    <3>1. c \in Nat \ {0}
      BY <2>1, CharactersOf
    <3>. QED
      BY <2>1, <3>1, StrstrOfOne, OneCharacter, StrcspnOfOne
  <2>9. /\ strstr(s1, s2) >= 0 => strncmp(Drop(s1, strstr(s1, s2)), s2, Len(s2)) = 0
        /\ \A k \in 0 .. (Len(s1) - Len(s2)) :
              strncmp(Drop(s1, k), s2, Len(s2)) = 0 => strstr(s1, s2) \in 0 .. k
    BY <2>1, StrstrAgrees
  <2>. QED
    BY ONLY <2>2, <2>3, <2>4, <2>5, <2>6, <2>7, <2>8, <2>9 DEF StringFunctionsAgree
<1>. QED
  BY <1>1, SearchedIsInvariant, PTL

-----------------------------------------------------------------------------
(* What is printed arrives.  The texts that a conversion passes on are made of
   characters, whatever it is given; put_all brings each to its sink.  *)

(* Digits.                                                                 *)

LEMMA Divided ==
    ASSUME NEW b \in 2 .. 16, NEW u \in Nat
    PROVE  /\ u \div b \in Nat /\ u % b \in 0 .. (b - 1)
           /\ u = b * (u \div b) + (u % b)
           /\ u >= b => u \div b < u /\ u \div b >= 1
OBVIOUS

Digit == {digs[i] : i \in 1 .. 16}

\* What printnum makes of v when g has what it makes of smaller numbers.
NumeralStep(g, v, b) == IF v < b THEN <<digs[v + 1]>> ELSE Append(g[v \div b], digs[(v % b) + 1])

NumeralsUpTo(g, k, b) ==
    g \in [0 .. k -> Seq(Digit)] /\ \A v \in 0 .. k : g[v] = NumeralStep(g, v, b)

LEMMA NumeralStepType ==
    ASSUME NEW b \in 2 .. 16, NEW u \in Nat, NEW g, u >= b => g[u \div b] \in Seq(Digit)
    PROVE  NumeralStep(g, u, b) \in Seq(Digit)
<1>1. CASE u < b
  <2>1. digs[u + 1] \in Digit
    <3>1. u + 1 \in 1 .. 16
      BY <1>1
    <3>. QED
      BY <3>1 DEF Digit
  <2>. QED
    BY <1>1, <2>1 DEF NumeralStep
<1>2. CASE u >= b
  <2>1. u % b \in 0 .. (b - 1) /\ ~(u < b)
    BY <1>2, Divided
  <2>2. digs[(u % b) + 1] \in Digit
    <3>1. (u % b) + 1 \in 1 .. 16
      BY <2>1
    <3>. QED
      BY <3>1 DEF Digit
  <2>. QED
    BY <1>2, <2>1, <2>2 DEF NumeralStep
<1>. QED
  BY <1>1, <1>2

LEMMA NumeralsExist ==
    ASSUME NEW b \in 2 .. 16, NEW m \in Nat
    PROVE  \E g : NumeralsUpTo(g, m, b)
<1> DEFINE Good == {k \in 0 .. m : \E g : NumeralsUpTo(g, k, b)}
<1>1. 0 \in Good
  <2> DEFINE g == [v \in 0 .. 0 |-> <<digs[1]>>]
  <2>1. g \in [0 .. 0 -> Seq(Digit)]
    BY DEF Digit
  <2>2. \A v \in 0 .. 0 : g[v] = NumeralStep(g, v, b)
    BY DEF NumeralStep
  <2>. HIDE DEF g
  <2>3. NumeralsUpTo(g, 0, b)
    BY <2>1, <2>2 DEF NumeralsUpTo
  <2>. QED
    BY <2>3
<1>2. ASSUME NEW k \in 1 .. m, k - 1 \in Good
      PROVE  k \in Good
  <2>1. PICK g : NumeralsUpTo(g, k - 1, b)
    BY <1>2
  <2> DEFINE h == [v \in 0 .. k |-> IF v = k THEN NumeralStep(g, k, b) ELSE g[v]]
  <2>2. g \in [0 .. (k - 1) -> Seq(Digit)] /\ \A v \in 0 .. (k - 1) : g[v] = NumeralStep(g, v, b)
    BY <2>1 DEF NumeralsUpTo
  <2>3. NumeralStep(g, k, b) \in Seq(Digit)
    <3>1. k \in Nat /\ k >= 1
      BY <1>2
    <3>2. k >= b => k \div b \in 0 .. (k - 1)
      BY <3>1, Divided
    <3>3. k >= b => g[k \div b] \in Seq(Digit)
      BY <2>2, <3>2
    <3>. QED
      BY <3>1, <3>3, NumeralStepType
  <2>4. h \in [0 .. k -> Seq(Digit)]
    BY <2>2, <2>3
  <2>5. ASSUME NEW v \in 0 .. k PROVE h[v] = NumeralStep(h, v, b)
    <3>1. v >= b => v \div b \in 0 .. k /\ v \div b # k
      BY Divided
    <3>2. h[v] = NumeralStep(g, v, b)
      BY <2>2
    <3>3. v >= b => h[v \div b] = g[v \div b]
      BY <3>1
    <3>. HIDE DEF h
    <3>. QED
      BY <3>2, <3>3 DEF NumeralStep
  <2>. HIDE DEF h
  <2>6. NumeralsUpTo(h, k, b)
    BY <2>4, <2>5 DEF NumeralsUpTo
  <2>. QED
    BY <2>6
<1>. HIDE DEF Good
<1>3. 0 .. m \subseteq Good
  BY <1>1, <1>2, UpTo
<1>4. m \in Good
  BY <1>3
<1>. QED
  BY <1>4 DEF Good

LEMMA NumeralsAreUnique ==
    ASSUME NEW b \in 2 .. 16, NEW k \in Nat, NEW m \in Nat, NEW g, NEW h,
           NumeralsUpTo(g, k, b), NumeralsUpTo(h, m, b), NEW u \in Nat, u <= k, u <= m
    PROVE  g[u] = h[u]
<1> DEFINE Bad == {v \in Nat : v <= k /\ v <= m /\ g[v] # h[v]}
<1>1. ASSUME Bad # {} PROVE FALSE
  <2>1. PICK v \in Bad : \A w \in Bad : v <= w
    BY <1>1, LeastExists
  <2>2. v \in Nat /\ v \in 0 .. k /\ v \in 0 .. m /\ g[v] # h[v]
    BY <2>1
  <2>3. g[v] = NumeralStep(g, v, b) /\ h[v] = NumeralStep(h, v, b)
    BY <2>2 DEF NumeralsUpTo
  <2>4. v >= b => g[v \div b] = h[v \div b]
    BY <2>1, <2>2, Divided
  <2>. QED
    BY <2>2, <2>3, <2>4 DEF NumeralStep
<1>. QED
  BY <1>1

\* The function that printnum defines on all numbers.
NumeralsOf(b) == [v \in Nat |-> (CHOOSE g : NumeralsUpTo(g, v, b))[v]]

LEMMA NumeralsMade ==
    ASSUME NEW b \in 2 .. 16, NEW u \in Nat
    PROVE  NumeralsOf(b)[u] = NumeralStep(NumeralsOf(b), u, b)
<1> DEFINE g(v) == CHOOSE g : NumeralsUpTo(g, v, b)
<1>1. \A v \in Nat : NumeralsUpTo(g(v), v, b)
  BY NumeralsExist
<1>2. \A v \in Nat : NumeralsOf(b)[v] = g(v)[v]
  BY DEF NumeralsOf
<1>. HIDE DEF g
<1>3. g(u)[u] = NumeralStep(g(u), u, b)
  BY <1>1 DEF NumeralsUpTo
<1>4. u >= b => g(u)[u \div b] = g(u \div b)[u \div b]
  <2>. SUFFICES ASSUME u >= b PROVE g(u)[u \div b] = g(u \div b)[u \div b]
    OBVIOUS
  <2>1. u \div b \in Nat /\ u \div b <= u
    BY Divided
  <2>2. NumeralsUpTo(g(u), u, b) /\ NumeralsUpTo(g(u \div b), u \div b, b)
    BY <1>1, <2>1
  <2>. QED
    BY <2>1, <2>2, NumeralsAreUnique
<1>5. u >= b => NumeralsOf(b)[u \div b] = g(u)[u \div b]
  BY <1>2, <1>4, Divided
<1>. QED
  BY <1>2, <1>3, <1>5 DEF NumeralStep

\* printnum puts the digit of the remainder behind the digits of the quotient.
LEMMA PrintnumIs ==
    ASSUME NEW b \in 2 .. 16, NEW u \in Nat
    PROVE  /\ u < b => printnum(u, b) = <<digs[u + 1]>>
           /\ u >= b => printnum(u, b) = Append(printnum(u \div b, b), digs[(u % b) + 1])
<1> DEFINE f == CHOOSE made : made = [v \in Nat |-> IF v < b THEN <<digs[v + 1]>>
                                      ELSE Append(made[v \div b], digs[(v % b) + 1])]
           g == NumeralsOf(b)
<1>1. g = [v \in Nat |-> IF v < b THEN <<digs[v + 1]>> ELSE Append(g[v \div b], digs[(v % b) + 1])]
  <2>1. DOMAIN g = Nat /\ g = [v \in Nat |-> g[v]]
    BY DEF NumeralsOf
  <2>2. \A v \in Nat : g[v] = IF v < b THEN <<digs[v + 1]>> ELSE Append(g[v \div b], digs[(v % b) + 1])
    <3>. HIDE DEF g
    <3>1. \A v \in Nat : g[v] = NumeralStep(g, v, b)
      BY NumeralsMade DEF g
    <3>. QED
      BY <3>1 DEF NumeralStep
  <2>. HIDE DEF g
  <2>. QED
    BY <2>1, <2>2
<1>. HIDE DEF g
<1>2. f = [v \in Nat |-> IF v < b THEN <<digs[v + 1]>> ELSE Append(f[v \div b], digs[(v % b) + 1])]
  BY <1>1
<1>3. \A v \in Nat : printnum(v, b) = f[v]
  BY DEF printnum
<1>. HIDE DEF f
<1>4. f[u] = IF u < b THEN <<digs[u + 1]>> ELSE Append(f[u \div b], digs[(u % b) + 1])
  BY <1>2
<1>5. u \div b \in Nat
  BY Divided
<1>6. printnum(u, b) = f[u] /\ printnum(u \div b, b) = f[u \div b]
  BY <1>3, <1>5
<1>7. u < b => f[u] = <<digs[u + 1]>>
  BY <1>4
<1>8. u >= b => f[u] = Append(f[u \div b], digs[(u % b) + 1])
  <2>1. u >= b => ~(u < b)
    OBVIOUS
  <2>. QED
    BY <1>4, <2>1
<1>. QED
  BY <1>6, <1>7, <1>8

\* The digits of a base.
DigitOf(b) == {digs[i] : i \in 1 .. b}

LEMMA PrintnumType ==
    ASSUME NEW b \in 2 .. 16, NEW u \in Nat
    PROVE  printnum(u, b) \in Seq(DigitOf(b)) /\ Len(printnum(u, b)) >= 1
<1> DEFINE Bad == {v \in Nat : ~(printnum(v, b) \in Seq(DigitOf(b)) /\ Len(printnum(v, b)) >= 1)}
<1>1. ASSUME Bad # {} PROVE FALSE
  <2>1. PICK v \in Bad : \A w \in Bad : v <= w
    BY <1>1, LeastExists
  <2>2. v \in Nat
    BY <2>1
  <2>3. CASE v < b
    <3>1. printnum(v, b) = <<digs[v + 1]>>
      BY ONLY <2>2, <2>3, PrintnumIs, b \in 2 .. 16
    <3>2. v + 1 \in 1 .. b
      BY <2>2, <2>3
    <3>3. PICK x \in DigitOf(b) : printnum(v, b) = <<x>>
      BY <3>1, <3>2 DEF DigitOf
    <3>4. <<x>> \in Seq(DigitOf(b)) /\ Len(<<x>>) >= 1
      OBVIOUS
    <3>. QED
      BY <2>1, <3>3, <3>4
  <2>4. CASE v >= b
    <3>1. printnum(v, b) = Append(printnum(v \div b, b), digs[(v % b) + 1])
      BY <2>2, <2>4, PrintnumIs
    <3>2. v \div b \in Nat /\ ~(v <= v \div b) /\ (v % b) + 1 \in 1 .. b
      BY <2>2, <2>4, Divided
    <3>3. printnum(v \div b, b) \in Seq(DigitOf(b)) /\ Len(printnum(v \div b, b)) >= 1
      BY <2>1, <3>2
    <3>4. digs[(v % b) + 1] \in DigitOf(b)
      BY <3>2 DEF DigitOf
    <3>. QED
      BY <2>1, <3>1, <3>3, <3>4
  <2>. QED
    BY <2>2, <2>3, <2>4
<1>. QED
  BY <1>1

(* What the sinks keep.                                                    *)

\* What visible computes, place by place.
ShownStep(t, shown, i) == IF t[i] = NUL THEN shown[i - 1] ELSE Append(shown[i - 1], t[i])

Shows(t, shown) ==
    /\ shown \in [0 .. Len(t) -> Seq(Chars)] /\ shown[0] = <<>>
    /\ \A i \in 1 .. Len(t) : shown[i] = ShownStep(t, shown, i)

LEMMA VisibleMade ==
    ASSUME NEW t \in Seq(Chars)
    PROVE  \E shown : Shows(t, shown) /\ visible(t) = shown[Len(t)]
<1> DEFINE S == Seq(Chars)
           step == [p \in S \X (1 .. Len(t)) |-> IF t[p[2]] = NUL THEN p[1] ELSE Append(p[1], t[p[2]])]
           f == CHOOSE shown : shown = [i \in 0 .. Len(t) |->
                    IF i = 0 THEN <<>> ELSE IF t[i] = NUL THEN shown[i - 1] ELSE Append(shown[i - 1], t[i])]
<1>1. Len(t) \in Nat /\ \A i \in 1 .. Len(t) : t[i] \in Chars
  OBVIOUS
<1>2. step \in [S \X (1 .. Len(t)) -> S]
  BY <1>1
<1>3. PICK g : MadeByRounds(S, <<>>, Len(t), step, g)
  <2>1. <<>> \in S
    OBVIOUS
  <2>. HIDE DEF step, S
  <2>. QED
    BY <1>1, <1>2, <2>1, ByRounds
<1>4. g \in [0 .. Len(t) -> S] /\ g[0] = <<>> /\ \A i \in 1 .. Len(t) : g[i] = step[<<g[i - 1], i>>]
  BY <1>3 DEF MadeByRounds
<1>5. \A i \in 1 .. Len(t) : g[i] = IF t[i] = NUL THEN g[i - 1] ELSE Append(g[i - 1], t[i])
  <2>. SUFFICES ASSUME NEW i \in 1 .. Len(t)
                PROVE  g[i] = IF t[i] = NUL THEN g[i - 1] ELSE Append(g[i - 1], t[i])
    OBVIOUS
  <2>1. i - 1 \in 0 .. Len(t)
    BY <1>1
  <2>2. g[i - 1] \in S
    BY <1>4, <2>1
  <2>3. step[<<g[i - 1], i>>] = IF t[i] = NUL THEN g[i - 1] ELSE Append(g[i - 1], t[i])
    <3>. HIDE DEF S
    <3>. QED
      BY <2>2
  <2>. HIDE DEF step, S
  <2>. QED
    BY <1>4, <2>3
<1>. HIDE DEF step
<1>6. g = [i \in 0 .. Len(t) |-> IF i = 0 THEN <<>> ELSE IF t[i] = NUL THEN g[i - 1] ELSE Append(g[i - 1], t[i])]
  <2>1. \A i \in 0 .. Len(t) : g[i] = IF i = 0 THEN <<>> ELSE IF t[i] = NUL THEN g[i - 1] ELSE Append(g[i - 1], t[i])
    <3>1. \A i \in 0 .. Len(t) : i # 0 => i \in 1 .. Len(t)
      BY <1>1
    <3>. HIDE DEF S
    <3>. QED
      BY <1>4, <1>5, <3>1
  <2>2. g = [i \in 0 .. Len(t) |-> g[i]]
    BY <1>4
  <2>. QED
    BY <2>1, <2>2
<1>7. f = [i \in 0 .. Len(t) |-> IF i = 0 THEN <<>> ELSE IF t[i] = NUL THEN f[i - 1] ELSE Append(f[i - 1], t[i])]
  BY <1>6
<1>8. visible(t) = f[Len(t)]
  BY DEF visible
<1>. HIDE DEF f
<1>9. f[0] = <<>> /\ \A i \in 1 .. Len(t) : f[i] = ShownStep(t, f, i)
  <2>1. 0 \in 0 .. Len(t) /\ \A i \in 1 .. Len(t) : i \in 0 .. Len(t) /\ i # 0
    BY <1>1
  <2>. QED
    BY <1>7, <2>1 DEF ShownStep
<1>10. \A i \in 0 .. Len(t) : f[i] \in Seq(Chars)
  <2> DEFINE G == {i \in 0 .. Len(t) : f[i] \in Seq(Chars)}
  <2>1. 0 \in G
    <3>1. <<>> \in Seq(Chars) /\ 0 \in 0 .. Len(t)
      BY <1>1
    <3>2. f[0] \in Seq(Chars)
      BY <1>9, <3>1
    <3>. QED
      BY <3>1, <3>2
  <2>2. ASSUME NEW i \in 1 .. Len(t), i - 1 \in G PROVE i \in G
    <3>1. f[i - 1] \in Seq(Chars) /\ t[i] \in Chars /\ i \in 0 .. Len(t)
      BY <1>1, <2>2
    <3>2. f[i] = ShownStep(t, f, i)
      BY <1>9
    <3>3. ShownStep(t, f, i) \in Seq(Chars)
      BY <3>1 DEF ShownStep
    <3>. QED
      BY <3>1, <3>2, <3>3
  <2>. HIDE DEF G
  <2>3. 0 .. Len(t) \subseteq G
    BY <1>1, <2>1, <2>2, UpTo
  <2>. QED
    BY <2>3 DEF G
<1>11. f \in [0 .. Len(t) -> Seq(Chars)]
  BY <1>7, <1>10
<1>12. Shows(t, f)
  BY <1>9, <1>11 DEF Shows
<1>. QED
  BY <1>8, <1>12

LEMMA VisibleAppend ==
    ASSUME NEW t \in Seq(Chars), NEW c \in Chars
    PROVE  /\ visible(t) \in Seq(Chars)
           /\ visible(Append(t, c)) = IF c = NUL THEN visible(t) ELSE Append(visible(t), c)
<1> DEFINE w == Append(t, c)
           m == Len(t)
<1>1. w \in Seq(Chars) /\ m \in Nat /\ Len(w) = m + 1 /\ w[m + 1] = c /\ \A i \in 1 .. m : w[i] = t[i]
  OBVIOUS
<1>. HIDE DEF w
<1>2. PICK f : Shows(t, f) /\ visible(t) = f[m]
  BY VisibleMade
<1>3. PICK g : Shows(w, g) /\ visible(w) = g[m + 1]
  BY <1>1, VisibleMade
<1>. HIDE DEF m
<1>4. f \in [0 .. m -> Seq(Chars)] /\ f[0] = <<>> /\ \A i \in 1 .. m : f[i] = ShownStep(t, f, i)
  BY <1>2 DEF Shows, m
<1>5. g[0] = <<>> /\ \A i \in 1 .. (m + 1) : g[i] = ShownStep(w, g, i)
  BY <1>1, <1>3 DEF Shows
<1> DEFINE G == {i \in 0 .. m : g[i] = f[i]}
<1>6. 0 \in G
  BY <1>1, <1>4, <1>5
<1>7. ASSUME NEW i \in 1 .. m, i - 1 \in G PROVE i \in G
  <2>1. i \in 0 .. m /\ i \in 1 .. (m + 1) /\ g[i - 1] = f[i - 1] /\ w[i] = t[i]
    BY <1>1, <1>7
  <2>2. ShownStep(w, g, i) = ShownStep(t, f, i)
    BY <2>1 DEF ShownStep
  <2>. QED
    BY <1>4, <1>5, <2>1, <2>2
<1>. HIDE DEF G
<1>8. 0 .. m \subseteq G
  BY <1>1, <1>6, <1>7, UpTo
<1>9. g[m] = f[m] /\ f[m] \in Seq(Chars)
  BY <1>1, <1>4, <1>8 DEF G
<1>10. g[m + 1] = ShownStep(w, g, m + 1) /\ (m + 1) - 1 = m
  <2>1. m + 1 \in 1 .. (m + 1)
    BY <1>1
  <2>. QED
    BY <1>1, <1>5, <2>1
<1>11. g[m + 1] = IF c = NUL THEN f[m] ELSE Append(f[m], c)
  BY <1>1, <1>9, <1>10 DEF ShownStep
<1>. QED
  BY <1>2, <1>3, <1>9, <1>11 DEF w

LEMMA VisibleConcat ==
    ASSUME NEW t \in Seq(Chars), NEW u \in Seq(Chars \ {NUL})
    PROVE  visible(t \o u) = visible(t) \o u
<1> DEFINE p(i) == SubSeq(u, 1, i)
           G == {i \in 0 .. Len(u) : visible(t \o p(i)) = visible(t) \o p(i)}
<1>1. Len(u) \in Nat /\ visible(t) \in Seq(Chars)
  <2>1. NUL \in Chars
    BY NumeralsAssumption
  <2>. QED
    BY <2>1, VisibleAppend
<1>2. 0 \in G
  <2>1. p(0) = <<>>
    OBVIOUS
  <2>2. t \o <<>> = t /\ visible(t) \o <<>> = visible(t)
    BY <1>1
  <2>. HIDE DEF p
  <2>3. visible(t \o p(0)) = visible(t) \o p(0)
    BY <2>1, <2>2
  <2>4. 0 \in 0 .. Len(u)
    BY <1>1
  <2>. QED
    BY <2>3, <2>4
<1>3. ASSUME NEW i \in 1 .. Len(u), i - 1 \in G PROVE i \in G
  <2>1. p(i) = Append(p(i - 1), u[i]) /\ p(i - 1) \in Seq(Chars)
    BY <1>1
  <2>2. u[i] \in Chars /\ u[i] # NUL
    BY <1>1
  <2>. HIDE DEF p
  <2>3. t \o p(i) = Append(t \o p(i - 1), u[i])
    BY <2>1, <2>2
  <2>4. visible(t) \o p(i) = Append(visible(t) \o p(i - 1), u[i])
    BY <1>1, <2>1, <2>2
  <2>5. t \o p(i - 1) \in Seq(Chars)
    BY <2>1
  <2>6. visible(t \o p(i)) = Append(visible(t \o p(i - 1)), u[i])
    BY <2>2, <2>3, <2>5, VisibleAppend
  <2>7. visible(t \o p(i - 1)) = visible(t) \o p(i - 1)
    BY <1>3
  <2>8. visible(t \o p(i)) = visible(t) \o p(i)
    BY <2>4, <2>6, <2>7
  <2>9. i \in 0 .. Len(u)
    BY <1>1
  <2>. QED
    BY <2>8, <2>9
<1>. HIDE DEF G
<1>4. 0 .. Len(u) \subseteq G
  BY <1>1, <1>2, <1>3, UpTo
<1>5. visible(t \o p(Len(u))) = visible(t) \o p(Len(u))
  BY <1>1, <1>4 DEF G
<1>6. p(Len(u)) = u
  BY <1>1
<1>. QED
  BY <1>5, <1>6

Texts == Seq(Chars)
Sinks == [buf : Texts, console : Texts]

LEMMA TextNul == NUL \in Chars /\ "\n" \in Chars /\ "\n" # NUL
BY NumeralsAssumption DEF Spaces, NUL

\* What snprintf stores of a text.
Kept(o) == IF call.size = UNLIMITED \/ Len(o) <= call.size THEN o ELSE SubSeq(o, 1, call.size)

\* All of o has arrived.
Arrived(o, st) ==
    IF call.to = "console"
    THEN /\ visible(st.console) \o st.buf = visible(o)
         /\ Len(st.buf) < PRINTF_BUFMAX
         /\ st.buf \in Seq(Chars \ {NUL})
    ELSE st.buf = Kept(o)

LegalSize == call.size = UNLIMITED \/ call.size \in Nat

\* The three ways of a character to the console.
LEMMA PrintfChar ==
    ASSUME NEW st \in Sinks, NEW c \in Chars
    PROVE  /\ c = "\n" => printf_char(st, c) =
                 [buf |-> <<>>, console |-> (st.console \o st.buf) \o <<"\n">>]
           /\ c # "\n" /\ (c = NUL \/ buffer_full(st)) => printf_char(st, c) =
                 [buf |-> <<>>, console |-> (st.console \o st.buf) \o <<c, NUL, NUL, NUL>>]
           /\ c # "\n" /\ ~(c = NUL \/ buffer_full(st)) => printf_char(st, c) =
                 [buf |-> Append(st.buf, c), console |-> st.console]
BY DEF printf_char, puts, write, putchar, flush, Sinks

LEMMA ConsoleGets ==
    ASSUME NEW st \in Sinks, NEW c \in Chars, NEW o \in Texts, call.to = "console", Arrived(o, st)
    PROVE  printf_char(st, c) \in Sinks /\ Arrived(Append(o, c), printf_char(st, c))
<1> DEFINE con == st.console \o st.buf
           r == printf_char(st, c)
<1>1. /\ st.buf \in Texts /\ st.console \in Texts /\ con \in Texts /\ o \in Seq(Chars)
      /\ st = [buf |-> st.buf, console |-> st.console]
  BY DEF Sinks, Texts
<1>2. /\ visible(st.console) \o st.buf = visible(o) /\ visible(o) \in Texts
      /\ st.buf \in Seq(Chars \ {NUL}) /\ Len(st.buf) < PRINTF_BUFMAX
  BY VisibleAppend DEF Arrived, Texts
<1>3. visible(con) = visible(o)
  BY <1>1, <1>2, VisibleConcat DEF Texts
<1>4. visible(Append(o, c)) = IF c = NUL THEN visible(o) ELSE Append(visible(o), c)
  BY VisibleAppend DEF Texts
<1>5. PRINTF_BUFMAX \in Nat \ {0}
  BY LibraryAssumption
<1>6. /\ r \in Sinks /\ r.buf \in Seq(Chars \ {NUL}) /\ Len(r.buf) < PRINTF_BUFMAX
      /\ visible(r.console) \o r.buf = visible(Append(o, c))
  <2>1. CASE c = "\n"
    <3>1. r = [buf |-> <<>>, console |-> con \o <<"\n">>]
      BY <2>1, PrintfChar
    <3>. HIDE DEF con
    <3>2. con \o <<"\n">> = Append(con, "\n")
      BY <1>1 DEF Texts
    <3>3. visible(con \o <<"\n">>) = Append(visible(con), "\n") /\ con \o <<"\n">> \in Texts
      <4>1. con \in Seq(Chars) /\ Append(con, "\n") \in Seq(Chars)
        BY <1>1, TextNul DEF Texts
      <4>2. visible(Append(con, "\n")) = Append(visible(con), "\n")
        BY <4>1, TextNul, VisibleAppend
      <4>. QED
        BY <3>2, <4>1, <4>2 DEF Texts
    <3>4. visible(con \o <<"\n">>) = visible(Append(o, c)) /\ visible(con \o <<"\n">>) \in Texts
      BY <1>2, <1>3, <1>4, <2>1, <3>3, TextNul, VisibleAppend DEF Texts
    <3>5. r.buf = <<>> /\ r.console = con \o <<"\n">> /\ r \in Sinks
      <4>1. <<>> \in Texts
        BY DEF Texts
      <4>. HIDE DEF r
      <4>. QED
        BY <3>1, <3>3, <4>1 DEF Sinks
    <3>. HIDE DEF r
    <3>6. visible(r.console) \o r.buf = visible(r.console)
      BY <3>4, <3>5 DEF Texts
    <3>. QED
      BY <1>5, <3>4, <3>5, <3>6
  <2>2. CASE c # "\n" /\ (c = NUL \/ buffer_full(st))
    <3>1. r = [buf |-> <<>>, console |-> con \o <<c, NUL, NUL, NUL>>]
      BY <2>2, PrintfChar
    <3>. HIDE DEF con
    <3> DEFINE w1 == Append(con, c)
               w2 == Append(w1, NUL)
               w3 == Append(w2, NUL)
               w4 == Append(w3, NUL)
    <3>2. con \o <<c, NUL, NUL, NUL>> = w4
      BY <1>1, TextNul DEF Texts
    <3>3. w1 \in Texts /\ w2 \in Texts /\ w3 \in Texts /\ w4 \in Texts
      BY <1>1, TextNul DEF Texts
    <3>4. visible(w1) = IF c = NUL THEN visible(con) ELSE Append(visible(con), c)
      BY <1>1, VisibleAppend DEF Texts
    <3>. HIDE DEF w1
    <3>5. visible(w2) = visible(w1)
      BY <3>3, TextNul, VisibleAppend DEF Texts
    <3>. HIDE DEF w2
    <3>6. visible(w3) = visible(w2)
      BY <3>3, TextNul, VisibleAppend DEF Texts
    <3>. HIDE DEF w3
    <3>7. visible(w4) = visible(w3) /\ visible(w3) \in Texts
      BY <3>3, TextNul, VisibleAppend DEF Texts
    <3>. HIDE DEF w4
    <3>8. visible(w4) = visible(Append(o, c))
      BY <1>3, <1>4, <3>4, <3>5, <3>6, <3>7
    <3>9. r.buf = <<>> /\ r.console = w4 /\ r \in Sinks
      <4>1. <<>> \in Texts
        BY DEF Texts
      <4>. HIDE DEF r
      <4>. QED
        BY <3>1, <3>2, <3>3, <4>1 DEF Sinks
    <3>. HIDE DEF r
    <3>10. visible(r.console) \o r.buf = visible(r.console)
      BY <3>7, <3>9 DEF Texts
    <3>. QED
      BY <1>5, <3>8, <3>9, <3>10
  <2>3. CASE c # "\n" /\ ~(c = NUL \/ buffer_full(st))
    <3>1. r = [buf |-> Append(st.buf, c), console |-> st.console]
      BY <2>3, PrintfChar
    <3>2. Len(st.buf) + 1 < PRINTF_BUFMAX
      BY <1>1, <1>5, <2>3 DEF buffer_full, Texts
    <3>3. /\ Append(st.buf, c) \in Seq(Chars \ {NUL}) /\ Append(st.buf, c) \in Texts
          /\ Len(Append(st.buf, c)) < PRINTF_BUFMAX
      BY <1>1, <1>2, <2>3, <3>2 DEF Texts
    <3>4. visible(st.console) \in Texts
      BY <1>1, TextNul, VisibleAppend DEF Texts
    <3>5. visible(st.console) \o Append(st.buf, c) = Append(visible(st.console) \o st.buf, c)
      BY <1>1, <3>4 DEF Texts
    <3>6. r.buf = Append(st.buf, c) /\ r.console = st.console /\ r \in Sinks
      <4>. HIDE DEF r
      <4>. QED
        BY <1>1, <3>1, <3>3 DEF Sinks
    <3>. HIDE DEF r
    <3>. QED
      BY <1>2, <1>4, <2>3, <3>3, <3>5, <3>6
  <2>. QED
    BY <2>1, <2>2, <2>3
<1>. QED
  BY <1>6 DEF Arrived

LEMMA BufferGets ==
    ASSUME NEW st \in Sinks, NEW c \in Chars, NEW o \in Texts, call.to # "console",
           LegalSize, Arrived(o, st)
    PROVE  /\ savechar(st, c, call.size) \in Sinks
           /\ Arrived(Append(o, c), savechar(st, c, call.size))
<1> DEFINE w == Append(o, c)
<1>1. /\ st.buf = Kept(o) /\ st.buf \in Texts /\ Len(o) \in Nat /\ Len(w) = Len(o) + 1
      /\ w \in Texts /\ SubSeq(w, 1, Len(o)) = o
  BY DEF Arrived, Sinks, Texts
<1>2. /\ savechar(st, c, call.size) =
             IF call.size # UNLIMITED /\ Len(st.buf) = call.size THEN st
             ELSE [buf |-> Append(st.buf, c), console |-> st.console]
      /\ savechar(st, c, call.size) \in Sinks
  <2>1. savechar(st, c, call.size) =
             IF call.size # UNLIMITED /\ Len(st.buf) = call.size THEN st
             ELSE [buf |-> Append(st.buf, c), console |-> st.console]
    <3>1. [st EXCEPT !.buf = Append(st.buf, c)] = [buf |-> Append(st.buf, c), console |-> st.console]
      BY DEF Sinks
    <3>2. savechar(st, c, call.size) =
             IF call.size # UNLIMITED /\ Len(st.buf) = call.size THEN st
             ELSE [st EXCEPT !.buf = Append(st.buf, c)]
      BY Zenon DEF savechar
    <3>. QED
      BY ONLY <3>1, <3>2
  <2>2. Append(st.buf, c) \in Texts /\ st.console \in Texts
    BY DEF Sinks, Texts
  <2>3. [buf |-> Append(st.buf, c), console |-> st.console] \in Sinks
    BY <2>2 DEF Sinks
  <2>. QED
    BY <2>1, <2>3
<1>3. CASE call.size = UNLIMITED
  BY <1>1, <1>2, <1>3 DEF Arrived, Kept
<1>4. CASE call.size # UNLIMITED /\ Len(o) < call.size
  <2>1. call.size \in Nat /\ Len(o) <= call.size /\ Len(w) <= call.size /\ Len(o) # call.size
    BY <1>1, <1>4 DEF LegalSize
  <2>. QED
    BY <1>1, <1>2, <2>1 DEF Arrived, Kept
<1>5. CASE call.size # UNLIMITED /\ ~(Len(o) < call.size)
  <2>1. call.size \in Nat /\ call.size <= Len(o) /\ ~(Len(w) <= call.size)
    BY <1>1, <1>5 DEF LegalSize
  <2>2. SubSeq(o, 1, call.size) = SubSeq(w, 1, call.size) /\ Len(SubSeq(o, 1, call.size)) = call.size
    BY <2>1 DEF Texts
  <2>3. Len(o) = call.size => SubSeq(o, 1, call.size) = o
    BY <2>1 DEF Texts
  <2>4. st.buf = SubSeq(o, 1, call.size)
    BY <1>1, <1>5, <2>1, <2>3 DEF Kept
  <2>5. savechar(st, c, call.size) = st
    BY <1>2, <1>5, <2>2, <2>4
  <2>6. Kept(w) = SubSeq(w, 1, call.size)
    BY <1>5, <2>1 DEF Kept
  <2>. QED
    BY <1>5, <2>2, <2>4, <2>5, <2>6 DEF Arrived
<1>. QED
  BY <1>3, <1>4, <1>5

LEMMA SinkGets ==
    ASSUME NEW st \in Sinks, NEW c \in Chars, NEW o \in Texts, LegalSize, Arrived(o, st)
    PROVE  putc(st, c) \in Sinks /\ Arrived(Append(o, c), putc(st, c))
BY ConsoleGets, BufferGets DEF putc

\* put_all passes the characters one by one.
LEMMA PutAllMade ==
    ASSUME NEW st \in Sinks, NEW t \in Texts,
           \A x \in Sinks, c \in Chars : putc(x, c) \in Sinks
    PROVE  \E g \in [0 .. Len(t) -> Sinks] :
              /\ g[0] = st /\ \A i \in 1 .. Len(t) : g[i] = putc(g[i - 1], t[i])
              /\ put_all(st, t) = g[Len(t)]
<1> DEFINE m == Len(t)
           step == [p \in Sinks \X (1 .. m) |-> putc(p[1], t[p[2]])]
           f == CHOOSE after : after = [i \in 0 .. m |-> IF i = 0 THEN st ELSE putc(after[i - 1], t[i])]
<1>1. m \in Nat /\ \A i \in 1 .. m : t[i] \in Chars
  BY DEF Texts
<1>2. step \in [Sinks \X (1 .. m) -> Sinks]
  BY <1>1
<1>3. put_all(st, t) = f[m]
  BY DEF put_all
<1>. HIDE DEF m
<1>4. PICK g : MadeByRounds(Sinks, st, m, step, g)
  <2>. HIDE DEF step
  <2>. QED
    BY <1>1, <1>2, ByRounds
<1>5. g \in [0 .. m -> Sinks] /\ g[0] = st /\ \A i \in 1 .. m : g[i] = step[<<g[i - 1], i>>]
  BY <1>4 DEF MadeByRounds
<1>6. ASSUME NEW i \in 1 .. m PROVE g[i] = putc(g[i - 1], t[i])
  <2>1. i - 1 \in 0 .. m
    BY <1>1
  <2>2. g[i - 1] \in Sinks
    BY <1>5, <2>1
  <2>3. step[<<g[i - 1], i>>] = putc(g[i - 1], t[i])
    BY <2>2
  <2>. HIDE DEF step
  <2>. QED
    BY <1>5, <2>3
<1>. HIDE DEF step
<1>7. g = [i \in 0 .. m |-> IF i = 0 THEN st ELSE putc(g[i - 1], t[i])]
  <2>1. \A i \in 0 .. m : g[i] = IF i = 0 THEN st ELSE putc(g[i - 1], t[i])
    <3>1. \A i \in 0 .. m : i # 0 => i \in 1 .. m
      BY <1>1
    <3>. QED
      BY <1>5, <1>6, <3>1
  <2>2. g = [i \in 0 .. m |-> g[i]]
    BY <1>5
  <2>. QED
    BY <2>1, <2>2
<1>8. f = [i \in 0 .. m |-> IF i = 0 THEN st ELSE putc(f[i - 1], t[i])]
  BY <1>7
<1>. HIDE DEF f
<1>9. f[0] = st /\ \A i \in 1 .. m : f[i] = putc(f[i - 1], t[i])
  <2>1. 0 \in 0 .. m /\ \A i \in 1 .. m : i \in 0 .. m /\ i # 0
    BY <1>1
  <2>. QED
    BY <1>8, <2>1
<1>10. \A i \in 0 .. m : f[i] \in Sinks
  <2> DEFINE G == {i \in 0 .. m : f[i] \in Sinks}
  <2>1. 0 \in G
    BY <1>1, <1>9
  <2>2. ASSUME NEW i \in 1 .. m, i - 1 \in G PROVE i \in G
    <3>1. f[i - 1] \in Sinks /\ t[i] \in Chars /\ i \in 0 .. m
      BY <1>1, <2>2
    <3>. QED
      BY <1>9, <3>1
  <2>. HIDE DEF G
  <2>3. 0 .. m \subseteq G
    BY <1>1, <2>1, <2>2, UpTo
  <2>. QED
    BY <2>3 DEF G
<1>11. f \in [0 .. m -> Sinks]
  BY <1>8, <1>10
<1>. QED
  BY <1>3, <1>9, <1>11 DEF m

LEMMA PutcType ==
    ASSUME NEW x \in Sinks, NEW c \in Chars
    PROVE  putc(x, c) \in Sinks
<1>1. x.buf \in Texts /\ x.console \in Texts
  BY DEF Sinks
<1>2. CASE call.to = "console"
  <2> DEFINE r == printf_char(x, c)
             w1 == (x.console \o x.buf) \o <<"\n">>
             w2 == (x.console \o x.buf) \o <<c, NUL, NUL, NUL>>
             b == Append(x.buf, c)
  <2>1. w1 \in Texts /\ w2 \in Texts /\ b \in Texts /\ <<>> \in Texts
    BY <1>1, TextNul DEF Texts
  <2>2. \/ r = [buf |-> <<>>, console |-> w1] \/ r = [buf |-> <<>>, console |-> w2]
        \/ r = [buf |-> b, console |-> x.console]
    BY PrintfChar
  <2>. HIDE DEF r, w1, w2, b
  <2>3. r \in Sinks
    BY <1>1, <2>1, <2>2 DEF Sinks
  <2>. QED
    BY <1>2, <2>3 DEF putc, r
<1>3. CASE call.to # "console"
  <2>1. Append(x.buf, c) \in Texts
    BY <1>1 DEF Texts
  <2>2. [x EXCEPT !.buf = Append(x.buf, c)] \in Sinks
    BY <1>1, <2>1 DEF Sinks
  <2>3. savechar(x, c, call.size) = x \/ savechar(x, c, call.size) = [x EXCEPT !.buf = Append(x.buf, c)]
    BY Zenon DEF savechar
  <2>. QED
    BY <1>3, <2>2, <2>3 DEF putc
<1>. QED
  BY <1>2, <1>3

LEMMA TextArrives ==
    ASSUME NEW st \in Sinks, NEW t \in Texts, NEW o \in Texts, LegalSize, Arrived(o, st)
    PROVE  put_all(st, t) \in Sinks /\ Arrived(o \o t, put_all(st, t))
<1> DEFINE m == Len(t)
           p(i) == SubSeq(t, 1, i)
<1>1. m \in Nat /\ \A i \in 1 .. m : t[i] \in Chars
  BY DEF Texts
<1>2. \A x \in Sinks, c \in Chars : putc(x, c) \in Sinks
  BY PutcType
<1>3. PICK g \in [0 .. m -> Sinks] :
              /\ g[0] = st /\ \A i \in 1 .. m : g[i] = putc(g[i - 1], t[i])
              /\ put_all(st, t) = g[m]
  BY <1>2, PutAllMade
<1> DEFINE G == {i \in 0 .. m : Arrived(o \o p(i), g[i])}
<1>4. 0 \in G
  <2>1. o \o p(0) = o
    BY DEF Texts
  <2>. HIDE DEF p
  <2>2. Arrived(o \o p(0), g[0])
    BY <1>3, <2>1
  <2>. QED
    BY <1>1, <2>2
<1>5. ASSUME NEW i \in 1 .. m, i - 1 \in G PROVE i \in G
  <2>1. p(i) = Append(p(i - 1), t[i]) /\ p(i - 1) \in Seq(Chars)
    BY <1>1 DEF Texts
  <2>. HIDE DEF p
  <2>2. o \o p(i) = Append(o \o p(i - 1), t[i]) /\ o \o p(i - 1) \in Texts
    BY <1>1, <2>1 DEF Texts
  <2>3. g[i - 1] \in Sinks /\ g[i] = putc(g[i - 1], t[i]) /\ t[i] \in Chars /\ i \in 0 .. m
    BY <1>1, <1>3
  <2>4. Arrived(o \o p(i - 1), g[i - 1])
    BY <1>5
  <2>5. Arrived(Append(o \o p(i - 1), t[i]), putc(g[i - 1], t[i]))
    BY <2>2, <2>3, <2>4, SinkGets
  <2>6. Arrived(o \o p(i), g[i])
    BY <2>2, <2>3, <2>5
  <2>. QED
    BY <2>3, <2>6
<1>. HIDE DEF G
<1>6. 0 .. m \subseteq G
  BY <1>1, <1>4, <1>5, UpTo
<1>7. Arrived(o \o p(m), g[m])
  BY <1>1, <1>6 DEF G
<1>8. p(m) = t /\ g[m] \in Sinks
  BY <1>1, <1>3 DEF Texts
<1>. QED
  BY <1>3, <1>7, <1>8

-----------------------------------------------------------------------------
(* The texts.                                                               *)

LEMMA PadIs ==
    ASSUME NEW c, NEW k \in Int
    PROVE  /\ pad(c, k) \in Seq({c}) /\ Len(pad(c, k)) = IF k > 0 THEN k ELSE 0
           /\ \A i \in 1 .. Len(pad(c, k)) : pad(c, k)[i] = c
<1>1. CASE k > 0
  BY <1>1 DEF pad
<1>2. CASE ~(k > 0)
  <2>1. 1 .. k = 1 .. 0
    BY <1>2
  <2>2. pad(c, k) = [i \in 1 .. 0 |-> c]
    BY <2>1 DEF pad
  <2>. QED
    BY <1>2, <2>2
<1>. QED
  BY <1>1, <1>2

LEMMA PadText ==
    ASSUME NEW c \in Chars, NEW k \in Int
    PROVE  pad(c, k) \in Texts
<1>1. {c} \subseteq Chars /\ pad(c, k) \in Seq({c})
  BY PadIs
<1>. QED
  BY <1>1 DEF Texts

LEMMA DigitsText == \A i \in 1 .. 16 : digs[i] \in Chars
BY NumeralsAssumption

LEMMA NumeralText ==
    ASSUME NEW b \in 2 .. 16, NEW u \in Nat
    PROVE  printnum(u, b) \in Texts
<1>1. DigitOf(b) \subseteq Chars
  BY DigitsText DEF DigitOf
<1>2. printnum(u, b) \in Seq(DigitOf(b))
  BY PrintnumType
<1>. QED
  BY <1>1, <1>2 DEF Texts

LEMMA OneText == \A c \in Chars : <<c>> \in Texts /\ <<>> \in Texts
BY DEF Texts

LEMMA DropText ==
    ASSUME NEW t \in Texts, NEW k \in Nat
    PROVE  /\ Drop(t, k) \in Texts /\ Front1(t) \in Chars
           /\ t # <<>> => Tail(t) \in Texts
           /\ Front1(t) # NUL => t # <<>> /\ Front1(t) = t[1]
<1>1. Drop(t, k) \in Texts
  BY DEF Drop, Texts
<1>2. Front1(t) \in Chars
  BY TextNul DEF Front1, Texts
<1>. QED
  BY <1>1, <1>2 DEF Front1, Texts

LEMMA ParseNumberRest ==
    ASSUME NEW f \in Texts, NEW a, NEW default
    PROVE  parse_number(f, a, default).rest \in Texts
<1>1. Passed(f, Decimal) \in Nat
  <2>1. Passed(f, Decimal) \in 0 .. Len(f) /\ Len(f) \in Nat
    BY PassedStops DEF Texts
  <2>. QED
    BY <2>1
<1>2. Drop(f, Passed(f, Decimal)) \in Texts
  BY <1>1, DropText
<1>3. Front1(f) = "*" => Tail(f) \in Texts
  BY DropText DEF NUL
<1>. QED
  BY <1>2, <1>3 DEF parse_number

LEMMA ParseTypes ==
    ASSUME NEW f \in Texts, NEW a
    PROVE  LET p == parse(f, a)
           IN  /\ p.conv \in Chars /\ p.rest \in Texts /\ p.sign \in Texts
               /\ p.sign \in {<<"+">>, <<" ">>, <<>>} /\ p.padc \in {"0", " "}
<1> DEFINE k     == Passed(f, {"#", "-", "+", " "})
           flags == {f[i] : i \in 1 .. k}
           zero  == Front1(Drop(f, k)) = "0"
           width == parse_number(Drop(f, IF zero THEN k + 1 ELSE k), a, 0)
           prec  == IF Front1(width.rest) = "." THEN parse_number(Tail(width.rest), width.args, -1)
                    ELSE [width EXCEPT !.value = -1]
           longs == Passed(prec.rest, {"l"})
           p     == parse(f, a)
<1>1. p =
        [altfmt  |-> "#" \in flags,
         sign    |-> IF "+" \in flags THEN <<"+">> ELSE IF " " \in flags THEN <<" ">> ELSE <<>>,
         padc    |-> IF zero THEN "0" ELSE " ",
         ladjust |-> (width.value < 0) # ("-" \in flags),
         length  |-> IF width.value < 0 THEN -width.value ELSE width.value,
         prec    |-> prec.value,
         longopt |-> longs,
         conv    |-> Front1(Drop(prec.rest, longs)),
         rest    |-> Drop(prec.rest, longs + 1),
         args    |-> prec.args]
  BY DEF parse, directive, precision
<1>2. k \in Nat
  <2> DEFINE C == {"#", "-", "+", " "}
  <2>. HIDE DEF C
  <2>1. Passed(f, C) \in 0 .. Len(f) /\ Len(f) \in Nat
    BY PassedStops DEF Texts
  <2>2. k = Passed(f, C)
    BY DEF C
  <2>. HIDE DEF k
  <2>. QED
    BY <2>1, <2>2
<1>. HIDE DEF k
<1>3. width.rest \in Texts
  <2>1. (IF zero THEN k + 1 ELSE k) \in Nat
    BY <1>2
  <2>. QED
    BY <2>1, DropText, ParseNumberRest
<1>4. prec.rest \in Texts
  <2>1. CASE Front1(width.rest) = "."
    <3>1. Tail(width.rest) \in Texts
      <4>. HIDE DEF width
      <4>. QED
        BY <1>3, <2>1, DropText DEF NUL
    <3>2. parse_number(Tail(width.rest), width.args, -1).rest \in Texts
      BY <3>1, ParseNumberRest
    <3>. HIDE DEF width
    <3>. QED
      BY <2>1, <3>2
  <2>2. CASE Front1(width.rest) # "."
    <3>1. [width EXCEPT !.value = -1].rest = width.rest
      BY DEF parse_number
    <3>. HIDE DEF width
    <3>. QED
      BY <1>3, <2>2, <3>1
  <2>. QED
    BY <2>1, <2>2
<1>. HIDE DEF prec, width
<1>5. longs \in Nat
  <2>1. longs \in 0 .. Len(prec.rest) /\ Len(prec.rest) \in Nat
    BY <1>4, PassedStops DEF Texts
  <2>. QED
    BY <2>1
<1>. HIDE DEF longs
<1>6. Drop(prec.rest, longs) \in Texts /\ Drop(prec.rest, longs + 1) \in Texts
  <2> DEFINE y == prec.rest
             l == longs + 1
  <2>1. y \in Texts /\ longs \in Nat /\ l \in Nat
    BY <1>4, <1>5
  <2>. HIDE DEF y, l
  <2>2. Drop(y, longs) \in Texts /\ Drop(y, l) \in Texts
    BY <2>1, DropText
  <2>. QED
    BY Zenon, <2>2 DEF y, l
<1>7. Front1(Drop(prec.rest, longs)) \in Chars
  BY <1>6, DropText
<1>. HIDE DEF zero, flags, p
<1>8. \A x \in {<<"+">>, <<" ">>, <<>>} : x \in Texts
  <2>1. "+" \in Chars /\ " " \in Chars
    BY NumeralsAssumption DEF Spaces
  <2>2. <<"+">> \in Texts /\ <<" ">> \in Texts /\ <<>> \in Texts
    BY <2>1, OneText
  <2>. QED
    BY <2>2
<1>9. p.sign \in {<<"+">>, <<" ">>, <<>>} /\ p.padc \in {"0", " "}
  <2>1. p.sign = (IF "+" \in flags THEN <<"+">> ELSE IF " " \in flags THEN <<" ">> ELSE <<>>)
        /\ p.padc = (IF zero THEN "0" ELSE " ")
    BY <1>1
  <2>3. p.sign \in {<<"+">>, <<" ">>, <<>>}
    BY <2>1
  <2>4. p.padc \in {"0", " "}
    BY <2>1
  <2>. QED
    BY <2>3, <2>4
<1>10. p.conv \in Chars /\ p.rest \in Texts
  BY <1>1, <1>6, <1>7
<1>. QED
  BY <1>8, <1>9, <1>10 DEF p

(* The parts of a printed number.                                          *)

Prefix(p, u, b) == IF u = 0 \/ ~p.altfmt THEN <<>>
                   ELSE IF b = 8 THEN <<"0">> ELSE IF b = 16 THEN <<"0", "x">> ELSE <<>>

Fill(p, sg, u, b) == p.length - (Len(sg) + Len(Prefix(p, u, b)) + Len(printnum(u, b)))

BlanksBefore(p, k) == IF p.padc = " " /\ ~p.ladjust THEN pad(" ", k) ELSE <<>>
ZerosBetween(p, k) == IF p.padc = "0" THEN pad("0", k) ELSE <<>>
BlanksBehind(p, k) == IF p.padc = " " /\ p.ladjust THEN pad(" ", k) ELSE <<>>

LEMMA NumberTextIs ==
    ASSUME NEW p, NEW sg, NEW u, NEW b
    PROVE  LET k == Fill(p, sg, u, b)
           IN  number_text(p, sg, u, b) = BlanksBefore(p, k) \o sg \o Prefix(p, u, b)
                    \o ZerosBetween(p, k) \o printnum(u, b) \o BlanksBehind(p, k)
BY Zenon DEF number_text, taken, Fill, Prefix, BlanksBefore, ZerosBetween, BlanksBehind

LEMMA BlankAndZero == " " \in Chars /\ "0" \in Chars /\ "x" \in Chars /\ "-" \in Chars
<1>1. digs[1] = "0" /\ 1 \in 1 .. 16
  BY DEF digs
<1>2. "0" \in Chars
  BY <1>1, DigitsText
<1>3. "x" \in Chars /\ "-" \in Chars
  BY NumeralsAssumption
<1>4. " " \in Chars
  BY NumeralsAssumption DEF Spaces
<1>. QED
  BY <1>2, <1>3, <1>4

LEMMA HalfType == Half \in Nat /\ Half > 0
<1>1. Half \in Nat \ {0}
  BY NumeralsAssumption
<1>. QED
  BY <1>1

LEMMA PrefixText ==
    ASSUME NEW p, NEW u, NEW b
    PROVE  Prefix(p, u, b) \in {<<>>, <<"0">>, <<"0", "x">>} /\ Prefix(p, u, b) \in Texts
<1>1. "0" \in Chars /\ "x" \in Chars
  BY BlankAndZero
<1>2. <<>> \in Texts /\ <<"0">> \in Texts /\ <<"0", "x">> \in Texts
  BY <1>1 DEF Texts
<1>. QED
  BY <1>2 DEF Prefix

LEMMA FillsText ==
    ASSUME NEW p, NEW k \in Int
    PROVE  BlanksBefore(p, k) \in Texts /\ ZerosBetween(p, k) \in Texts /\ BlanksBehind(p, k) \in Texts
<1>1. pad(" ", k) \in Texts /\ pad("0", k) \in Texts /\ <<>> \in Texts
  BY BlankAndZero, PadText, OneText
<1>. QED
  BY <1>1 DEF BlanksBefore, ZerosBetween, BlanksBehind

LEMMA FillType ==
    ASSUME NEW p, p.length \in Int, NEW sg \in Texts, NEW u \in Nat, NEW b \in 2 .. 16
    PROVE  Fill(p, sg, u, b) \in Int
<1>1. Len(sg) \in Nat /\ Len(Prefix(p, u, b)) \in Nat /\ Len(printnum(u, b)) \in Nat
  <2>1. Prefix(p, u, b) \in Texts
    BY PrefixText
  <2>2. printnum(u, b) \in Texts
    BY NumeralText
  <2>. QED
    BY <2>1, <2>2 DEF Texts
<1>. QED
  BY <1>1 DEF Fill

LEMMA ConcatText == \A t \in Texts, w \in Texts : t \o w \in Texts /\ Len(t \o w) = Len(t) + Len(w)
BY DEF Texts

LEMMA NumberText ==
    ASSUME NEW p, p.length \in Int, NEW sg \in Texts, NEW u \in Nat, NEW b \in 2 .. 16
    PROVE  number_text(p, sg, u, b) \in Texts
<1> DEFINE k == Fill(p, sg, u, b)
<1>1. /\ BlanksBefore(p, k) \in Texts /\ ZerosBetween(p, k) \in Texts /\ BlanksBehind(p, k) \in Texts
      /\ Prefix(p, u, b) \in Texts /\ printnum(u, b) \in Texts
  BY FillType, FillsText, PrefixText, NumeralText
<1>2. number_text(p, sg, u, b) = BlanksBefore(p, k) \o sg \o Prefix(p, u, b)
                    \o ZerosBetween(p, k) \o printnum(u, b) \o BlanksBehind(p, k)
  BY NumberTextIs
<1>. HIDE DEF k
<1>3. BlanksBefore(p, k) \o sg \o Prefix(p, u, b) \in Texts
  BY <1>1, ConcatText
<1>4. BlanksBefore(p, k) \o sg \o Prefix(p, u, b) \o ZerosBetween(p, k) \o printnum(u, b) \in Texts
  BY <1>1, <1>3, ConcatText
<1>. QED
  BY <1>1, <1>2, <1>4, ConcatText

LEMMA WrapType == \A x \in Int : wrap_unsigned(x) \in 0 .. (2 * Half - 1) /\ wrap_signed(x) \in long
<1>. SUFFICES ASSUME NEW x \in Int
              PROVE  wrap_unsigned(x) \in 0 .. (2 * Half - 1) /\ wrap_signed(x) \in long
  OBVIOUS
<1> DEFINE m == 2 * Half
<1>1. m \in Nat /\ m > 0 /\ Half \in Nat
  BY HalfType
<1>2. x % m \in 0 .. (m - 1) /\ (x + Half) % m \in 0 .. (m - 1)
  <2>. HIDE DEF m
  <2>1. x + Half \in Int
    BY <1>1
  <2>2. \A y \in Int : y % m \in 0 .. (m - 1)
    BY <1>1
  <2>. QED
    BY <2>1, <2>2
<1>. QED
  BY <1>1, <1>2 DEF wrap_unsigned, wrap_signed, long

LEMMA SignedText ==
    ASSUME NEW p, p.length \in Int, p.sign \in Texts, NEW v \in Int, NEW b \in 2 .. 16
    PROVE  signed_text(p, v, b) \in Texts
<1>1. <<"-">> \in Texts
  BY NumeralsAssumption, OneText
<1>2. CASE v >= 0
  <2>1. signed_text(p, v, b) = number_text(p, p.sign, v, b)
    BY <1>2 DEF signed_text
  <2>2. v \in Nat
    BY <1>2
  <2>. QED
    BY <2>1, <2>2, NumberText
<1>3. CASE ~(v >= 0)
  <2>1. signed_text(p, v, b) = number_text(p, <<"-">>, -v, b)
    BY <1>3 DEF signed_text
  <2>2. -v \in Nat
    BY <1>3
  <2>. QED
    BY <1>1, <2>1, <2>2, NumberText
<1>. QED
  BY <1>2, <1>3

LEMMA PointerText ==
    ASSUME NEW p, "length" \in DOMAIN p, NEW u \in Nat
    PROVE  pointer_text(p, u) \in Texts
<1> DEFINE q == [p EXCEPT !.padc = "0", !.length = 8]
<1>1. q.length = 8
  OBVIOUS
<1>2. q.length \in Int /\ <<>> \in Texts /\ 16 \in 2 .. 16
  BY <1>1 DEF Texts
<1>. HIDE DEF q
<1>3. number_text(q, <<>>, u, 16) \in Texts
  BY <1>2, NumberText
<1>4. <<"0", "x">> \in Texts
  <2>1. "0" \in Chars /\ "x" \in Chars
    BY BlankAndZero, NumeralsAssumption
  <2>. QED
    BY <2>1 DEF Texts
<1>. QED
  BY <1>3, <1>4, ConcatText DEF pointer_text, q

LEMMA StringText ==
    ASSUME NEW p, p.length \in Int, p.prec \in Int, NEW w \in Texts
    PROVE  string_text(p, w) \in Texts
<1> DEFINE cut     == IF p.prec = -1 THEN Len(w) ELSE IF p.prec < 0 THEN 0 ELSE p.prec
           shown   == SubSeq(w, 1, Min({Len(w), cut}))
           counted == Len(shown) + (IF Len(shown) < Len(w) THEN 1 ELSE 0)
<1>1. cut \in Nat /\ Len(w) \in Nat
  BY DEF Texts
<1>2. string_text(p, w) = IF p.ladjust THEN shown \o pad(" ", p.length - counted)
                          ELSE pad(" ", p.length - Len(shown)) \o shown
  BY Zenon DEF string_text
<1>. HIDE DEF cut
<1>3. Min({Len(w), cut}) \in 0 .. Len(w)
  <2>1. {Len(w), cut} \in SUBSET Nat /\ {Len(w), cut} # {}
    BY <1>1
  <2>2. Min({Len(w), cut}) \in {Len(w), cut} /\ Min({Len(w), cut}) <= Len(w)
    <3>1. \A y \in {Len(w), cut} : Min({Len(w), cut}) <= y
      BY <2>1, MinIsLeast
    <3>2. Min({Len(w), cut}) \in {Len(w), cut}
      BY <2>1, MinIsLeast
    <3>. QED
      BY <3>1, <3>2
  <2>. QED
    BY <1>1, <2>2
<1>4. shown \in Texts /\ Len(shown) \in Nat
  <2> DEFINE m == Min({Len(w), cut})
  <2>. HIDE DEF m
  <2>1. m \in 0 .. Len(w)
    BY <1>3 DEF m
  <2>2. SubSeq(w, 1, m) \in Texts /\ Len(SubSeq(w, 1, m)) \in Nat
    BY <1>1, <2>1 DEF Texts
  <2>. QED
    BY <2>2 DEF m
<1>. HIDE DEF shown
<1>5. counted \in Nat
  BY <1>4
<1>. HIDE DEF counted
<1>6. pad(" ", p.length - counted) \in Texts /\ pad(" ", p.length - Len(shown)) \in Texts
  <2>1. p.length - counted \in Int /\ p.length - Len(shown) \in Int
    BY <1>4, <1>5
  <2>. QED
    BY <2>1, PadText, BlankAndZero
<1>. QED
  BY <1>2, <1>4, <1>6, ConcatText

LEMMA Bracketed ==
    ASSUME NEW p, NEW t \in Texts
    PROVE  bracket(p, t) \in Texts
<1>1. "[" \in Chars /\ "]" \in Chars
  BY NumeralsAssumption
<1>2. <<"[">> \in Texts /\ <<"]">> \in Texts
  BY <1>1, OneText
<1>3. <<"[">> \o t \o <<"]">> \in Texts
  BY <1>2, ConcatText
<1>. QED
  BY <1>3 DEF bracket

LEMMA EightDigits ==
    ASSUME NEW u \in Nat
    PROVE  printnum_16(u) \in Texts
<1>1. printnum(u, 16) \in Texts
  BY NumeralText
<1>2. 8 - Len(printnum(u, 16)) \in Int
  BY <1>1 DEF Texts
<1>3. pad("0", 8 - Len(printnum(u, 16))) \in Texts
  BY <1>2, PadText, BlankAndZero
<1>. QED
  BY <1>1, <1>3, ConcatText DEF printnum_16

LEMMA LongThreadText ==
    ASSUME NEW p, p.length \in Int, NEW id, id.high \in Nat, id.low \in Nat
    PROVE  long_thread_text(p, id) \in Texts
<1> DEFINE t    == bracket(p, printnum_16(id.high) \o <<":">> \o printnum_16(id.low))
           fill == IF p.length > 0 THEN p.length - Len(t) ELSE 0
<1>1. ":" \in Chars
  BY NumeralsAssumption
<1>2. <<":">> \in Texts /\ printnum_16(id.high) \in Texts /\ printnum_16(id.low) \in Texts
  BY <1>1, OneText, EightDigits
<1>3. printnum_16(id.high) \o <<":">> \o printnum_16(id.low) \in Texts
  BY <1>2, ConcatText
<1>4. t \in Texts
  BY <1>3, Bracketed
<1>5. long_thread_text(p, id) = IF p.ladjust THEN t \o pad(" ", fill) ELSE pad(" ", fill) \o t
  BY Zenon DEF long_thread_text
<1>. HIDE DEF t
<1>6. fill \in Int
  BY <1>4 DEF Texts
<1>7. pad(" ", fill) \in Texts
  BY <1>6, PadText, BlankAndZero
<1>. HIDE DEF fill
<1>. QED
  BY <1>4, <1>5, <1>7, ConcatText

LEMMA ShortThreadText ==
    ASSUME NEW p, p.length \in Int, p.padc \in Chars, NEW id, id.task \in Nat, id.lthread \in Nat
    PROVE  short_thread_text(p, id) \in Texts
<1> DEFINE m      == IF id.lthread >= 16 THEN 2 ELSE 1
           w      == (IF p.altfmt THEN 4 ELSE 2)
                     + (IF id.task >= 16 THEN 1 ELSE 0) + (IF id.task >= 256 THEN 1 ELSE 0)
           right  == p.length > 0 /\ ~p.ladjust
           before == IF right /\ p.length > w + 2 THEN p.length - w - 2 ELSE 0
           middle == IF right THEN p.length - (w + before) - m ELSE 0
           behind == p.length - w - m
           task   == printnum(id.task, 16)
           thread == printnum(id.lthread, 16)
           inner  == (IF p.padc = "0" THEN pad("0", before) ELSE <<>>)
                     \o task \o <<".">> \o pad(p.padc, middle) \o thread
<1>1. short_thread_text(p, id) =
          (IF p.padc = " " THEN pad(" ", before) ELSE <<>>) \o bracket(p, inner)
          \o (IF p.ladjust THEN pad(" ", behind) ELSE <<>>)
  BY Zenon DEF short_thread_text
<1>2. m \in Int /\ w \in Int
  <2> DEFINE w1 == IF p.altfmt THEN 4 ELSE 2
             w2 == IF id.task >= 16 THEN 1 ELSE 0
             w3 == IF id.task >= 256 THEN 1 ELSE 0
  <2>1. w1 \in Int
    OBVIOUS
  <2>2. w2 \in Int /\ w3 \in Int /\ m \in Int
    OBVIOUS
  <2>. HIDE DEF w1, w2, w3, m
  <2>3. w1 + w2 + w3 \in Int
    BY <2>1, <2>2
  <2>4. w = w1 + w2 + w3
    BY DEF w1, w2, w3
  <2>. QED
    BY <2>2, <2>3, <2>4
<1>. HIDE DEF m, w, right
<1>3. before \in Int /\ behind \in Int
  <2>1. p.length - w - 2 \in Int /\ behind \in Int
    BY <1>2
  <2>. QED
    BY <2>1
<1>. HIDE DEF before, behind
<1>4. middle \in Int
  <2>1. p.length - (w + before) - m \in Int
    BY <1>2, <1>3
  <2>. QED
    BY <2>1
<1>. HIDE DEF middle
<1>5. /\ pad("0", before) \in Texts /\ pad(" ", before) \in Texts /\ pad(" ", behind) \in Texts
      /\ pad(p.padc, middle) \in Texts /\ <<>> \in Texts
  <2>. QED
    BY <1>3, <1>4, PadText, BlankAndZero, OneText
<1>6. task \in Texts /\ thread \in Texts /\ <<".">> \in Texts
  <2>1. "." \in Chars
    BY NumeralsAssumption
  <2>2. <<".">> \in Texts
    BY <2>1, OneText
  <2>. QED
    BY <2>2, NumeralText
<1>. HIDE DEF task, thread
<1> DEFINE first == IF p.padc = "0" THEN pad("0", before) ELSE <<>>
<1>7. first \in Texts
  BY <1>5
<1>. HIDE DEF first
<1>8. first \o task \o <<".">> \o pad(p.padc, middle) \o thread \in Texts
  BY <1>5, <1>6, <1>7, ConcatText
<1>9. inner \in Texts
  BY <1>8 DEF first
<1>. HIDE DEF inner
<1>10. bracket(p, inner) \in Texts
  BY <1>9, Bracketed
<1> DEFINE start == IF p.padc = " " THEN pad(" ", before) ELSE <<>>
           end   == IF p.ladjust THEN pad(" ", behind) ELSE <<>>
<1>11. start \in Texts /\ end \in Texts
  BY <1>5
<1>12. short_thread_text(p, id) = start \o bracket(p, inner) \o end
  BY <1>1
<1>. HIDE DEF start, end
<1>. QED
  BY <1>10, <1>11, <1>12, ConcatText

-----------------------------------------------------------------------------
(* Registers.                                                               *)

LEMMA TwoToType ==
    ASSUME NEW k \in Nat
    PROVE  two_to(k) \in Nat /\ two_to(k) > 0
<1> DEFINE S == Nat \ {0}
           step == [p \in S \X (1 .. k) |-> 2 * p[1]]
           f == CHOOSE power : power = [i \in 0 .. k |-> IF i = 0 THEN 1 ELSE 2 * power[i - 1]]
<1>1. step \in [S \X (1 .. k) -> S]
  OBVIOUS
<1>2. PICK g : MadeByRounds(S, 1, k, step, g)
  <2>1. 1 \in S
    OBVIOUS
  <2>. HIDE DEF step, S
  <2>. QED
    BY <1>1, <2>1, ByRounds
<1>3. g \in [0 .. k -> S] /\ g[0] = 1 /\ \A i \in 1 .. k : g[i] = step[<<g[i - 1], i>>]
  BY <1>2 DEF MadeByRounds
<1>4. ASSUME NEW i \in 1 .. k PROVE g[i] = 2 * g[i - 1]
  <2>1. i - 1 \in 0 .. k
    OBVIOUS
  <2>2. g[i - 1] \in S
    BY <1>3, <2>1
  <2>3. step[<<g[i - 1], i>>] = 2 * g[i - 1]
    <3>. HIDE DEF S
    <3>. QED
      BY <2>2
  <2>. HIDE DEF step, S
  <2>. QED
    BY <1>3, <2>3
<1>. HIDE DEF step
<1>5. g = [i \in 0 .. k |-> IF i = 0 THEN 1 ELSE 2 * g[i - 1]]
  <2>1. \A i \in 0 .. k : g[i] = IF i = 0 THEN 1 ELSE 2 * g[i - 1]
    <3>1. \A i \in 0 .. k : i # 0 => i \in 1 .. k
      OBVIOUS
    <3>. HIDE DEF S
    <3>. QED
      BY <1>3, <1>4, <3>1
  <2>2. g = [i \in 0 .. k |-> g[i]]
    BY <1>3
  <2>. QED
    BY <2>1, <2>2
<1>6. f = [i \in 0 .. k |-> IF i = 0 THEN 1 ELSE 2 * f[i - 1]]
  BY <1>5
<1>7. two_to(k) = f[k]
  BY DEF two_to
<1>. HIDE DEF f
<1> DEFINE G == {i \in 0 .. k : f[i] \in S}
<1>8. 0 \in G
  BY <1>6
<1>9. ASSUME NEW i \in 1 .. k, i - 1 \in G PROVE i \in G
  <2>1. f[i - 1] \in S /\ i \in 0 .. k /\ i # 0
    BY <1>9
  <2>2. f[i] = 2 * f[i - 1]
    BY <1>6, <2>1
  <2>. QED
    BY <2>1, <2>2
<1>. HIDE DEF G
<1>10. 0 .. k \subseteq G
  BY <1>8, <1>9, UpTo
<1>11. f[k] \in S
  BY <1>10 DEF G
<1>. QED
  BY <1>7, <1>11

LEMMA BitsType ==
    ASSUME NEW u \in Nat, NEW j \in Nat \ {0}, NEW i \in Nat, j <= i
    PROVE  bits(u, i, j) \in Nat
<1>1. j - 1 \in Nat /\ i - j + 1 \in Nat
  OBVIOUS
<1> DEFINE q == two_to(j - 1)
           m == two_to(i - j + 1)
<1>2. q \in Nat /\ q > 0 /\ m \in Nat /\ m > 0
  BY <1>1, TwoToType
<1>3. bits(u, i, j) = (u \div q) % m
  BY DEF bits
<1>. HIDE DEF q, m
<1>4. u \div q \in Nat
  BY <1>2
<1>5. (u \div q) % m \in Nat
  BY <1>2, <1>4
<1>. QED
  BY <1>3, <1>5

Shown(u, f)   == f.j # 0 \/ bits(u, f.i, f.i) = 1
Item(u, v, f) == f.name \o (IF f.j = 0 THEN <<>> ELSE printnum(bits(u, f.i, f.j), v.base))
Joint(x)      == IF x = <<>> THEN <<"<">> ELSE <<",">>

\* The list of a register's fields when the next one is field k.
Listed(u, v, x, k) == IF ~Shown(u, v.fields[k]) THEN x ELSE x \o Joint(x) \o Item(u, v, v.fields[k])

LegalRegister(u, v) ==
    /\ u \in Nat /\ v.base \in 2 .. 16 /\ v.fields \in Seq(Field)
    /\ \A k \in DOMAIN v.fields : v.fields[k].j <= v.fields[k].i

LEMMA JointText == \A x : Joint(x) \in Texts
<1>1. "<" \in Chars /\ "," \in Chars
  BY NumeralsAssumption, Zenon
<1>2. <<"<">> \in Texts /\ <<",">> \in Texts
  BY <1>1, OneText, Zenon
<1>. QED
  BY <1>2, Zenon DEF Joint

LEMMA FieldType ==
    ASSUME NEW x \in Field
    PROVE  x.name \in Texts /\ x.i \in Nat /\ x.j \in Nat
<1>1. x.i \in 1 .. 32 /\ x.j \in 0 .. 32
  BY DEF Field
<1>2. x.name \in Texts
  BY DEF Field, Texts
<1>. QED
  BY <1>1, <1>2

LEMMA ItemText ==
    ASSUME NEW u, NEW v, LegalRegister(u, v), NEW k \in 1 .. Len(v.fields)
    PROVE  Item(u, v, v.fields[k]) \in Texts
<1> DEFINE f == v.fields[k]
<1>1. f \in Field /\ u \in Nat /\ v.base \in 2 .. 16 /\ f.j <= f.i
  BY DEF LegalRegister
<1>. HIDE DEF f
<1>2. f.name \in Texts /\ f.i \in Nat /\ f.j \in Nat
  BY <1>1, FieldType
<1>3. CASE f.j = 0
  <2>1. Item(u, v, f) = f.name \o <<>>
    BY <1>3 DEF Item
  <2>2. <<>> \in Texts
    BY DEF Texts
  <2>. QED
    BY <1>2, <2>1, <2>2, ConcatText DEF f
<1>4. CASE f.j # 0
  <2>1. Item(u, v, f) = f.name \o printnum(bits(u, f.i, f.j), v.base)
    BY <1>4 DEF Item
  <2>2. bits(u, f.i, f.j) \in Nat
    BY <1>1, <1>2, <1>4, BitsType
  <2>3. printnum(bits(u, f.i, f.j), v.base) \in Texts
    BY <1>1, <2>2, NumeralText
  <2>. QED
    BY <1>2, <2>1, <2>3, ConcatText DEF f
<1>. QED
  BY <1>3, <1>4

LEMMA ListedText ==
    ASSUME NEW u, NEW v, LegalRegister(u, v), NEW x \in Texts, NEW k \in 1 .. Len(v.fields)
    PROVE  Listed(u, v, x, k) \in Texts
<1>1. Item(u, v, v.fields[k]) \in Texts /\ Joint(x) \in Texts
  BY ItemText, JointText
<1>2. x \o Joint(x) \o Item(u, v, v.fields[k]) \in Texts
  BY <1>1, ConcatText
<1>. QED
  BY <1>2 DEF Listed

LEMMA RegisterText ==
    ASSUME NEW u, NEW v, LegalRegister(u, v)
    PROVE  register_text(u, v) \in Texts
<1> DEFINE m == Len(v.fields)
           S == Texts
           step == [p \in S \X (1 .. m) |-> Listed(u, v, p[1], p[2])]
           f == CHOOSE list : list = [k \in 0 .. m |->
                    IF k = 0 THEN <<>> ELSE Listed(u, v, list[k - 1], k)]
<1>1. m \in Nat /\ u \in Nat /\ v.base \in 2 .. 16
  BY DEF LegalRegister
<1>2. register_text(u, v) = printnum(u, v.base) \o
          (IF u = 0 \/ f[m] = <<>> THEN <<>> ELSE Append(f[m], ">"))
  BY Zenon DEF register_text, Listed, Shown, Item, Joint
<1>. HIDE DEF m
<1>3. step \in [S \X (1 .. m) -> S]
  BY ListedText DEF m
<1>4. PICK g : MadeByRounds(S, <<>>, m, step, g)
  <2>1. <<>> \in S
    BY DEF Texts
  <2>. HIDE DEF step, S
  <2>. QED
    BY <1>1, <1>3, <2>1, ByRounds
<1>5. g \in [0 .. m -> S] /\ g[0] = <<>> /\ \A i \in 1 .. m : g[i] = step[<<g[i - 1], i>>]
  BY <1>4 DEF MadeByRounds
<1>6. ASSUME NEW i \in 1 .. m PROVE g[i] = Listed(u, v, g[i - 1], i)
  <2>1. i - 1 \in 0 .. m
    BY <1>1
  <2>2. g[i - 1] \in S
    BY <1>5, <2>1
  <2>3. step[<<g[i - 1], i>>] = Listed(u, v, g[i - 1], i)
    BY <2>2
  <2>. HIDE DEF step
  <2>. QED
    BY <1>5, <2>3
<1>. HIDE DEF step
<1>7. g = [k \in 0 .. m |-> IF k = 0 THEN <<>> ELSE Listed(u, v, g[k - 1], k)]
  <2>1. \A i \in 0 .. m : g[i] = IF i = 0 THEN <<>> ELSE Listed(u, v, g[i - 1], i)
    <3>1. \A i \in 0 .. m : i # 0 => i \in 1 .. m
      BY <1>1
    <3>. QED
      BY <1>5, <1>6, <3>1
  <2>2. g = [i \in 0 .. m |-> g[i]]
    BY <1>5
  <2>. QED
    BY <2>1, <2>2
<1>8. f = [k \in 0 .. m |-> IF k = 0 THEN <<>> ELSE Listed(u, v, f[k - 1], k)]
  BY <1>7
<1>. HIDE DEF f
<1> DEFINE G == {i \in 0 .. m : f[i] \in S}
<1>9. 0 \in G
  <2>1. f[0] = <<>> /\ 0 \in 0 .. m
    BY <1>1, <1>8
  <2>2. <<>> \in S
    BY DEF Texts
  <2>. QED
    BY <2>1, <2>2
<1>10. ASSUME NEW i \in 1 .. m, i - 1 \in G PROVE i \in G
  <2>1. f[i - 1] \in Texts /\ i \in 0 .. m /\ i # 0
    BY <1>1, <1>10
  <2>2. f[i] = Listed(u, v, f[i - 1], i)
    BY <1>8, <2>1
  <2>3. f[i] \in Texts
    BY <2>1, <2>2, ListedText DEF m
  <2>. QED
    BY <2>1, <2>3
<1>. HIDE DEF G
<1>11. 0 .. m \subseteq G
  BY <1>1, <1>9, <1>10, UpTo
<1>12. f[m] \in Texts
  BY <1>1, <1>11 DEF G
<1>13. printnum(u, v.base) \in Texts
  BY <1>1, NumeralText
<1>14. Append(f[m], ">") \in Texts /\ <<>> \in Texts
  <2>1. ">" \in Chars
    BY NumeralsAssumption
  <2>. QED
    BY <1>12, <2>1 DEF Texts
<1>. QED
  BY <1>2, <1>13, <1>14, ConcatText

Unread == [fmt |-> fmt, args |-> args]
OneArg == Numeric \cup {"c", "s", "t"}

\* What is left always finds its arguments, and all that was passed on has arrived.
FormatInv ==
    /\ call \in Calls
    /\ Unread \in Pending
    /\ out \in Texts /\ sink \in Sinks
    /\ call.to = "console" \/ status # "returned" => Arrived(out, sink)
    /\ call.to # "console" /\ status = "returned" => sink.buf = Kept(out) \o <<NUL>>

Formatted == job = "format" => FormatInv

LEMMA CallsAreLegal ==
    \A c \in Calls : /\ c.to \in {"console", "buffer"}
                     /\ c.size = UNLIMITED \/ c.size \in Nat
                     /\ [fmt |-> c.fmt, args |-> c.args] \in Pending
BY LibraryAssumption

LEMMA PendingIsLegal ==
    ASSUME Unread \in Pending
    PROVE  /\ fmt \in Texts
           /\ fmt # <<>> => Following(Unread) \in Pending
           /\ Front1(fmt) = "%" => Fits(Directive)
<1>1. Unread.fmt = fmt /\ Unread.args = args
  BY DEF Unread
<1>2. /\ \A r \in Pending : r.fmt \in Seq(Chars \ {NUL})
      /\ \A r \in Pending : Front1(r.fmt) = "%" => Fits(parse(Tail(r.fmt), r.args))
      /\ \A r \in Pending : r.fmt # <<>> => Following(r) \in Pending
  BY LibraryAssumption
<1>3. fmt \in Texts
  BY <1>1, <1>2 DEF Texts
<1>. QED
  BY <1>1, <1>2, <1>3 DEF Directive

LEMMA FollowingIs ==
    ASSUME fmt \in Texts, fmt # <<>>
    PROVE  /\ fmt[1] # "%" => Following(Unread) = [fmt |-> Tail(fmt), args |-> args]
           /\ fmt[1] = "%" =>
                /\ Directive.conv \in OneArg => Following(Unread) =
                      [fmt |-> Directive.rest, args |-> Drop(Directive.args, 1)]
                /\ Directive.conv \in {"b", "B"} => Following(Unread) =
                      [fmt |-> Directive.rest, args |-> Drop(Directive.args, 2)]
                /\ Directive.conv = NUL => Following(Unread) =
                      [fmt |-> <<>>, args |-> Directive.args]
                /\ Directive.conv \notin OneArg \cup {"b", "B", NUL} => Following(Unread) =
                      [fmt |-> Directive.rest, args |-> Directive.args]
<1>1. Unread.fmt = fmt /\ Unread.args = args
  BY DEF Unread
<1>2. Following(Unread) =
        IF fmt[1] # "%" THEN [fmt |-> Tail(fmt), args |-> args]
        ELSE [fmt  |-> IF Directive.conv = NUL THEN <<>> ELSE Directive.rest,
              args |-> IF Directive.conv \in {"b", "B"} THEN Drop(Directive.args, 2)
                       ELSE IF Directive.conv \in OneArg THEN Drop(Directive.args, 1)
                       ELSE Directive.args]
  BY <1>1 DEF Following, Directive, OneArg
<1>3. "b" \notin OneArg /\ "B" \notin OneArg /\ NUL \notin OneArg /\ NUL \notin {"b", "B"}
  BY DEF OneArg, Numeric, NUL
<1>. QED
  BY <1>2, <1>3

\* The first character of what is left.
LEMMA FrontIs ==
    ASSUME fmt \in Texts, Front1(fmt) = "%"
    PROVE  fmt # <<>> /\ fmt[1] = "%" /\ Tail(fmt) \in Texts
BY DropText DEF NUL

LEMMA EmitKeeps ==
    ASSUME FormatInv, Running, NEW t \in Texts, NEW rest, NEW more,
           Emit(t, rest, more), [fmt |-> rest, args |-> more] \in Pending
    PROVE  FormatInv'
<1>1. /\ call' = call /\ status' = status /\ status = "runs" /\ out' = out \o t
      /\ sink' = put_all(sink, t) /\ Unread' = [fmt |-> rest, args |-> more]
  BY DEF Emit, Unread, Running
<1>2. LegalSize /\ Arrived(out, sink) /\ out \in Texts /\ sink \in Sinks /\ call \in Calls
  BY <1>1, CallsAreLegal DEF FormatInv, LegalSize
<1>3. put_all(sink, t) \in Sinks /\ Arrived(out \o t, put_all(sink, t))
  BY <1>2, TextArrives
<1>4. out \o t \in Texts
  BY <1>2, ConcatText
<1>5. Arrived(out, sink)'
  BY <1>1, <1>3 DEF Arrived, Kept
<1>. QED
  BY <1>1, <1>2, <1>3, <1>4, <1>5 DEF FormatInv

\* What a directive with one argument passes on.
LEMMA OneArgKeeps ==
    ASSUME FormatInv, Running, Front1(fmt) = "%", Directive.conv \in OneArg, NEW t \in Texts,
           Emit(t, Directive.rest, Drop(Directive.args, 1))
    PROVE  FormatInv'
<1>1. fmt \in Texts /\ fmt # <<>> /\ fmt[1] = "%" /\ Following(Unread) \in Pending
  BY PendingIsLegal, FrontIs DEF FormatInv
<1>2. [fmt |-> Directive.rest, args |-> Drop(Directive.args, 1)] \in Pending
  BY <1>1, FollowingIs
<1>. QED
  BY <1>2, EmitKeeps

LEMMA DirectiveIs ==
    ASSUME FormatInv, Front1(fmt) = "%"
    PROVE  /\ Fits(Directive) /\ Directive.conv \in Chars /\ Directive.rest \in Texts
           /\ Directive.sign \in Texts /\ Directive.padc \in Chars
           /\ Directive.length \in Int /\ Directive.prec \in Int /\ "length" \in DOMAIN Directive
<1>1. Tail(fmt) \in Texts /\ Fits(Directive)
  BY PendingIsLegal, FrontIs DEF FormatInv
<1>2. /\ Directive.conv \in Chars /\ Directive.rest \in Texts /\ Directive.sign \in Texts
      /\ Directive.padc \in {"0", " "}
  BY <1>1, ParseTypes DEF Directive
<1>3. Directive.padc \in Chars
  BY <1>2, BlankAndZero
<1>4. Directive.length \in Int /\ Directive.prec \in Int
  <2>1. Directive.length \in 0 .. Half /\ Directive.prec \in long
    BY <1>1 DEF Fits
  <2>. QED
    BY <2>1, HalfType DEF long
<1>5. "length" \in DOMAIN Directive
  BY DEF Directive, parse, directive
<1>. QED
  BY <1>1, <1>2, <1>3, <1>4, <1>5

LEMMA IntegersAre == \A p : integers(p) \subseteq Int
BY HalfType DEF integers, long, long_long

\* Its bits are a number.
LEMMA UnsignedArgType == \A p : \A u \in Int : unsigned_arg(p, u) \in Nat
<1>. SUFFICES ASSUME NEW p, NEW u \in Int PROVE unsigned_arg(p, u) \in Nat
  OBVIOUS
<1> DEFINE m == (2 * Half) * (2 * Half)
<1>1. m \in Nat \ {0}
  BY HalfType
<1>2. wrap_unsigned(u) \in 0 .. (2 * Half - 1)
  BY WrapType
<1>3. wrap_unsigned(u) \in Nat
  BY <1>2, HalfType
<1>4. unsigned_arg(p, u) = u % m \/ unsigned_arg(p, u) = wrap_unsigned(u)
  BY DEF unsigned_arg
<1>. HIDE DEF m
<1>5. u % m \in Nat
  BY <1>1
<1>. QED
  BY <1>3, <1>4, <1>5

LEMMA LongArg ==
    ASSUME FormatInv, Front1(fmt) = "%", Directive.conv \in Numeric
    PROVE  Directive.args[1] \in Int /\ unsigned_arg(Directive, Directive.args[1]) \in Nat
<1>1. Directive.args[1] \in integers(Directive)
  BY DirectiveIs DEF Fits
<1>. QED
  BY Zenon, <1>1, IntegersAre, UnsignedArgType

LEMMA ThreadIdType ==
    ASSUME NEW x \in ThreadId
    PROVE  /\ x.task \in 0 .. 2047 /\ x.lthread \in 0 .. 127
           /\ x.task \in Nat /\ x.lthread \in Nat
           /\ x.high \in 0 .. (2 * Half - 1) /\ x.low \in 0 .. (2 * Half - 1)
           /\ x.high \in Nat /\ x.low \in Nat
<1>1. x.task \in 0 .. 2047 /\ x.lthread \in 0 .. 127
  BY DEF ThreadId
<1>2. x.high \in 0 .. (2 * Half - 1) /\ x.low \in 0 .. (2 * Half - 1)
  BY DEF ThreadId
<1>3. x.high \in Nat /\ x.low \in Nat
  BY <1>2, HalfType
<1>4. x.task \in Nat /\ x.lthread \in Nat
  <2> DEFINE t == x.task
             l == x.lthread
  <2>1. t \in 0 .. 2047 /\ l \in 0 .. 127
    BY <1>1
  <2>. HIDE DEF t, l
  <2>2. t \in Nat
    BY <2>1
  <2>3. l \in Nat
    BY <2>1
  <2>. QED
    BY <2>2, <2>3 DEF t, l
<1>. QED
  BY <1>1, <1>2, <1>3, <1>4

LEMMA LiteralKeeps == ASSUME FormatInv, literal PROVE FormatInv'
<1>1. fmt \in Texts /\ fmt # <<>> /\ fmt[1] # "%" /\ Following(Unread) \in Pending
  BY PendingIsLegal DEF FormatInv, literal
<1>2. [fmt |-> Tail(fmt), args |-> args] \in Pending
  BY <1>1, FollowingIs
<1>3. <<fmt[1]>> \in Texts
  <2>1. fmt[1] \in Chars
    BY <1>1 DEF Texts
  <2>. QED
    BY <2>1, OneText
<1>. QED
  BY <1>2, <1>3, EmitKeeps DEF literal

LEMMA ConvCKeeps == ASSUME FormatInv, conv_c PROVE FormatInv'
<1>1. Running /\ Front1(fmt) = "%" /\ Directive.conv = "c"
      /\ Emit(<<Directive.args[1]>>, Directive.rest, Drop(Directive.args, 1))
  BY DEF conv_c, Converts, EmitArg
<1>2. Directive.args[1] \in Chars
  BY <1>1, DirectiveIs DEF Fits
<1>3. <<Directive.args[1]>> \in Texts /\ Directive.conv \in OneArg
  BY <1>1, <1>2, OneText DEF OneArg
<1>. QED
  BY <1>1, <1>3, OneArgKeeps

LEMMA ConvSKeeps == ASSUME FormatInv, conv_s PROVE FormatInv'
<1> DEFINE t == string_text(Directive, Directive.args[1])
<1>1. Running /\ Front1(fmt) = "%" /\ Directive.conv = "s"
      /\ Emit(t, Directive.rest, Drop(Directive.args, 1))
  BY DEF conv_s, Converts, EmitArg
<1>2. Directive.args[1] \in Seq(Chars \ {NUL})
  BY <1>1, DirectiveIs DEF Fits
<1>3. Directive.args[1] \in Texts
  BY <1>2 DEF Texts
<1>4. t \in Texts
  BY <1>1, <1>3, DirectiveIs, StringText
<1>5. Directive.conv \in OneArg
  BY <1>1 DEF OneArg
<1>. HIDE DEF t
<1>. QED
  BY <1>1, <1>4, <1>5, OneArgKeeps

LEMMA ConvSignedKeeps == ASSUME FormatInv, conv_d \/ conv_z PROVE FormatInv'
<1>1. ASSUME NEW b \in {10, 16}, Converts({"d", "D", "z", "Z"}),
             Emit(signed_text(Directive, Directive.args[1], b), Directive.rest, Drop(Directive.args, 1))
      PROVE  FormatInv'
  <2>1. Running /\ Front1(fmt) = "%" /\ Directive.conv \in Numeric
    BY <1>1 DEF Converts, Numeric
  <2>2. signed_text(Directive, Directive.args[1], b) \in Texts
    <3>1. b \in 2 .. 16
      OBVIOUS
    <3>. QED
      BY <2>1, <3>1, DirectiveIs, LongArg, SignedText
  <2>. QED
    BY <1>1, <2>1, <2>2, OneArgKeeps DEF OneArg
<1>2. CASE conv_d
  <2>1. Converts({"d", "D"}) /\ Emit(signed_text(Directive, Directive.args[1], 10),
                                     Directive.rest, Drop(Directive.args, 1))
    BY <1>2 DEF conv_d, EmitArg
  <2>2. Converts({"d", "D", "z", "Z"})
    BY <2>1 DEF Converts
  <2>. QED
    BY <1>1, <2>1, <2>2
<1>3. CASE conv_z
  <2>1. Converts({"z", "Z"}) /\ Emit(signed_text(Directive, Directive.args[1], 16),
                                     Directive.rest, Drop(Directive.args, 1))
    BY <1>3 DEF conv_z, EmitArg
  <2>2. Converts({"d", "D", "z", "Z"})
    BY <2>1 DEF Converts
  <2>. QED
    BY <1>1, <2>1, <2>2
<1>. QED
  BY <1>2, <1>3

LEMMA ConvUnsignedKeeps == ASSUME FormatInv, conv_u \/ conv_o \/ conv_x PROVE FormatInv'
<1>1. ASSUME NEW b \in {8, 10, 16}, Converts({"u", "U", "o", "O", "x", "X"}),
             Emit(number_text(Directive, <<>>, unsigned_arg(Directive, Directive.args[1]), b),
                  Directive.rest, Drop(Directive.args, 1))
      PROVE  FormatInv'
  <2>1. Running /\ Front1(fmt) = "%" /\ Directive.conv \in Numeric
    BY <1>1 DEF Converts, Numeric
  <2>2. number_text(Directive, <<>>, unsigned_arg(Directive, Directive.args[1]), b) \in Texts
    <3>1. b \in 2 .. 16 /\ <<>> \in Texts
      BY DEF Texts
    <3>. QED
      BY <2>1, <3>1, DirectiveIs, LongArg, NumberText
  <2>. QED
    BY <1>1, <2>1, <2>2, OneArgKeeps DEF OneArg
<1>2. CASE conv_u
  <2>1. Converts({"u", "U"}) /\ Emit(number_text(Directive, <<>>, unsigned_arg(Directive, Directive.args[1]), 10),
                                     Directive.rest, Drop(Directive.args, 1))
    BY <1>2 DEF conv_u, EmitArg
  <2>2. Converts({"u", "U", "o", "O", "x", "X"})
    BY <2>1 DEF Converts
  <2>. QED
    BY <1>1, <2>1, <2>2
<1>3. CASE conv_o
  <2>1. Converts({"o", "O"}) /\ Emit(number_text(Directive, <<>>, unsigned_arg(Directive, Directive.args[1]), 8),
                                     Directive.rest, Drop(Directive.args, 1))
    BY <1>3 DEF conv_o, EmitArg
  <2>2. Converts({"u", "U", "o", "O", "x", "X"})
    BY <2>1 DEF Converts
  <2>. QED
    BY <1>1, <2>1, <2>2
<1>4. CASE conv_x
  <2>1. Converts({"x", "X"}) /\ Emit(number_text(Directive, <<>>, unsigned_arg(Directive, Directive.args[1]), 16),
                                     Directive.rest, Drop(Directive.args, 1))
    BY <1>4 DEF conv_x, EmitArg
  <2>2. Converts({"u", "U", "o", "O", "x", "X"})
    BY <2>1 DEF Converts
  <2>. QED
    BY <1>1, <2>1, <2>2
<1>. QED
  BY <1>2, <1>3, <1>4

LEMMA ConvPKeeps == ASSUME FormatInv, conv_p PROVE FormatInv'
<1> DEFINE t == pointer_text(Directive, unsigned_arg(Directive, Directive.args[1]))
<1>1. Running /\ Front1(fmt) = "%" /\ Directive.conv = "p"
      /\ Emit(t, Directive.rest, Drop(Directive.args, 1))
  BY DEF conv_p, Converts, EmitArg
<1>2. Directive.conv \in Numeric
  BY <1>1 DEF Numeric
<1>3. t \in Texts
  BY <1>1, <1>2, LongArg, DirectiveIs, PointerText
<1>. HIDE DEF t
<1>. QED
  BY <1>1, <1>2, <1>3, OneArgKeeps DEF OneArg

LEMMA ConvTKeeps == ASSUME FormatInv, conv_t PROVE FormatInv'
<1> DEFINE id == Directive.args[1]
           t  == IF Directive.longopt > 0 THEN long_thread_text(Directive, id)
                 ELSE short_thread_text(Directive, id)
<1>1. Running /\ Front1(fmt) = "%" /\ Directive.conv = "t"
      /\ Emit(t, Directive.rest, Drop(Directive.args, 1))
  BY DEF conv_t, Converts, EmitArg
<1>2. id \in ThreadId
  <2>1. Fits(Directive)
    BY <1>1, DirectiveIs
  <2>. QED
    BY <1>1, <2>1 DEF Fits
<1>3. id.task \in Nat /\ id.lthread \in Nat /\ id.high \in Nat /\ id.low \in Nat
  <2>. HIDE DEF id
  <2>. QED
    BY <1>2, ThreadIdType
<1>. HIDE DEF id
<1>4. t \in Texts
  <2>1. long_thread_text(Directive, id) \in Texts
    BY <1>1, <1>3, DirectiveIs, LongThreadText
  <2>2. short_thread_text(Directive, id) \in Texts
    BY <1>1, <1>3, DirectiveIs, ShortThreadText
  <2>. QED
    BY <2>1, <2>2
<1>5. Directive.conv \in OneArg
  BY <1>1 DEF OneArg
<1>. HIDE DEF t
<1>. QED
  BY <1>1, <1>4, <1>5, OneArgKeeps

LEMMA ConvBKeeps == ASSUME FormatInv, conv_b PROVE FormatInv'
<1> DEFINE t == register_text(Directive.args[1], Directive.args[2])
<1>1. Running /\ Front1(fmt) = "%" /\ Directive.conv \in {"b", "B"}
      /\ Emit(t, Directive.rest, Drop(Directive.args, 2))
  BY DEF conv_b, Converts
<1>2. LegalRegister(Directive.args[1], Directive.args[2])
  BY <1>1, DirectiveIs DEF Fits, LegalRegister
<1>3. t \in Texts
  BY <1>2, RegisterText
<1>. HIDE DEF t
<1>4. fmt \in Texts /\ fmt # <<>> /\ fmt[1] = "%" /\ Following(Unread) \in Pending
  BY <1>1, PendingIsLegal, FrontIs DEF FormatInv
<1>5. [fmt |-> Directive.rest, args |-> Drop(Directive.args, 2)] \in Pending
  BY <1>1, <1>4, FollowingIs
<1>. QED
  BY <1>1, <1>3, <1>5, EmitKeeps

LEMMA ConvEndKeeps == ASSUME FormatInv, conv_end PROVE FormatInv'
<1>1. Running /\ Front1(fmt) = "%" /\ Directive.conv = NUL
      /\ Emit(<<>>, <<>>, Directive.args)
  BY DEF conv_end, Converts
<1>2. fmt \in Texts /\ fmt # <<>> /\ fmt[1] = "%" /\ Following(Unread) \in Pending
  BY <1>1, PendingIsLegal, FrontIs DEF FormatInv
<1>3. [fmt |-> <<>>, args |-> Directive.args] \in Pending
  BY <1>1, <1>2, FollowingIs
<1>4. <<>> \in Texts
  BY DEF Texts
<1>. QED
  BY <1>1, <1>3, <1>4, EmitKeeps

LEMMA ConvOtherKeeps == ASSUME FormatInv, conv_other PROVE FormatInv'
<1>1. Running /\ Front1(fmt) = "%" /\ Directive.conv \notin OneArg \cup {"b", "B", NUL}
      /\ Emit(<<Directive.conv>>, Directive.rest, Directive.args)
  BY DEF conv_other, OneArg, Numeric
<1>2. fmt \in Texts /\ fmt # <<>> /\ fmt[1] = "%" /\ Following(Unread) \in Pending
  BY <1>1, PendingIsLegal, FrontIs DEF FormatInv
<1>3. [fmt |-> Directive.rest, args |-> Directive.args] \in Pending
  BY <1>1, <1>2, FollowingIs
<1>4. <<Directive.conv>> \in Texts
  BY <1>1, DirectiveIs, OneText
<1>. QED
  BY <1>1, <1>3, <1>4, EmitKeeps

LEMMA ConvRadixKeeps == ASSUME FormatInv, conv_radix PROVE FormatInv'
<1>1. /\ UNCHANGED <<call, fmt, args, out, sink>> /\ status' = "raise" /\ status = "runs"
  BY DEF conv_radix, Converts, Running
<1>2. Arrived(out, sink)
  BY <1>1 DEF FormatInv
<1>3. Arrived(out, sink)' /\ Unread' = Unread
  BY <1>1, <1>2 DEF Arrived, Kept, Unread
<1>. QED
  BY <1>1, <1>3 DEF FormatInv

LEMMA ReturnsKeeps == ASSUME FormatInv, returns PROVE FormatInv'
<1>1. /\ UNCHANGED <<call, fmt, args, out>> /\ status' = "returned" /\ status = "runs"
      /\ sink' = finish(sink)
  BY DEF returns, Running
<1>2. Arrived(out, sink) /\ sink \in Sinks /\ out \in Texts /\ call \in Calls /\ Unread' = Unread
  BY <1>1 DEF FormatInv, Unread
<1>3. sink.buf \in Texts /\ sink.console \in Texts
  BY <1>2 DEF Sinks
<1>4. CASE call.to # "console"
  <2>1. sink' = [sink EXCEPT !.buf = Append(sink.buf, NUL)]
    BY <1>1, <1>4 DEF finish
  <2>2. Append(sink.buf, NUL) \in Texts /\ Append(sink.buf, NUL) = sink.buf \o <<NUL>>
    BY <1>3, TextNul DEF Texts
  <2>3. sink' \in Sinks /\ sink'.buf = sink.buf \o <<NUL>>
    BY <1>2, <2>1, <2>2 DEF Sinks
  <2>4. sink.buf = Kept(out) /\ Kept(out)' = Kept(out)
    BY <1>1, <1>2, <1>4 DEF Arrived, Kept
  <2>. QED
    BY <1>1, <1>2, <1>4, <2>3, <2>4 DEF FormatInv
<1>5. CASE call.to = "console"
  <2>1. CASE sink.buf = <<>>
    <3>1. sink' = sink
      BY <1>1, <1>5, <2>1 DEF finish
    <3>2. Arrived(out, sink)'
      BY <1>1, <1>2, <3>1 DEF Arrived, Kept
    <3>. QED
      BY <1>1, <1>2, <1>5, <3>1, <3>2 DEF FormatInv
  <2>2. CASE sink.buf # <<>>
    <3>1. sink' = [buf |-> <<>>, console |-> sink.console \o sink.buf]
      BY <1>1, <1>2, <1>5, <2>2 DEF finish, flush, write, Sinks
    <3>2. sink.console \o sink.buf \in Texts /\ <<>> \in Texts
      BY <1>3 DEF Texts
    <3>3. sink' \in Sinks /\ sink'.buf = <<>> /\ sink'.console = sink.console \o sink.buf
      BY <3>1, <3>2 DEF Sinks
    <3>4. sink.buf \in Seq(Chars \ {NUL}) /\ visible(sink.console) \o sink.buf = visible(out)
      BY <1>2, <1>5 DEF Arrived
    <3>5. visible(sink.console \o sink.buf) = visible(out)
      BY <1>3, <3>4, VisibleConcat DEF Texts
    <3>6. visible(sink'.console) \o sink'.buf = visible(out)
      <4>1. visible(out) \in Texts
        BY <1>2, TextNul, VisibleAppend DEF Texts
      <4>. QED
        BY <3>3, <3>5, <4>1 DEF Texts
    <3>7. PRINTF_BUFMAX > 0 /\ sink'.buf \in Seq(Chars \ {NUL}) /\ Len(sink'.buf) = 0
      BY <3>3, LibraryAssumption
    <3>8. visible(out') = visible(out)
      BY <1>1
    <3>9. Arrived(out, sink)'
      BY <1>1, <1>5, <3>6, <3>7, <3>8 DEF Arrived
    <3>. QED
      BY <1>1, <1>2, <1>5, <3>3, <3>9 DEF FormatInv
  <2>. QED
    BY <2>1, <2>2
<1>. QED
  BY <1>4, <1>5

LEMMA FormattedInit == Init => Formatted
<1>. SUFFICES ASSUME Init, job = "format" PROVE FormatInv
  BY DEF Formatted
<1>1. FInit
  BY DEF Init
<1>2. /\ call \in Calls /\ Unread \in Pending /\ out = <<>> /\ status = "runs"
      /\ sink = [buf |-> <<>>, console |-> <<>>]
  BY <1>1, CallsAreLegal DEF FInit, Unread
<1>3. <<>> \in Texts /\ <<>> \in Seq(Chars) /\ <<>> \in Seq(Chars \ {NUL})
  BY DEF Texts
<1>4. sink \in Sinks /\ sink.buf = <<>> /\ sink.console = <<>>
  BY <1>2, <1>3 DEF Sinks
<1>5. CASE call.to = "console"
  <2>1. visible(<<>>) \in Texts
    BY <1>3, TextNul, VisibleAppend DEF Texts
  <2>2. PRINTF_BUFMAX \in Nat /\ PRINTF_BUFMAX > 0
    <3>1. PRINTF_BUFMAX \in Nat \ {0}
      BY LibraryAssumption
    <3>. QED
      BY <3>1
  <2>3. visible(<<>>) \o <<>> = visible(<<>>)
    BY <2>1 DEF Texts
  <2>4. Arrived(out, sink)
    <3>1. visible(sink.console) \o sink.buf = visible(out)
      BY <1>2, <1>4, <2>3
    <3>2. Len(sink.buf) < PRINTF_BUFMAX
      BY <1>4, <2>2
    <3>. QED
      BY <1>3, <1>4, <1>5, <3>1, <3>2 DEF Arrived
  <2>. QED
    BY <1>2, <1>3, <1>4, <1>5, <2>4 DEF FormatInv
<1>6. CASE call.to # "console"
  <2>1. call.size = UNLIMITED \/ call.size \in Nat
    BY <1>2, CallsAreLegal
  <2>2. call.size = UNLIMITED \/ Len(<<>>) <= call.size
    BY <2>1
  <2>3. Kept(out) = <<>>
    BY <1>2, <2>2 DEF Kept
  <2>4. Arrived(out, sink)
    BY <1>4, <1>6, <2>3 DEF Arrived
  <2>. QED
    BY <1>2, <1>3, <1>4, <1>6, <2>4 DEF FormatInv
<1>. QED
  BY <1>5, <1>6

LEMMA FormattedNext == Formatted /\ [Next]_lvars => Formatted'
<1>. SUFFICES ASSUME Formatted, [Next]_lvars, job' = "format" PROVE FormatInv'
  BY DEF Formatted
<1>1. CASE Next
  <2>1. job = "format" /\ FormatInv /\ FNext
    BY <1>1 DEF Next, Formatted
  <2>2. CASE literal
    BY <2>1, <2>2, LiteralKeeps
  <2>3. CASE conv_c
    BY <2>1, <2>3, ConvCKeeps
  <2>4. CASE conv_s
    BY <2>1, <2>4, ConvSKeeps
  <2>5. CASE conv_d \/ conv_z
    BY <2>1, <2>5, ConvSignedKeeps
  <2>6. CASE conv_u \/ conv_o \/ conv_x
    BY <2>1, <2>6, ConvUnsignedKeeps
  <2>7. CASE conv_p
    BY <2>1, <2>7, ConvPKeeps
  <2>8. CASE conv_t
    BY <2>1, <2>8, ConvTKeeps
  <2>9. CASE conv_b
    BY <2>1, <2>9, ConvBKeeps
  <2>10. CASE conv_radix
    BY <2>1, <2>10, ConvRadixKeeps
  <2>11. CASE conv_end
    BY <2>1, <2>11, ConvEndKeeps
  <2>12. CASE conv_other
    BY <2>1, <2>12, ConvOtherKeeps
  <2>13. CASE returns
    BY <2>1, <2>13, ReturnsKeeps
  <2>. QED
    BY <2>1, <2>2, <2>3, <2>4, <2>5, <2>6, <2>7, <2>8, <2>9, <2>10, <2>11, <2>12, <2>13 DEF FNext
<1>2. CASE UNCHANGED lvars
  <2>1. job = "format" /\ FormatInv /\ UNCHANGED fvars
    BY <1>2 DEF lvars, Formatted
  <2>. QED
    BY <2>1 DEF fvars, FormatInv, Unread, Arrived, Kept
<1>. QED
  BY <1>1, <1>2

LEMMA FormattedIsInvariant == Spec => []Formatted
BY FormattedInit, FormattedNext, PTL DEF Spec

\* Whatever the calls, the size of printf's buffer and the size given to snprintf:
\* the console and the memory get what _doprnt passed on, in order and once
\* (stdio/printf.c, sprintf.c).
THEOREM TheTextArrives == Spec => []SinksGetTheText
<1>1. Formatted => SinksGetTheText
  <2>. SUFFICES ASSUME Formatted, job = "format"
                PROVE  /\ call.to = "console" =>
                             /\ visible(sink.console) \o sink.buf = visible(out)
                             /\ Len(sink.buf) < PRINTF_BUFMAX
                       /\ call.to = "buffer" /\ status = "returned" => sink.buf = Kept(out) \o <<NUL>>
    BY DEF SinksGetTheText, Kept
  <2>1. FormatInv
    BY DEF Formatted
  <2>. QED
    BY <2>1 DEF FormatInv, Arrived
<1>. QED
  BY <1>1, FormattedIsInvariant, PTL

-----------------------------------------------------------------------------
(* One directive, and the length of its text.                               *)

FieldConvs == {"d", "u", "x", "o", "z", "s", "t"}
OneDirective == Front1(call.fmt) = "%" /\ D.rest = <<>>

Unstarted == status # "returned" /\ fmt = call.fmt /\ args = call.args /\ out = <<>>

\* The directive is to be printed, or it has been.
DirectiveInv ==
    /\ FormatInv
    /\ OneDirective =>
          \/ Unstarted
          \/ /\ fmt = <<>>
             /\ D.conv \in FieldConvs => out = FieldText(D, Arg)
             /\ D.conv = "p" => out = pointer_text(D, unsigned_arg(D, Arg))

\* The directive of the call.
LEMMA DirectiveOfCall ==
    ASSUME call \in Calls, Front1(call.fmt) = "%"
    PROVE  /\ Fits(D) /\ Tail(call.fmt) \in Texts /\ D.conv \in Chars /\ D.sign \in Texts
           /\ D.sign \in {<<"+">>, <<" ">>, <<>>} /\ D.padc \in {"0", " "} /\ D.padc \in Chars
           /\ D.length \in Nat /\ D.prec \in Int
<1> DEFINE r == [fmt |-> call.fmt, args |-> call.args]
<1>1. r \in Pending /\ r.fmt = call.fmt /\ r.args = call.args
  BY CallsAreLegal
<1>. HIDE DEF r
<1>2. /\ \A q \in Pending : q.fmt \in Seq(Chars \ {NUL})
      /\ \A q \in Pending : Front1(q.fmt) = "%" => Fits(parse(Tail(q.fmt), q.args))
  BY LibraryAssumption
<1>3. call.fmt \in Texts /\ Fits(D)
  BY <1>1, <1>2 DEF Texts, D
<1>4. Tail(call.fmt) \in Texts
  BY <1>3, DropText DEF NUL
<1>5. /\ D.conv \in Chars /\ D.sign \in Texts
      /\ D.sign \in {<<"+">>, <<" ">>, <<>>} /\ D.padc \in {"0", " "}
  BY <1>4, ParseTypes DEF D
<1>6. D.padc \in Chars
  BY <1>5, BlankAndZero
<1>7. D.length \in Nat /\ D.prec \in Int
  <2>1. D.length \in 0 .. Half /\ D.prec \in long
    BY <1>3 DEF Fits
  <2>2. D.length \in Nat
    BY <2>1, HalfType
  <2>3. D.prec \in Int
    BY <2>1, HalfType DEF long
  <2>. QED
    BY <2>2, <2>3
<1>. QED
  BY <1>3, <1>4, <1>5, <1>6, <1>7

LEMMA DomainOfD ==
    DOMAIN D = {"altfmt", "sign", "padc", "ladjust", "length", "prec", "longopt", "conv", "rest", "args"}
BY DEF D, parse, directive

LEMMA ArgOfCall ==
    ASSUME call \in Calls, Front1(call.fmt) = "%"
    PROVE  /\ D.conv \in Numeric => Arg \in integers(D) /\ Arg \in Int /\ unsigned_arg(D, Arg) \in Nat
           /\ D.conv = "s" => Arg \in Seq(Chars \ {NUL}) /\ Arg \in Texts
           /\ D.conv = "t" => Arg \in ThreadId
<1>1. Fits(D)
  BY DirectiveOfCall
<1>2. /\ D.conv \in Numeric => Arg \in integers(D)
      /\ D.conv = "s" => Arg \in Seq(Chars \ {NUL})
      /\ D.conv = "t" => Arg \in ThreadId
  BY <1>1 DEF Fits, Arg
<1>3. Arg \in integers(D) => Arg \in Int
  BY IntegersAre
<1>4. Arg \in Int => unsigned_arg(D, Arg) \in Nat
  BY UnsignedArgType
<1>5. Arg \in Seq(Chars \ {NUL}) => Arg \in Texts
  BY DEF Texts
<1>. QED
  BY <1>2, <1>3, <1>4, <1>5

LEMMA FieldTextType ==
    ASSUME call \in Calls, Front1(call.fmt) = "%"
    PROVE  /\ D.conv \in FieldConvs => FieldText(D, Arg) \in Texts
           /\ D.conv = "p" => pointer_text(D, unsigned_arg(D, Arg)) \in Texts
<1>1. D.length \in Int /\ D.prec \in Int /\ D.padc \in Chars /\ D.sign \in Texts /\ "length" \in DOMAIN D
      /\ <<>> \in Texts /\ 10 \in 2 .. 16 /\ 16 \in 2 .. 16 /\ 8 \in 2 .. 16
  <2>1. D.length \in Nat /\ D.prec \in Int /\ D.padc \in Chars /\ D.sign \in Texts
    BY Zenon, DirectiveOfCall
  <2>2. "length" \in DOMAIN D
    BY DomainOfD
  <2>3. <<>> \in Texts /\ 10 \in 2 .. 16 /\ 16 \in 2 .. 16 /\ 8 \in 2 .. 16
    BY DEF Texts
  <2>4. D.length \in Int
    <3> DEFINE x == D.length
    <3>1. x \in Nat
      BY <2>1
    <3>. HIDE DEF x
    <3>2. x \in Int
      BY <3>1
    <3>. QED
      BY <3>2 DEF x
  <2>. QED
    BY Zenon, <2>1, <2>2, <2>3, <2>4
<1>2. CASE D.conv = "s"
  <2>1. Arg \in Texts
    BY <1>2, ArgOfCall
  <2>2. string_text(D, Arg) \in Texts
    BY <1>1, <2>1, StringText
  <2>. QED
    BY <1>2, <2>2 DEF FieldText
<1>3. CASE D.conv = "t"
  <2>1. Arg.task \in Nat /\ Arg.lthread \in Nat /\ Arg.high \in Nat /\ Arg.low \in Nat
    BY <1>3, ArgOfCall, ThreadIdType
  <2>2. long_thread_text(D, Arg) \in Texts /\ short_thread_text(D, Arg) \in Texts
    BY <1>1, <2>1, LongThreadText, ShortThreadText
  <2>. QED
    BY <1>3, <2>2 DEF FieldText
<1>4. CASE D.conv \in {"d", "z", "u", "x", "o", "p"}
  <2>1. Arg \in Int /\ unsigned_arg(D, Arg) \in Nat
    BY <1>4, ArgOfCall DEF Numeric
  <2>2. signed_text(D, Arg, 10) \in Texts /\ signed_text(D, Arg, 16) \in Texts
    BY <1>1, <2>1, SignedText
  <2>3. /\ number_text(D, <<>>, unsigned_arg(D, Arg), 10) \in Texts
        /\ number_text(D, <<>>, unsigned_arg(D, Arg), 16) \in Texts
        /\ number_text(D, <<>>, unsigned_arg(D, Arg), 8) \in Texts
    BY <1>1, <2>1, NumberText
  <2>4. pointer_text(D, unsigned_arg(D, Arg)) \in Texts
    BY <1>1, <2>1, PointerText
  <2>. QED
    BY <1>4, <2>2, <2>3, <2>4 DEF FieldText
<1>. QED
  BY <1>2, <1>3, <1>4 DEF FieldConvs

LEMMA UnstartedPrints ==
    ASSUME FormatInv, OneDirective, Unstarted, FNext
    PROVE  \/ Unstarted'
           \/ /\ fmt' = <<>>
              /\ D.conv \in FieldConvs => out' = FieldText(D, Arg)
              /\ D.conv = "p" => out' = pointer_text(D, unsigned_arg(D, Arg))
<1>1. /\ call \in Calls /\ Front1(call.fmt) = "%" /\ Directive = D /\ Directive.args[1] = Arg
      /\ Front1(fmt) = "%" /\ fmt # <<>> /\ fmt[1] = "%" /\ out = <<>> /\ D.rest = <<>>
  <2>1. call \in Calls /\ Front1(call.fmt) = "%" /\ Directive = D /\ Directive.args[1] = Arg
        /\ Front1(fmt) = "%" /\ out = <<>> /\ D.rest = <<>>
    BY DEF FormatInv, OneDirective, Unstarted, Directive, D, Arg
  <2>2. fmt # <<>> /\ fmt[1] = "%"
    BY <2>1, PendingIsLegal, FrontIs DEF FormatInv
  <2>. QED
    BY <2>1, <2>2
<1>2. ASSUME NEW t, NEW more, Emit(t, D.rest, more), t \in Texts PROVE fmt' = <<>> /\ out' = t
  BY <1>1, <1>2 DEF Emit, Texts
<1>3. ASSUME NEW t, NEW rest, NEW more, rest = <<>>, Emit(t, rest, more) PROVE fmt' = <<>>
  BY <1>3 DEF Emit
<1>4. CASE literal
  BY <1>1, <1>4 DEF literal
<1>5. CASE conv_c \/ conv_b \/ conv_end \/ conv_other
  <2>1. D.conv \notin FieldConvs \cup {"p"}
    BY <1>1, <1>5 DEF conv_c, conv_b, conv_end, conv_other, Converts, FieldConvs, NUL
  <2>2. fmt' = <<>>
    <3>1. CASE conv_c
      BY <1>1, <1>3, <3>1 DEF conv_c, EmitArg
    <3>2. CASE conv_b
      BY <1>1, <1>3, <3>2 DEF conv_b
    <3>3. CASE conv_end
      BY <1>3, <3>3 DEF conv_end
    <3>4. CASE conv_other
      BY <1>1, <1>3, <3>4 DEF conv_other
    <3>. QED
      BY <1>5, <3>1, <3>2, <3>3, <3>4
  <2>. QED
    BY <2>1, <2>2
<1>6. CASE conv_s
  <2>1. D.conv = "s" /\ Emit(FieldText(D, Arg), D.rest, Drop(D.args, 1))
    BY <1>1, <1>6 DEF conv_s, Converts, EmitArg, FieldText
  <2>2. FieldText(D, Arg) \in Texts
    BY <1>1, <2>1, FieldTextType DEF FieldConvs
  <2>. QED
    BY <1>2, <2>1, <2>2
<1>7. CASE conv_t
  <2>1. D.conv = "t" /\ Emit(FieldText(D, Arg), D.rest, Drop(D.args, 1))
    BY <1>1, <1>7 DEF conv_t, Converts, EmitArg, FieldText
  <2>2. FieldText(D, Arg) \in Texts
    BY <1>1, <2>1, FieldTextType DEF FieldConvs
  <2>. QED
    BY <1>2, <2>1, <2>2
<1>8. CASE conv_d
  <2>1. CASE D.conv = "d"
    <3>1. Emit(FieldText(D, Arg), D.rest, Drop(D.args, 1))
      BY <1>1, <1>8, <2>1 DEF conv_d, EmitArg, FieldText
    <3>. QED
      BY <1>1, <1>2, <2>1, <3>1, FieldTextType DEF FieldConvs
  <2>2. CASE D.conv = "D"
    <3>1. fmt' = <<>>
      BY <1>1, <1>8, <1>3 DEF conv_d, EmitArg
    <3>. QED
      BY <2>2, <3>1 DEF FieldConvs
  <2>. QED
    BY <1>1, <1>8, <2>1, <2>2 DEF conv_d, Converts
<1>9. CASE conv_z
  <2>1. CASE D.conv = "z"
    <3>1. Emit(FieldText(D, Arg), D.rest, Drop(D.args, 1))
      BY <1>1, <1>9, <2>1 DEF conv_z, EmitArg, FieldText
    <3>. QED
      BY <1>1, <1>2, <2>1, <3>1, FieldTextType DEF FieldConvs
  <2>2. CASE D.conv = "Z"
    <3>1. fmt' = <<>>
      BY <1>1, <1>9, <1>3 DEF conv_z, EmitArg
    <3>. QED
      BY <2>2, <3>1 DEF FieldConvs
  <2>. QED
    BY <1>1, <1>9, <2>1, <2>2 DEF conv_z, Converts
<1>10. CASE conv_u
  <2>1. CASE D.conv = "u"
    <3>1. Emit(FieldText(D, Arg), D.rest, Drop(D.args, 1))
      BY <1>1, <1>10, <2>1 DEF conv_u, EmitArg, FieldText
    <3>. QED
      BY <1>1, <1>2, <2>1, <3>1, FieldTextType DEF FieldConvs
  <2>2. CASE D.conv = "U"
    <3>1. fmt' = <<>>
      BY <1>1, <1>10, <1>3 DEF conv_u, EmitArg
    <3>. QED
      BY <2>2, <3>1 DEF FieldConvs
  <2>. QED
    BY <1>1, <1>10, <2>1, <2>2 DEF conv_u, Converts
<1>11. CASE conv_o
  <2>1. CASE D.conv = "o"
    <3>1. Emit(FieldText(D, Arg), D.rest, Drop(D.args, 1))
      BY <1>1, <1>11, <2>1 DEF conv_o, EmitArg, FieldText
    <3>. QED
      BY <1>1, <1>2, <2>1, <3>1, FieldTextType DEF FieldConvs
  <2>2. CASE D.conv = "O"
    <3>1. fmt' = <<>>
      BY <1>1, <1>11, <1>3 DEF conv_o, EmitArg
    <3>. QED
      BY <2>2, <3>1 DEF FieldConvs
  <2>. QED
    BY <1>1, <1>11, <2>1, <2>2 DEF conv_o, Converts
<1>12. CASE conv_x
  <2>1. CASE D.conv = "x"
    <3>1. Emit(FieldText(D, Arg), D.rest, Drop(D.args, 1))
      BY <1>1, <1>12, <2>1 DEF conv_x, EmitArg, FieldText
    <3>. QED
      BY <1>1, <1>2, <2>1, <3>1, FieldTextType DEF FieldConvs
  <2>2. CASE D.conv = "X"
    <3>1. fmt' = <<>>
      BY <1>1, <1>12, <1>3 DEF conv_x, EmitArg
    <3>. QED
      BY <2>2, <3>1 DEF FieldConvs
  <2>. QED
    BY <1>1, <1>12, <2>1, <2>2 DEF conv_x, Converts
<1>13. CASE conv_p
  <2>1. D.conv = "p" /\ Emit(pointer_text(D, unsigned_arg(D, Arg)), D.rest, Drop(D.args, 1))
    BY <1>1, <1>13 DEF conv_p, Converts, EmitArg
  <2>2. pointer_text(D, unsigned_arg(D, Arg)) \in Texts
    BY <1>1, <2>1, FieldTextType
  <2>. QED
    BY <1>2, <2>1, <2>2 DEF FieldConvs
<1>14. CASE conv_radix
  BY <1>14 DEF conv_radix, Unstarted
<1>15. CASE returns
  BY <1>1, <1>15 DEF returns
<1>. QED
  BY <1>4, <1>5, <1>6, <1>7, <1>8, <1>9, <1>10, <1>11, <1>12, <1>13, <1>14, <1>15 DEF FNext

Directed == job = "format" => DirectiveInv

LEMMA DirectedInit == Init => Directed
<1>. SUFFICES ASSUME Init, job = "format" PROVE DirectiveInv
  BY DEF Directed
<1>1. FormatInv
  BY FormattedInit DEF Formatted
<1>2. FInit
  BY DEF Init
<1>3. Unstarted
  BY <1>2 DEF FInit, Unstarted
<1>. QED
  BY <1>1, <1>3 DEF DirectiveInv

LEMMA DirectedNext == Directed /\ Formatted /\ [Next]_lvars => Directed'
<1>. SUFFICES ASSUME Directed, Formatted, [Next]_lvars, job' = "format" PROVE DirectiveInv'
  BY DEF Directed
<1>1. FormatInv'
  BY FormattedNext DEF Formatted
<1>2. job = "format"
  BY DEF Next, lvars
<1>3. FormatInv /\ DirectiveInv
  BY <1>2 DEF Formatted, Directed
<1>4. CASE UNCHANGED lvars
  <2>1. UNCHANGED <<call, fmt, args, out, status>>
    BY <1>4 DEF lvars, fvars
  <2>2. UNCHANGED <<OneDirective, Unstarted, D, Arg>>
    BY <2>1 DEF OneDirective, Unstarted, D, Arg
  <2>. QED
    BY <1>1, <1>3, <2>1, <2>2 DEF DirectiveInv
<1>5. CASE FNext
  <2>1. UNCHANGED call
    BY <1>5 DEF FNext, literal, conv_c, conv_s, conv_d, conv_z, conv_u, conv_o, conv_x, conv_p, conv_t,
                conv_b, conv_radix, conv_end, conv_other, returns, Emit, EmitArg
  <2>2. UNCHANGED <<OneDirective, D, Arg>>
    BY <2>1 DEF OneDirective, D, Arg
  <2>3. CASE ~OneDirective
    BY <1>1, <2>2, <2>3 DEF DirectiveInv
  <2>4. CASE OneDirective /\ Unstarted
    BY <1>1, <1>3, <1>5, <2>2, <2>4, UnstartedPrints DEF DirectiveInv
  <2>5. CASE OneDirective /\ ~Unstarted
    <3>1. /\ fmt = <<>>
          /\ D.conv \in FieldConvs => out = FieldText(D, Arg)
          /\ D.conv = "p" => out = pointer_text(D, unsigned_arg(D, Arg))
      BY <1>3, <2>5 DEF DirectiveInv
    <3>2. Front1(fmt) = NUL
      BY <3>1 DEF Front1
    <3>3. Front1(fmt) # "%"
      BY <3>2 DEF NUL
    <3>4. returns
      BY <1>5, <3>1, <3>3 DEF FNext, literal, conv_c, conv_s, conv_d, conv_z, conv_u, conv_o, conv_x,
                conv_p, conv_t, conv_b, conv_radix, conv_end, conv_other, Converts
    <3>5. UNCHANGED <<fmt, out>>
      BY <3>4 DEF returns
    <3>. QED
      BY <1>1, <2>2, <3>1, <3>5 DEF DirectiveInv
  <2>. QED
    BY <2>3, <2>4, <2>5
<1>. QED
  BY <1>2, <1>4, <1>5 DEF Next

LEMMA DirectedIsInvariant == Spec => []Directed
<1>1. Formatted /\ Directed /\ [Next]_lvars => Directed'
  BY DirectedNext
<1>. QED
  BY <1>1, DirectedInit, FormattedIsInvariant, PTL DEF Spec

\* A call that has printed one directive has printed its text.
LEMMA WhatIsPrinted ==
    ASSUME Directed, NEW convs, Printing(convs)
    PROVE  /\ call \in Calls /\ Front1(call.fmt) = "%" /\ D.conv \in convs
           /\ D.conv \in FieldConvs => out = FieldText(D, Arg)
           /\ D.conv = "p" => out = pointer_text(D, unsigned_arg(D, Arg))
<1>1. job = "format" /\ status = "returned" /\ OneDirective /\ D.conv \in convs
  BY Zenon DEF Printing, OneDirective, D
<1>2. DirectiveInv /\ FormatInv /\ ~Unstarted
  BY <1>1 DEF Directed, DirectiveInv, Unstarted
<1>. QED
  BY <1>1, <1>2 DEF DirectiveInv, FormatInv, OneDirective

(* The lengths of the fields.                                              *)

Greater(x, y) == IF x < y THEN y ELSE x

LEMMA MaxOfTwo == \A x \in Nat, y \in Nat : Max({x, y}) = Greater(x, y)
<1>. SUFFICES ASSUME NEW x \in Nat, NEW y \in Nat PROVE Max({x, y}) = Greater(x, y)
  OBVIOUS
<1> DEFINE S == {x, y}
<1>1. S \in SUBSET Int /\ S # {}
  OBVIOUS
<1>2. \A z \in S : z <= x + y
  OBVIOUS
<1>3. x + y \in Int
  OBVIOUS
<1>. HIDE DEF S
<1>4. Max(S) \in S /\ \A z \in S : z <= Max(S)
  BY <1>1, <1>2, <1>3, MaxIsGreatest
<1>5. Max(S) \in {x, y} /\ x <= Max(S) /\ y <= Max(S)
  BY <1>4 DEF S
<1>. QED
  BY <1>5 DEF Greater, S

Pads == {"0", " "}      \* the characters a field is padded with

Positive(k) == IF k > 0 THEN k ELSE 0

\* The padding stands in one place.
LEMMA FillsLength ==
    ASSUME NEW p, p.padc \in Pads, NEW k \in Int
    PROVE  Len(BlanksBefore(p, k)) + Len(ZerosBetween(p, k)) + Len(BlanksBehind(p, k)) = Positive(k)
<1> DEFINE x == Len(BlanksBefore(p, k))
           y == Len(ZerosBetween(p, k))
           z == Len(BlanksBehind(p, k))
           m == Positive(k)
<1>1. Len(pad(" ", k)) = m /\ Len(pad("0", k)) = m
  BY PadIs DEF Positive
<1>2. Len(<<>>) = 0
  OBVIOUS
<1>3. \/ x = m /\ y = 0 /\ z = 0
      \/ x = 0 /\ y = m /\ z = 0
      \/ x = 0 /\ y = 0 /\ z = m
  <2>. HIDE DEF m
  <2>1. CASE p.padc = "0"
    <3>1. p.padc # " "
      BY Zenon, <2>1
    <3>. QED
      BY Zenon, <1>1, <1>2, <2>1, <3>1 DEF BlanksBefore, ZerosBetween, BlanksBehind
  <2>2. CASE p.padc = " "
    <3>1. p.padc # "0"
      BY Zenon, <2>2
    <3>. QED
      BY Zenon, <1>1, <1>2, <2>2, <3>1 DEF BlanksBefore, ZerosBetween, BlanksBehind
  <2>. QED
    BY Zenon, <2>1, <2>2 DEF Pads
<1>4. m \in Nat
  BY DEF Positive
<1>. HIDE DEF x, y, z, m
<1>5. x + y + z = m
  BY <1>3, <1>4
<1>. QED
  BY Zenon, <1>5 DEF x, y, z, m

\* What a number needs.
Needs(p, sg, u, b) == Len(sg) + Len(Prefix(p, u, b)) + Len(printnum(u, b))

LEMMA NumberLength ==
    ASSUME NEW p, p.length \in Nat, p.padc \in Pads, NEW sg \in Texts, NEW u \in Nat, NEW b \in 2 .. 16
    PROVE  /\ Needs(p, sg, u, b) \in Nat
           /\ Len(number_text(p, sg, u, b)) = Greater(p.length, Needs(p, sg, u, b))
<1> DEFINE k == Fill(p, sg, u, b)
           len == p.length
<1>1. k \in Int
  <2>1. p.length \in Int
    <3>0. len \in Nat
      BY Zenon
    <3>. HIDE DEF len
    <3>1. len \in Int
      BY <3>0
    <3>. QED
      BY <3>1 DEF len
  <2>. QED
    BY <2>1, FillType
<1>2. /\ BlanksBefore(p, k) \in Texts /\ ZerosBetween(p, k) \in Texts /\ BlanksBehind(p, k) \in Texts
      /\ Prefix(p, u, b) \in Texts /\ printnum(u, b) \in Texts
  <2>. HIDE DEF k
  <2>. QED
    BY <1>1, FillsText, PrefixText, NumeralText
<1>3. Len(BlanksBefore(p, k)) + Len(ZerosBetween(p, k)) + Len(BlanksBehind(p, k)) = Positive(k)
  <2>. HIDE DEF k
  <2>. QED
    BY Zenon, <1>1, FillsLength
<1>4. number_text(p, sg, u, b) = BlanksBefore(p, k) \o sg \o Prefix(p, u, b)
                    \o ZerosBetween(p, k) \o printnum(u, b) \o BlanksBehind(p, k)
  BY Zenon, NumberTextIs
<1>5. k = p.length - Needs(p, sg, u, b) /\ Needs(p, sg, u, b) \in Nat
  <2>1. Len(sg) \in Nat /\ Len(Prefix(p, u, b)) \in Nat /\ Len(printnum(u, b)) \in Nat
    BY <1>2 DEF Texts
  <2>. QED
    BY <2>1 DEF Fill, Needs
<1>. HIDE DEF k
<1>6. Len(number_text(p, sg, u, b)) = Len(BlanksBefore(p, k)) + Len(sg) + Len(Prefix(p, u, b))
                    + Len(ZerosBetween(p, k)) + Len(printnum(u, b)) + Len(BlanksBehind(p, k))
  <2> DEFINE t1 == BlanksBefore(p, k) \o sg
             t2 == t1 \o Prefix(p, u, b)
             t3 == t2 \o ZerosBetween(p, k)
             t4 == t3 \o printnum(u, b)
             t5 == t4 \o BlanksBehind(p, k)
  <2>1. t1 \in Texts /\ Len(t1) = Len(BlanksBefore(p, k)) + Len(sg)
    BY <1>2, ConcatText
  <2>. HIDE DEF t1
  <2>2. t2 \in Texts /\ Len(t2) = Len(t1) + Len(Prefix(p, u, b))
    BY <1>2, <2>1, ConcatText
  <2>. HIDE DEF t2
  <2>3. t3 \in Texts /\ Len(t3) = Len(t2) + Len(ZerosBetween(p, k))
    BY <1>2, <2>2, ConcatText
  <2>. HIDE DEF t3
  <2>4. t4 \in Texts /\ Len(t4) = Len(t3) + Len(printnum(u, b))
    BY <1>2, <2>3, ConcatText
  <2>. HIDE DEF t4
  <2>5. Len(t5) = Len(t4) + Len(BlanksBehind(p, k))
    BY <1>2, <2>4, ConcatText
  <2>6. number_text(p, sg, u, b) = t5
    BY Zenon, <1>4 DEF t1, t2, t3, t4
  <2>. HIDE DEF t5
  <2>. QED
    BY <2>1, <2>2, <2>3, <2>4, <2>5, <2>6
<1> DEFINE a1 == Len(BlanksBefore(p, k))
           a2 == Len(ZerosBetween(p, k))
           a3 == Len(BlanksBehind(p, k))
           b1 == Len(sg)
           b2 == Len(Prefix(p, u, b))
           b3 == Len(printnum(u, b))
           m  == Len(number_text(p, sg, u, b))
           w  == Needs(p, sg, u, b)
<1>7. a1 \in Nat /\ a2 \in Nat /\ a3 \in Nat /\ b1 \in Nat /\ b2 \in Nat /\ b3 \in Nat
  BY <1>2 DEF Texts
<1>8. m = a1 + b1 + b2 + a2 + b3 + a3 /\ a1 + a2 + a3 = Positive(k) /\ w = b1 + b2 + b3
  BY Zenon, <1>3, <1>6 DEF Needs
<1>9. k = len - w /\ w \in Nat /\ len \in Nat
  BY Zenon, <1>5
<1>. HIDE DEF a1, a2, a3, b1, b2, b3, m, w, len
<1>10. m = Greater(len, w)
  BY <1>7, <1>8, <1>9 DEF Positive, Greater
<1>. QED
  BY Zenon, <1>9, <1>10 DEF m, w, len

LEMMA HexOne ==
    ASSUME NEW u \in Nat, u < 16
    PROVE  Len(printnum(u, 16)) = 1
<1>1. \A b \in 2 .. 16 : u < b => printnum(u, b) = <<digs[u + 1]>>
  BY PrintnumIs
<1>2. printnum(u, 16) = <<digs[u + 1]>>
  BY <1>1
<1>. QED
  BY <1>2

LEMMA HexMore ==
    ASSUME NEW u \in Nat, u >= 16
    PROVE  /\ Len(printnum(u \div 16, 16)) = 1 => Len(printnum(u, 16)) = 2
           /\ Len(printnum(u \div 16, 16)) = 2 => Len(printnum(u, 16)) = 3
           /\ u \div 16 \in Nat /\ u = 16 * (u \div 16) + (u % 16) /\ u % 16 \in 0 .. 15
<1>1. \A b \in 2 .. 16 : u >= b => printnum(u, b) = Append(printnum(u \div b, b), digs[(u % b) + 1])
  BY PrintnumIs
<1>2. 16 \in 2 .. 16
  OBVIOUS
<1>3. u \div 16 \in Nat /\ u = 16 * (u \div 16) + (u % 16) /\ u % 16 \in 0 .. 15
  OBVIOUS
<1> DEFINE v == u \div 16
           t == printnum(v, 16)
<1>4. t \in Texts
  BY <1>2, <1>3, NumeralText
<1>5. printnum(u, 16) = Append(t, digs[(u % 16) + 1])
  BY <1>1, <1>2
<1>. HIDE DEF t, v
<1> DEFINE r == printnum(u, 16)
<1>6. r = Append(t, digs[(u % 16) + 1])
  BY <1>5
<1>. HIDE DEF r
<1>7. Len(r) = Len(t) + 1 /\ Len(t) \in Nat
  BY <1>4, <1>6 DEF Texts
<1>8. (Len(t) = 1 => Len(r) = 2) /\ (Len(t) = 2 => Len(r) = 3)
  <2> DEFINE k == Len(t)
             m == Len(r)
  <2>1. m = k + 1 /\ k \in Nat
    BY <1>7
  <2>. HIDE DEF k, m
  <2>2. (k = 1 => m = 2) /\ (k = 2 => m = 3)
    BY <2>1
  <2>. QED
    BY Zenon, <2>2 DEF k, m
<1>. QED
  BY Zenon, <1>3, <1>8 DEF t, v, r

HexPlaces(u) == IF u < 16 THEN 1 ELSE IF u < 256 THEN 2 ELSE 3

\* The digits of a task and of a thread.
LEMMA HexLength ==
    ASSUME NEW u \in Nat, u < 4096
    PROVE  Len(printnum(u, 16)) = HexPlaces(u)
<1>. USE DEF HexPlaces
<1> DEFINE v1 == u \div 16
           v2 == v1 \div 16
<1>. u \in Nat
  OBVIOUS
<1>1. CASE u < 16
  <2>1. Len(printnum(u, 16)) = 1
    BY <1>1, HexOne
  <2>. QED
    BY <1>1, <2>1
<1>2. CASE u >= 16
  <2>1. /\ Len(printnum(v1, 16)) = 1 => Len(printnum(u, 16)) = 2
        /\ Len(printnum(v1, 16)) = 2 => Len(printnum(u, 16)) = 3
    BY <1>2, HexMore
  <2>2. v1 \in Nat /\ u = 16 * v1 + (u % 16) /\ u % 16 \in 0 .. 15
    BY <1>2, HexMore
  <2>. HIDE DEF v1
  <2>3. CASE v1 < 16
    <3>1. Len(printnum(v1, 16)) = 1
      BY <2>2, <2>3, HexOne
    <3>2. u < 256
      BY <2>2, <2>3
    <3>. QED
      <4>1. Len(printnum(u, 16)) = 2
        BY <2>1, <3>1
      <4>. QED
        BY <1>2, <3>2, <4>1
  <2>4. CASE v1 >= 16
    <3>1. Len(printnum(v2, 16)) = 1 => Len(printnum(v1, 16)) = 2
      BY <2>2, <2>4, HexMore
    <3>2. v2 \in Nat /\ v1 = 16 * v2 + (v1 % 16) /\ v1 % 16 \in 0 .. 15
      BY <2>2, <2>4, HexMore
    <3>. HIDE DEF v2
    <3>3. u >= 256 /\ v2 < 16
      BY <2>2, <2>4, <3>2
    <3>4. Len(printnum(v2, 16)) = 1
      BY <3>2, <3>3, HexOne
    <3>. QED
      <4>1. Len(printnum(v1, 16)) = 2
        BY <3>1, <3>4
      <4>2. Len(printnum(u, 16)) = 3
        BY <2>1, <4>1
      <4>. QED
        BY <1>2, <3>3, <4>2
  <2>. QED
    BY <2>2, <2>3, <2>4
<1>. QED
  BY <1>1, <1>2

\* A string, without a field and in one.
LEMMA StringLength ==
    ASSUME NEW p, p.length \in Nat, p.prec \in Int, NEW q, q.length = 0, q.prec = p.prec,
           q.ladjust = p.ladjust, NEW w \in Texts
    PROVE  /\ Len(string_text(q, w)) \in Nat
           /\ \/ p.ladjust /\ Len(string_text(q, w)) # Len(w)
              \/ Len(string_text(p, w)) = Greater(p.length, Len(string_text(q, w)))
<1> DEFINE cut     == IF p.prec = -1 THEN Len(w) ELSE IF p.prec < 0 THEN 0 ELSE p.prec
           shown   == SubSeq(w, 1, Min({Len(w), cut}))
           counted == Len(shown) + (IF Len(shown) < Len(w) THEN 1 ELSE 0)
<1>1. cut \in Nat /\ Len(w) \in Nat
  BY DEF Texts
<1>2. /\ string_text(p, w) = IF p.ladjust THEN shown \o pad(" ", p.length - counted)
                             ELSE pad(" ", p.length - Len(shown)) \o shown
      /\ string_text(q, w) = IF q.ladjust THEN shown \o pad(" ", q.length - counted)
                             ELSE pad(" ", q.length - Len(shown)) \o shown
  BY Zenon DEF string_text
<1>. HIDE DEF cut
<1>3. shown \in Texts /\ Len(shown) \in Nat
  <2> DEFINE m == Min({Len(w), cut})
  <2>1. {Len(w), cut} \in SUBSET Nat /\ {Len(w), cut} # {}
    BY <1>1
  <2>2. m \in {Len(w), cut} /\ \A y \in {Len(w), cut} : m <= y
    BY <2>1, MinIsLeast
  <2>. HIDE DEF m
  <2>3. m \in 0 .. Len(w)
    BY <1>1, <2>2
  <2>4. SubSeq(w, 1, m) \in Texts /\ Len(SubSeq(w, 1, m)) \in Nat
    BY <1>1, <2>3 DEF Texts
  <2>. QED
    BY <2>4 DEF m
<1>. HIDE DEF shown
<1>4. counted \in Nat
  BY <1>3
<1> DEFINE k  == p.length - counted
           k0 == q.length - counted
           j  == p.length - Len(shown)
           j0 == q.length - Len(shown)
           P(x) == pad(" ", x)
           len == p.length
<1>5. /\ k \in Int /\ k0 \in Int /\ j \in Int /\ j0 \in Int
      /\ k0 = 0 - counted /\ j0 = 0 - Len(shown)
  <2>1. len \in Nat /\ q.length = 0
    BY Zenon
  <2>2. k = len - counted /\ k0 = 0 - counted /\ j = len - Len(shown) /\ j0 = 0 - Len(shown)
    BY <2>1
  <2>. HIDE DEF len, k, k0, j, j0, counted
  <2>. QED
    BY <1>3, <1>4, <2>1, <2>2
<1>6. \A x \in Int : P(x) \in Texts /\ Len(P(x)) = Positive(x)
  BY PadText, PadIs, BlankAndZero DEF Positive
<1>7. /\ string_text(p, w) = IF p.ladjust THEN shown \o P(k) ELSE P(j) \o shown
      /\ string_text(q, w) = IF p.ladjust THEN shown \o P(k0) ELSE P(j0) \o shown
  BY Zenon, <1>2
<1>8. /\ Len(string_text(p, w)) = IF p.ladjust THEN Len(shown) + Positive(k) ELSE Positive(j) + Len(shown)
      /\ Len(string_text(q, w)) = IF p.ladjust THEN Len(shown) + Positive(k0) ELSE Positive(j0) + Len(shown)
  <2>. HIDE DEF P, k, k0, j, j0
  <2>1. /\ P(k) \in Texts /\ P(k0) \in Texts /\ P(j) \in Texts /\ P(j0) \in Texts
        /\ Len(P(k)) = Positive(k) /\ Len(P(k0)) = Positive(k0)
        /\ Len(P(j)) = Positive(j) /\ Len(P(j0)) = Positive(j0)
    BY <1>5, <1>6
  <2>2. /\ Len(shown \o P(k)) = Len(shown) + Len(P(k)) /\ Len(P(j) \o shown) = Len(P(j)) + Len(shown)
        /\ Len(shown \o P(k0)) = Len(shown) + Len(P(k0)) /\ Len(P(j0) \o shown) = Len(P(j0)) + Len(shown)
    BY <1>3, <2>1, ConcatText
  <2>. QED
    BY Zenon, <1>7, <2>1, <2>2
<1> DEFINE a  == Len(shown)
           b  == Len(w)
           t  == Len(string_text(p, w))
           t0 == Len(string_text(q, w))
<1>9. /\ a \in Nat /\ b \in Nat /\ counted = a + (IF a < b THEN 1 ELSE 0)
      /\ k = len - counted /\ k0 = 0 - counted /\ j = len - a /\ j0 = 0 - a
      /\ t = (IF p.ladjust THEN a + Positive(k) ELSE Positive(j) + a)
      /\ t0 = (IF p.ladjust THEN a + Positive(k0) ELSE Positive(j0) + a)
      /\ len \in Nat
  BY Zenon, <1>1, <1>3, <1>5, <1>8
<1>. HIDE DEF a, b, t, t0, len, k, k0, j, j0, counted
<1>10. t0 \in Nat /\ t0 = a
  BY <1>4, <1>9 DEF Positive
<1>11. (p.ladjust /\ t0 # b) \/ t = Greater(len, t0)
  BY <1>9, <1>10 DEF Positive, Greater
<1>. QED
  BY Zenon, <1>10, <1>11 DEF t, t0, len, b

LEMMA LongThreadLength ==
    ASSUME NEW p, p.length \in Nat, NEW q, q.length = 0, q.altfmt = p.altfmt, q.ladjust = p.ladjust,
           NEW id, id.high \in Nat, id.low \in Nat
    PROVE  /\ Len(long_thread_text(q, id)) \in Nat
           /\ Len(long_thread_text(p, id)) = Greater(p.length, Len(long_thread_text(q, id)))
<1> DEFINE txt(r) == bracket(r, printnum_16(id.high) \o <<":">> \o printnum_16(id.low))
           fill(r) == IF r.length > 0 THEN r.length - Len(txt(r)) ELSE 0
           P(x) == pad(" ", x)
           len == p.length
<1>1. \A r : long_thread_text(r, id) = IF r.ladjust THEN txt(r) \o P(fill(r)) ELSE P(fill(r)) \o txt(r)
  BY Zenon DEF long_thread_text
<1>2. txt(p) \in Texts /\ Len(txt(p)) \in Nat /\ txt(q) = txt(p)
  <2>1. printnum_16(id.high) \in Texts /\ printnum_16(id.low) \in Texts
    BY EightDigits
  <2>2. ":" \in Chars
    BY NumeralsAssumption
  <2>3. <<":">> \in Texts
    BY <2>2, OneText
  <2>4. printnum_16(id.high) \o <<":">> \o printnum_16(id.low) \in Texts
    BY <2>1, <2>3, ConcatText
  <2>5. txt(p) \in Texts
    BY <2>4, Bracketed
  <2>6. txt(q) = txt(p)
    BY Zenon DEF bracket
  <2>7. \A t \in Texts : Len(t) \in Nat
    BY DEF Texts
  <2>. HIDE DEF txt
  <2>. QED
    BY <2>5, <2>6, <2>7
<1>. HIDE DEF txt
<1>3. \A x \in Int : P(x) \in Texts /\ Len(P(x)) = Positive(x)
  BY PadText, PadIs, BlankAndZero DEF Positive
<1>. HIDE DEF P
<1>4. /\ len \in Nat /\ q.length = 0 /\ 0 \in Int
      /\ fill(p) = (IF len > 0 THEN len - Len(txt(p)) ELSE 0) /\ fill(p) \in Int /\ fill(q) = 0
  <2>1. len \in Nat /\ q.length = 0 /\ fill(p) = (IF len > 0 THEN len - Len(txt(p)) ELSE 0)
    BY Zenon
  <2>2. fill(q) = 0
    BY <2>1
  <2>. HIDE DEF len, fill
  <2>3. fill(p) \in Int
    BY <1>2, <2>1
  <2>. QED
    BY <2>1, <2>2, <2>3
<1>. HIDE DEF fill
<1>5. Len(long_thread_text(p, id)) = Len(txt(p)) + Positive(fill(p))
  <2> DEFINE u == P(fill(p))
             v == txt(p)
  <2>1. u \in Texts /\ Len(u) = Positive(fill(p)) /\ v \in Texts
    BY <1>2, <1>3, <1>4
  <2>2. long_thread_text(p, id) = IF p.ladjust THEN v \o u ELSE u \o v
    BY Zenon, <1>1
  <2>. HIDE DEF u, v
  <2>3. Len(v \o u) = Len(v) + Len(u) /\ Len(u \o v) = Len(u) + Len(v) /\ Len(u) \in Nat /\ Len(v) \in Nat
    BY <2>1 DEF Texts
  <2>4. Len(v \o u) = Len(v) + Len(u) /\ Len(u \o v) = Len(v) + Len(u)
    BY <2>3
  <2>5. Len(long_thread_text(p, id)) = Len(v) + Len(u)
    BY Zenon, <2>2, <2>4
  <2>. QED
    BY Zenon, <2>1, <2>5 DEF v
<1>6. Len(long_thread_text(q, id)) = Len(txt(p)) + Positive(0)
  <2> DEFINE u == P(0)
             v == txt(p)
  <2>1. u \in Texts /\ Len(u) = Positive(0) /\ v \in Texts
    BY <1>2, <1>3
  <2>2. long_thread_text(q, id) = IF q.ladjust THEN v \o u ELSE u \o v
    BY Zenon, <1>1, <1>2, <1>4
  <2>. HIDE DEF u, v
  <2>3. Len(v \o u) = Len(v) + Len(u) /\ Len(u \o v) = Len(u) + Len(v) /\ Len(u) \in Nat /\ Len(v) \in Nat
    BY <2>1 DEF Texts
  <2>4. Len(v \o u) = Len(v) + Len(u) /\ Len(u \o v) = Len(v) + Len(u)
    BY <2>3
  <2>5. Len(long_thread_text(q, id)) = Len(v) + Len(u)
    BY Zenon, <2>2, <2>4
  <2>. QED
    BY Zenon, <2>1, <2>5 DEF v
<1> DEFINE a  == Len(txt(p))
           k  == fill(p)
           t  == Len(long_thread_text(p, id))
           t0 == Len(long_thread_text(q, id))
<1>7. a \in Nat /\ len \in Nat /\ k = (IF len > 0 THEN len - a ELSE 0) /\ t = a + Positive(k) /\ t0 = a + Positive(0)
  BY Zenon, <1>2, <1>4, <1>5, <1>6
<1>. HIDE DEF a, k, t, t0, len
<1>8. t0 \in Nat /\ t = Greater(len, t0)
  BY <1>7 DEF Positive, Greater
<1>. QED
  BY Zenon, <1>8 DEF t, t0, len

LEMMA BracketedLength ==
    ASSUME NEW p, NEW t \in Texts
    PROVE  Len(t) \in Nat /\ Len(bracket(p, t)) = IF p.altfmt THEN Len(t) + 2 ELSE Len(t)
<1>1. "[" \in Chars /\ "]" \in Chars
  BY NumeralsAssumption
<1>2. <<"[">> \in Texts /\ <<"]">> \in Texts
  BY <1>1, OneText
<1>3. Len(<<"[">> \o t \o <<"]">>) = Len(t) + 2
  BY <1>2 DEF Texts
<1>4. Len(t) \in Nat
  BY DEF Texts
<1>. QED
  BY Zenon, <1>3, <1>4 DEF bracket

\* The characters of a short thread id without padding.
Counted(p, task, lthread) ==
    (IF p.altfmt THEN 4 ELSE 2) + (IF task >= 16 THEN 1 ELSE 0) + (IF task >= 256 THEN 1 ELSE 0)
    + (IF lthread >= 16 THEN 2 ELSE 1)

Tasks   == 0 .. 2047
Threads == 0 .. 127

LEMMA ShortThreadLength ==
    ASSUME NEW p, p.length \in Nat, p.padc \in Pads, NEW id, id.task \in Tasks, id.lthread \in Threads
    PROVE  /\ Counted(p, id.task, id.lthread) \in Nat
           /\ Len(short_thread_text(p, id)) = Greater(p.length, Counted(p, id.task, id.lthread))
<1> DEFINE u      == id.task
           v      == id.lthread
           len    == p.length
           m      == IF v >= 16 THEN 2 ELSE 1
           w      == (IF p.altfmt THEN 4 ELSE 2)
                     + (IF u >= 16 THEN 1 ELSE 0) + (IF u >= 256 THEN 1 ELSE 0)
           right  == len > 0 /\ ~p.ladjust
           before == IF right /\ len > w + 2 THEN len - w - 2 ELSE 0
           middle == IF right THEN len - (w + before) - m ELSE 0
           behind == len - w - m
           task   == printnum(u, 16)
           thread == printnum(v, 16)
           inner  == (IF p.padc = "0" THEN pad("0", before) ELSE <<>>)
                     \o task \o <<".">> \o pad(p.padc, middle) \o thread
           total  == Counted(p, u, v)
<1>1. short_thread_text(p, id) =
          (IF p.padc = " " THEN pad(" ", before) ELSE <<>>) \o bracket(p, inner)
          \o (IF p.ladjust THEN pad(" ", behind) ELSE <<>>)
  BY Zenon DEF short_thread_text
<1>2. u \in Tasks /\ v \in Threads /\ len \in Nat
  BY Zenon
<1>. HIDE DEF u, v, len
<1>3. m \in {1, 2} /\ w \in Nat /\ total = w + m
  <2> DEFINE w1 == IF p.altfmt THEN 4 ELSE 2
             w2 == IF u >= 16 THEN 1 ELSE 0
             w3 == IF u >= 256 THEN 1 ELSE 0
  <2>1. w1 \in Nat
    OBVIOUS
  <2>2. w2 \in Nat /\ w3 \in Nat /\ m \in {1, 2}
    OBVIOUS
  <2>3. w = w1 + w2 + w3 /\ total = w1 + w2 + w3 + m
    BY Zenon DEF Counted
  <2>. HIDE DEF w1, w2, w3, m, total, w
  <2>. QED
    BY <2>1, <2>2, <2>3
\* The digits, as many as were counted.
<1>4. /\ task \in Texts /\ thread \in Texts /\ Len(task) \in Nat /\ Len(thread) = m
      /\ w = (IF p.altfmt THEN 3 ELSE 1) + Len(task)
  <2>1. u \in Nat /\ v \in Nat /\ u < 4096 /\ v < 256 /\ v < 4096 /\ 16 \in 2 .. 16
    <3>1. u \in Nat /\ u < 4096
      BY <1>2 DEF Tasks
    <3>2. v \in Nat /\ v < 256
      BY <1>2 DEF Threads
    <3>3. v < 4096
      BY <3>2
    <3>. QED
      BY <3>1, <3>2, <3>3
  <2>2. task \in Texts /\ thread \in Texts
    BY <2>1, NumeralText
  <2>3. Len(task) = HexPlaces(u) /\ Len(thread) = HexPlaces(v)
    BY <2>1, HexLength
  <2> DEFINE a == Len(task)
             b == Len(thread)
  <2>4. a = HexPlaces(u) /\ b = HexPlaces(v)
    BY Zenon, <2>3
  <2>. HIDE DEF a, b, task, thread
  <2>5. a \in Nat /\ b = m
    BY <2>1, <2>4 DEF HexPlaces
  <2>6. w = (IF p.altfmt THEN 3 ELSE 1) + a
    <3>1. CASE p.altfmt
      BY <2>1, <2>4, <3>1 DEF HexPlaces
    <3>2. CASE ~p.altfmt
      BY <2>1, <2>4, <3>2 DEF HexPlaces
    <3>. QED
      BY <3>1, <3>2
  <2>. QED
    BY Zenon, <2>2, <2>5, <2>6 DEF a, b
<1>. HIDE DEF m, w, task, thread, total
<1>5. before \in Nat /\ middle \in Int /\ behind \in Int
  <2>1. before \in Nat
    BY <1>2, <1>3
  <2>. HIDE DEF before, right
  <2>. QED
    BY <1>2, <1>3, <2>1
<1> DEFINE zeros  == IF p.padc = "0" THEN pad("0", before) ELSE <<>>
           blanks == IF p.padc = " " THEN pad(" ", before) ELSE <<>>
           mids   == pad(p.padc, middle)
           ends   == IF p.ladjust THEN pad(" ", behind) ELSE <<>>
<1>6. /\ zeros \in Texts /\ blanks \in Texts /\ mids \in Texts /\ ends \in Texts
      /\ \/ Len(zeros) = Positive(before) /\ Len(blanks) = 0
         \/ Len(blanks) = Positive(before) /\ Len(zeros) = 0
      /\ Len(mids) = Positive(middle)
      /\ Len(ends) = IF p.ladjust THEN Positive(behind) ELSE 0
  <2>. HIDE DEF before, middle, behind
  <2>1. before \in Int
    BY <1>5
  <2>2. /\ pad("0", before) \in Texts /\ pad(" ", before) \in Texts /\ pad(" ", behind) \in Texts
        /\ <<>> \in Texts /\ Len(<<>>) = 0
        /\ Len(pad("0", before)) = Positive(before) /\ Len(pad(" ", before)) = Positive(before)
        /\ Len(pad(" ", behind)) = Positive(behind)
    BY <1>5, <2>1, PadText, PadIs, BlankAndZero, OneText DEF Positive
  <2>3. p.padc \in Chars
    BY Zenon, BlankAndZero DEF Pads
  <2>4. mids \in Texts /\ Len(mids) = Positive(middle)
    BY <1>5, <2>3, PadText, PadIs DEF Positive
  <2>5. zeros \in Texts /\ blanks \in Texts /\ ends \in Texts
    BY Zenon, <2>2
  <2>6. Len(ends) = IF p.ladjust THEN Positive(behind) ELSE 0
    <3>1. CASE p.ladjust
      BY Zenon, <2>2, <3>1
    <3>2. CASE ~p.ladjust
      <4>1. ends = <<>>
        BY Zenon, <3>2
      <4>. QED
        <5>1. Len(ends) = 0
          BY Zenon, <2>2, <4>1
        <5>. HIDE DEF ends
        <5>. QED
          BY <3>2, <5>1
    <3>. QED
      BY Zenon, <3>1, <3>2
  <2>7. \/ Len(zeros) = Positive(before) /\ Len(blanks) = 0
        \/ Len(blanks) = Positive(before) /\ Len(zeros) = 0
    <3>1. CASE p.padc = "0"
      <4>1. p.padc # " "
        BY Zenon, <3>1
      <4>. QED
        BY Zenon, <2>2, <3>1, <4>1
    <3>2. CASE p.padc = " "
      <4>1. p.padc # "0"
        BY Zenon, <3>2
      <4>. QED
        BY Zenon, <2>2, <3>2, <4>1
    <3>. QED
      BY Zenon, <3>1, <3>2 DEF Pads
  <2>. QED
    BY Zenon, <2>4, <2>5, <2>6, <2>7
<1>7. /\ inner = zeros \o task \o <<".">> \o mids \o thread
      /\ short_thread_text(p, id) = blanks \o bracket(p, inner) \o ends
  BY Zenon, <1>1
<1>. HIDE DEF zeros, blanks, mids, ends, inner
<1> DEFINE x1 == Len(zeros)
           x2 == Len(blanks)
           x3 == Len(mids)
           x4 == Len(ends)
           y  == Len(inner)
           z  == Len(bracket(p, inner))
           t  == Len(short_thread_text(p, id))
           a  == Len(task)
<1>8. inner \in Texts /\ y = x1 + a + 1 + x3 + m
  <2>1. "." \in Chars
    BY NumeralsAssumption
  <2>2. <<".">> \in Texts /\ Len(<<".">>) = 1
    BY <2>1, OneText
  <2> DEFINE t1 == zeros \o task
             t2 == t1 \o <<".">>
             t3 == t2 \o mids
  <2>3. t1 \in Texts /\ Len(t1) = x1 + a
    BY <1>4, <1>6, ConcatText
  <2>. HIDE DEF t1
  <2>4. t2 \in Texts /\ Len(t2) = Len(t1) + 1
    BY <2>2, <2>3, ConcatText
  <2>. HIDE DEF t2
  <2>5. t3 \in Texts /\ Len(t3) = Len(t2) + x3
    BY <1>6, <2>4, ConcatText
  <2>. HIDE DEF t3
  <2>6. t3 \o thread \in Texts /\ Len(t3 \o thread) = Len(t3) + m
    BY <1>4, <2>5, ConcatText
  <2>7. inner = t3 \o thread
    BY Zenon, <1>7 DEF t1, t2, t3
  <2>8. Len(inner) = Len(t3) + m
    BY Zenon, <2>6, <2>7
  <2>. HIDE DEF x1, x3, a
  <2>. QED
    BY <2>3, <2>4, <2>5, <2>6, <2>7, <2>8
<1>9. z = (IF p.altfmt THEN y + 2 ELSE y) /\ bracket(p, inner) \in Texts
  BY <1>8, BracketedLength, Bracketed
<1>10. t = x2 + z + x4
  <2> DEFINE t1 == blanks \o bracket(p, inner)
  <2>1. t1 \in Texts /\ Len(t1) = x2 + z
    BY <1>6, <1>9, ConcatText
  <2>. HIDE DEF t1
  <2>2. Len(t1 \o ends) = Len(t1) + x4
    BY <1>6, <2>1, ConcatText
  <2>. QED
    BY Zenon, <1>7, <2>1, <2>2 DEF t1
<1>11. a \in Nat /\ w = (IF p.altfmt THEN 3 ELSE 1) + a
       /\ ((x1 = Positive(before) /\ x2 = 0) \/ (x2 = Positive(before) /\ x1 = 0))
       /\ x3 = Positive(middle) /\ x4 = IF p.ladjust THEN Positive(behind) ELSE 0
  <2>1. a \in Nat /\ w = (IF p.altfmt THEN 3 ELSE 1) + a
    BY Zenon, <1>4
  <2>2. (x1 = Positive(before) /\ x2 = 0) \/ (x2 = Positive(before) /\ x1 = 0)
    <3> HIDE DEF middle, before, behind
    <3>. QED
      BY <1>6
  <2>3. x3 = Positive(middle)
    <3> HIDE DEF middle, before, behind
    <3>. QED
      BY <1>6
  <2>4. x4 = IF p.ladjust THEN Positive(behind) ELSE 0
    <3> HIDE DEF middle, before, behind
    <3>. QED
      BY <1>6
  <2>. HIDE DEF x1, x2, x3, x4, a, before, middle, behind
  <2>. QED
    BY <2>1, <2>2, <2>3, <2>4
<1>. HIDE DEF x1, x2, x3, x4, y, z, t, a
<1>12. t = x1 + x2 + x3 + x4 + w + m
  <2>1. x1 \in Nat /\ x2 \in Nat /\ x3 \in Nat /\ x4 \in Nat /\ m \in Nat
    <3>. HIDE DEF before, middle, behind
    <3>. QED
      BY <1>3, <1>5, <1>11 DEF Positive
  <2>. HIDE DEF before, middle, behind
  <2>2. y = x1 + a + 1 + x3 + m /\ z = (IF p.altfmt THEN y + 2 ELSE y) /\ t = x2 + z + x4
        /\ a \in Nat /\ w = (IF p.altfmt THEN 3 ELSE 1) + a
    BY Zenon, <1>8, <1>9, <1>10, <1>11
  <2>3. CASE p.altfmt
    BY <2>1, <2>2, <2>3
  <2>4. CASE ~p.altfmt
    BY <2>1, <2>2, <2>4
  <2>. QED
    BY <2>3, <2>4
<1>13. x1 + x2 = before /\ x1 \in Nat /\ x2 \in Nat
  <2>. HIDE DEF before
  <2>. QED
    BY <1>5, <1>11 DEF Positive
<1>14. t = before + x3 + x4 + w + m
  <2>1. x3 \in Nat /\ x4 \in Nat
    <3>. HIDE DEF middle, behind
    <3>. QED
      BY <1>5, <1>11 DEF Positive
  <2>. HIDE DEF before
  <2>. QED
    BY <1>3, <1>12, <1>13, <2>1
<1>15. t = Greater(len, w + m)
  <2>1. CASE p.ladjust
    <3>1. ~right /\ before = 0 /\ middle = 0 /\ x3 = 0 /\ x4 = Positive(behind)
      BY <1>11, <2>1 DEF Positive
    <3>2. t = Positive(len - w - m) + w + m
      <4>1. t = 0 + 0 + Positive(behind) + w + m
        BY Zenon, <1>14, <3>1
      <4>. QED
        BY <1>2, <1>3, <4>1 DEF Positive
    <3>. QED
      BY <1>2, <1>3, <3>2 DEF Positive, Greater
  <2>2. CASE ~p.ladjust /\ len > 0
    <3>1. x4 = 0 /\ x3 = Positive(middle)
      BY <1>11, <2>2
    <3>2. before = (IF len > w + 2 THEN len - w - 2 ELSE 0) /\ middle = len - (w + before) - m
      BY <2>2
    <3>. HIDE DEF before, middle
    <3>. QED
      BY <1>2, <1>3, <1>5, <1>14, <3>1, <3>2 DEF Positive, Greater
  <2>3. CASE ~p.ladjust /\ len = 0
    <3>1. x4 = 0 /\ x3 = Positive(middle)
      BY <1>11, <2>3
    <3>2. before = 0 /\ middle = 0
      BY <2>3
    <3>. HIDE DEF before, middle
    <3>. QED
      BY <1>2, <1>3, <1>14, <2>3, <3>1, <3>2 DEF Positive, Greater
  <2>. QED
    BY <1>2, <2>1, <2>2, <2>3
<1>16. total \in Nat /\ t = Greater(len, total)
  BY <1>3, <1>15
<1>. QED
  BY Zenon, <1>16 DEF total, t, len, u, v

Bare == [D EXCEPT !.length = 0]

LEMMA BareIs ==
    /\ Bare.length = 0 /\ Bare.altfmt = D.altfmt /\ Bare.sign = D.sign /\ Bare.padc = D.padc
    /\ Bare.ladjust = D.ladjust /\ Bare.prec = D.prec /\ Bare.longopt = D.longopt /\ Bare.conv = D.conv
<1>1. Bare.length = 0
  BY DomainOfD DEF Bare
<1>2. \A x \in DOMAIN D : x # "length" => Bare[x] = D[x]
  BY DEF Bare
<1>3. /\ Bare.altfmt = D.altfmt /\ Bare.sign = D.sign /\ Bare.padc = D.padc
      /\ Bare.ladjust = D.ladjust /\ Bare.prec = D.prec /\ Bare.longopt = D.longopt /\ Bare.conv = D.conv
  BY <1>2, DomainOfD
<1>. QED
  BY <1>1, <1>3

\* A field is the greater of its width and of what its text needs.
LEMMA FieldIs ==
    ASSUME NEW width \in Nat, NEW t, NEW t0, Len(t0) \in Nat, Len(t) = Greater(width, Len(t0))
    PROVE  Len(t) = Max({width, Len(t0)})
BY Zenon, MaxOfTwo

Filled(width, t, t0) == Len(t) = Max({width, Len(t0)})

LEMMA NeedsIs ==
    ASSUME NEW width \in Nat, NEW k \in Nat, NEW t, NEW t0,
           Len(t) = Greater(width, k), Len(t0) = Greater(0, k)
    PROVE  Filled(width, t, t0)
<1>1. Greater(0, k) = k
  BY DEF Greater
<1>2. Len(t0) = k
  BY Zenon, <1>1
<1>3. Len(t0) \in Nat /\ Len(t) = Greater(width, Len(t0))
  BY Zenon, <1>2
<1>4. Greater(width, Len(t0)) = Max({width, Len(t0)})
  BY Zenon, <1>3, MaxOfTwo
<1>5. Len(t) = Max({width, Len(t0)})
  BY Zenon, <1>3, <1>4
<1>. QED
  BY Zenon, <1>5 DEF Filled

\* The same directive, with and without a width.
SameButWidth(p, q) ==
    /\ p.length \in Nat /\ p.padc \in Pads /\ q.length = 0
    /\ q.padc = p.padc /\ q.altfmt = p.altfmt /\ q.sign = p.sign

LEMMA NumberFits ==
    ASSUME NEW p, NEW q, SameButWidth(p, q),
           NEW sg \in Texts, NEW u \in Nat, NEW b \in 2 .. 16
    PROVE  Filled(p.length, number_text(p, sg, u, b), number_text(q, sg, u, b))
<1>. p.length \in Nat /\ p.padc \in Pads /\ q.length = 0 /\ q.padc = p.padc /\ q.altfmt = p.altfmt
  BY Zenon DEF SameButWidth
<1>1. /\ Needs(p, sg, u, b) \in Nat
      /\ Len(number_text(p, sg, u, b)) = Greater(p.length, Needs(p, sg, u, b))
  BY Zenon, NumberLength
<1>2. q.length \in Nat /\ q.padc \in Pads
  <2>1. 0 \in Nat
    OBVIOUS
  <2>. QED
    BY Zenon, <2>1
<1>3. Len(number_text(q, sg, u, b)) = Greater(q.length, Needs(q, sg, u, b))
  BY Zenon, <1>2, NumberLength
<1>4. Needs(q, sg, u, b) = Needs(p, sg, u, b)
  BY Zenon DEF Needs, Prefix
<1> DEFINE width == p.length
           k  == Needs(p, sg, u, b)
           t  == number_text(p, sg, u, b)
           t0 == number_text(q, sg, u, b)
<1>5. width \in Nat /\ k \in Nat /\ Len(t) = Greater(width, k) /\ Len(t0) = Greater(0, k)
  BY Zenon, <1>1, <1>3, <1>4
<1>. HIDE DEF width, k, t, t0
<1>6. Filled(width, t, t0)
  BY <1>5, NeedsIs
<1>. QED
  BY Zenon, <1>6 DEF width, t, t0

LEMMA SignedFits ==
    ASSUME NEW p, NEW q, SameButWidth(p, q), p.sign \in Texts,
           NEW v \in Int, NEW b \in 2 .. 16
    PROVE  Filled(p.length, signed_text(p, v, b), signed_text(q, v, b))
<1> DEFINE sg == IF v >= 0 THEN p.sign ELSE <<"-">>
           u  == IF v >= 0 THEN v ELSE -v
<1>1. <<"-">> \in Texts
  BY BlankAndZero, OneText
<1>2. sg \in Texts /\ u \in Nat
  BY <1>1
<1>. q.sign = p.sign
  BY Zenon DEF SameButWidth
<1>3. signed_text(p, v, b) = number_text(p, sg, u, b) /\ signed_text(q, v, b) = number_text(q, sg, u, b)
  BY Zenon DEF signed_text
<1>. HIDE DEF sg, u
<1>4. Filled(p.length, number_text(p, sg, u, b), number_text(q, sg, u, b))
  BY <1>2, NumberFits
<1>. QED
  BY Zenon, <1>3, <1>4

LEMMA ShortThreadFits ==
    ASSUME NEW p, NEW q, SameButWidth(p, q),
           NEW id, id.task \in Tasks, id.lthread \in Threads
    PROVE  Filled(p.length, short_thread_text(p, id), short_thread_text(q, id))
<1>. p.length \in Nat /\ p.padc \in Pads /\ q.length = 0 /\ q.padc = p.padc /\ q.altfmt = p.altfmt
  BY Zenon DEF SameButWidth
<1>1. /\ Counted(p, id.task, id.lthread) \in Nat
      /\ Len(short_thread_text(p, id)) = Greater(p.length, Counted(p, id.task, id.lthread))
  BY Zenon, ShortThreadLength
<1>2. q.length \in Nat /\ q.padc \in Pads
  <2>1. 0 \in Nat
    OBVIOUS
  <2>. QED
    BY Zenon, <2>1
<1>3. Len(short_thread_text(q, id)) = Greater(q.length, Counted(q, id.task, id.lthread))
  BY Zenon, <1>2, ShortThreadLength
<1>4. Counted(q, id.task, id.lthread) = Counted(p, id.task, id.lthread)
  BY Zenon DEF Counted
<1> DEFINE width == p.length
           k  == Counted(p, id.task, id.lthread)
           t  == short_thread_text(p, id)
           t0 == short_thread_text(q, id)
<1>5. width \in Nat /\ k \in Nat /\ Len(t) = Greater(width, k) /\ Len(t0) = Greater(0, k)
  BY Zenon, <1>1, <1>3, <1>4
<1>. HIDE DEF width, k, t, t0
<1>6. Filled(width, t, t0)
  BY <1>5, NeedsIs
<1>. QED
  BY Zenon, <1>6 DEF width, t, t0

LEMMA FieldFits ==
    ASSUME call \in Calls, Front1(call.fmt) = "%", D.conv \in FieldConvs
    PROVE  \/ D.conv = "s" /\ D.ladjust /\ Len(FieldText(Bare, Arg)) # Len(Arg)
           \/ Filled(D.length, FieldText(D, Arg), FieldText(Bare, Arg))
<1>1. D.length \in Nat /\ D.prec \in Int /\ D.padc \in Pads /\ D.sign \in Texts
  BY Zenon, DirectiveOfCall DEF Pads
<1>2. /\ Bare.length = 0 /\ Bare.altfmt = D.altfmt /\ Bare.sign = D.sign /\ Bare.padc = D.padc
      /\ Bare.ladjust = D.ladjust /\ Bare.prec = D.prec /\ Bare.longopt = D.longopt /\ Bare.conv = D.conv
  BY Zenon, BareIs
<1>8. SameButWidth(D, Bare)
  BY Zenon, <1>1, <1>2 DEF SameButWidth
<1>3. 10 \in 2 .. 16 /\ 16 \in 2 .. 16 /\ 8 \in 2 .. 16 /\ <<>> \in Texts
  BY DEF Texts
<1>4. CASE D.conv = "s"
  <2>1. FieldText(D, Arg) = string_text(D, Arg) /\ FieldText(Bare, Arg) = string_text(Bare, Arg)
    BY Zenon, <1>2, <1>4 DEF FieldText
  <2>2. Arg \in Texts
    BY <1>4, ArgOfCall
  <2>3. /\ Len(string_text(Bare, Arg)) \in Nat
        /\ \/ D.ladjust /\ Len(string_text(Bare, Arg)) # Len(Arg)
           \/ Len(string_text(D, Arg)) = Greater(D.length, Len(string_text(Bare, Arg)))
    BY Zenon, <1>1, <1>2, <2>2, StringLength
  <2> DEFINE width == D.length
             t  == string_text(D, Arg)
             t0 == string_text(Bare, Arg)
  <2>4. width \in Nat
    BY Zenon, <1>1
  <2>. HIDE DEF width, t, t0
  <2>5. Len(t0) \in Nat /\ Len(t) = Greater(width, Len(t0)) => Len(t) = Max({width, Len(t0)})
    BY <2>4, FieldIs
  <2>. QED
    BY Zenon, <1>4, <2>1, <2>3, <2>5 DEF width, t, t0, Filled
<1>5. CASE D.conv = "t"
  <2>1. D.conv # "s"
    BY <1>5
  <2>2. /\ FieldText(D, Arg) = IF D.longopt > 0 THEN long_thread_text(D, Arg) ELSE short_thread_text(D, Arg)
        /\ FieldText(Bare, Arg) = IF D.longopt > 0 THEN long_thread_text(Bare, Arg) ELSE short_thread_text(Bare, Arg)
    BY <1>2, <1>5, <2>1 DEF FieldText
  <2>3. Arg \in ThreadId
    BY <1>5, ArgOfCall
  <2>4. Arg.high \in Nat /\ Arg.low \in Nat /\ Arg.task \in Tasks /\ Arg.lthread \in Threads
    BY <2>3, ThreadIdType DEF Tasks, Threads
  <2>5. /\ Len(long_thread_text(Bare, Arg)) \in Nat
        /\ Len(long_thread_text(D, Arg)) = Greater(D.length, Len(long_thread_text(Bare, Arg)))
    BY <1>1, <1>2, <2>4, LongThreadLength
  <2>6. Filled(D.length, long_thread_text(D, Arg), long_thread_text(Bare, Arg))
    BY Zenon, <1>1, <2>5, FieldIs DEF Filled
  <2>7. Filled(D.length, short_thread_text(D, Arg), short_thread_text(Bare, Arg))
    BY <1>8, <2>4, ShortThreadFits
  <2>. QED
    BY Zenon, <2>2, <2>6, <2>7
<1>6. CASE D.conv \in {"d", "z"}
  <2>1. Arg \in Int
    BY <1>6, ArgOfCall DEF Numeric
  <2>2. /\ Filled(D.length, signed_text(D, Arg, 10), signed_text(Bare, Arg, 10))
        /\ Filled(D.length, signed_text(D, Arg, 16), signed_text(Bare, Arg, 16))
    BY <1>1, <1>8, <1>3, <2>1, SignedFits
  <2>3. /\ D.conv = "d" => FieldText(D, Arg) = signed_text(D, Arg, 10)
        /\ D.conv = "d" => FieldText(Bare, Arg) = signed_text(Bare, Arg, 10)
        /\ D.conv = "z" => FieldText(D, Arg) = signed_text(D, Arg, 16)
        /\ D.conv = "z" => FieldText(Bare, Arg) = signed_text(Bare, Arg, 16)
    BY <1>2 DEF FieldText
  <2>. QED
    BY <1>6, <2>2, <2>3
<1>7. CASE D.conv \in {"u", "x", "o"}
  <2>1. unsigned_arg(D, Arg) \in Nat
    BY <1>7, ArgOfCall DEF Numeric
  <2> DEFINE base == IF D.conv = "u" THEN 10 ELSE IF D.conv = "x" THEN 16 ELSE 8
  <2>2. base \in 2 .. 16
    OBVIOUS
  <2>3. /\ FieldText(D, Arg) = number_text(D, <<>>, unsigned_arg(D, Arg), base)
        /\ FieldText(Bare, Arg) = number_text(Bare, <<>>, unsigned_arg(D, Arg), base)
    <3>1. unsigned_arg(Bare, Arg) = unsigned_arg(D, Arg)
      BY BareIs DEF unsigned_arg
    <3>. QED
      BY <1>2, <1>7, <3>1 DEF FieldText
  <2>. HIDE DEF base
  <2>4. Filled(D.length, number_text(D, <<>>, unsigned_arg(D, Arg), base),
               number_text(Bare, <<>>, unsigned_arg(D, Arg), base))
    BY <1>8, <1>3, <2>1, <2>2, NumberFits
  <2>. QED
    BY Zenon, <2>3, <2>4
<1>. QED
  BY <1>4, <1>5, <1>6, <1>7 DEF FieldConvs

\* Whatever the width, the flags, the precision and the argument: a directive fills
\* its field (stdio/doprnt.c).
THEOREM FieldsAreFilled == Spec => []FillsItsField
<1>1. Directed => FillsItsField
  <2>. SUFFICES ASSUME Directed, Printing({"d", "u", "x", "o", "z", "s", "t"})
                PROVE  \/ D.conv = "s" /\ D.ladjust /\ Len(FieldText(Bare, Arg)) # Len(Arg)
                       \/ Len(out) = Max({D.length, Len(FieldText(Bare, Arg))})
    BY Zenon DEF FillsItsField, Bare
  <2>1. D.conv \in {"d", "u", "x", "o", "z", "s", "t"}
    BY Zenon, WhatIsPrinted
  <2>2. D.conv \in FieldConvs
    BY <2>1 DEF FieldConvs
  <2>3. call \in Calls /\ Front1(call.fmt) = "%" /\ out = FieldText(D, Arg)
    BY Zenon, <2>2, WhatIsPrinted
  <2>. QED
    BY Zenon, <2>2, <2>3, FieldFits DEF Filled
<1>. QED
  BY <1>1, DirectedIsInvariant, PTL

-----------------------------------------------------------------------------
(* What is printed is read back: the digits of a number, what stands in front
   of them and behind, and the functions that read.  *)

(* The characters.                                                         *)

DigitChars == {"0", "1", "2", "3", "4", "5", "6", "7", "8", "9", "a", "b", "c", "d", "e", "f"}
CapChars   == {"A", "B", "C", "D", "E", "F"}

LEMMA DigsAre ==
    /\ DOMAIN digs = 1 .. 16 /\ DOMAIN CAPS = 1 .. 6
    /\ \A i \in 1 .. 16 : digs[i] \in DigitChars
    /\ \A i \in 1 .. 6 : CAPS[i] \in CapChars
    /\ digs[1] = "0"
BY DEF digs, CAPS, DigitChars, CapChars

LEMMA DigsDistinct == \A i \in 1 .. 16, j \in 1 .. 16 : digs[i] = digs[j] => i = j
BY DEF digs

LEMMA DigitValue == \A i \in 1 .. 16 : digit_value(digs[i]) = i - 1
<1>. SUFFICES ASSUME NEW i \in 1 .. 16 PROVE digit_value(digs[i]) = i - 1
  OBVIOUS
<1> DEFINE c == digs[i]
           x == CHOOSE j \in DOMAIN digs : digs[j] = c
<1>1. i \in DOMAIN digs /\ digs[i] = c
  BY DigsAre
<1>2. x \in DOMAIN digs /\ digs[x] = c
  BY <1>1
<1>3. x = i
  BY <1>1, <1>2, DigsAre, DigsDistinct
<1>4. digit_value(c) = x - 1
  BY <1>1 DEF digit_value
<1>. QED
  BY <1>3, <1>4

LEMMA ValueOfDigit == \A v \in Nat : v < 16 => digit_value(digs[v + 1]) = v
<1>. SUFFICES ASSUME NEW v \in Nat, v < 16 PROVE digit_value(digs[v + 1]) = v
  OBVIOUS
<1> DEFINE i == v + 1
<1>1. i \in 1 .. 16 /\ i - 1 = v
  OBVIOUS
<1>. HIDE DEF i
<1>2. digit_value(digs[i]) = i - 1
  BY <1>1, DigitValue
<1>3. digit_value(digs[i]) = v
  BY <1>1, <1>2
<1>. QED
  BY Zenon, <1>3 DEF i

LEMMA NoDigit ==
    ASSUME NEW c, c \notin DigitChars, c \notin CapChars
    PROVE  digit_value(c) = 99 /\ \A b \in 2 .. 16 : c \notin digits_of(b)
<1>1. (\A i \in DOMAIN digs : digs[i] # c) /\ (\A i \in DOMAIN CAPS : CAPS[i] # c)
  BY Zenon, DigsAre
<1>2. digit_value(c) = 99
  BY <1>1 DEF digit_value
<1>3. \A b \in 2 .. 16 : ~(99 < b)
  OBVIOUS
<1>. QED
  BY <1>2, <1>3 DEF digits_of

LEMMA DigitIn == \A b \in 2 .. 16, i \in 1 .. 16 : i <= b => digs[i] \in digits_of(b)
<1>. SUFFICES ASSUME NEW b \in 2 .. 16, NEW i \in 1 .. 16, i <= b PROVE digs[i] \in digits_of(b)
  OBVIOUS
<1>1. digs[i] \in Chars
  BY DigitsText
<1>2. digit_value(digs[i]) = i - 1
  BY DigitValue
<1>3. i - 1 < b
  OBVIOUS
<1>. QED
  BY <1>1, <1>2, <1>3 DEF digits_of

LEMMA SpaceFacts ==
    /\ \A c \in Spaces : c \in Chars /\ c \notin DigitChars /\ c \notin CapChars
    /\ \A c \in Spaces : c # "x" /\ c # "X" /\ c # "-"
<1>1. \A c \in Spaces : c \in Chars
  BY Zenon, NumeralsAssumption
<1>2. \A c \in Spaces : c \notin DigitChars /\ c \notin CapChars
  BY Zenon DEF Spaces, DigitChars, CapChars
<1>3. \A c \in Spaces : c # "x" /\ c # "X" /\ c # "-"
  BY Zenon DEF Spaces
<1>. QED
  BY Zenon, <1>1, <1>2, <1>3

LEMMA BlankIsSpace == " " \in Spaces
BY Zenon DEF Spaces

LEMMA SignFacts ==
    /\ \A c \in DigitChars : c # "x" /\ c # "X" /\ c # "-"
    /\ "x" \notin DigitChars /\ "x" \notin CapChars
    /\ "-" \notin DigitChars /\ "-" \notin CapChars
BY DEF DigitChars, CapChars

LEMMA PadIn ==
    ASSUME NEW C, NEW c \in C, NEW k \in Int
    PROVE  pad(c, k) \in Seq(C)
<1>1. pad(c, k) \in Seq({c})
  BY PadIs
<1>. QED
  BY <1>1

\* Reduction to a long or an unsigned long, where nothing is lost.
LEMMA WrapKeeps ==
    /\ \A x \in 0 .. (2 * Half - 1) : wrap_unsigned(x) = x
    /\ \A x \in long : wrap_signed(x) = x
    /\ \A x \in 0 .. Half : wrap_signed(-wrap_signed(x)) = -x
<1> DEFINE m == 2 * Half
<1>1. m \in Nat /\ m > 0 /\ Half \in Nat /\ m = Half + Half
  BY HalfType
<1>2. \A y \in Int : y \in 0 .. (m - 1) => y % m = y
  <2>. HIDE DEF m
  <2>. QED
    BY <1>1
<1>3. m % m = 0
  <2>. HIDE DEF m
  <2>. QED
    BY <1>1
<1>. HIDE DEF m
<1>4. \A x \in Int : wrap_unsigned(x) = x % m /\ wrap_signed(x) = ((x + Half) % m) - Half
  BY DEF wrap_unsigned, wrap_signed, m
<1>5. \A x \in 0 .. (m - 1) : wrap_unsigned(x) = x
  BY <1>2, <1>4
<1>6. \A x \in long : wrap_signed(x) = x
  <2>. SUFFICES ASSUME NEW x \in long PROVE wrap_signed(x) = x
    OBVIOUS
  <2>1. x \in Int /\ x + Half \in 0 .. (m - 1)
    BY <1>1 DEF long
  <2>2. (x + Half) % m = x + Half
    BY <1>2, <2>1
  <2>3. wrap_signed(x) = (x + Half) - Half
    BY <1>4, <2>1, <2>2
  <2>. QED
    BY <1>1, <2>1, <2>3
<1>7. ASSUME NEW x \in 0 .. Half PROVE wrap_signed(-wrap_signed(x)) = -x
  <2>1. CASE x < Half
    <3>1. x \in long /\ -x \in long
      BY <1>1, <2>1 DEF long
    <3>. QED
      BY <1>6, <3>1
  <2>2. CASE x = Half
    <3>1. Half + Half = m /\ Half \in Int
      BY <1>1
    <3>2. wrap_signed(Half) = 0 - Half
      BY <1>3, <1>4, <3>1
    <3>3. -(0 - Half) = Half /\ 0 - Half = -Half
      BY <1>1
    <3>. QED
      BY <2>2, <3>2, <3>3
  <2>. QED
    BY <1>1, <2>1, <2>2
<1>. QED
  BY <1>5, <1>6, <1>7 DEF m

\* The two kinds of numbers that are read.
Kinds == {"long", "unsigned"}

Digits(t, b, kind) == read_digits(t, b, kind = "long")

Wrap(kind, x) == IF kind = "long" THEN wrap_signed(x) ELSE wrap_unsigned(x)

\* What read_digits computes, digit by digit.
Reads(t, b, kind, k, g) ==
    /\ g \in [0 .. k -> Int] /\ g[0] = 0
    /\ \A i \in 1 .. k : g[i] = Wrap(kind, accumulate(g[i - 1], b, t[i]))

LEMMA DigitValueType == \A c : digit_value(c) \in Nat
<1>. SUFFICES ASSUME NEW c PROVE digit_value(c) \in Nat
  OBVIOUS
<1> DEFINE x == CHOOSE i \in DOMAIN digs : digs[i] = c
           y == CHOOSE i \in DOMAIN CAPS : CAPS[i] = c
<1>1. CASE \E i \in DOMAIN digs : digs[i] = c
  <2>1. x \in DOMAIN digs
    BY <1>1
  <2>2. digit_value(c) = x - 1
    BY <1>1 DEF digit_value
  <2>3. x \in 1 .. 16
    BY <2>1, DigsAre
  <2>. HIDE DEF x
  <2>. QED
    BY <2>2, <2>3
<1>2. CASE ~(\E i \in DOMAIN digs : digs[i] = c) /\ \E i \in DOMAIN CAPS : CAPS[i] = c
  <2>1. y \in DOMAIN CAPS
    BY <1>2
  <2>2. digit_value(c) = y + 9
    BY <1>2 DEF digit_value
  <2>3. y \in 1 .. 6
    BY <2>1, DigsAre
  <2>. HIDE DEF y
  <2>. QED
    BY <2>2, <2>3
<1>3. CASE ~(\E i \in DOMAIN digs : digs[i] = c) /\ ~(\E i \in DOMAIN CAPS : CAPS[i] = c)
  BY <1>3 DEF digit_value
<1>. QED
  BY <1>1, <1>2, <1>3

LEMMA AccumulateType == \A x \in Int, b \in 2 .. 16 : \A c : accumulate(x, b, c) \in Int
<1>. SUFFICES ASSUME NEW x \in Int, NEW b \in 2 .. 16, NEW c PROVE accumulate(x, b, c) \in Int
  OBVIOUS
<1> DEFINE v == digit_value(c)
<1>1. v \in Int
  BY DigitValueType
<1>. HIDE DEF v
<1>2. x * b + v \in Int
  BY <1>1
<1>. QED
  BY <1>2 DEF accumulate, v

LEMMA WrapInt == \A kind \in Kinds, x \in Int : Wrap(kind, x) \in Int
<1>1. \A x \in Int : wrap_unsigned(x) \in Int /\ wrap_signed(x) \in Int
  BY WrapType, HalfType DEF long
<1>. QED
  BY <1>1 DEF Wrap

LEMMA ReadsMade ==
    ASSUME NEW t \in Texts, NEW b \in 2 .. 16, NEW kind \in Kinds, NEW k,
           k = Passed(t, digits_of(b))
    PROVE  \E g : /\ Reads(t, b, kind, k, g)
                  /\ Digits(t, b, kind).value = g[k]
                  /\ Digits(t, b, kind).rest = Drop(t, k)
<1> DEFINE W(x, i) == Wrap(kind, accumulate(x, b, t[i]))
           step == [p \in Int \X (1 .. k) |-> W(p[1], p[2])]
           f == CHOOSE value : value = [i \in 0 .. k |->
                    IF i = 0 THEN 0
                    ELSE LET v == accumulate(value[i - 1], b, t[i])
                         IN  IF kind = "long" THEN wrap_signed(v) ELSE wrap_unsigned(v)]
<1>1. k \in 0 .. Len(t) /\ Len(t) \in Nat
  BY PassedStops DEF Texts
<1>2. k \in Nat
  BY <1>1
<1>3. \A x \in Int : \A i : W(x, i) \in Int
  BY AccumulateType, WrapInt
<1>4. Digits(t, b, kind).value = f[k] /\ Digits(t, b, kind).rest = Drop(t, k)
  BY DEF read_digits, Digits
<1>5. f = CHOOSE value : value = [i \in 0 .. k |-> IF i = 0 THEN 0 ELSE W(value[i - 1], i)]
  BY Zenon DEF Wrap
<1>. HIDE DEF f, W
<1>6. step \in [Int \X (1 .. k) -> Int]
  BY <1>3
<1>7. PICK g : MadeByRounds(Int, 0, k, step, g)
  <2>. HIDE DEF step
  <2>1. 0 \in Int
    OBVIOUS
  <2>. QED
    BY <1>2, <1>6, <2>1, ByRounds
<1>8. g \in [0 .. k -> Int] /\ g[0] = 0 /\ \A i \in 1 .. k : g[i] = step[<<g[i - 1], i>>]
  BY <1>7 DEF MadeByRounds
<1>9. ASSUME NEW i \in 1 .. k PROVE g[i] = W(g[i - 1], i)
  <2>1. i - 1 \in 0 .. k
    BY <1>2
  <2>2. g[i - 1] \in Int
    BY <1>8, <2>1
  <2>3. step[<<g[i - 1], i>>] = W(g[i - 1], i)
    BY <2>2
  <2>. HIDE DEF step
  <2>. QED
    BY <1>8, <2>3
<1>. HIDE DEF step
<1>10. g = [i \in 0 .. k |-> IF i = 0 THEN 0 ELSE W(g[i - 1], i)]
  <2>1. \A i \in 0 .. k : g[i] = IF i = 0 THEN 0 ELSE W(g[i - 1], i)
    <3>1. \A i \in 0 .. k : i # 0 => i \in 1 .. k
      BY <1>2
    <3>. QED
      BY <1>8, <1>9, <3>1
  <2>2. g = [i \in 0 .. k |-> g[i]]
    BY <1>8
  <2>. QED
    BY <2>1, <2>2
<1>11. f = [i \in 0 .. k |-> IF i = 0 THEN 0 ELSE W(f[i - 1], i)]
  BY <1>5, <1>10
<1>12. f[0] = 0 /\ \A i \in 1 .. k : f[i] = W(f[i - 1], i)
  <2>1. 0 \in 0 .. k /\ \A i \in 1 .. k : i \in 0 .. k /\ i # 0
    BY <1>2
  <2>. QED
    BY <1>11, <2>1
<1>13. \A i \in 0 .. k : f[i] \in Int
  <2> DEFINE G == {i \in 0 .. k : f[i] \in Int}
  <2>1. 0 \in G
    BY <1>2, <1>12
  <2>2. ASSUME NEW i \in 1 .. k, i - 1 \in G PROVE i \in G
    <3>1. f[i - 1] \in Int /\ i \in 0 .. k
      BY <1>2, <2>2
    <3>. QED
      BY <1>3, <1>12, <3>1
  <2>. HIDE DEF G
  <2>3. 0 .. k \subseteq G
    BY <1>2, <2>1, <2>2, UpTo
  <2>. QED
    BY <2>3 DEF G
<1>14. f \in [0 .. k -> Int]
  BY <1>11, <1>13
<1>15. Reads(t, b, kind, k, f)
  BY <1>12, <1>14 DEF Reads, W
<1>. QED
  BY <1>4, <1>15

\* The largest number that is read without loss.
Largest(kind) == IF kind = "long" THEN Half ELSE 2 * Half - 1

LEMMA LargestFits ==
    ASSUME NEW kind \in Kinds
    PROVE  /\ Largest(kind) \in Nat
           /\ \A x \in Nat : x < Largest(kind) => Wrap(kind, x) = x
<1>1. Half \in Nat /\ Half > 0
  BY HalfType
<1>2. Largest(kind) \in Nat
  BY <1>1 DEF Largest
<1>3. ASSUME NEW x \in Nat, x < Largest(kind) PROVE Wrap(kind, x) = x
  <2>1. CASE kind = "long"
    <3>1. x \in long
      BY <1>1, <1>3, <2>1 DEF Largest, long
    <3>. QED
      BY <2>1, <3>1, WrapKeeps DEF Wrap
  <2>2. CASE kind # "long"
    <3>1. x \in 0 .. (2 * Half - 1)
      BY <1>1, <1>3, <2>2 DEF Largest
    <3>. QED
      BY <2>2, <3>1, WrapKeeps DEF Wrap
  <2>. QED
    BY <2>1, <2>2
<1>. QED
  BY <1>2, <1>3

\* The digits of v stand behind the first z characters of t.
Stands(t, z, w) ==
    z + Len(w) <= Len(t) /\ \A i \in 1 .. Len(w) : t[z + i] = w[i]

\* A number that can stand behind the first z characters of t, which have the value 0.
Reading(t, b, kind, k, g, z, u) ==
    /\ t \in Texts /\ b \in 2 .. 16 /\ kind \in Kinds /\ k \in 0 .. Len(t)
    /\ Reads(t, b, kind, k, g) /\ z \in 0 .. k /\ g[z] = 0
    /\ u \in Nat /\ u <= Largest(kind)

LEMMA DigitsRead ==
    ASSUME NEW t, NEW b, NEW kind, NEW k, NEW g, NEW z, NEW u, Reading(t, b, kind, k, g, z, u)
    PROVE  z + Len(printnum(u, b)) <= k /\ Stands(t, z, printnum(u, b))
              => g[z + Len(printnum(u, b))] = Wrap(kind, u)
<1>. /\ t \in Texts /\ b \in 2 .. 16 /\ kind \in Kinds /\ k \in 0 .. Len(t)
     /\ Reads(t, b, kind, k, g) /\ z \in 0 .. k /\ g[z] = 0
     /\ u \in Nat /\ u <= Largest(kind)
  BY Zenon DEF Reading
<1> DEFINE w(v) == printnum(v, b)
           P(v) == z + Len(w(v)) <= k /\ Stands(t, z, w(v)) => g[z + Len(w(v))] = Wrap(kind, v)
           G == {m \in 0 .. u : \A v \in 0 .. m : P(v)}
<1>1. /\ g \in [0 .. k -> Int] /\ \A i \in 1 .. k : g[i] = Wrap(kind, accumulate(g[i - 1], b, t[i]))
      /\ Len(t) \in Nat /\ k \in Nat /\ z \in Nat
  BY DEF Reads, Texts
<1>2. \A v \in Nat : w(v) \in Texts /\ Len(w(v)) \in Nat
  <2>1. \A v \in Nat : w(v) \in Texts
    BY NumeralText
  <2>2. \A x \in Texts : Len(x) \in Nat
    BY DEF Texts
  <2>. HIDE DEF w
  <2>. QED
    BY <2>1, <2>2
\* One digit.
<1>3. ASSUME NEW v \in Nat, v < b PROVE P(v)
  <2>. SUFFICES ASSUME z + Len(w(v)) <= k, Stands(t, z, w(v)) PROVE g[z + Len(w(v))] = Wrap(kind, v)
    OBVIOUS
  <2>1. w(v) = <<digs[v + 1]>>
    BY <1>3, PrintnumIs
  <2>2. Len(w(v)) = 1 /\ w(v)[1] = digs[v + 1]
    BY <2>1
  <2>. HIDE DEF w
  <2>3. z + 1 \in 1 .. k /\ t[z + 1] = digs[v + 1]
    <3>1. z + 1 <= k /\ \A i \in 1 .. 1 : t[z + i] = w(v)[i]
      BY <2>2 DEF Stands
    <3>. QED
      BY <1>1, <2>2, <3>1
  <2>4. v + 1 \in 1 .. 16 /\ v \in Nat
    BY <1>3
  <2>5. digit_value(digs[v + 1]) = v
    <3>1. v < 16
      BY <1>3
    <3>. QED
      BY <2>4, <3>1, ValueOfDigit
  <2>6. g[z + 1] = Wrap(kind, accumulate(g[(z + 1) - 1], b, t[z + 1]))
    BY <1>1, <2>3
  <2>7. g[(z + 1) - 1] = 0
    BY <1>1
  <2>8. accumulate(0, b, t[z + 1]) = v
    BY <2>3, <2>4, <2>5 DEF accumulate
  <2>. QED
    BY <2>2, <2>6, <2>7, <2>8
\* One more digit.
<1>4. ASSUME NEW v \in 1 .. u, v >= b, P(v \div b) PROVE P(v)
  <2>. SUFFICES ASSUME z + Len(w(v)) <= k, Stands(t, z, w(v)) PROVE g[z + Len(w(v))] = Wrap(kind, v)
    OBVIOUS
  <2> DEFINE x == v \div b
             r == v % b
             n0 == Len(w(x))
  <2>1. v \in Nat /\ x \in Nat /\ r \in 0 .. (b - 1) /\ v = b * x + r /\ x < v
    BY <1>4, Divided
  <2>2. w(v) = Append(w(x), digs[r + 1])
    BY <1>4, <2>1, PrintnumIs
  <2>3. w(x) \in Texts /\ n0 \in Nat
    BY <1>2, <2>1
  <2>. HIDE DEF x, r
  <2>4. Len(w(v)) = n0 + 1 /\ w(v)[n0 + 1] = digs[r + 1] /\ \A i \in 1 .. n0 : w(v)[i] = w(x)[i]
    <3> DEFINE y == w(x)
    <3>1. y \in Texts /\ w(v) = Append(y, digs[r + 1])
      BY <2>2, <2>3
    <3>. HIDE DEF y, w
    <3>2. Len(w(v)) = Len(y) + 1 /\ w(v)[Len(y) + 1] = digs[r + 1] /\ \A i \in 1 .. Len(y) : w(v)[i] = y[i]
      BY <3>1 DEF Texts
    <3>. QED
      BY <3>2 DEF y
  <2>. HIDE DEF w
  <2>5. /\ z + (n0 + 1) <= k
        /\ \A i \in 1 .. (n0 + 1) : t[z + i] = w(v)[i]
    BY <2>4 DEF Stands
  <2>. HIDE DEF n0
  <2>6. z + n0 <= k /\ z + n0 <= Len(t) /\ z + n0 + 1 \in 1 .. k /\ n0 + 1 \in 1 .. (n0 + 1)
        /\ \A i \in 1 .. n0 : i \in 1 .. (n0 + 1)
    BY <1>1, <2>3, <2>5
  <2>7. Stands(t, z, w(x))
    BY <2>4, <2>5, <2>6 DEF Stands, n0
  <2>8. g[z + n0] = Wrap(kind, x)
    BY <1>4, <2>6, <2>7 DEF x, n0
  <2>9. Wrap(kind, x) = x
    <3>1. Largest(kind) \in Nat
      BY LargestFits
    <3>2. x < Largest(kind)
      BY <2>1, <3>1
    <3>. QED
      BY <2>1, <3>2, LargestFits
  <2>10. t[z + (n0 + 1)] = digs[r + 1]
    BY <2>4, <2>5, <2>6
  <2>11. digit_value(digs[r + 1]) = r
    <3>1. r < 16 /\ r \in Nat
      BY <2>1
    <3>. QED
      BY <3>1, ValueOfDigit
  <2>12. g[z + n0 + 1] = Wrap(kind, accumulate(g[(z + n0 + 1) - 1], b, t[z + n0 + 1]))
    BY <1>1, <2>6
  <2>13. (z + n0 + 1) - 1 = z + n0 /\ z + n0 + 1 = z + (n0 + 1)
    BY <1>1, <2>3 DEF n0
  <2>14. accumulate(x, b, t[z + (n0 + 1)]) = v
    <3>1. x * b + r = v
      BY <2>1
    <3>. QED
      BY <2>10, <2>11, <3>1 DEF accumulate
  <2>. QED
    BY <2>4, <2>8, <2>9, <2>12, <2>13, <2>14
<1>. HIDE DEF P
<1>5. 0 \in G
  <2>1. P(0)
    BY <1>3
  <2>2. \A v \in 0 .. 0 : v = 0
    OBVIOUS
  <2>. QED
    BY <2>1, <2>2
<1>6. ASSUME NEW m \in 1 .. u, m - 1 \in G PROVE m \in G
  <2>1. \A v \in 0 .. (m - 1) : P(v)
    BY <1>6
  <2>2. P(m)
    <3>1. CASE m < b
      BY <1>3, <3>1
    <3>2. CASE m >= b
      <4>1. m \in Nat /\ m \div b \in Nat /\ m \div b < m
        BY <3>2, Divided
      <4>2. m \div b \in 0 .. (m - 1)
        BY <4>1
      <4>3. P(m \div b)
        BY <2>1, <4>2
      <4>. QED
        BY <1>4, <3>2, <4>3
    <3>. QED
      BY <3>1, <3>2
  <2>3. \A v \in 0 .. m : v \in 0 .. (m - 1) \/ v = m
    OBVIOUS
  <2>4. \A v \in 0 .. m : P(v)
    BY <2>1, <2>2, <2>3
  <2>5. m \in 0 .. u
    OBVIOUS
  <2>. QED
    BY <2>4, <2>5
<1>. HIDE DEF G
<1>7. 0 .. u \subseteq G
  BY <1>5, <1>6, UpTo
<1>8. u \in G
  BY <1>7
<1>9. \A v \in 0 .. u : P(v)
  BY <1>8 DEF G
<1>10. P(u)
  BY <1>9
<1>. QED
  BY Zenon, <1>10 DEF P

LEMMA ConcatAt ==
    ASSUME NEW t \in Texts, NEW w \in Texts
    PROVE  /\ t \o w \in Texts /\ Len(t) \in Nat /\ Len(w) \in Nat /\ Len(t \o w) = Len(t) + Len(w)
           /\ \A i \in 1 .. Len(t) : (t \o w)[i] = t[i]
           /\ \A i \in 1 .. Len(w) : (t \o w)[Len(t) + i] = w[i]
BY DEF Texts

LEMMA DropConcat ==
    ASSUME NEW t \in Texts, NEW w \in Texts
    PROVE  Drop(t \o w, Len(t)) = w
<1> DEFINE x == t \o w
           k == Len(t)
           y == SubSeq(x, k + 1, Len(x))
<1>1. x \in Texts /\ k \in Nat /\ Len(w) \in Nat /\ Len(x) = k + Len(w)
      /\ \A i \in 1 .. Len(w) : x[k + i] = w[i]
  BY ConcatAt
<1>. HIDE DEF x, k
<1>2. y \in Texts /\ Len(y) = Len(w)
  BY <1>1 DEF Texts
<1>3. \A i \in 1 .. Len(w) : y[i] = x[k + i]
  <2>. SUFFICES ASSUME NEW i \in 1 .. Len(w) PROVE y[i] = x[k + i]
    OBVIOUS
  <2>1. y[i] = x[k + 1 + i - 1]
    BY <1>1 DEF Texts
  <2>2. k + 1 + i - 1 = k + i
    BY <1>1
  <2>. QED
    BY <2>1, <2>2
<1>. HIDE DEF y
<1>4. y = w
  <2>1. \A i \in 1 .. Len(w) : y[i] = w[i]
    BY <1>1, <1>3
  <2>. QED
    BY <1>2, <2>1 DEF Texts
<1>. QED
  BY <1>4 DEF y, x, k, Drop

LEMMA Associates ==
    ASSUME NEW t \in Texts, NEW w \in Texts, NEW x \in Texts
    PROVE  (t \o w) \o x = t \o (w \o x)
BY ConcatAssociative DEF Texts

LEMMA NothingBefore == \A t \in Texts : <<>> \o t = t /\ t \o <<>> = t
BY DEF Texts

Zeros == Seq({"0"})

\* Zeros, the digits of u and what ends them.
Core(z, u, b, e) == z \o printnum(u, b) \o e

EndsDigits(e, b) == e \in Texts /\ (e # <<>> => e[1] \notin digits_of(b))

LEMMA ZerosAre ==
    ASSUME NEW z \in Zeros
    PROVE  z \in Texts /\ \A i \in 1 .. Len(z) : z[i] = digs[1]
<1>1. "0" \in Chars /\ digs[1] = "0"
  <2>1. digs[1] \in Chars /\ digs[1] = "0"
    BY DigitsText, DigsAre
  <2>. QED
    BY Zenon, <2>1
<1>2. z \in Seq({"0"})
  BY DEF Zeros
<1>. QED
  BY <1>1, <1>2 DEF Texts

LEMMA PrintnumDigits ==
    ASSUME NEW u \in Nat, NEW b \in 2 .. 16
    PROVE  \A i \in 1 .. Len(printnum(u, b)) : \E j \in 1 .. b : printnum(u, b)[i] = digs[j]
<1> DEFINE w == printnum(u, b)
<1>1. w \in Seq(DigitOf(b))
  BY PrintnumType
<1>. HIDE DEF w
<1>2. \A i \in 1 .. Len(w) : w[i] \in DigitOf(b)
  BY <1>1
<1>3. \A i \in 1 .. Len(w) : \E j \in 1 .. b : w[i] = digs[j]
  BY <1>2 DEF DigitOf
<1>. QED
  BY <1>3 DEF w

ZerosIn(c, m)     == \A i \in 1 .. m : c[i] = digs[1]
DigitsIn(c, k, b) == \A i \in 1 .. k : \E j \in 1 .. b : c[i] = digs[j]
Behind(c, k, e)   == \A i \in 1 .. Len(c) : i > k => i - k \in 1 .. Len(e) /\ c[i] = e[i - k]

CoreFacts(z, u, b, e) ==
    LET k == Len(z) + Len(printnum(u, b))
        c == Core(z, u, b, e)
    IN  /\ c \in Texts /\ k \in 1 .. Len(c) /\ Len(z) \in 0 .. k
        /\ ZerosIn(c, Len(z)) /\ DigitsIn(c, k, b) /\ Behind(c, k, e)
        /\ Stands(c, Len(z), printnum(u, b))
        /\ Passed(c, digits_of(b)) = k
        /\ Drop(c, k) = e

LEMMA CoreIs ==
    ASSUME NEW z \in Zeros, NEW u \in Nat, NEW b \in 2 .. 16, NEW e, EndsDigits(e, b)
    PROVE  CoreFacts(z, u, b, e)
<1> DEFINE w == printnum(u, b)
           h == z \o w
           c == h \o e
           m == Len(z)
           l == Len(w)
           k == m + l
<1>1. z \in Texts /\ w \in Texts /\ e \in Texts /\ l >= 1
  BY ZerosAre, NumeralText, PrintnumType DEF EndsDigits
<1>2. \A i \in 1 .. l : \E j \in 1 .. b : w[i] = digs[j]
  BY PrintnumDigits
<1>3. \A i \in 1 .. m : z[i] = digs[1]
  BY ZerosAre
<1>. HIDE DEF w
<1>4. /\ h \in Texts /\ m \in Nat /\ l \in Nat /\ Len(h) = k
      /\ \A i \in 1 .. m : h[i] = z[i]
      /\ \A i \in 1 .. l : h[m + i] = w[i]
  BY <1>1, ConcatAt
<1>. HIDE DEF h, m, l
<1>5. /\ c \in Texts /\ Len(e) \in Nat /\ Len(c) = k + Len(e)
      /\ \A i \in 1 .. k : c[i] = h[i]
      /\ \A i \in 1 .. Len(e) : c[k + i] = e[i]
  <2>1. /\ c \in Texts /\ Len(e) \in Nat /\ Len(c) = Len(h) + Len(e)
        /\ \A i \in 1 .. Len(h) : c[i] = h[i]
        /\ \A i \in 1 .. Len(e) : c[Len(h) + i] = e[i]
    BY <1>1, <1>4, ConcatAt
  <2>. QED
    BY Zenon, <1>4, <2>1
<1>6. Drop(c, k) = e
  <2>1. Drop(c, Len(h)) = e
    BY <1>1, <1>4, DropConcat
  <2>. QED
    BY Zenon, <1>4, <2>1
<1>. HIDE DEF c
<1>7. k \in 1 .. Len(c) /\ m \in 0 .. k /\ k \in Nat
  BY <1>1, <1>4, <1>5
<1>8. \A i \in 1 .. m : c[i] = digs[1]
  <2>1. \A i \in 1 .. m : i \in 1 .. k
    BY <1>4
  <2>. HIDE DEF k
  <2>. QED
    BY <1>3, <1>4, <1>5, <2>1
<1>9. \A i \in 1 .. l : c[m + i] = w[i]
  <2>1. \A i \in 1 .. l : m + i \in 1 .. k
    BY <1>4
  <2>. HIDE DEF k
  <2>. QED
    BY <1>4, <1>5, <2>1
<1>10. \A i \in 1 .. k : \E j \in 1 .. b : c[i] = digs[j]
  <2>. SUFFICES ASSUME NEW i \in 1 .. k PROVE \E j \in 1 .. b : c[i] = digs[j]
    OBVIOUS
  <2>1. CASE i <= m
    <3>1. c[i] = digs[1] /\ 1 \in 1 .. b
      BY <1>4, <1>8, <2>1
    <3>. QED
      BY <3>1
  <2>2. CASE i > m
    <3>1. i - m \in 1 .. l /\ i = m + (i - m)
      BY <1>4, <2>2
    <3>2. c[i] = w[i - m]
      BY <1>9, <3>1
    <3>3. PICK j \in 1 .. b : w[i - m] = digs[j]
      BY <1>2, <3>1
    <3>. QED
      BY <3>2, <3>3
  <2>. QED
    BY <1>4, <2>1, <2>2
<1>11. Stands(c, m, w)
  BY <1>4, <1>5, <1>9 DEF Stands, l
<1>12. Passed(c, digits_of(b)) = k
  <2>. HIDE DEF k
  <2>1. \A i \in 1 .. k : c[i] \in digits_of(b)
    <3>. SUFFICES ASSUME NEW i \in 1 .. k PROVE c[i] \in digits_of(b)
      OBVIOUS
    <3>1. PICK j \in 1 .. b : c[i] = digs[j]
      BY <1>10
    <3>2. j \in 1 .. 16 /\ j <= b
      BY <3>1
    <3>. QED
      BY <3>1, <3>2, DigitIn
  <2>2. k < Len(c) => c[k + 1] \notin digits_of(b)
    <3>. SUFFICES ASSUME k < Len(c) PROVE c[k + 1] \notin digits_of(b)
      OBVIOUS
    <3>1. 1 \in 1 .. Len(e)
      BY <1>5, <1>7
    <3>2. e # <<>>
      BY <3>1
    <3>3. c[k + 1] = e[1]
      BY <1>5, <3>1
    <3>. QED
      BY <3>2, <3>3 DEF EndsDigits
  <2>3. c \in Seq(Chars) /\ k \in 0 .. Len(c)
    BY <1>5, <1>7 DEF Texts
  <2>. QED
    BY <2>1, <2>2, <2>3, PassedIs
<1>13. \A i \in 1 .. Len(c) : i > k => i - k \in 1 .. Len(e) /\ c[i] = e[i - k]
  <2>. HIDE DEF k
  <2>. SUFFICES ASSUME NEW i \in 1 .. Len(c), i > k PROVE i - k \in 1 .. Len(e) /\ c[i] = e[i - k]
    OBVIOUS
  <2>1. i - k \in 1 .. Len(e) /\ i = k + (i - k)
    BY <1>5, <1>7
  <2>. QED
    BY <1>5, <2>1
<1>14. k = Len(z) + Len(printnum(u, b)) /\ c = Core(z, u, b, e) /\ m = Len(z) /\ w = printnum(u, b)
  BY Zenon DEF Core, c, h, m, l, w
<1>. HIDE DEF k
<1>15. ZerosIn(c, m) /\ DigitsIn(c, k, b) /\ Behind(c, k, e)
  BY <1>8, <1>10, <1>13 DEF ZerosIn, DigitsIn, Behind
<1>. QED
  BY Zenon, <1>5, <1>6, <1>7, <1>11, <1>12, <1>14, <1>15 DEF CoreFacts

\* The number that stands there is read, and what ends it is left.
Legible(z, u, b, e) == z \in Zeros /\ u \in Nat /\ b \in 2 .. 16 /\ EndsDigits(e, b)
Lossless(kind, u) == kind \in Kinds /\ u <= Largest(kind)

LEMMA CoreRead ==
    ASSUME NEW z, NEW u, NEW b, NEW e, NEW kind, Legible(z, u, b, e), Lossless(kind, u)
    PROVE  /\ Digits(Core(z, u, b, e), b, kind).value = Wrap(kind, u)
           /\ Digits(Core(z, u, b, e), b, kind).rest = e
<1>. /\ z \in Zeros /\ u \in Nat /\ b \in 2 .. 16 /\ EndsDigits(e, b)
     /\ kind \in Kinds /\ u <= Largest(kind)
  BY Zenon DEF Legible, Lossless
<1> DEFINE w == printnum(u, b)
           c == Core(z, u, b, e)
           m == Len(z)
           k == m + Len(w)
<1>1. /\ c \in Texts /\ k \in 1 .. Len(c) /\ m \in 0 .. k
      /\ ZerosIn(c, m)
      /\ Stands(c, m, w)
      /\ Passed(c, digits_of(b)) = k
      /\ Drop(c, k) = e
  <2>1. CoreFacts(z, u, b, e)
    BY CoreIs
  <2>. QED
    BY Zenon, <2>1 DEF CoreFacts
<1>. HIDE DEF c, k, m
<1>2. PICK g : /\ Reads(c, b, kind, k, g)
               /\ Digits(c, b, kind).value = g[k]
               /\ Digits(c, b, kind).rest = Drop(c, k)
  BY <1>1, ReadsMade
<1>3. g \in [0 .. k -> Int] /\ g[0] = 0 /\ \A i \in 1 .. k : g[i] = Wrap(kind, accumulate(g[i - 1], b, c[i]))
  BY <1>2 DEF Reads
<1>4. k \in Nat /\ m \in Nat /\ k \in 0 .. Len(c)
  BY <1>1
<1>5. g[m] = 0
  <2> DEFINE G == {i \in 0 .. m : g[i] = 0}
  <2>1. 0 \in G
    BY <1>3, <1>4
  <2>2. ASSUME NEW i \in 1 .. m, i - 1 \in G PROVE i \in G
    <3>1. g[i - 1] = 0 /\ i \in 1 .. k /\ i \in 0 .. m
      BY <1>1, <1>4, <2>2
    <3>2. digit_value(c[i]) = 0
      <4>1. digit_value(digs[0 + 1]) = 0
        BY ValueOfDigit
      <4>. QED
        BY <1>1, <4>1 DEF ZerosIn
    <3>3. accumulate(0, b, c[i]) = 0
      BY <3>2 DEF accumulate
    <3>4. Wrap(kind, 0) = 0
      <4>1. 0 \in 0 .. (2 * Half - 1) /\ 0 \in long
        BY HalfType DEF long
      <4>. QED
        BY <4>1, WrapKeeps DEF Wrap
    <3>. QED
      BY <1>3, <3>1, <3>3, <3>4
  <2>. HIDE DEF G
  <2>3. 0 .. m \subseteq G
    BY <1>4, <2>1, <2>2, UpTo
  <2>4. m \in 0 .. m
    BY <1>4
  <2>. QED
    BY <2>3, <2>4 DEF G
<1>6. m + Len(w) <= k /\ Stands(c, m, w) => g[m + Len(w)] = Wrap(kind, u)
  <2>. HIDE DEF w
  <2>1. Reading(c, b, kind, k, g, m, u)
    BY Zenon, <1>1, <1>2, <1>4, <1>5 DEF Reading
  <2>2. m + Len(printnum(u, b)) <= k /\ Stands(c, m, printnum(u, b)) => g[m + Len(printnum(u, b))] = Wrap(kind, u)
    BY <2>1, DigitsRead
  <2>. QED
    BY Zenon, <2>2 DEF w
<1>7. g[k] = Wrap(kind, u)
  <2>1. m + Len(w) = k
    BY Zenon DEF k
  <2>2. k <= k
    BY <1>4
  <2>. QED
    BY Zenon, <1>1, <1>6, <2>1, <2>2
<1>. QED
  BY Zenon, <1>1, <1>2, <1>7 DEF c

Blanks == Seq(Spaces)

LEMMA BlanksAre == \A t \in Blanks : t \in Texts /\ \A i \in 1 .. Len(t) : t[i] \in Spaces
BY SpaceFacts DEF Blanks, Texts

\* A text that is not white space.
Starts(r) == r \in Texts /\ r # <<>> /\ r[1] \notin Spaces

LEMMA SkipsBlanks ==
    ASSUME NEW w \in Blanks, NEW r, Starts(r)
    PROVE  skip_space(w \o r) = r
<1> DEFINE t == w \o r
           k == Len(w)
<1>1. w \in Texts /\ \A i \in 1 .. k : w[i] \in Spaces
  BY Zenon, BlanksAre
<1>2. r \in Texts /\ r # <<>> /\ r[1] \notin Spaces
  BY DEF Starts
<1>3. /\ t \in Texts /\ k \in Nat /\ Len(r) \in Nat /\ Len(t) = k + Len(r)
      /\ \A i \in 1 .. k : t[i] = w[i]
      /\ \A i \in 1 .. Len(r) : t[k + i] = r[i]
  BY <1>1, <1>2, ConcatAt
<1>4. Drop(t, k) = r
  BY <1>1, <1>2, DropConcat
<1>. HIDE DEF t, k
<1>5. Len(r) >= 1
  BY <1>2 DEF Texts
<1>6. k \in 0 .. Len(t) /\ k + 1 = k + 1 /\ 1 \in 1 .. Len(r)
  BY <1>3, <1>5
<1>7. \A i \in 1 .. k : t[i] \in Spaces
  BY <1>1, <1>3
<1>8. t[k + 1] \notin Spaces
  BY <1>2, <1>3, <1>6
<1>9. Passed(t, Spaces) = k
  <2>1. t \in Seq(Chars)
    BY <1>3 DEF Texts
  <2>. QED
    BY <1>6, <1>7, <1>8, <2>1, PassedIs
<1>. QED
  BY <1>4, <1>9 DEF skip_space, t

LEMMA BlanksEnd ==
    ASSUME NEW e \in Blanks, NEW b \in 2 .. 16
    PROVE  EndsDigits(e, b) /\ (e # <<>> => e[1] \in Spaces)
<1>1. e \in Texts /\ \A i \in 1 .. Len(e) : e[i] \in Spaces
  BY Zenon, BlanksAre
<1>2. e # <<>> => e[1] \in Spaces
  BY <1>1 DEF Texts
<1>3. \A c \in Spaces : c \notin digits_of(b)
  BY SpaceFacts, NoDigit
<1>. QED
  BY <1>1, <1>2, <1>3 DEF EndsDigits

\* No second character that announces a base.
Plain(c) == Len(c) > 1 => c[2] # "x" /\ c[2] # "X"

LEMMA DigitsPlain ==
    /\ \A i \in 1 .. 16 : digs[i] # "x" /\ digs[i] # "X" /\ digs[i] # "-" /\ digs[i] \notin Spaces
    /\ "-" \notin Spaces
<1>1. \A i \in 1 .. 16 : digs[i] \in DigitChars
  BY DigsAre
<1>2. \A i \in 1 .. 16 : digs[i] # "x" /\ digs[i] # "X" /\ digs[i] # "-"
  BY <1>1, SignFacts
<1>3. \A i \in 1 .. 16 : digs[i] \notin Spaces
  BY Zenon, <1>1, SpaceFacts
<1>4. "-" \notin Spaces
  BY Zenon, SpaceFacts
<1>. QED
  BY Zenon, <1>2, <1>3, <1>4

LEMMA CoreFront ==
    ASSUME NEW z \in Zeros, NEW u \in Nat, NEW b \in 2 .. 16, NEW e \in Blanks
    PROVE  LET c == Core(z, u, b, e)
           IN  /\ EndsDigits(e, b) /\ Starts(c) /\ Plain(c) /\ c \in Texts
               /\ Front1(c) = c[1] /\ c[1] # "-" /\ Len(c) >= 1
<1> DEFINE c == Core(z, u, b, e)
           k == Len(z) + Len(printnum(u, b))
<1>1. EndsDigits(e, b) /\ (e # <<>> => e[1] \in Spaces)
  BY BlanksEnd
<1>2. c \in Texts /\ k \in 1 .. Len(c) /\ DigitsIn(c, k, b) /\ Behind(c, k, e)
  <2>1. CoreFacts(z, u, b, e)
    BY <1>1, CoreIs
  <2>. QED
    BY Zenon, <2>1 DEF CoreFacts
<1>. HIDE DEF c, k
<1>3. \A i \in 1 .. k : \E j \in 1 .. b : c[i] = digs[j]
  BY <1>2 DEF DigitsIn
<1>4. \A i \in 1 .. Len(c) : i > k => i - k \in 1 .. Len(e) /\ c[i] = e[i - k]
  BY <1>2 DEF Behind
<1>5. Len(c) \in Nat /\ Len(c) >= 1
  BY <1>2 DEF Texts
<1>6. c # <<>> /\ Front1(c) = c[1]
  BY <1>2, <1>5 DEF Front1
<1>7. \A j \in 1 .. b : j \in 1 .. 16
  OBVIOUS
<1>8. c[1] \notin Spaces /\ c[1] # "-"
  <2>1. 1 \in 1 .. k
    BY <1>2, <1>5
  <2>2. PICK j \in 1 .. b : c[1] = digs[j]
    BY <1>3, <2>1
  <2>. QED
    BY <1>7, <2>2, DigitsPlain
<1>9. Plain(c)
  <2>. SUFFICES ASSUME Len(c) > 1 PROVE c[2] # "x" /\ c[2] # "X"
    BY DEF Plain
  <2>1. CASE 2 <= k
    <3>1. 2 \in 1 .. k
      BY <1>2, <2>1
    <3>2. PICK j \in 1 .. b : c[2] = digs[j]
      BY <1>3, <3>1
    <3>. QED
      BY <1>7, <3>2, DigitsPlain
  <2>2. CASE 2 > k
    <3>1. 2 \in 1 .. Len(c) /\ k = 1
      BY <1>2, <1>5, <2>2
    <3>2. 2 - 1 \in 1 .. Len(e) /\ c[2] = e[2 - 1]
      BY <1>4, <2>2, <3>1
    <3>3. c[2] = e[1] /\ 1 \in 1 .. Len(e)
      BY <3>2
    <3>4. c[2] \in Spaces
      <4>1. \A i \in 1 .. Len(e) : e[i] \in Spaces
        BY Zenon, BlanksAre
      <4>. QED
        BY <3>3, <4>1
    <3>. QED
      BY Zenon, <3>4, SpaceFacts
  <2>. QED
    BY <1>2, <2>1, <2>2
<1>10. Starts(c)
  BY <1>2, <1>6, <1>8 DEF Starts
<1>. QED
  BY Zenon, <1>1, <1>2, <1>5, <1>6, <1>8, <1>9, <1>10 DEF c

\* A text announces a base, and c is left.
Announces(t, base, b, c) == announced(t, base).base = b /\ announced(t, base).rest = c

LEMMA NothingAnnounced ==
    ASSUME NEW c \in Texts, Plain(c), NEW base \in {8, 10, 16}
    PROVE  Announces(c, base, base, c)
<1>1. ~(Len(c) > 1 /\ c[2] \in {"x", "X"})
  BY DEF Plain
<1>2. base # 0
  OBVIOUS
<1>. QED
  BY <1>1, <1>2 DEF Announces, announced

LEMMA OctalAnnounced ==
    ASSUME NEW c \in Texts, Plain(c), Front1(c) = "0"
    PROVE  Announces(c, 0, 8, c)
<1>1. ~(Len(c) > 1 /\ c[2] \in {"x", "X"})
  BY DEF Plain
<1>. QED
  BY <1>1 DEF Announces, announced

LEMMA HexAnnounced ==
    ASSUME NEW c \in Texts, Len(c) >= 1
    PROVE  /\ Announces(<<"0", "x">> \o c, 16, 16, c)
           /\ Starts(<<"0", "x">> \o c) /\ Front1(<<"0", "x">> \o c) # "-"
<1> DEFINE h == <<"0", "x">>
           t == h \o c
<1>1. "0" \in Chars /\ "x" \in Chars
  BY Zenon, BlankAndZero
<1>2. h \in Texts /\ Len(h) = 2 /\ h[1] = "0" /\ h[2] = "x"
  BY <1>1 DEF Texts
<1>. HIDE DEF h
<1>3. Drop(t, Len(h)) = c
  BY <1>2, DropConcat
<1>4. t \in Texts /\ Len(c) \in Nat /\ Len(t) = 2 + Len(c) /\ \A i \in 1 .. 2 : t[i] = h[i]
  <2>1. /\ t \in Texts /\ Len(c) \in Nat /\ Len(t) = Len(h) + Len(c)
        /\ \A i \in 1 .. Len(h) : t[i] = h[i]
    BY <1>2, ConcatAt
  <2>. HIDE DEF t
  <2>. QED
    BY <1>2, <2>1
<1>. HIDE DEF t
<1>5. t[1] = "0" /\ t[2] = "x" /\ Len(t) > 1 /\ t # <<>> /\ Drop(t, 2) = c
  BY <1>2, <1>3, <1>4
<1>6. Announces(t, 16, 16, c)
  BY <1>5 DEF Announces, announced
<1>7. t[1] \notin Spaces /\ Front1(t) # "-"
  <2>1. t[1] = digs[1] /\ 1 \in 1 .. 16
    BY <1>5, DigsAre
  <2>2. Front1(t) = t[1]
    BY <1>5 DEF Front1
  <2>. QED
    BY Zenon, <2>1, <2>2, DigitsPlain
<1>8. Starts(t)
  BY <1>4, <1>5, <1>7 DEF Starts
<1>. QED
  BY Zenon, <1>6, <1>7, <1>8 DEF t, h

\* Behind blanks and a sign: a base, and the digits of u with what ends them.
Numeral(r, base, u, b, c, z, e) ==
    /\ Starts(r) /\ Front1(r) # "-" /\ Announces(r, base, b, c) /\ c = Core(z, u, b, e)
    /\ Legible(z, u, b, e)

SignedDigits(t, b)   == read_digits(t, b, TRUE)
UnsignedDigits(t, b) == read_digits(t, b, FALSE)

LEMMA DigitsAre ==
    /\ \A t, b : Digits(t, b, "long") = SignedDigits(t, b)
    /\ \A t, b : Digits(t, b, "unsigned") = UnsignedDigits(t, b)
<1>1. ASSUME NEW t, NEW b PROVE Digits(t, b, "long") = SignedDigits(t, b)
  BY DEF Digits, SignedDigits, read_digits, accumulate
<1>2. ASSUME NEW t, NEW b PROVE Digits(t, b, "unsigned") = UnsignedDigits(t, b)
  BY DEF Digits, UnsignedDigits, read_digits, accumulate
<1>. QED
  BY <1>1, <1>2

LEMMA StrtoulReads ==
    ASSUME NEW w \in Blanks, NEW r, NEW base, NEW u, NEW b, NEW c, NEW z, NEW e,
           Numeral(r, base, u, b, c, z, e), u <= 2 * Half - 1
    PROVE  strtoul(w \o r, base).value = u
<1>1. /\ Starts(r) /\ Announces(r, base, b, c) /\ c = Core(z, u, b, e)
      /\ Legible(z, u, b, e) /\ u \in Nat
  BY Zenon DEF Legible, Numeral
<1>2. skip_space(w \o r) = r
  BY Zenon, <1>1, SkipsBlanks
<1>3. strtoul(w \o r, base) = UnsignedDigits(c, b)
  BY Zenon, <1>1, <1>2 DEF strtoul, Announces, UnsignedDigits
<1>4. Lossless("unsigned", u)
  BY DEF Largest, Lossless, Kinds
<1>5. UnsignedDigits(c, b).value = Wrap("unsigned", u)
  BY <1>1, <1>4, CoreRead, DigitsAre
<1>6. Wrap("unsigned", u) = u
  <2>1. u \in 0 .. (2 * Half - 1)
    BY <1>1, HalfType
  <2>. QED
    BY <2>1, WrapKeeps DEF Wrap
<1>. QED
  BY Zenon, <1>3, <1>5, <1>6

LEMMA SignedCore ==
    ASSUME NEW u, NEW b, NEW z, NEW e, Legible(z, u, b, e), u <= Half
    PROVE  /\ SignedDigits(Core(z, u, b, e), b).value = wrap_signed(u)
           /\ SignedDigits(Core(z, u, b, e), b).rest = e
           /\ u < Half => wrap_signed(u) = u
           /\ wrap_signed(-wrap_signed(u)) = -u
<1>. u \in Nat
  BY Zenon DEF Legible
<1>1. Lossless("long", u)
  BY DEF Largest, Lossless, Kinds
<1>2. /\ SignedDigits(Core(z, u, b, e), b).value = Wrap("long", u)
      /\ SignedDigits(Core(z, u, b, e), b).rest = e
  BY <1>1, CoreRead, DigitsAre
<1>3. Wrap("long", u) = wrap_signed(u)
  BY DEF Wrap
<1>4. u < Half => wrap_signed(u) = u
  <2>1. u < Half => u \in long
    BY HalfType DEF long
  <2>. QED
    BY <2>1, WrapKeeps
<1>5. wrap_signed(-wrap_signed(u)) = -u
  <2>1. u \in 0 .. Half
    BY HalfType
  <2>. QED
    BY <2>1, WrapKeeps
<1>. QED
  BY Zenon, <1>2, <1>3, <1>4, <1>5

LEMMA DropNothing == \A t \in Texts : Drop(t, 0) = t
BY DEF Drop, Texts

\* What strtol does behind the blanks, with and without a minus sign.
LEMMA StrtolReads ==
    ASSUME NEW w \in Blanks, NEW r, NEW base, NEW u, NEW b, NEW c, NEW z, NEW e,
           Numeral(r, base, u, b, c, z, e), u < Half
    PROVE  strtol(w \o r, base).value = u
<1>1. /\ Starts(r) /\ Announces(r, base, b, c) /\ c = Core(z, u, b, e) /\ Front1(r) # "-"
      /\ Legible(z, u, b, e) /\ u \in Nat
  BY Zenon DEF Legible, Numeral
<1>2. skip_space(w \o r) = r
  BY Zenon, <1>1, SkipsBlanks
<1>3. Drop(r, 0) = r
  BY <1>1, DropNothing DEF Starts
<1> DEFINE rd == SignedDigits(c, b)
<1>4. strtol(w \o r, base) = [rd EXCEPT !.value = @]
  BY Zenon, <1>1, <1>2, <1>3 DEF strtol, Announces, SignedDigits
<1>5. "value" \in DOMAIN rd
  BY DEF SignedDigits, read_digits
<1>6. rd.value = u
  <2>1. u <= Half
    BY <1>1, HalfType
  <2>. QED
    BY <1>1, <2>1, SignedCore
<1>. HIDE DEF rd
<1>7. strtol(w \o r, base).value = rd.value
  BY <1>4, <1>5
<1>. QED
  BY Zenon, <1>6, <1>7

LEMMA MinusText ==
    ASSUME NEW r \in Texts
    PROVE  /\ Starts(<<"-">> \o r) /\ Front1(<<"-">> \o r) = "-" /\ Drop(<<"-">> \o r, 1) = r
           /\ <<"-">> \o r \in Texts
<1> DEFINE h == <<"-">>
           t == h \o r
<1>1. h \in Texts /\ Len(h) = 1 /\ h[1] = "-"
  <2>1. "-" \in Chars
    BY Zenon, BlankAndZero
  <2>. QED
    BY <2>1 DEF Texts
<1>. HIDE DEF h
<1>2. t \in Texts /\ Len(t) = Len(h) + Len(r) /\ Len(r) \in Nat /\ \A i \in 1 .. Len(h) : t[i] = h[i]
  BY <1>1, ConcatAt
<1>3. Drop(t, Len(h)) = r
  BY <1>1, DropConcat
<1>. HIDE DEF t
<1>4. t[1] = "-" /\ Len(t) >= 1 /\ t # <<>>
  BY <1>1, <1>2
<1>5. Front1(t) = "-"
  BY <1>4 DEF Front1
<1>6. t[1] \notin Spaces
  BY Zenon, <1>4, DigitsPlain
<1>. QED
  BY Zenon, <1>1, <1>2, <1>3, <1>4, <1>5, <1>6 DEF Starts, t, h

LEMMA StrtolReadsMinus ==
    ASSUME NEW w \in Blanks, NEW r, NEW base, NEW u, NEW b, NEW c, NEW z, NEW e,
           Numeral(r, base, u, b, c, z, e), u <= Half
    PROVE  strtol(w \o (<<"-">> \o r), base).value = -u
<1>1. /\ Starts(r) /\ Announces(r, base, b, c) /\ c = Core(z, u, b, e) /\ r \in Texts
      /\ Legible(z, u, b, e) /\ u \in Nat
  BY Zenon DEF Legible, Numeral, Starts
<1> DEFINE t == <<"-">> \o r
<1>2. Starts(t) /\ Front1(t) = "-" /\ Drop(t, 1) = r
  BY Zenon, <1>1, MinusText
<1>. HIDE DEF t
<1>3. skip_space(w \o t) = t
  BY Zenon, <1>2, SkipsBlanks
<1> DEFINE rd == SignedDigits(c, b)
<1>4. strtol(w \o t, base) = [rd EXCEPT !.value = wrap_signed(-@)]
  BY Zenon, <1>1, <1>2, <1>3 DEF strtol, Announces, SignedDigits
<1>5. "value" \in DOMAIN rd
  BY DEF SignedDigits, read_digits
<1>6. rd.value = wrap_signed(u) /\ wrap_signed(-wrap_signed(u)) = -u
  BY <1>1, SignedCore
<1>. HIDE DEF rd
<1>7. strtol(w \o t, base).value = wrap_signed(-rd.value)
  BY <1>4, <1>5
<1>. QED
  BY Zenon, <1>6, <1>7 DEF t

\* The number of scanf: a sign and digits.
LEMMA SignedNumberReads ==
    ASSUME NEW u, NEW b, NEW z, NEW e, NEW r, r = Core(z, u, b, e),
           Legible(z, u, b, e), r \in Texts, Front1(r) # "-"
    PROVE  /\ u < Half => signed_number(r, b).value = u
           /\ u < Half => signed_number(r, b).rest = e
           /\ u <= Half => signed_number(<<"-">> \o r, b).value = -u
           /\ u <= Half => signed_number(<<"-">> \o r, b).rest = e
<1> DEFINE rd == SignedDigits(r, b)
           t  == <<"-">> \o r
<1>1. Drop(r, 0) = r
  BY DropNothing
<1>2. signed_number(r, b) = [rd EXCEPT !.value = @]
  BY Zenon, <1>1 DEF signed_number, SignedDigits
<1>3. Front1(t) = "-" /\ Drop(t, 1) = r
  BY Zenon, MinusText
<1>. HIDE DEF t
<1>4. signed_number(t, b) = [rd EXCEPT !.value = wrap_signed(-@)]
  BY Zenon, <1>3 DEF signed_number, SignedDigits
<1>5. "value" \in DOMAIN rd /\ "rest" \in DOMAIN rd
  BY DEF SignedDigits, read_digits
<1>6. u <= Half => /\ rd.value = wrap_signed(u) /\ rd.rest = e
                   /\ (u < Half => wrap_signed(u) = u)
                   /\ wrap_signed(-wrap_signed(u)) = -u
  BY SignedCore
<1>7. u < Half => u <= Half
  <2>1. u \in Nat
    BY Zenon DEF Legible
  <2>. QED
    BY <2>1, HalfType
<1>. HIDE DEF rd
<1>8. /\ signed_number(r, b).value = rd.value /\ signed_number(r, b).rest = rd.rest
      /\ signed_number(t, b).value = wrap_signed(-rd.value) /\ signed_number(t, b).rest = rd.rest
  BY <1>2, <1>4, <1>5
<1>. QED
  BY Zenon, <1>6, <1>7, <1>8 DEF t

LEMMA FillsAre ==
    ASSUME NEW p, NEW k \in Int
    PROVE  /\ BlanksBefore(p, k) \in Blanks /\ ZerosBetween(p, k) \in Zeros /\ BlanksBehind(p, k) \in Blanks
           /\ p.padc = "0" => BlanksBefore(p, k) = <<>>
<1>1. pad(" ", k) \in Blanks
  BY Zenon, BlankIsSpace, PadIn DEF Blanks
<1>2. pad("0", k) \in Zeros
  BY PadIn DEF Zeros
<1>3. <<>> \in Blanks /\ <<>> \in Zeros
  BY DEF Blanks, Zeros
<1>4. "0" # " "
  BY Zenon
<1>. QED
  BY Zenon, <1>1, <1>2, <1>3, <1>4 DEF BlanksBefore, ZerosBetween, BlanksBehind

Associative(x, y, z) == (x \o y) \o z = x \o (y \o z)

LEMMA AssociateAll == \A x \in Texts, y \in Texts, z \in Texts : Associative(x, y, z)
BY Associates DEF Associative

\* A text put together from six parts.
LEMMA Flattened ==
    ASSUME NEW w \in Texts, NEW g \in Texts, NEW x \in Texts,
           NEW z \in Texts, NEW t \in Texts, NEW e \in Texts
    PROVE  ((((w \o g) \o x) \o z) \o t) \o e = w \o (g \o (x \o ((z \o t) \o e)))
<1> DEFINE wg == w \o g
           y  == wg \o x
           yz == y \o z
           f  == z \o t
           c  == f \o e
           h  == x \o c
<1>1. wg \in Texts
  BY ConcatText
<1>2. f \in Texts
  BY ConcatText
<1>. HIDE DEF wg, f
<1>3. y \in Texts
  BY <1>1, ConcatText
<1>4. c \in Texts
  BY <1>2, ConcatText
<1>. HIDE DEF c
<1>5. h \in Texts
  BY <1>4, ConcatText
<1>6. y \o c = wg \o h
  <2>1. Associative(wg, x, c)
    BY Zenon, <1>1, <1>4, AssociateAll
  <2>. QED
    BY Zenon, <2>1 DEF Associative
<1>. HIDE DEF h, y
<1>7. wg \o h = w \o (g \o h)
  <2>1. Associative(w, g, h)
    BY Zenon, <1>5, AssociateAll
  <2>. QED
    BY Zenon, <2>1 DEF Associative, wg
<1>8. yz \o t = y \o f
  <2>1. Associative(y, z, t)
    BY Zenon, <1>3, AssociateAll
  <2>. QED
    BY Zenon, <2>1 DEF Associative, yz, f
<1>9. (y \o f) \o e = y \o c
  <2>1. Associative(y, f, e)
    BY Zenon, <1>2, <1>3, AssociateAll
  <2>. QED
    BY Zenon, <2>1 DEF Associative, c
<1>. QED
  BY Zenon, <1>6, <1>7, <1>8, <1>9 DEF wg, y, yz, f, c, h

SixParts(w, g, x, z, t, e) ==
    ((((w \o g) \o x) \o z) \o t) \o e = w \o (g \o (x \o ((z \o t) \o e)))

LEMMA FlattenedAll ==
    \A w \in Texts, g \in Texts, x \in Texts, z \in Texts, t \in Texts, e \in Texts :
        SixParts(w, g, x, z, t, e)
BY Flattened DEF SixParts

\* A number as blanks, a sign, what announces its base, and its digits.
Laid(p, sg, u, b) ==
    \E w \in Blanks, z \in Zeros, e \in Blanks :
        /\ number_text(p, sg, u, b) = w \o (sg \o (Prefix(p, u, b) \o Core(z, u, b, e)))
        /\ p.padc = "0" => w = <<>>

LEMMA NumberIs ==
    ASSUME NEW p, p.length \in Nat, NEW sg \in Texts, NEW u \in Nat, NEW b \in 2 .. 16
    PROVE  Laid(p, sg, u, b)
<1> DEFINE k == Fill(p, sg, u, b)
           w == BlanksBefore(p, k)
           z == ZerosBetween(p, k)
           e == BlanksBehind(p, k)
           x == Prefix(p, u, b)
           t == printnum(u, b)
           c == Core(z, u, b, e)
<1>1. k \in Int
  <2> DEFINE len == p.length
  <2>1. len \in Nat
    BY Zenon
  <2>. HIDE DEF len
  <2>2. len \in Int
    BY <2>1
  <2>3. p.length \in Int
    BY Zenon, <2>2 DEF len
  <2>. QED
    BY <2>3, FillType
<1>. HIDE DEF k
<1>2. w \in Blanks /\ z \in Zeros /\ e \in Blanks /\ (p.padc = "0" => w = <<>>)
  BY Zenon, <1>1, FillsAre
<1>3. x \in Texts /\ t \in Texts
  BY PrefixText, NumeralText
<1>4. w \in Texts /\ z \in Texts /\ e \in Texts
  BY Zenon, <1>2, BlanksAre, ZerosAre
<1>5. number_text(p, sg, u, b) = ((((w \o sg) \o x) \o z) \o t) \o e
  BY Zenon, NumberTextIs DEF k
<1>6. c = (z \o t) \o e
  BY Zenon DEF Core
<1>. HIDE DEF w, z, e, x, t, c
<1>7. ((((w \o sg) \o x) \o z) \o t) \o e = w \o (sg \o (x \o c))
  <2>1. ((((w \o sg) \o x) \o z) \o t) \o e = w \o (sg \o (x \o ((z \o t) \o e)))
    <3>1. SixParts(w, sg, x, z, t, e)
      BY Zenon, <1>3, <1>4, FlattenedAll
    <3>. QED
      BY Zenon, <3>1 DEF SixParts
  <2>. QED
    BY Zenon, <1>6, <2>1
<1>8. /\ number_text(p, sg, u, b) = w \o (sg \o (x \o c)) /\ c = Core(z, u, b, e) /\ x = Prefix(p, u, b)
  BY Zenon, <1>5, <1>7 DEF c, x
<1>. QED
  BY Zenon, <1>2, <1>8 DEF Laid

\* The base a number is read in.
BaseOf(p, b, base) ==
    \/ b = 10 /\ base = 10
    \/ b = 16 /\ base = 16
    \/ b = 8 /\ base = (IF p.altfmt THEN 0 ELSE 8)

LEMMA ZerosMore == \A z \in Zeros : <<"0">> \o z \in Zeros
BY DEF Zeros

LEMMA CoreMore ==
    ASSUME NEW z \in Zeros, NEW u \in Nat, NEW b \in 2 .. 16, NEW e \in Texts
    PROVE  <<"0">> \o Core(z, u, b, e) = Core(<<"0">> \o z, u, b, e)
<1> DEFINE h == <<"0">>
           t == printnum(u, b)
<1>1. h \in Texts /\ t \in Texts /\ z \in Texts
  <2>1. "0" \in Chars
    BY Zenon, BlankAndZero
  <2>. QED
    BY <2>1, NumeralText, ZerosAre, OneText
<1>. HIDE DEF h, t
<1>2. z \o t \in Texts
  BY <1>1, ConcatText
<1>3. Associative(h, z, t) /\ Associative(h, z \o t, e)
  BY Zenon, <1>1, <1>2, AssociateAll
<1>. QED
  BY Zenon, <1>3 DEF Associative, Core, h, t

\* Zero, and a number behind zeros, start with a zero.
LEMMA ZeroFront ==
    ASSUME NEW z \in Zeros, NEW u \in Nat, NEW b \in 2 .. 16, NEW e \in Blanks, u = 0 \/ z # <<>>
    PROVE  Front1(Core(z, u, b, e)) = "0"
<1> DEFINE c == Core(z, u, b, e)
           k == Len(z)
           t == printnum(u, b)
<1>1. EndsDigits(e, b) /\ Front1(c) = c[1]
  BY Zenon, CoreFront
<1>2. ZerosIn(c, k) /\ Stands(c, k, t)
  <2>1. CoreFacts(z, u, b, e)
    BY <1>1, CoreIs
  <2>. QED
    BY Zenon, <2>1 DEF CoreFacts
<1>3. digs[1] = "0"
  BY DigsAre
<1>4. z \in Texts
  BY ZerosAre
<1>5. CASE z # <<>>
  <2>1. 1 \in 1 .. k
    BY <1>4, <1>5 DEF Texts
  <2>. HIDE DEF c, k
  <2>2. c[1] = digs[1]
    BY <1>2, <2>1 DEF ZerosIn
  <2>. QED
    BY Zenon, <1>1, <1>3, <2>2 DEF c
<1>6. CASE z = <<>> /\ u = 0
  <2>1. k = 0
    BY <1>6
  <2>2. t = <<digs[0 + 1]>>
    <3>1. 0 < b /\ 0 \in Nat
      OBVIOUS
    <3>2. printnum(0, b) = <<digs[0 + 1]>>
      BY <3>1, PrintnumIs
    <3>. QED
      BY Zenon, <1>6, <3>2
  <2>3. Len(t) = 1 /\ t[1] = digs[1]
    BY <2>2
  <2>. HIDE DEF c, k, t
  <2>4. \A i \in 1 .. 1 : c[0 + i] = t[i]
    BY <1>2, <2>1, <2>3 DEF Stands
  <2>5. c[1] = digs[1]
    BY <2>3, <2>4
  <2>. QED
    BY Zenon, <1>1, <1>3, <2>5 DEF c
<1>. QED
  BY <1>5, <1>6

LEMMA NumeralThere ==
    ASSUME NEW p, NEW u \in Nat, NEW b \in 2 .. 16, NEW base, BaseOf(p, b, base),
           NEW z \in Zeros, NEW e \in Blanks
    PROVE  LET r == Prefix(p, u, b) \o Core(z, u, b, e)
           IN  r \in Texts /\ \E c, y : Numeral(r, base, u, b, c, y, e)
<1> DEFINE k == Core(z, u, b, e)
<1>1. /\ EndsDigits(e, b) /\ Starts(k) /\ Plain(k) /\ k \in Texts
      /\ Front1(k) = k[1] /\ k[1] # "-" /\ Len(k) >= 1
  BY Zenon, CoreFront
<1>2. Legible(z, u, b, e)
  BY Zenon, <1>1 DEF Legible
<1>3. CASE Prefix(p, u, b) = <<>> /\ Announces(k, base, b, k)
  <2>1. Prefix(p, u, b) \o k = k
    <3>. HIDE DEF k
    <3>1. <<>> \o k = k
      BY <1>1, NothingBefore
    <3>. QED
      BY Zenon, <1>3, <3>1
  <2>2. Numeral(k, base, u, b, k, z, e)
    BY Zenon, <1>1, <1>2, <1>3 DEF Numeral
  <2>. QED
    BY Zenon, <1>1, <2>1, <2>2
<1>4. CASE Prefix(p, u, b) = <<"0", "x">> /\ b = 16 /\ base = 16
  <2>. HIDE DEF k
  <2>1. /\ Announces(<<"0", "x">> \o k, 16, 16, k)
        /\ Starts(<<"0", "x">> \o k) /\ Front1(<<"0", "x">> \o k) # "-"
    BY <1>1, HexAnnounced
  <2>2. Numeral(Prefix(p, u, b) \o k, base, u, b, k, z, e)
    BY Zenon, <1>2, <1>4, <2>1 DEF Numeral, k
  <2>3. Prefix(p, u, b) \o k \in Texts
    BY Zenon, <2>2 DEF Numeral, Starts
  <2>. QED
    BY Zenon, <2>2, <2>3 DEF k
<1>5. CASE Prefix(p, u, b) = <<"0">> /\ b = 8 /\ base = 0
  <2> DEFINE y == <<"0">> \o z
             c == Core(y, u, b, e)
  <2>1. y \in Zeros /\ y # <<>>
    <3>1. y \in Zeros
      BY ZerosMore
    <3>2. y # <<>>
      BY DEF Zeros
    <3>. QED
      BY <3>1, <3>2
  <2>2. <<"0">> \o k = c
    BY Zenon, <1>1, CoreMore DEF EndsDigits
  <2>. HIDE DEF y
  <2>3. /\ Starts(c) /\ Plain(c) /\ c \in Texts
        /\ Front1(c) = c[1] /\ c[1] # "-"
    BY Zenon, <2>1, CoreFront
  <2>4. Front1(c) = "0"
    BY Zenon, <2>1, ZeroFront
  <2>. HIDE DEF c, k
  <2>5. Announces(c, 0, 8, c)
    BY <2>3, <2>4, OctalAnnounced
  <2>6. Legible(y, u, b, e)
    BY Zenon, <1>1, <2>1 DEF Legible
  <2>7. Numeral(c, base, u, b, c, y, e)
    BY Zenon, <1>5, <2>3, <2>5, <2>6 DEF Numeral, c
  <2>. QED
    BY Zenon, <1>5, <2>2, <2>3, <2>7 DEF k
\* Which of the three it is.
<1>6. CASE b = 10 /\ base = 10
  <2>1. Prefix(p, u, b) = <<>>
    BY <1>6 DEF Prefix
  <2>. HIDE DEF k
  <2>2. Announces(k, base, b, k)
    BY <1>1, <1>6, NothingAnnounced
  <2>. QED
    BY Zenon, <1>3, <2>1, <2>2
<1>7. CASE b = 16 /\ base = 16
  <2>1. Prefix(p, u, b) = <<>> \/ Prefix(p, u, b) = <<"0", "x">>
    BY <1>7 DEF Prefix
  <2>. HIDE DEF k
  <2>2. Announces(k, base, b, k)
    BY <1>1, <1>7, NothingAnnounced
  <2>. QED
    BY Zenon, <1>3, <1>4, <1>7, <2>1, <2>2
<1>8. CASE b = 8 /\ base = 8 /\ ~p.altfmt
  <2>1. Prefix(p, u, b) = <<>>
    BY <1>8 DEF Prefix
  <2>. HIDE DEF k
  <2>2. Announces(k, base, b, k)
    BY <1>1, <1>8, NothingAnnounced
  <2>. QED
    BY Zenon, <1>3, <2>1, <2>2
<1>9. CASE b = 8 /\ base = 0 /\ p.altfmt
  <2>1. CASE u = 0
    <3>1. Prefix(p, u, b) = <<>>
      BY <2>1 DEF Prefix
    <3>2. Front1(k) = "0"
      BY Zenon, <2>1, ZeroFront
    <3>. HIDE DEF k
    <3>3. Announces(k, base, b, k)
      BY <1>1, <1>9, <3>2, OctalAnnounced
    <3>. QED
      BY Zenon, <1>3, <3>1, <3>3
  <2>2. CASE u # 0
    <3>1. Prefix(p, u, b) = <<"0">>
      BY <1>9, <2>2 DEF Prefix
    <3>. QED
      BY Zenon, <1>5, <1>9, <3>1
  <2>. QED
    BY Zenon, <2>1, <2>2
<1>10. \/ b = 10 /\ base = 10
       \/ b = 16 /\ base = 16
       \/ b = 8 /\ base = 8 /\ ~p.altfmt
       \/ b = 8 /\ base = 0 /\ p.altfmt
  BY DEF BaseOf
<1>. QED
  BY Zenon, <1>6, <1>7, <1>8, <1>9, <1>10

\* What number_text writes is a sign and a numeral behind blanks.
Written(t, p, sg, base, u, b, w, r, c, y, e) ==
    /\ t = w \o (sg \o r) /\ Numeral(r, base, u, b, c, y, e)
    /\ w \in Blanks /\ r \in Texts

LEMMA NumberWritten ==
    ASSUME NEW p, p.length \in Nat, NEW sg \in Texts, NEW u \in Nat, NEW b \in 2 .. 16,
           NEW base, BaseOf(p, b, base)
    PROVE  \E w, r, c, y, e : Written(number_text(p, sg, u, b), p, sg, base, u, b, w, r, c, y, e)
<1>1. PICK w \in Blanks, z \in Zeros, e \in Blanks :
          number_text(p, sg, u, b) = w \o (sg \o (Prefix(p, u, b) \o Core(z, u, b, e)))
  <2>1. Laid(p, sg, u, b)
    BY NumberIs
  <2>. QED
    BY Zenon, <2>1 DEF Laid
<1> DEFINE r == Prefix(p, u, b) \o Core(z, u, b, e)
<1>2. r \in Texts /\ \E c, y : Numeral(r, base, u, b, c, y, e)
  BY Zenon, NumeralThere
<1>. HIDE DEF r
<1>3. PICK c, y : Numeral(r, base, u, b, c, y, e)
  BY Zenon, <1>2
<1>4. Written(number_text(p, sg, u, b), p, sg, base, u, b, w, r, c, y, e)
  BY Zenon, <1>1, <1>2, <1>3 DEF Written, r
<1>. QED
  BY Zenon, <1>4

\* strtoul reads it.
LEMMA UnsignedRead ==
    ASSUME NEW p, p.length \in Nat, NEW u \in Nat, u <= 2 * Half - 1, NEW b \in 2 .. 16,
           NEW base, BaseOf(p, b, base)
    PROVE  strtoul(number_text(p, <<>>, u, b), base).value = u
<1>1. <<>> \in Texts
  BY DEF Texts
<1>2. PICK w, r, c, y, e : Written(number_text(p, <<>>, u, b), p, <<>>, base, u, b, w, r, c, y, e)
  BY Zenon, <1>1, NumberWritten
<1>3. /\ number_text(p, <<>>, u, b) = w \o (<<>> \o r) /\ Numeral(r, base, u, b, c, y, e)
      /\ w \in Blanks /\ r \in Texts
  BY Zenon, <1>2 DEF Written
<1>4. <<>> \o r = r
  BY <1>3, NothingBefore
<1>5. strtoul(w \o r, base).value = u
  BY <1>3, StrtoulReads
<1>. QED
  BY Zenon, <1>3, <1>4, <1>5

LEMMA OneBlank == \A c \in Spaces : <<c>> \in Blanks
BY DEF Blanks

LEMMA NoBlank == <<>> \in Blanks
BY DEF Blanks

LEMMA BlankSign ==
    ASSUME NEW sg, sg \in {<<"+">>, <<" ">>, <<>>}, sg # <<"+">>
    PROVE  sg \in Blanks
<1>1. <<>> \in Blanks
  BY Zenon, NoBlank
<1>2. <<" ">> \in Blanks
  BY Zenon, OneBlank, BlankIsSpace
<1>. QED
  BY Zenon, <1>1, <1>2

LEMMA MoreBlanks ==
    ASSUME NEW w \in Blanks, NEW g \in Blanks, NEW r \in Texts
    PROVE  w \o g \in Blanks /\ w \o (g \o r) = (w \o g) \o r
<1>1. w \o g \in Blanks
  BY DEF Blanks
<1>2. w \in Texts /\ g \in Texts
  BY Zenon, BlanksAre
<1>3. Associative(w, g, r)
  BY Zenon, <1>2, AssociateAll
<1>. QED
  BY Zenon, <1>1, <1>3 DEF Associative

\* A numeral behind blanks, and one behind blanks and a minus sign.
Signless(t, base, u, b) ==
    \E w, r, c, y, e :
        t = w \o r /\ Numeral(r, base, u, b, c, y, e) /\ w \in Blanks /\ r \in Texts

Minus(t, base, u, b) ==
    \E w, r, c, y, e :
        /\ t = w \o (<<"-">> \o r) /\ Numeral(r, base, u, b, c, y, e)
        /\ w \in Blanks /\ r \in Texts

\* What stands behind the blanks of a positive number.
LEMMA PositiveWritten ==
    ASSUME NEW p, p.length \in Nat, p.sign \in Blanks, NEW v \in long, v >= 0, NEW b \in 2 .. 16,
           NEW base, BaseOf(p, b, base)
    PROVE  Signless(signed_text(p, v, b), base, v, b)
<1>1. v \in Nat /\ signed_text(p, v, b) = number_text(p, p.sign, v, b)
  <2>1. v \in Int
    BY HalfType DEF long
  <2>2. v \in Nat
    BY <2>1
  <2>3. (IF v >= 0 THEN p.sign ELSE <<"-">>) = p.sign /\ (IF v >= 0 THEN v ELSE -v) = v
    OBVIOUS
  <2>. QED
    BY Zenon, <2>2, <2>3 DEF signed_text
<1> DEFINE g == p.sign
<1>2. g \in Blanks /\ g \in Texts
  BY Zenon, BlanksAre
<1>3. PICK w, r, c, y, e : Written(number_text(p, g, v, b), p, g, base, v, b, w, r, c, y, e)
  BY Zenon, <1>1, <1>2, NumberWritten
<1>4. /\ number_text(p, g, v, b) = w \o (g \o r) /\ Numeral(r, base, v, b, c, y, e)
      /\ w \in Blanks /\ r \in Texts
  BY Zenon, <1>3 DEF Written
<1>5. signed_text(p, v, b) = w \o (g \o r)
  BY Zenon, <1>1, <1>4
<1>. HIDE DEF g
<1>6. w \o g \in Blanks /\ w \o (g \o r) = (w \o g) \o r
  BY Zenon, <1>2, <1>4, MoreBlanks
<1>7. signed_text(p, v, b) = (w \o g) \o r
  BY Zenon, <1>5, <1>6
<1>. QED
  BY Zenon, <1>4, <1>6, <1>7 DEF Signless

LEMMA MinusChar == "-" \in Chars
BY Zenon, NumeralsAssumption

\* And of a negative one: a minus sign.
LEMMA NegativeWritten ==
    ASSUME NEW p, p.length \in Nat, NEW v \in long, v < 0, NEW b \in 2 .. 16,
           NEW base, BaseOf(p, b, base)
    PROVE  Minus(signed_text(p, v, b), base, -v, b)
<1>1. -v \in Nat /\ signed_text(p, v, b) = number_text(p, <<"-">>, -v, b)
  <2>1. v \in Int
    BY HalfType DEF long
  <2>2. -v \in Nat
    BY <2>1
  <2>3. (IF v >= 0 THEN p.sign ELSE <<"-">>) = <<"-">> /\ (IF v >= 0 THEN v ELSE -v) = -v
    BY <2>1
  <2>. QED
    BY Zenon, <2>2, <2>3 DEF signed_text
<1>2. <<"-">> \in Texts
  BY MinusChar, OneText
<1> DEFINE u == -v
           t == signed_text(p, v, b)
<1>3. PICK w, r, c, y, e : Written(number_text(p, <<"-">>, u, b), p, <<"-">>, base, u, b, w, r, c, y, e)
  BY Zenon, <1>1, <1>2, NumberWritten
<1>4. /\ number_text(p, <<"-">>, u, b) = w \o (<<"-">> \o r) /\ Numeral(r, base, u, b, c, y, e)
      /\ w \in Blanks /\ r \in Texts
  BY Zenon, <1>3 DEF Written
<1>. QED
  BY Zenon, <1>1, <1>4 DEF Minus

\* strtol reads it.
LEMMA SignedRead ==
    ASSUME NEW p, p.length \in Nat, p.sign \in Blanks, NEW v \in long, NEW b \in 2 .. 16,
           NEW base, BaseOf(p, b, base)
    PROVE  strtol(signed_text(p, v, b), base).value = v
<1>1. CASE v >= 0
  <2>0. Signless(signed_text(p, v, b), base, v, b)
    BY <1>1, PositiveWritten
  <2>1. PICK w, r, c, y, e :
              /\ signed_text(p, v, b) = w \o r /\ Numeral(r, base, v, b, c, y, e)
              /\ w \in Blanks /\ r \in Texts
    BY Zenon, <2>0 DEF Signless
  <2>2. v < Half
    BY HalfType DEF long
  <2>3. strtol(w \o r, base).value = v
    BY Zenon, <2>1, <2>2, StrtolReads
  <2>. QED
    BY Zenon, <2>1, <2>3
<1>2. CASE v < 0
  <2>0. Minus(signed_text(p, v, b), base, -v, b)
    BY <1>2, NegativeWritten
  <2>1. PICK w, r, c, y, e :
              /\ signed_text(p, v, b) = w \o (<<"-">> \o r) /\ Numeral(r, base, -v, b, c, y, e)
              /\ w \in Blanks /\ r \in Texts
    BY Zenon, <2>0 DEF Minus
  <2>2. -v <= Half /\ -(-v) = v
    BY HalfType DEF long
  <2>3. strtol(w \o (<<"-">> \o r), base).value = -(-v)
    BY Zenon, <2>1, <2>2, StrtolReadsMinus
  <2>. QED
    BY Zenon, <2>1, <2>2, <2>3
<1>3. v >= 0 \/ v < 0
  BY HalfType DEF long
<1>. QED
  BY Zenon, <1>1, <1>2, <1>3

\* A numeral in base 10 is its digits.
LEMMA DecimalCore ==
    ASSUME NEW r, NEW u, NEW c, NEW y, NEW e, Numeral(r, 10, u, 10, c, y, e)
    PROVE  r = Core(y, u, 10, e)
<1>1. Announces(r, 10, 10, c) /\ c = Core(y, u, 10, e) /\ r \in Texts
  BY Zenon DEF Numeral, Starts
<1>2. announced(r, 10).rest = r
  BY DEF announced
<1>. QED
  BY Zenon, <1>1, <1>2 DEF Announces

\* The %d of sscanf reads it.
LEMMA SignedScanned ==
    ASSUME NEW p, p.length \in Nat, p.sign \in Blanks, NEW v \in long
    PROVE  signed_number(skip_space(signed_text(p, v, 10)), 10).value = v
<1>. BaseOf(p, 10, 10) /\ 10 \in 2 .. 16
  BY DEF BaseOf
<1>1. CASE v >= 0
  <2>0. Signless(signed_text(p, v, 10), 10, v, 10)
    BY <1>1, PositiveWritten
  <2>1. PICK w, r, c, y, e :
              /\ signed_text(p, v, 10) = w \o r /\ Numeral(r, 10, v, 10, c, y, e)
              /\ w \in Blanks /\ r \in Texts
    BY Zenon, <2>0 DEF Signless
  <2>2. v < Half
    BY HalfType DEF long
  <2>3. Starts(r) /\ Front1(r) # "-" /\ Legible(y, v, 10, e)
    BY Zenon, <2>1 DEF Numeral
  <2>4. skip_space(w \o r) = r
    BY Zenon, <2>1, <2>3, SkipsBlanks
  <2>5. r = Core(y, v, 10, e)
    BY <2>1, DecimalCore
  <2>6. signed_number(r, 10).value = v
    BY <2>1, <2>2, <2>3, <2>5, SignedNumberReads
  <2>. QED
    BY Zenon, <2>1, <2>4, <2>6
<1>2. CASE v < 0
  <2>0. Minus(signed_text(p, v, 10), 10, -v, 10)
    BY <1>2, NegativeWritten
  <2>1. PICK w, r, c, y, e :
              /\ signed_text(p, v, 10) = w \o (<<"-">> \o r) /\ Numeral(r, 10, -v, 10, c, y, e)
              /\ w \in Blanks /\ r \in Texts
    BY Zenon, <2>0 DEF Minus
  <2> DEFINE u == -v
             t == <<"-">> \o r
  <2>2. u <= Half /\ -u = v
    BY HalfType DEF long
  <2>3. Starts(r) /\ Front1(r) # "-" /\ Legible(y, u, 10, e)
    BY Zenon, <2>1 DEF Numeral
  <2>4. Starts(t)
    BY Zenon, <2>1, MinusText
  <2>. HIDE DEF t
  <2>5. skip_space(w \o t) = t
    BY Zenon, <2>1, <2>4, SkipsBlanks
  <2>6. r = Core(y, u, 10, e)
    BY <2>1, DecimalCore
  <2>. HIDE DEF u
  <2>7. signed_number(<<"-">> \o r, 10).value = -u
    BY <2>1, <2>2, <2>3, <2>6, SignedNumberReads
  <2>. QED
    BY Zenon, <2>1, <2>2, <2>5, <2>7 DEF t
<1>3. v >= 0 \/ v < 0
  BY HalfType DEF long
<1>. QED
  BY Zenon, <1>1, <1>2, <1>3

LEMMA LongOfCall ==
    ASSUME call \in Calls, Front1(call.fmt) = "%", D.conv \in Numeric, ~(D.longopt > 1)
    PROVE  Arg \in long
BY ArgOfCall DEF integers

LEMMA ArgWrapped ==
    ASSUME call \in Calls, Front1(call.fmt) = "%", D.conv \in Numeric
    PROVE  wrap_unsigned(Arg) \in Nat /\ wrap_unsigned(Arg) <= 2 * Half - 1
<1>1. Arg \in Int
  BY ArgOfCall
<1> DEFINE v == Arg
<1>2. v \in Int
  BY <1>1
<1>. HIDE DEF v
<1>3. wrap_unsigned(v) \in 0 .. (2 * Half - 1)
  BY <1>2, HalfType DEF wrap_unsigned
<1>4. wrap_unsigned(v) \in Nat /\ wrap_unsigned(v) <= 2 * Half - 1
  BY <1>3, HalfType
<1>. QED
  BY Zenon, <1>4 DEF v

\* A pointer without the alternate form: 0x and its digits.
LEMMA PointerRead ==
    ASSUME call \in Calls, Front1(call.fmt) = "%", D.conv = "p", ~D.altfmt
    PROVE  strtoul(pointer_text(D, wrap_unsigned(Arg)), 16).value = wrap_unsigned(Arg)
<1> DEFINE q == [D EXCEPT !.padc = "0", !.length = 8]
           u == wrap_unsigned(Arg)
<1>1. u \in Nat /\ u <= 2 * Half - 1
  BY ArgWrapped DEF Numeric
<1>2. q.padc = "0" /\ q.length = 8 /\ q.altfmt = D.altfmt
  BY DomainOfD
<1>3. pointer_text(D, u) = <<"0", "x">> \o number_text(q, <<>>, u, 16)
  BY Zenon DEF pointer_text
<1>. HIDE DEF q, u
<1>4. q.length \in Nat /\ <<>> \in Texts /\ 16 \in 2 .. 16
  BY <1>2 DEF Texts
<1>5. Laid(q, <<>>, u, 16)
  BY <1>1, <1>4, NumberIs
<1>6. PICK w \in Blanks, z \in Zeros, e \in Blanks :
          /\ number_text(q, <<>>, u, 16) = w \o (<<>> \o (Prefix(q, u, 16) \o Core(z, u, 16, e)))
          /\ q.padc = "0" => w = <<>>
  BY Zenon, <1>5 DEF Laid
<1> DEFINE k == Core(z, u, 16, e)
<1>7. Prefix(q, u, 16) = <<>>
  BY <1>2 DEF Prefix
<1>8. /\ EndsDigits(e, 16) /\ Starts(k) /\ Plain(k) /\ k \in Texts
      /\ Front1(k) = k[1] /\ k[1] # "-" /\ Len(k) >= 1
  BY Zenon, <1>1, <1>4, CoreFront
<1>9. Legible(z, u, 16, e)
  BY Zenon, <1>1, <1>4, <1>8 DEF Legible
<1>10. k = Core(z, u, 16, e)
  OBVIOUS
<1>. HIDE DEF k
<1>11. <<>> \o (<<>> \o (<<>> \o k)) = k
  BY <1>8, NothingBefore
<1>12. number_text(q, <<>>, u, 16) = k
  BY Zenon, <1>2, <1>6, <1>7, <1>10, <1>11
<1> DEFINE r == <<"0", "x">> \o k
<1>13. Announces(r, 16, 16, k) /\ Starts(r) /\ Front1(r) # "-"
  BY <1>8, HexAnnounced
<1>14. pointer_text(D, u) = r /\ r \in Texts
  BY Zenon, <1>3, <1>12, <1>13 DEF Starts
<1>. HIDE DEF r
<1>15. Numeral(r, 16, u, 16, k, z, e)
  BY Zenon, <1>9, <1>10, <1>13 DEF Numeral
<1>16. strtoul(<<>> \o r, 16).value = u
  BY <1>1, <1>15, NoBlank, StrtoulReads
<1>17. <<>> \o r = r
  BY <1>14, NothingBefore
<1>. QED
  BY Zenon, <1>14, <1>16, <1>17 DEF u

\* Whatever the width, the flags, the padding and the number: strtol and strtoul read
\* back what printf has written, and so does the %d of sscanf (doprnt.c, strtol.c,
\* strtoul.c, doscan.c).
THEOREM NumbersAreReadBack == Spec => []ReadsBackWhatItPrints
<1>1. ASSUME Directed PROVE ReadsBackWhatItPrints
  <2>. Directed
    BY <1>1
  <2>1. ASSUME PrintingLong({"d"}), D.sign # <<"+">>
        PROVE  strtol(out, 10).value = Arg /\ signed_number(skip_space(out), 10).value = Arg
    <3>1. /\ call \in Calls /\ Front1(call.fmt) = "%" /\ D.conv \in {"d"}
          /\ D.conv \in FieldConvs => out = FieldText(D, Arg)
      BY Zenon, <2>1, WhatIsPrinted DEF PrintingLong
    <3>2. D.conv = "d" /\ D.conv \in FieldConvs
      BY <3>1 DEF FieldConvs
    <3>3. out = signed_text(D, Arg, 10)
      BY <3>1, <3>2 DEF FieldText
    <3>4. D.length \in Nat /\ D.sign \in Blanks
      BY Zenon, <2>1, <3>1, DirectiveOfCall, BlankSign
    <3>5. Arg \in long
      BY <2>1, <3>1, <3>2, LongOfCall DEF Numeric, PrintingLong
    <3>6. BaseOf(D, 10, 10) /\ 10 \in 2 .. 16
      BY DEF BaseOf
    <3>. QED
      BY <3>3, <3>4, <3>5, <3>6, SignedRead, SignedScanned
  <2>2. ASSUME PrintingLong({"z"}), D.sign # <<"+">>
        PROVE  strtol(out, 16).value = Arg
    <3>1. /\ call \in Calls /\ Front1(call.fmt) = "%" /\ D.conv \in {"z"}
          /\ D.conv \in FieldConvs => out = FieldText(D, Arg)
      BY Zenon, <2>2, WhatIsPrinted DEF PrintingLong
    <3>2. D.conv = "z" /\ D.conv \in FieldConvs
      BY <3>1 DEF FieldConvs
    <3>3. out = signed_text(D, Arg, 16)
      BY <3>1, <3>2 DEF FieldText
    <3>4. D.length \in Nat /\ D.sign \in Blanks
      BY Zenon, <2>2, <3>1, DirectiveOfCall, BlankSign
    <3>5. Arg \in long
      BY <2>2, <3>1, <3>2, LongOfCall DEF Numeric, PrintingLong
    <3>6. BaseOf(D, 16, 16) /\ 16 \in 2 .. 16
      BY DEF BaseOf
    <3>. QED
      BY <3>3, <3>4, <3>5, <3>6, SignedRead
  <2>3. ASSUME NEW conv1 \in {"u", "o", "x"}, NEW b \in 2 .. 16, NEW base, PrintingLong({conv1}),
               BaseOf(D, b, base),
               b = (IF conv1 = "u" THEN 10 ELSE IF conv1 = "x" THEN 16 ELSE 8)
        PROVE  strtoul(out, base).value = wrap_unsigned(Arg)
    <3>1. /\ call \in Calls /\ Front1(call.fmt) = "%" /\ D.conv \in {conv1}
          /\ D.conv \in FieldConvs => out = FieldText(D, Arg)
      BY Zenon, <2>3, WhatIsPrinted DEF PrintingLong
    <3>2. D.conv = conv1 /\ D.conv \in FieldConvs
      BY <3>1 DEF FieldConvs
    <3>3. out = number_text(D, <<>>, wrap_unsigned(Arg), b)
      <4>1. unsigned_arg(D, Arg) = wrap_unsigned(Arg)
        BY <2>3 DEF PrintingLong, unsigned_arg
      <4>. QED
        BY <2>3, <3>1, <3>2, <4>1 DEF FieldText
    <3>4. D.length \in Nat
      BY Zenon, <3>1, DirectiveOfCall
    <3>5. wrap_unsigned(Arg) \in Nat /\ wrap_unsigned(Arg) <= 2 * Half - 1
      BY <3>1, <3>2, ArgWrapped DEF Numeric
    <3>. QED
      BY <2>3, <3>3, <3>4, <3>5, UnsignedRead
  <2>4. PrintingLong({"u"}) => strtoul(out, 10).value = wrap_unsigned(Arg)
    <3>1. BaseOf(D, 10, 10) /\ 10 \in 2 .. 16 /\ "u" \in {"u", "o", "x"}
      BY DEF BaseOf
    <3>2. 10 = (IF "u" = "u" THEN 10 ELSE IF "u" = "x" THEN 16 ELSE 8)
      OBVIOUS
    <3>. QED
      BY Zenon, <2>3, <3>1, <3>2
  <2>5. PrintingLong({"o"}) => strtoul(out, IF D.altfmt THEN 0 ELSE 8).value = wrap_unsigned(Arg)
    <3>1. BaseOf(D, 8, IF D.altfmt THEN 0 ELSE 8) /\ 8 \in 2 .. 16 /\ "o" \in {"u", "o", "x"}
      BY DEF BaseOf
    <3>2. 8 = (IF "o" = "u" THEN 10 ELSE IF "o" = "x" THEN 16 ELSE 8)
      OBVIOUS
    <3>. QED
      BY Zenon, <2>3, <3>1, <3>2
  <2>6. PrintingLong({"x"}) => strtoul(out, 16).value = wrap_unsigned(Arg)
    <3>1. BaseOf(D, 16, 16) /\ 16 \in 2 .. 16 /\ "x" \in {"u", "o", "x"}
      BY DEF BaseOf
    <3>2. 16 = (IF "x" = "u" THEN 10 ELSE IF "x" = "x" THEN 16 ELSE 8)
      OBVIOUS
    <3>. QED
      BY Zenon, <2>3, <3>1, <3>2
  <2>7. ASSUME PrintingLong({"x", "p"}), D.conv = "x" \/ ~D.altfmt
        PROVE  strtoul(out, 16).value = wrap_unsigned(Arg)
    <3>1. /\ call \in Calls /\ Front1(call.fmt) = "%" /\ D.conv \in {"x", "p"}
          /\ D.conv = "p" => out = pointer_text(D, unsigned_arg(D, Arg))
      BY Zenon, <2>7, WhatIsPrinted DEF PrintingLong
    <3>2. CASE D.conv = "x"
      <4>1. PrintingLong({"x"})
        BY <2>7, <3>2 DEF PrintingLong, Printing, D
      <4>. QED
        BY Zenon, <2>6, <4>1
    <3>3. CASE D.conv = "p" /\ ~D.altfmt
      <4>1. strtoul(pointer_text(D, wrap_unsigned(Arg)), 16).value = wrap_unsigned(Arg)
        BY <3>1, <3>3, PointerRead
      <4>2. unsigned_arg(D, Arg) = wrap_unsigned(Arg)
        BY <2>7 DEF PrintingLong, unsigned_arg
      <4>. QED
        BY Zenon, <3>1, <3>3, <4>1, <4>2
    <3>. QED
      BY <2>7, <3>1, <3>2, <3>3
  <2>. QED
    BY Zenon, <2>1, <2>2, <2>4, <2>5, <2>7 DEF ReadsBackWhatItPrints
<1>2. Directed => ReadsBackWhatItPrints
  BY <1>1
<1>. QED
  BY <1>2, DirectedIsInvariant, PTL

-----------------------------------------------------------------------------
(* What sscanf does with a text, and with two numbers that printf has written.  *)

(* A number without flags, and what reads it.                              *)

SignOf(v) == IF v < 0 THEN <<"-">> ELSE <<>>
Magnitude(v) == IF v < 0 THEN -v ELSE v

\* A number without flags or width.
Signed(v, b) == SignOf(v) \o printnum(Magnitude(v), b)

LEMMA MagnitudeType ==
    ASSUME NEW v \in long
    PROVE  /\ Magnitude(v) \in Nat /\ Magnitude(v) <= Half /\ v \in Int
           /\ v < 0 => v = -Magnitude(v) /\ SignOf(v) = <<"-">>
           /\ ~(v < 0) => v = Magnitude(v) /\ Magnitude(v) < Half /\ SignOf(v) = <<>>
<1>1. v \in Int /\ v >= -Half /\ v < Half
  BY HalfType DEF long
<1>. QED
  BY <1>1, HalfType DEF Magnitude, SignOf

LEMMA SignText == \A v : SignOf(v) \in Texts
BY MinusChar, OneText DEF SignOf

FlagSigns == {"#", "-", "+", " "}

LEMMA FlagFacts == "d" \notin FlagSigns /\ "x" \notin FlagSigns
BY Zenon DEF FlagSigns

LEMMA LetterFacts ==
    ASSUME NEW c \in {"d", "x"}
    PROVE  /\ c \in Chars /\ c \notin Decimal /\ c \notin FlagSigns
           /\ c # "0" /\ c # "*" /\ c # "-" /\ c # "."
<1>1. c \in Chars
  <2>1. digs[14] = "d" /\ 14 \in 1 .. 16
    BY DEF digs
  <2>2. "d" \in Chars
    BY <2>1, DigitsText
  <2>. QED
    BY Zenon, <2>2, BlankAndZero
<1>2. \A i \in 1 .. 10 : digs[i] # c
  BY DEF digs
<1>3. c \notin Decimal
  BY <1>2 DEF Decimal
<1>4. c \notin FlagSigns
  BY Zenon, FlagFacts
<1>. QED
  BY <1>1, <1>3, <1>4

\* A letter alone is a directive without flags or width.
LEMMA LetterParsed ==
    ASSUME NEW c \in {"d", "x"}
    PROVE  LET p == parse(<<c>>, <<>>)
           IN  p.length = 0 /\ ~p.altfmt
<1> DEFINE f     == <<c>>
           k     == Passed(f, FlagSigns)
           flags == {f[i] : i \in 1 .. k}
           zero  == Front1(Drop(f, k)) = "0"
           width == parse_number(Drop(f, IF zero THEN k + 1 ELSE k), <<>>, 0)
           p     == parse(f, <<>>)
<1>1. /\ p.altfmt = ("#" \in flags)
      /\ p.length = (IF width.value < 0 THEN -width.value ELSE width.value)
  BY DEF parse, directive, FlagSigns
<1>2. f \in Seq(Chars) /\ Len(f) = 1 /\ f[1] = c
  BY LetterFacts
<1>3. k = 0
  <2>1. 0 \in 0 .. Len(f) /\ (\A i \in 1 .. 0 : f[i] \in FlagSigns) /\ f[0 + 1] \notin FlagSigns
    BY <1>2, LetterFacts
  <2>. QED
    BY <1>2, <2>1, PassedIs
<1>4. Drop(f, 0) = f /\ Front1(f) = c
  <2>1. f \in Texts /\ f # <<>> /\ f[1] = c
    BY <1>2 DEF Texts
  <2>. HIDE DEF f
  <2>2. Drop(f, 0) = f
    BY <2>1, DropNothing
  <2>3. Front1(f) = c
    BY <2>1 DEF Front1
  <2>. QED
    BY <2>2, <2>3
<1>5. ~zero
  BY <1>3, <1>4, LetterFacts
<1>6. Passed(f, Decimal) = 0
  <2>1. 0 \in 0 .. Len(f) /\ (\A i \in 1 .. 0 : f[i] \in Decimal) /\ f[0 + 1] \notin Decimal
    BY <1>2, LetterFacts
  <2>. QED
    BY <1>2, <2>1, PassedIs
<1>7. parse_number(f, <<>>, 0).value = 0
  BY <1>4, <1>6, LetterFacts DEF parse_number
<1>8. width.value = 0
  BY <1>3, <1>4, <1>5, <1>7
<1>9. flags = {}
  BY <1>3
<1>. HIDE DEF p, flags, width
<1>10. p.length = 0
  BY <1>1, <1>8
<1>11. ~p.altfmt
  <2>1. "#" \notin flags
    BY <1>9
  <2>. QED
    BY Zenon, <1>1, <2>1
<1>. QED
  BY Zenon, <1>10, <1>11 DEF p

LEMMA NoPad == \A c, k : k \in Int /\ k <= 0 => pad(c, k) = <<>>
<1>. SUFFICES ASSUME NEW c, NEW k \in Int, k <= 0 PROVE pad(c, k) = <<>>
  OBVIOUS
<1>1. pad(c, k) \in Seq({c})
  BY PadIs
<1>2. Len(pad(c, k)) = IF k > 0 THEN k ELSE 0
  BY Zenon, PadIs
<1>3. ~(k > 0)
  OBVIOUS
<1>4. Len(pad(c, k)) = 0
  BY Zenon, <1>2, <1>3
<1>. QED
  BY <1>1, <1>4

LEMMA NumberBare ==
    ASSUME NEW p, p.length = 0, ~p.altfmt, NEW sg \in Texts, NEW u \in Nat, NEW b \in 2 .. 16
    PROVE  number_text(p, sg, u, b) = sg \o printnum(u, b)
<1> DEFINE k == Fill(p, sg, u, b)
           t == printnum(u, b)
<1>1. Prefix(p, u, b) = <<>>
  BY DEF Prefix
<1>2. t \in Texts
  BY NumeralText
<1>. HIDE DEF t
<1>3. k \in Int /\ k <= 0
  <2>1. Len(sg) \in Nat /\ Len(t) \in Nat /\ Len(<<>>) = 0
    BY <1>2 DEF Texts
  <2>2. k = 0 - (Len(sg) + Len(<<>>) + Len(t))
    BY <1>1 DEF Fill, t
  <2>. HIDE DEF k
  <2>. QED
    BY <2>1, <2>2
<1>. HIDE DEF k
<1>4. pad(" ", k) = <<>> /\ pad("0", k) = <<>>
  BY Zenon, <1>3, NoPad
<1>5. BlanksBefore(p, k) = <<>> /\ ZerosBetween(p, k) = <<>> /\ BlanksBehind(p, k) = <<>>
  BY Zenon, <1>4 DEF BlanksBefore, ZerosBetween, BlanksBehind
<1>6. number_text(p, sg, u, b) = ((((<<>> \o sg) \o <<>>) \o <<>>) \o t) \o <<>>
  BY Zenon, <1>1, <1>5, NumberTextIs DEF k, t
<1>7. <<>> \o sg = sg /\ sg \o <<>> = sg /\ sg \o t \in Texts
  BY <1>2, NothingBefore, ConcatText
<1>8. (sg \o t) \o <<>> = sg \o t
  BY <1>7, NothingBefore
<1>. QED
  BY Zenon, <1>6, <1>7, <1>8 DEF t

LEMMA PrintedIs ==
    ASSUME NEW v \in long
    PROVE  Printed(v, "d") = Signed(v, 10) /\ Printed(v, "x") = Signed(v, 16)
<1>1. Magnitude(v) \in Nat /\ SignOf(v) \in Texts
  BY MagnitudeType, SignText
<1>2. ASSUME NEW c \in {"d", "x"}, NEW b \in 2 .. 16
      PROVE  number_text(parse(<<c>>, <<>>), SignOf(v), Magnitude(v), b) = Signed(v, b)
  <2> DEFINE p == parse(<<c>>, <<>>)
  <2>1. p.length = 0 /\ ~p.altfmt
    BY LetterParsed
  <2>. HIDE DEF p
  <2>2. number_text(p, SignOf(v), Magnitude(v), b) = SignOf(v) \o printnum(Magnitude(v), b)
    BY <1>1, <2>1, NumberBare
  <2>. QED
    BY Zenon, <2>2 DEF p, Signed
<1>3. 10 \in 2 .. 16 /\ 16 \in 2 .. 16 /\ "d" \in {"d", "x"} /\ "x" \in {"d", "x"}
  OBVIOUS
<1>4. /\ Printed(v, "d") = number_text(parse(<<"d">>, <<>>), SignOf(v), Magnitude(v), 10)
      /\ Printed(v, "x") = number_text(parse(<<"x">>, <<>>), SignOf(v), Magnitude(v), 16)
  BY DEF Printed, SignOf, Magnitude
<1>. QED
  BY Zenon, <1>2, <1>3, <1>4

\* A text from which a number is read, and e is left.
ReadOff(t, v, b, e) ==
    /\ t \in Texts /\ t # <<>> /\ t[1] \notin Spaces
    /\ signed_number(t, b).value = v /\ signed_number(t, b).rest = e

LEMMA DigitsStart ==
    ASSUME NEW u \in Nat, NEW b \in 2 .. 16, NEW e, EndsDigits(e, b)
    PROVE  LET c == Core(<<>>, u, b, e)
           IN  /\ c \in Texts /\ c # <<>> /\ c[1] \notin Spaces /\ Front1(c) # "-"
               /\ c = printnum(u, b) \o e /\ Legible(<<>>, u, b, e)
<1> DEFINE c == Core(<<>>, u, b, e)
           k == Len(<<>>) + Len(printnum(u, b))
           t == printnum(u, b)
<1>1. <<>> \in Zeros
  BY DEF Zeros
<1>2. c \in Texts /\ k \in 1 .. Len(c) /\ DigitsIn(c, k, b)
  <2>1. CoreFacts(<<>>, u, b, e)
    BY <1>1, CoreIs
  <2>. QED
    BY Zenon, <2>1 DEF CoreFacts
<1>3. Legible(<<>>, u, b, e)
  BY Zenon, <1>1 DEF Legible
<1>4. t \in Texts
  BY NumeralText
<1>5. <<>> \o t = t
  BY <1>4, NothingBefore
<1>6. c = t \o e
  BY Zenon, <1>5 DEF Core
<1>. HIDE DEF c, k, t
<1>7. 1 \in 1 .. k /\ Len(c) \in Nat /\ Len(c) >= 1
  BY <1>2 DEF Texts
<1>8. PICK j \in 1 .. b : c[1] = digs[j]
  BY <1>2, <1>7 DEF DigitsIn
<1>9. j \in 1 .. 16
  OBVIOUS
<1>10. c[1] \notin Spaces /\ c[1] # "-"
  BY <1>8, <1>9, DigitsPlain
<1>11. c # <<>> /\ Front1(c) = c[1]
  BY <1>2, <1>7 DEF Front1
<1>. QED
  BY Zenon, <1>2, <1>3, <1>6, <1>10, <1>11 DEF c, t

LEMMA ShownRead ==
    ASSUME NEW v \in long, NEW b \in 2 .. 16, NEW e, EndsDigits(e, b)
    PROVE  ReadOff(Signed(v, b) \o e, v, b, e) /\ Signed(v, b) \in Texts
<1> DEFINE u == Magnitude(v)
           c == Core(<<>>, u, b, e)
           t == printnum(u, b)
           g == SignOf(v)
<1>1. u \in Nat /\ u <= Half /\ (v < 0 => v = -u /\ g = <<"-">>) /\ (~(v < 0) => v = u /\ u < Half /\ g = <<>>)
  BY MagnitudeType
<1>2. /\ c \in Texts /\ c # <<>> /\ c[1] \notin Spaces /\ Front1(c) # "-"
      /\ c = t \o e /\ Legible(<<>>, u, b, e)
  BY Zenon, <1>1, DigitsStart
<1>3. e \in Texts /\ t \in Texts /\ g \in Texts
  BY <1>1, NumeralText, SignText DEF EndsDigits
<1>4. c = Core(<<>>, u, b, e)
  OBVIOUS
<1>5. Signed(v, b) = g \o t
  BY Zenon DEF Signed
<1>. HIDE DEF u, t, g
<1>6. g \o t \in Texts
  BY <1>3, ConcatText
<1>7. (g \o t) \o e = g \o c
  <2>1. Associative(g, t, e)
    BY Zenon, <1>3, AssociateAll
  <2>. QED
    BY Zenon, <1>2, <2>1 DEF Associative
<1>8. /\ u < Half => signed_number(c, b).value = u
      /\ u < Half => signed_number(c, b).rest = e
      /\ u <= Half => signed_number(<<"-">> \o c, b).value = -u
      /\ u <= Half => signed_number(<<"-">> \o c, b).rest = e
  BY <1>2, <1>4, SignedNumberReads
<1>. HIDE DEF c
<1>9. ReadOff(g \o c, v, b, e)
  <2>1. CASE v < 0
    <3> DEFINE r == <<"-">> \o c
    <3>1. Starts(r)
      BY <1>2, MinusText
    <3>2. g \o c = r
      BY <1>1, <2>1
    <3>3. signed_number(r, b).value = v /\ signed_number(r, b).rest = e
      BY Zenon, <1>1, <1>8, <2>1
    <3>. HIDE DEF r
    <3>. QED
      BY Zenon, <3>1, <3>2, <3>3 DEF ReadOff, Starts
  <2>2. CASE ~(v < 0)
    <3>1. g \o c = c
      BY <1>1, <1>2, <2>2, NothingBefore
    <3>2. signed_number(c, b).value = v /\ signed_number(c, b).rest = e
      BY Zenon, <1>1, <1>8, <2>2
    <3>. QED
      BY Zenon, <1>2, <3>1, <3>2 DEF ReadOff
  <2>. QED
    BY Zenon, <2>1, <2>2
<1>. QED
  BY Zenon, <1>5, <1>6, <1>7, <1>9

(* sscanf and the ends of the text and of the format.                      *)

\* A text that ends in white space, and a format that has white space.
BlankEnd(t) == t # <<>> /\ isspace(t[Len(t)])
HasSpace(f) == \E i \in DOMAIN f : isspace(f[i])

\* e is what f ends with.
EndOf(f, e) == Len(e) <= Len(f) /\ \A i \in 1 .. Len(e) : e[i] = f[Len(f) - Len(e) + i]

\* Until the format has passed white space, the end of the text is not read.
EndUnread == (BlankEnd(text) /\ ~HasSpace(scan_call.fmt)) => (scan # "outside" /\ at < Len(text))

CutShort == scan = "past_format" => scan_call.fmt[Len(scan_call.fmt)] \in {"%", "*"}

ScanTyped ==
    /\ scan_call \in ScanCalls /\ text \in Texts
    /\ scan_call.fmt \in Seq(Chars \ {NUL}) /\ sfmt \in Seq(Chars \ {NUL})
    /\ EndOf(scan_call.fmt, sfmt)
    /\ at \in Nat /\ at <= Len(text)
    /\ EndUnread
    /\ CutShort

LEMMA ScanCallsAreLegal ==
    \A c \in ScanCalls : c.text \in Seq(Chars \ {NUL}) /\ c.fmt \in Seq(Chars \ {NUL})
BY Zenon, LibraryAssumption

LEMMA InputIs ==
    ASSUME text \in Texts, at \in Nat, at <= Len(text)
    PROVE  /\ Input \in Texts /\ Len(Input) \in Nat /\ Len(Input) = Len(text) - at
           /\ \A i \in 1 .. Len(Input) : Input[i] = text[at + i]
BY DEF Texts, Input, Drop

\* As long as it is not read, the input has the end of the text.
LEMMA InputEnd ==
    ASSUME text \in Texts, at \in Nat, at < Len(text), BlankEnd(text)
    PROVE  BlankEnd(Input) /\ Len(Input) \in Nat /\ Len(Input) = Len(text) - at
<1>1. /\ Input \in Texts /\ Len(Input) \in Nat /\ Len(Input) = Len(text) - at /\ Len(text) \in Nat
      /\ \A i \in 1 .. Len(Input) : Input[i] = text[at + i]
  BY InputIs DEF Texts
<1>2. Len(Input) \in 1 .. Len(Input) /\ at + Len(Input) = Len(text)
  BY <1>1
<1>3. Input[Len(Input)] = text[Len(text)] /\ Input # <<>>
  BY <1>1, <1>2 DEF Texts
<1>. QED
  BY <1>1, <1>3 DEF BlankEnd

LEMMA PassedFits ==
    ASSUME NEW t \in Texts, NEW C
    PROVE  Passed(t, C) \in Nat /\ Passed(t, C) <= Len(t)
<1>1. Passed(t, C) \in 0 .. Len(t) /\ Len(t) \in Nat
  BY PassedStops DEF Texts
<1>. QED
  BY <1>1

\* A loop that does not pass white space stops in front of an end in white space.
LEMMA StopsAtBlank ==
    ASSUME NEW t \in Texts, NEW C, \A c \in C : ~isspace(c), BlankEnd(t)
    PROVE  Passed(t, C) < Len(t)
<1> DEFINE k == Passed(t, C)
<1>1. k \in 0 .. Len(t) /\ (\A i \in 1 .. k : t[i] \in C) /\ Len(t) \in Nat
  BY PassedStops DEF Texts
<1>2. Len(t) >= 1 /\ isspace(t[Len(t)])
  BY DEF BlankEnd, Texts
<1>. HIDE DEF k
<1>3. k # Len(t)
  <2>. SUFFICES ASSUME k = Len(t) PROVE FALSE
    OBVIOUS
  <2>1. k \in 1 .. k
    BY <1>1, <1>2
  <2>2. t[k] \in C
    BY <1>1, <2>1
  <2>. QED
    BY <1>2, <2>2
<1>4. k < Len(t)
  BY <1>1, <1>3
<1>. QED
  BY <1>4 DEF k

\* What a number leaves is no longer than the text, and has its blank end.
LEMMA RestFits ==
    ASSUME NEW t \in Texts, NEW b \in 2 .. 16
    PROVE  LET e == signed_number(t, b).rest
           IN  Len(e) \in Nat /\ Len(e) <= Len(t) /\ (BlankEnd(t) => Len(e) > 0)
<1> DEFINE neg == Front1(t) = "-"
           m   == IF neg THEN 1 ELSE 0
           r   == Drop(t, m)
           C   == digits_of(b)
           k   == Passed(r, C)
           e   == signed_number(t, b).rest
<1>1. e = Drop(r, k)
  BY DEF signed_number, read_digits
<1>2. m \in 0 .. 1 /\ m \in Nat /\ r \in Texts
  BY DropText
<1>3. k \in Nat /\ k <= Len(r)
  BY <1>2, PassedFits
<1>4. BlankEnd(t) => BlankEnd(r) /\ k < Len(r)
  <2>. SUFFICES ASSUME BlankEnd(t) PROVE BlankEnd(r) /\ k < Len(r)
    OBVIOUS
  <2>1. t # <<>> /\ isspace(t[Len(t)]) /\ Len(t) \in Nat /\ Len(t) >= 1
    BY DEF BlankEnd, Texts
  <2>2. Front1(t) = t[1]
    BY <2>1 DEF Front1
  <2>3. ~isspace("-")
    BY DigitsPlain DEF isspace
  <2>4. m < Len(t)
    <3>1. CASE neg
      <4>1. Len(t) # 1
        BY <2>1, <2>2, <2>3, <3>1
      <4>2. m = 1
        BY <3>1
      <4>. HIDE DEF m, neg
      <4>. QED
        BY <2>1, <4>1, <4>2
    <3>2. CASE ~neg
      BY <2>1, <3>2
    <3>. QED
      BY <3>1, <3>2
  <2>. HIDE DEF m
  <2>5. Len(r) = Len(t) - m /\ \A i \in 1 .. (Len(t) - m) : r[i] = t[m + i]
    BY <1>2, <2>1, <2>4 DEF Drop, Texts
  <2>. HIDE DEF r
  <2>6. Len(r) \in 1 .. (Len(t) - m) /\ m + Len(r) = Len(t)
    BY <1>2, <2>1, <2>4, <2>5
  <2>7. r[Len(r)] = t[Len(t)] /\ r # <<>>
    BY <1>2, <2>5, <2>6 DEF Texts
  <2>8. BlankEnd(r)
    BY <2>1, <2>7 DEF BlankEnd
  <2>9. \A c \in C : ~isspace(c)
    BY SpaceFacts, NoDigit DEF isspace
  <2>. HIDE DEF C
  <2>10. k < Len(r)
    BY <1>2, <2>8, <2>9, StopsAtBlank
  <2>. QED
    BY <2>8, <2>10
<1>. HIDE DEF k, m
<1>5. Len(t) \in Nat /\ Len(r) \in Nat /\ Len(r) <= Len(t)
  BY <1>2 DEF Texts, Drop
<1>. HIDE DEF r, e
<1>6. Len(e) \in Nat /\ Len(e) = Len(r) - k
  BY <1>1, <1>2, <1>3, <1>5 DEF Texts, Drop
<1>7. Len(e) \in Nat /\ Len(e) <= Len(t) /\ (BlankEnd(t) => Len(e) > 0)
  BY <1>3, <1>4, <1>5, <1>6
<1>. QED
  BY Zenon, <1>7 DEF e

LEMMA DropAt ==
    ASSUME NEW C, NEW t \in Seq(C), NEW k \in Nat, k <= Len(t)
    PROVE  /\ Drop(t, k) \in Seq(C) /\ Len(Drop(t, k)) = Len(t) - k
           /\ \A i \in 1 .. (Len(t) - k) : Drop(t, k)[i] = t[k + i]
BY DEF Drop

LEMMA FormatLeft ==
    ASSUME NEW C, NEW t \in Seq(C), NEW k \in Nat
    PROVE  Drop(t, k) \in Seq(C) /\ (t # <<>> => Tail(t) \in Seq(C))
BY DEF Drop

LEMMA EndLeft ==
    ASSUME NEW C, NEW f \in Seq(C), NEW e \in Seq(C), EndOf(f, e), NEW k \in Nat
    PROVE  EndOf(f, Drop(e, k)) /\ (e # <<>> => EndOf(f, Tail(e)))
<1>. Len(f) \in Nat /\ Len(e) \in Nat /\ Len(e) <= Len(f)
     /\ \A i \in 1 .. Len(e) : e[i] = f[Len(f) - Len(e) + i]
  BY DEF EndOf
<1>1. EndOf(f, Drop(e, k))
  <2> DEFINE x == Drop(e, k)
  <2>1. CASE k <= Len(e)
    <3>1. Len(x) = Len(e) - k /\ \A i \in 1 .. (Len(e) - k) : x[i] = e[k + i]
      BY <2>1 DEF Drop
    <3>. HIDE DEF x
    <3>2. ASSUME NEW i \in 1 .. Len(x) PROVE x[i] = f[Len(f) - Len(x) + i]
      <4>1. i \in 1 .. (Len(e) - k) /\ k + i \in 1 .. Len(e)
        BY <2>1, <3>1
      <4>2. Len(f) - Len(e) + (k + i) = Len(f) - Len(x) + i
        BY <3>1, <4>1
      <4>. QED
        BY <3>1, <4>1, <4>2
    <3>3. Len(x) <= Len(f)
      BY <3>1
    <3>. QED
      BY <3>2, <3>3 DEF EndOf, x
  <2>2. CASE ~(k <= Len(e))
    <3>1. x = <<>>
      BY <2>2 DEF Drop
    <3>. HIDE DEF x
    <3>2. EndOf(f, x)
      BY <3>1 DEF EndOf
    <3>. QED
      BY <3>2 DEF x
  <2>. QED
    BY <2>1, <2>2
<1>2. ASSUME e # <<>> PROVE EndOf(f, Tail(e))
  <2> DEFINE x == Tail(e)
  <2>1. Len(x) = Len(e) - 1 /\ Len(e) >= 1 /\ \A i \in 1 .. (Len(e) - 1) : x[i] = e[i + 1]
    BY <1>2
  <2>. HIDE DEF x
  <2>2. ASSUME NEW i \in 1 .. Len(x) PROVE x[i] = f[Len(f) - Len(x) + i]
    <3>1. i \in 1 .. (Len(e) - 1) /\ i + 1 \in 1 .. Len(e)
      BY <2>1
    <3>2. Len(f) - Len(e) + (i + 1) = Len(f) - Len(x) + i
      BY <2>1, <3>1
    <3>. QED
      BY <2>1, <3>1, <3>2
  <2>3. Len(x) <= Len(f)
    BY <2>1
  <2>. QED
    BY <2>2, <2>3 DEF EndOf, x
<1>. QED
  BY <1>1, <1>2

LEMMA StarsAre ==
    ASSUME sfmt \in Seq(Chars \ {NUL})
    PROVE  /\ stars \in Nat /\ Drop(sfmt, 1) \in Seq(Chars \ {NUL})
           /\ stars <= Len(Drop(sfmt, 1)) /\ \A i \in 1 .. stars : Drop(sfmt, 1)[i] = "*"
<1>1. Drop(sfmt, 1) \in Seq(Chars \ {NUL})
  BY FormatLeft
<1>2. /\ Passed(Drop(sfmt, 1), {"*"}) \in 0 .. Len(Drop(sfmt, 1))
      /\ \A i \in 1 .. Passed(Drop(sfmt, 1), {"*"}) : Drop(sfmt, 1)[i] \in {"*"}
  BY <1>1, PassedStops
<1>. QED
  BY <1>1, <1>2 DEF stars

LEMMA ScannedKeeps ==
    ASSUME ScanTyped, Scanning, NEW k \in Nat, k <= Len(Input),
           BlankEnd(Input) => k < Len(Input), NEW x, Scanned(k, x)
    PROVE  ScanTyped'
<1>1. /\ at' = at + k /\ sfmt' = Drop(sfmt, stars + 2)
      /\ scan_call' = scan_call /\ scan' = scan /\ scan = "runs"
  BY DEF Scanned, Scanning
<1>2. text' = text /\ text \in Texts
  BY <1>1 DEF text, ScanTyped
<1>3. sfmt' \in Seq(Chars \ {NUL}) /\ EndOf(scan_call.fmt, sfmt')
  <2>1. stars + 2 \in Nat
    BY StarsAre DEF ScanTyped
  <2>. QED
    BY <1>1, <2>1, FormatLeft, EndLeft DEF ScanTyped
<1>4. at' \in Nat /\ at' <= Len(text)
  <2>1. Len(Input) = Len(text) - at /\ at \in Nat /\ Len(text) \in Nat
    BY InputIs DEF ScanTyped, Texts
  <2>. QED
    BY <1>1, <2>1
<1>5. EndUnread'
  <2>. SUFFICES ASSUME BlankEnd(text), ~HasSpace(scan_call.fmt)
                PROVE  at' < Len(text)
    BY <1>1, <1>2 DEF EndUnread
  <2>1. at \in Nat /\ at < Len(text) /\ Len(text) \in Nat
    BY DEF ScanTyped, EndUnread, Texts
  <2>2. BlankEnd(Input) /\ Len(Input) = Len(text) - at
    BY <1>2, <2>1, InputEnd
  <2>. QED
    BY <1>1, <2>1, <2>2
<1>6. CutShort'
  BY <1>1 DEF CutShort
<1>. QED
  BY <1>1, <1>2, <1>3, <1>4, <1>5, <1>6 DEF ScanTyped

LEMMA StopKeeps ==
    ASSUME ScanTyped, stop("returned")
    PROVE  ScanTyped'
<1>1. UNCHANGED <<scan_call, sfmt, at>> /\ scan' = "returned"
  BY DEF stop
<1>2. text' = text
  BY <1>1 DEF text
<1>. QED
  BY <1>1, <1>2 DEF ScanTyped, EndUnread, CutShort

\* The format's next character is one of the format.
LEMMA FormatHas ==
    ASSUME ScanTyped, sfmt # <<>>, isspace(sfmt[1])
    PROVE  HasSpace(scan_call.fmt)
<1> DEFINE f == scan_call.fmt
           i == Len(f) - Len(sfmt) + 1
<1>1. /\ Len(f) \in Nat /\ Len(sfmt) \in Nat /\ Len(sfmt) <= Len(f) /\ Len(sfmt) >= 1
      /\ DOMAIN f = 1 .. Len(f)
      /\ \A j \in 1 .. Len(sfmt) : sfmt[j] = f[Len(f) - Len(sfmt) + j]
  BY DEF ScanTyped, EndOf
<1>2. 1 \in 1 .. Len(sfmt) /\ i \in 1 .. Len(f)
  BY <1>1
<1>3. sfmt[1] = f[i]
  BY <1>1, <1>2
<1>. QED
  BY <1>1, <1>2, <1>3 DEF HasSpace

\* A format that is left ends inside a directive.
LEMMA CutKeeps ==
    ASSUME ScanTyped, scan_cut
    PROVE  ScanTyped'
<1>1. /\ UNCHANGED <<scan_call, sfmt, at>> /\ scan' = "past_format"
      /\ Front1(sfmt) = "%" /\ conv = NUL /\ scan = "runs"
  BY DEF scan_cut, Conversion, Scanning
<1>2. text' = text
  BY <1>1 DEF text
<1> DEFINE f == scan_call.fmt
           r == Drop(sfmt, 1)
           x == Drop(sfmt, stars + 1)
<1>3. /\ sfmt \in Seq(Chars \ {NUL}) /\ f \in Seq(Chars \ {NUL}) /\ Len(f) \in Nat /\ Len(sfmt) \in Nat
      /\ Len(sfmt) <= Len(f) /\ \A j \in 1 .. Len(sfmt) : sfmt[j] = f[Len(f) - Len(sfmt) + j]
  BY DEF ScanTyped, EndOf
<1>4. sfmt # <<>> /\ sfmt[1] = "%" /\ Len(sfmt) >= 1
  <2>1. sfmt # <<>>
    BY <1>1 DEF Front1, NUL
  <2>. QED
    BY <1>1, <1>3, <2>1 DEF Front1
<1>5. stars \in Nat /\ stars <= Len(r) /\ \A i \in 1 .. stars : r[i] = "*"
  BY <1>3, StarsAre
<1>6. Len(r) = Len(sfmt) - 1 /\ \A i \in 1 .. (Len(sfmt) - 1) : r[i] = sfmt[1 + i]
  BY <1>3, <1>4, DropAt, 1 \in Nat
<1>. HIDE DEF r
<1>7. Len(sfmt) = stars + 1
  <2>. SUFFICES ASSUME Len(sfmt) # stars + 1 PROVE FALSE
    OBVIOUS
  <2>1. stars + 1 \in Nat /\ stars + 1 < Len(sfmt)
    BY <1>3, <1>5, <1>6
  <2>2. Len(x) = Len(sfmt) - (stars + 1) /\ x \in Seq(Chars \ {NUL})
    BY <1>3, <2>1 DEF Drop
  <2>3. Front1(x) = NUL
    BY <1>1 DEF conv
  <2>. HIDE DEF x
  <2>4. x # <<>> /\ x[1] \in Chars \ {NUL}
    BY <1>3, <2>1, <2>2
  <2>. QED
    BY <2>3, <2>4 DEF Front1
<1>8. sfmt[Len(sfmt)] \in {"%", "*"}
  <2>1. CASE stars = 0
    BY <1>4, <1>7, <2>1
  <2>2. CASE stars # 0
    <3>1. stars \in 1 .. stars /\ stars \in 1 .. (Len(sfmt) - 1)
      BY <1>5, <1>7, <2>2
    <3>2. r[stars] = sfmt[1 + stars] /\ r[stars] = "*"
      BY <1>5, <1>6, <3>1
    <3>3. 1 + stars = Len(sfmt)
      BY <1>5, <1>7
    <3>. QED
      BY Zenon, <3>2, <3>3
  <2>. QED
    BY Zenon, <2>1, <2>2
<1>9. f[Len(f)] = sfmt[Len(sfmt)]
  <2>1. Len(sfmt) \in 1 .. Len(sfmt) /\ Len(f) - Len(sfmt) + Len(sfmt) = Len(f)
    BY <1>3, <1>4
  <2>. QED
    BY <1>3, <2>1
<1>10. CutShort'
  BY Zenon, <1>1, <1>8, <1>9 DEF CutShort
<1>11. EndUnread'
  BY <1>1, <1>2 DEF ScanTyped, EndUnread
<1>. QED
  BY <1>1, <1>2, <1>10, <1>11 DEF ScanTyped

LEMMA ScanTypedNext ==
    ASSUME ScanTyped, SNext
    PROVE  ScanTyped'
<1>. /\ scan_call \in ScanCalls /\ text \in Texts /\ sfmt \in Seq(Chars \ {NUL})
     /\ scan_call.fmt \in Seq(Chars \ {NUL}) /\ EndOf(scan_call.fmt, sfmt)
     /\ at \in Nat /\ at <= Len(text) /\ EndUnread /\ CutShort
  BY DEF ScanTyped
<1>0. /\ Input \in Texts /\ Len(Input) \in Nat /\ Len(Input) = Len(text) - at /\ Len(text) \in Nat
      /\ \A i \in 1 .. Len(Input) : Input[i] = text[at + i]
  BY InputIs DEF Texts
<1>1. CASE scan_space
  <2>1. /\ at' = at + Passed(Input, Spaces) /\ sfmt' = Tail(sfmt) /\ sfmt # <<>> /\ isspace(sfmt[1])
        /\ scan_call' = scan_call /\ scan' = scan /\ scan = "runs"
    BY <1>1 DEF scan_space, Scanning
  <2>2. text' = text
    BY <2>1 DEF text
  <2>3. Passed(Input, Spaces) \in Nat /\ Passed(Input, Spaces) <= Len(Input)
    BY <1>0, PassedFits
  <2>4. at' \in Nat /\ at' <= Len(text)
    BY <1>0, <2>1, <2>3
  <2>5. sfmt' \in Seq(Chars \ {NUL}) /\ EndOf(scan_call.fmt, sfmt')
    BY <2>1, FormatLeft, EndLeft
  <2>6. HasSpace(scan_call.fmt)
    BY <2>1, FormatHas
  <2>7. EndUnread' /\ CutShort'
    BY <2>1, <2>6 DEF EndUnread, CutShort
  <2>. QED
    BY <2>1, <2>2, <2>4, <2>5, <2>7 DEF ScanTyped
<1>2. CASE scan_literal
  <2>1. CASE Front1(Input) = sfmt[1]
    <3>1. /\ at' = at + 1 /\ sfmt' = Tail(sfmt) /\ sfmt # <<>> /\ ~isspace(sfmt[1])
          /\ scan_call' = scan_call /\ scan' = scan /\ scan = "runs"
      BY <1>2, <2>1 DEF scan_literal, Scanning
    <3>2. text' = text
      BY <3>1 DEF text
    <3>3. sfmt[1] \in Chars \ {NUL}
      BY <3>1
    <3>4. Front1(Input) # NUL
      BY <2>1, <3>3
    <3>5. Input # <<>> /\ Input[1] = sfmt[1]
      BY Zenon, <2>1, <3>4 DEF Front1
    <3>6. Len(Input) >= 1
      BY <1>0, <3>5 DEF Texts
    <3>7. at' \in Nat /\ at' <= Len(text)
      BY <1>0, <3>1, <3>6
    <3>8. sfmt' \in Seq(Chars \ {NUL}) /\ EndOf(scan_call.fmt, sfmt')
      BY <3>1, FormatLeft, EndLeft
    <3>9. EndUnread'
      <4>. SUFFICES ASSUME BlankEnd(text), ~HasSpace(scan_call.fmt)
                    PROVE  at' < Len(text)
        BY <3>1, <3>2 DEF EndUnread
      <4>1. isspace(text[Len(text)])
        BY DEF BlankEnd
      <4>2. 1 \in 1 .. Len(Input)
        BY <1>0, <3>6
      <4>3. text[at + 1] = sfmt[1]
        BY <1>0, <3>5, <4>2
      <4>4. at + 1 # Len(text)
        BY <3>1, <4>1, <4>3
      <4>. QED
        BY <1>0, <3>1, <3>7, <4>4
    <3>10. CutShort'
      BY <3>1 DEF CutShort
    <3>. QED
      BY <3>1, <3>2, <3>7, <3>8, <3>9, <3>10 DEF ScanTyped
  <2>2. CASE Front1(Input) # sfmt[1]
    <3>1. stop("returned")
      BY <1>2, <2>2 DEF scan_literal
    <3>. QED
      BY <3>1, StopKeeps
  <2>. QED
    BY <2>1, <2>2
<1>3. ASSUME NEW b \in 2 .. 16, Scanning, scan_number(b) PROVE ScanTyped'
  <2> DEFINE m == signed_number(Input, b)
             e == m.rest
  <2>1. Scanned(Len(Input) - Len(e), <<m.value>>)
    BY <1>3 DEF scan_number
  <2>2. Len(e) \in Nat /\ Len(e) <= Len(Input) /\ (BlankEnd(Input) => Len(e) > 0)
    BY <1>0, RestFits
  <2>. HIDE DEF m, e
  <2> DEFINE k == Len(Input) - Len(e)
  <2>3. k \in Nat /\ k <= Len(Input) /\ (BlankEnd(Input) => k < Len(Input))
    BY <1>0, <2>2
  <2>4. Scanned(k, <<m.value>>)
    BY <2>1
  <2>. HIDE DEF k
  <2>. QED
    BY Zenon, <1>3, <2>3, <2>4, ScannedKeeps
<1>4. CASE scan_d
  BY <1>3, <1>4 DEF scan_d, Conversion
<1>5. CASE scan_x
  BY <1>3, <1>5 DEF scan_x, Conversion
<1>6. CASE scan_s
  <2> DEFINE C == Chars \ Spaces
             k == Passed(Input, C)
  <2>1. /\ Scanning /\ conv = "s"
        /\ IF k = Len(Input) THEN stop("outside") ELSE Scanned(k, <<SubSeq(Input, 1, k)>>)
    BY <1>6 DEF scan_s, Conversion
  <2>2. k \in Nat /\ k <= Len(Input)
    BY <1>0, PassedFits
  <2>3. \A c \in C : ~isspace(c)
    BY DEF isspace
  <2>. HIDE DEF C
  <2>4. BlankEnd(Input) => k < Len(Input)
    BY <1>0, <2>3, StopsAtBlank
  <2>. HIDE DEF k
  <2>5. CASE k = Len(Input)
    <3>1. UNCHANGED <<scan_call, sfmt, at>> /\ scan' = "outside"
      BY <2>1, <2>5 DEF stop
    <3>2. text' = text
      BY <3>1 DEF text
    <3>3. ~(BlankEnd(text) /\ ~HasSpace(scan_call.fmt))
      <4>. SUFFICES ASSUME BlankEnd(text), ~HasSpace(scan_call.fmt) PROVE FALSE
        OBVIOUS
      <4>1. at < Len(text)
        BY DEF EndUnread
      <4>2. BlankEnd(Input)
        BY <4>1, InputEnd
      <4>. QED
        BY <1>0, <2>4, <2>5, <4>2
    <3>4. EndUnread' /\ CutShort'
      BY <3>1, <3>2, <3>3 DEF EndUnread, CutShort
    <3>. QED
      BY <3>1, <3>2, <3>4 DEF ScanTyped
  <2>6. CASE k # Len(Input)
    <3>1. Scanned(k, <<SubSeq(Input, 1, k)>>)
      BY <2>1, <2>6
    <3>. QED
      BY <2>1, <2>2, <2>4, <3>1, ScannedKeeps
  <2>. QED
    BY <2>5, <2>6
<1>7. CASE scan_other
  <2>1. Scanning /\ Scanned(0, <<>>)
    BY <1>7 DEF scan_other
  <2>2. 0 \in Nat /\ 0 <= Len(Input) /\ (BlankEnd(Input) => 0 < Len(Input))
    BY <1>0 DEF BlankEnd, Texts
  <2>. QED
    BY <2>1, <2>2, ScannedKeeps
<1>8. CASE scan_end
  BY <1>8, StopKeeps DEF scan_end
<1>9. CASE scan_cut
  BY <1>9, CutKeeps
<1>. QED
  BY <1>1, <1>2, <1>4, <1>5, <1>6, <1>7, <1>8, <1>9 DEF SNext

LEMMA ScanTypedInit ==
    ASSUME SInit
    PROVE  ScanTyped
<1>1. scan_call \in ScanCalls /\ sfmt = scan_call.fmt /\ at = 0 /\ scan = "runs"
  BY DEF SInit
<1>2. scan_call.text \in Seq(Chars \ {NUL}) /\ scan_call.fmt \in Seq(Chars \ {NUL})
  BY Zenon, <1>1, ScanCallsAreLegal
<1>3. text \in Seq(Chars \ {NUL}) /\ sfmt \in Seq(Chars \ {NUL})
  BY <1>1, <1>2 DEF text
<1>4. text \in Texts /\ Len(text) \in Nat
  BY <1>3 DEF Texts
<1>5. 0 \in Nat /\ 0 <= Len(text)
  BY <1>4
<1>6. EndOf(scan_call.fmt, sfmt)
  <2>1. Len(sfmt) \in Nat
    BY <1>3
  <2>2. ASSUME NEW i \in 1 .. Len(sfmt) PROVE Len(sfmt) - Len(sfmt) + i = i
    BY <2>1
  <2>. QED
    BY <1>1, <2>1, <2>2 DEF EndOf
<1>7. EndUnread /\ CutShort
  <2>1. BlankEnd(text) => 0 < Len(text)
    BY <1>4 DEF BlankEnd, Texts
  <2>. QED
    BY <1>1, <2>1 DEF EndUnread, CutShort
<1>. QED
  BY <1>1, <1>2, <1>3, <1>4, <1>5, <1>6, <1>7 DEF ScanTyped

(* Two numbers with a blank between them.                                  *)

Gap == " "

LEMMA GapIsSpace == Gap \in Spaces /\ Gap \in Chars
BY Zenon, BlankIsSpace, BlankAndZero DEF Gap

Second == <<Gap, "%", "x">>
Third  == <<"%", "x">>

Joined(C, t, w) ==
    /\ t \o w \in Seq(C) /\ Len(t) \in Nat /\ Len(w) \in Nat /\ Len(t \o w) = Len(t) + Len(w)
    /\ \A i \in 1 .. Len(t) : (t \o w)[i] = t[i]
    /\ \A i \in 1 .. Len(w) : (t \o w)[Len(t) + i] = w[i]

LEMMA JoinAt == \A C : \A t \in Seq(C), w \in Seq(C) : Joined(C, t, w)
BY DEF Joined

\* The format, its characters one by one.
LEMMA TwoNumbersIs ==
    ASSUME NEW k \in Nat
    PROVE  LET f == TwoNumbers(k)
           IN  /\ f \in Seq({"%", "*", "d", Gap, "x"}) /\ Len(f) = k + 5
               /\ f[1] = "%" /\ \A i \in 1 .. k : f[1 + i] = "*"
               /\ f[k + 2] = "d" /\ f[k + 3] = Gap /\ f[k + 4] = "%" /\ f[k + 5] = "x"
<1> DEFINE C == {"%", "*", "d", Gap, "x"}
           g == <<"%">>
           t == [i \in 1 .. k |-> "*"]
           w == <<"d", Gap, "%", "x">>
           f == (g \o t) \o w
<1>1. TwoNumbers(k) = f
  BY Zenon DEF TwoNumbers, Gap
<1>2. g \in Seq(C) /\ Len(g) = 1 /\ g[1] = "%"
  OBVIOUS
<1>3. t \in Seq(C) /\ Len(t) = k /\ \A i \in 1 .. k : t[i] = "*"
  OBVIOUS
<1>4. w \in Seq(C) /\ Len(w) = 4 /\ w[1] = "d" /\ w[2] = Gap /\ w[3] = "%" /\ w[4] = "x"
  OBVIOUS
<1>. HIDE DEF C, g, t, w
<1> DEFINE h == g \o t
<1>5. /\ h \in Seq(C) /\ Len(h) = Len(g) + Len(t)
      /\ \A i \in 1 .. Len(g) : h[i] = g[i]
      /\ \A i \in 1 .. Len(t) : h[Len(g) + i] = t[i]
  <2>1. Joined(C, g, t)
    BY Zenon, <1>2, <1>3, JoinAt
  <2>. QED
    BY Zenon, <2>1 DEF Joined
<1>. HIDE DEF h
<1>6. /\ h \in Seq(C) /\ Len(h) = k + 1 /\ h[1] = "%"
      /\ \A i \in 1 .. k : h[1 + i] = "*"
  <2>1. /\ h \in Seq(C) /\ Len(h) = 1 + k
        /\ \A i \in 1 .. 1 : h[i] = g[i]
        /\ \A i \in 1 .. k : h[1 + i] = t[i]
    BY Zenon, <1>2, <1>3, <1>5
  <2>2. 1 \in 1 .. 1 /\ 1 + k = k + 1
    OBVIOUS
  <2>. QED
    BY Zenon, <1>2, <1>3, <2>1, <2>2
<1> DEFINE q == h \o w
<1>7. /\ q \in Seq(C) /\ Len(q) = k + 5
      /\ \A i \in 1 .. (k + 1) : q[i] = h[i]
      /\ \A i \in 1 .. 4 : q[k + 1 + i] = w[i]
  <2>1. /\ q \in Seq(C) /\ Len(q) = Len(h) + Len(w)
        /\ \A i \in 1 .. Len(h) : q[i] = h[i]
        /\ \A i \in 1 .. Len(w) : q[Len(h) + i] = w[i]
    <3>1. Joined(C, h, w)
      BY Zenon, <1>4, <1>6, JoinAt
    <3>. QED
      BY Zenon, <3>1 DEF Joined
  <2>. HIDE DEF q
  <2>. QED
    BY <1>4, <1>6, <2>1
<1>. HIDE DEF q
<1>8. q[1] = "%" /\ \A i \in 1 .. k : q[1 + i] = "*"
  <2>1. 1 \in 1 .. (k + 1) /\ \A i \in 1 .. k : 1 + i \in 1 .. (k + 1)
    OBVIOUS
  <2>. QED
    BY <1>6, <1>7, <2>1
<1>9. q[k + 2] = "d" /\ q[k + 3] = Gap /\ q[k + 4] = "%" /\ q[k + 5] = "x"
  <2>1. k + 1 + 1 = k + 2 /\ k + 1 + 2 = k + 3 /\ k + 1 + 3 = k + 4 /\ k + 1 + 4 = k + 5
    OBVIOUS
  <2>2. 1 \in 1 .. 4 /\ 2 \in 1 .. 4 /\ 3 \in 1 .. 4 /\ 4 \in 1 .. 4
    OBVIOUS
  <2>3. q[k + 1 + 1] = w[1] /\ q[k + 1 + 2] = w[2] /\ q[k + 1 + 3] = w[3] /\ q[k + 1 + 4] = w[4]
    BY <1>7, <2>2
  <2>. QED
    BY <1>4, <2>1, <2>3
<1>. QED
  BY Zenon, <1>1, <1>7, <1>8, <1>9 DEF q, h, C

LEMMA PercentIsNoSpace == "%" \notin Spaces
BY Zenon DEF Spaces

\* A format in front of a conversion with k stars.
Before(f, letter, k) ==
    /\ f # <<>> /\ f[1] = "%" /\ Front1(f) = "%"
    /\ Passed(Drop(f, 1), {"*"}) = k /\ Front1(Drop(f, k + 1)) = letter

LEMMA Pair == \A x, y : <<x>> \o <<y>> = <<x, y>>
<1>. SUFFICES ASSUME NEW x, NEW y PROVE <<x>> \o <<y>> = <<x, y>>
  OBVIOUS
<1> DEFINE t == <<x>> \o <<y>>
<1>1. <<x>> \in Seq({x, y}) /\ <<y>> \in Seq({x, y}) /\ Len(<<x>>) = 1 /\ Len(<<y>>) = 1
  OBVIOUS
<1>2. t \in Seq({x, y}) /\ Len(t) = 2 /\ t[1] = x /\ t[2] = y
  BY <1>1
<1>. HIDE DEF t
<1>3. t = <<x, y>>
  BY <1>2
<1>. QED
  BY <1>3 DEF t

LEMMA BeforeIs ==
    ASSUME NEW C, NEW f \in Seq(C), NEW k \in Nat, Len(f) >= k + 2, f[1] = "%",
           \A i \in 1 .. k : f[1 + i] = "*", NEW letter \in {"d", "x"}, f[k + 2] = letter
    PROVE  Before(f, letter, k)
<1> DEFINE r == Drop(f, 1)
           y == Drop(f, k + 1)
<1>1. Len(f) \in Nat /\ 1 \in Nat /\ 1 <= Len(f) /\ k + 1 \in Nat /\ k + 1 <= Len(f) /\ f # <<>>
  OBVIOUS
<1>2. r \in Seq(C) /\ Len(r) = Len(f) - 1 /\ \A i \in 1 .. (Len(f) - 1) : r[i] = f[1 + i]
  BY <1>1, DropAt
<1>3. y \in Seq(C) /\ Len(y) = Len(f) - (k + 1) /\ \A i \in 1 .. (Len(f) - (k + 1)) : y[i] = f[(k + 1) + i]
  BY <1>1, DropAt
<1>. HIDE DEF r, y
<1>4. Passed(r, {"*"}) = k
  <2>1. k \in 0 .. Len(r) /\ k + 1 \in 1 .. (Len(f) - 1) /\ \A i \in 1 .. k : i \in 1 .. (Len(f) - 1)
    BY <1>1, <1>2
  <2>2. \A i \in 1 .. k : r[i] \in {"*"}
    BY <1>2, <2>1
  <2>3. r[k + 1] = letter
    <3>1. 1 + (k + 1) = k + 2
      OBVIOUS
    <3>. QED
      BY <1>2, <2>1, <3>1
  <2>4. r[k + 1] \notin {"*"}
    BY <2>3
  <2>. QED
    BY <1>2, <2>1, <2>2, <2>4, PassedIs
<1>5. Front1(y) = letter
  <2>1. 1 \in 1 .. (Len(f) - (k + 1)) /\ (k + 1) + 1 = k + 2
    BY <1>1
  <2>2. y[1] = letter /\ y # <<>>
    BY <1>1, <1>3, <2>1
  <2>. QED
    BY <2>2 DEF Front1
<1>6. Front1(f) = "%"
  BY <1>1 DEF Front1
<1>. QED
  BY Zenon, <1>1, <1>4, <1>5, <1>6 DEF Before, r, y

LEMMA FormatSteps ==
    /\ \A k \in Nat : Before(TwoNumbers(k), "d", k) /\ Drop(TwoNumbers(k), k + 2) = Second
    /\ Second # <<>> /\ Second[1] = Gap /\ Tail(Second) = Third
    /\ Before(Third, "x", 0) /\ Drop(Third, 2) = <<>>
<1>1. ASSUME NEW k \in Nat
      PROVE  Before(TwoNumbers(k), "d", k) /\ Drop(TwoNumbers(k), k + 2) = Second
  <2> DEFINE C == {"%", "*", "d", Gap, "x"}
             f == TwoNumbers(k)
             y == Drop(f, k + 2)
  <2>1. /\ f \in Seq(C) /\ Len(f) = k + 5
        /\ f[1] = "%" /\ \A i \in 1 .. k : f[1 + i] = "*"
        /\ f[k + 2] = "d" /\ f[k + 3] = Gap /\ f[k + 4] = "%" /\ f[k + 5] = "x"
    BY Zenon, TwoNumbersIs
  <2>. HIDE DEF C, f
  <2>2. Before(f, "d", k)
    <3>1. Len(f) >= k + 2 /\ "d" \in {"d", "x"}
      BY <2>1
    <3>. QED
      BY <2>1, <3>1, BeforeIs
  <2>3. y \in Seq(C) /\ Len(y) = 3 /\ \A i \in 1 .. 3 : y[i] = f[(k + 2) + i]
    <3>1. k + 2 \in Nat /\ k + 2 <= Len(f) /\ Len(f) - (k + 2) = 3
      BY <2>1
    <3>2. /\ y \in Seq(C) /\ Len(y) = Len(f) - (k + 2)
          /\ \A i \in 1 .. (Len(f) - (k + 2)) : y[i] = f[(k + 2) + i]
      BY <2>1, <3>1, DropAt
    <3>. HIDE DEF y
    <3>. QED
      BY <3>1, <3>2
  <2>. HIDE DEF y
  <2>4. y[1] = Gap /\ y[2] = "%" /\ y[3] = "x"
    <3>1. 1 \in 1 .. 3 /\ 2 \in 1 .. 3 /\ 3 \in 1 .. 3
      OBVIOUS
    <3>2. (k + 2) + 1 = k + 3 /\ (k + 2) + 2 = k + 4 /\ (k + 2) + 3 = k + 5
      OBVIOUS
    <3>. QED
      BY <2>1, <2>3, <3>1, <3>2
  <2>5. y = <<Gap, "%", "x">>
    BY <2>3, <2>4
  <2>. QED
    BY Zenon, <2>2, <2>5 DEF f, y, Second
<1>2. Second # <<>> /\ Second[1] = Gap /\ Tail(Second) = Third
  BY DEF Second, Third
<1>3. Before(Third, "x", 0) /\ Drop(Third, 2) = <<>>
  <2> DEFINE C == {"%", "x"}
  <2>1. Third \in Seq(C) /\ Third[1] = "%" /\ Len(Third) = 2 /\ Third[2] = "x"
    BY DEF Third
  <2>2. Before(Third, "x", 0)
    <3>1. Len(Third) >= 0 + 2 /\ "x" \in {"d", "x"} /\ Third[0 + 2] = "x" /\ 0 \in Nat
          /\ \A i \in 1 .. 0 : Third[1 + i] = "*"
      BY <2>1
    <3>. HIDE DEF C
    <3>. QED
      BY <2>1, <3>1, BeforeIs
  <2>3. Drop(Third, 2) = <<>>
    BY DEF Drop, Third
  <2>. QED
    BY <2>2, <2>3
<1>. QED
  BY Zenon, <1>1, <1>2, <1>3

\* The round of a conversion with k stars, and of one with none.
LEMMA NumberRound ==
    ASSUME NEW letter \in {"d", "x"}, NEW b, b = (IF letter = "d" THEN 10 ELSE 16),
           NEW k \in Nat, Before(sfmt, letter, k), SNext
    PROVE  LET m == signed_number(Input, b)
           IN  /\ at' = at + (Len(Input) - Len(m.rest))
               /\ k = 0 => stored' = stored \o <<m.value>> /\ vals' = vals + 1
               /\ k # 0 => stored' = stored /\ vals' = vals
               /\ sfmt' = Drop(sfmt, k + 2) /\ scan' = scan
<1>1. /\ sfmt # <<>> /\ sfmt[1] = "%" /\ Front1(sfmt) = "%"
      /\ stars = k /\ Front1(Drop(sfmt, k + 1)) = letter
  BY DEF Before, stars
<1>2. (discard <=> k # 0) /\ conv = letter
  BY <1>1 DEF discard, conv
<1>3. ~isspace(sfmt[1])
  BY <1>1, PercentIsNoSpace DEF isspace
<1>4. scan_number(b)
  BY <1>1, <1>2, <1>3 DEF SNext, scan_space, scan_literal, scan_d, scan_x, scan_s, scan_other, scan_cut,
                          scan_end, Conversion, NUL
<1> DEFINE m == signed_number(Input, b)
<1>5. Scanned(Len(Input) - Len(m.rest), <<m.value>>)
  BY <1>4 DEF scan_number
<1>. HIDE DEF m
<1>6. /\ at' = at + (Len(Input) - Len(m.rest))
      /\ k = 0 => stored' = stored \o <<m.value>> /\ vals' = vals + 1
      /\ k # 0 => stored' = stored /\ vals' = vals
      /\ sfmt' = Drop(sfmt, k + 2) /\ scan' = scan
  BY <1>1, <1>2, <1>5 DEF Scanned
<1>. QED
  BY Zenon, <1>6 DEF m

\* The round of a blank.
LEMMA BlankRound ==
    ASSUME sfmt = Second, SNext
    PROVE  /\ at' = at + Passed(Input, Spaces) /\ sfmt' = Third
           /\ UNCHANGED <<scan, vals, stored>>
<1>1. sfmt # <<>> /\ sfmt[1] = Gap /\ Tail(sfmt) = Third
  BY FormatSteps
<1>2. isspace(sfmt[1]) /\ Front1(sfmt) # "%"
  <2>1. isspace(sfmt[1])
    BY <1>1, GapIsSpace DEF isspace
  <2>2. Front1(sfmt) = sfmt[1]
    BY <1>1 DEF Front1
  <2>3. sfmt[1] # "%"
    BY <2>1, PercentIsNoSpace DEF isspace
  <2>. QED
    BY Zenon, <2>1, <2>2, <2>3
<1>3. scan_space
  BY <1>1, <1>2 DEF SNext, scan_literal, scan_d, scan_x, scan_s, scan_other, scan_cut, scan_end, Conversion
<1>. QED
  BY <1>1, <1>3 DEF scan_space

\* Where the numbers stand.
Numbers(t, v, w, k) ==
    /\ k \in Nat
    /\ signed_number(Drop(t, 0), 10).value = v
    /\ Len(Drop(t, 0)) - Len(signed_number(Drop(t, 0), 10).rest) = k
    /\ Passed(Drop(t, k), Spaces) = 1
    /\ signed_number(Drop(t, k + 1), 16).value = w

TheText(v, w) == Printed(v, "d") \o <<" ">> \o Printed(w, "x")

LEMMA TextIs ==
    ASSUME NEW v \in long, NEW w \in long
    PROVE  Numbers(TheText(v, w), v, w, Len(Signed(v, 10)))
<1> DEFINE p == Signed(v, 10)
           q == Signed(w, 16)
           g == <<Gap>>
           t == (p \o g) \o q
           e == g \o q
           k == Len(p)
<1>1. TheText(v, w) = t
  <2>1. Printed(v, "d") = p /\ Printed(w, "x") = q
    BY PrintedIs
  <2>. QED
    BY Zenon, <2>1 DEF TheText, Gap
<1>2. 10 \in 2 .. 16 /\ 16 \in 2 .. 16
  OBVIOUS
<1>3. <<>> \in Texts /\ EndsDigits(<<>>, 16)
  BY DEF EndsDigits, Texts
<1>4. ReadOff(q \o <<>>, w, 16, <<>>) /\ q \in Texts
  BY Zenon, <1>2, <1>3, ShownRead
<1>. HIDE DEF q
<1>5. q \o <<>> = q
  BY <1>4, NothingBefore
<1>6. q # <<>> /\ q[1] \notin Spaces /\ signed_number(q, 16).value = w
  BY Zenon, <1>4, <1>5 DEF ReadOff
<1>7. g \in Texts /\ Len(g) = 1 /\ g[1] = Gap
  BY GapIsSpace DEF Texts
<1>. HIDE DEF g
<1>8. /\ e \in Texts /\ Len(e) = 1 + Len(q) /\ Len(q) \in Nat /\ e[1] = Gap
      /\ \A i \in 1 .. Len(q) : e[1 + i] = q[i]
  <2>1. /\ e \in Texts /\ Len(e) = Len(g) + Len(q) /\ Len(q) \in Nat
        /\ \A i \in 1 .. Len(g) : e[i] = g[i]
        /\ \A i \in 1 .. Len(q) : e[Len(g) + i] = q[i]
    BY <1>4, <1>7, ConcatAt
  <2>. HIDE DEF e
  <2>. QED
    BY <1>7, <2>1
<1>. HIDE DEF e
<1>9. EndsDigits(e, 10)
  <2>1. Gap \notin digits_of(10)
    BY GapIsSpace, <1>2, SpaceFacts, NoDigit
  <2>. QED
    BY <1>8, <2>1 DEF EndsDigits
<1>10. ReadOff(p \o e, v, 10, e) /\ p \in Texts
  BY Zenon, <1>2, <1>9, ShownRead
<1>. HIDE DEF p
<1>11. t = p \o e
  <2>1. Associative(p, g, q)
    BY Zenon, <1>4, <1>7, <1>10, AssociateAll
  <2>. QED
    BY Zenon, <2>1 DEF Associative, e
<1>12. /\ t \in Texts /\ Len(t) = k + Len(e) /\ k \in Nat /\ Len(e) \in Nat /\ Drop(t, k) = e
  <2>1. /\ p \o e \in Texts /\ Len(p \o e) = Len(p) + Len(e) /\ Len(p) \in Nat /\ Len(e) \in Nat
    BY <1>8, <1>10, ConcatAt
  <2>2. Drop(p \o e, Len(p)) = e
    BY <1>8, <1>10, DropConcat
  <2>. QED
    BY Zenon, <1>11, <2>1, <2>2
<1>13. Drop(t, k + 1) = q
  <2> DEFINE h == p \o g
  <2>1. h \in Texts /\ Len(h) = Len(p) + Len(g)
    BY <1>7, <1>10, ConcatText
  <2>. HIDE DEF h
  <2>2. Drop(h \o q, Len(h)) = q
    BY <1>4, <2>1, DropConcat
  <2>3. Len(h) = k + 1
    BY <1>7, <2>1
  <2>. QED
    BY Zenon, <2>2, <2>3 DEF h
<1>. HIDE DEF t, k
<1>14. Drop(t, 0) = t
  BY <1>12, DropNothing
<1>15. signed_number(t, 10).value = v /\ signed_number(t, 10).rest = e
  BY Zenon, <1>10, <1>11 DEF ReadOff
<1>16. Len(t) - Len(e) = k
  BY <1>12
<1>17. Passed(e, Spaces) = 1
  <2>1. Len(q) >= 1
    BY <1>4, <1>6 DEF Texts
  <2>2. 1 \in 0 .. Len(e) /\ (\A i \in 1 .. 1 : e[i] \in Spaces)
    BY <1>8, GapIsSpace
  <2>3. e[1 + 1] \notin Spaces
    <3>1. 1 \in 1 .. Len(q)
      BY <1>8, <2>1
    <3>. QED
      BY <1>6, <1>8, <3>1
  <2>4. e \in Seq(Chars)
    BY <1>8 DEF Texts
  <2>. QED
    BY <2>2, <2>3, <2>4, PassedIs
<1>18. Numbers(t, v, w, k)
  BY Zenon, <1>6, <1>12, <1>13, <1>14, <1>15, <1>16, <1>17 DEF Numbers
<1>. QED
  BY Zenon, <1>1, <1>18 DEF k, p

\* What the first number leaves behind, when it has k stars.
FirstKept(k, v) == IF k = 0 THEN <<v>> ELSE <<>>

\* What both leave.
BothKept(k, v, w) == IF k = 0 THEN <<v, w>> ELSE <<w>>

LEMMA KeptIs ==
    ASSUME NEW k, NEW v, NEW w
    PROVE  /\ FirstKept(k, v) \o <<w>> = BothKept(k, v, w)
           /\ k = 0 => FirstKept(k, v) = <<>> \o <<v>> /\ Len(FirstKept(k, v)) = 1
           /\ k # 0 => FirstKept(k, v) = <<>> /\ Len(FirstKept(k, v)) = 0
           /\ Len(BothKept(k, v, w)) = Len(FirstKept(k, v)) + 1
<1>1. <<v>> \o <<w>> = <<v, w>>
  BY ONLY Pair
<1>2. <<>> \o <<v>> = <<v>> /\ <<>> \o <<w>> = <<w>>
  OBVIOUS
<1>3. Len(<<v>>) = 1 /\ Len(<<w>>) = 1 /\ Len(<<v, w>>) = 2 /\ Len(<<>>) = 0
  OBVIOUS
<1>4. CASE k = 0
  <2>1. FirstKept(k, v) = <<v>> /\ BothKept(k, v, w) = <<v, w>>
    BY <1>4 DEF FirstKept, BothKept
  <2>2. 1 + 1 = 2
    OBVIOUS
  <2>. QED
    BY Zenon, <1>1, <1>2, <1>3, <1>4, <2>1, <2>2
<1>5. CASE k # 0
  <2>1. FirstKept(k, v) = <<>> /\ BothKept(k, v, w) = <<w>>
    BY <1>5 DEF FirstKept, BothKept
  <2>2. 0 + 1 = 1
    OBVIOUS
  <2>. QED
    BY Zenon, <1>2, <1>3, <1>5, <2>1, <2>2
<1>. QED
  BY <1>4, <1>5

\* How far the call has come, l characters being the first number.
Progress(v, w, l, k) ==
    \/ scan = "runs" /\ sfmt = TwoNumbers(k) /\ at = 0 /\ vals = 0 /\ stored = <<>>
    \/ scan = "runs" /\ sfmt = Second /\ at = l /\ vals = Len(stored) /\ stored = FirstKept(k, v)
    \/ scan = "runs" /\ sfmt = Third /\ at = l + 1 /\ vals = Len(stored) /\ stored = FirstKept(k, v)
    \/ sfmt = <<>> /\ vals = Len(stored) /\ stored = BothKept(k, v, w)

LEMMA ProgressNext ==
    ASSUME NEW v, NEW w, NEW l, Numbers(text, v, w, l), NEW k \in Nat, Progress(v, w, l, k), SNext
    PROVE  Progress(v, w, l, k)'
<1>1. /\ l \in Nat /\ signed_number(Drop(text, 0), 10).value = v
      /\ Len(Drop(text, 0)) - Len(signed_number(Drop(text, 0), 10).rest) = l
      /\ Passed(Drop(text, l), Spaces) = 1
      /\ signed_number(Drop(text, l + 1), 16).value = w
  BY DEF Numbers
<1>2. CASE scan = "runs" /\ sfmt = TwoNumbers(k) /\ at = 0 /\ vals = 0 /\ stored = <<>>
  <2>1. Before(sfmt, "d", k) /\ Drop(sfmt, k + 2) = Second
    BY Zenon, <1>2, FormatSteps
  <2>2. Input = Drop(text, 0)
    BY <1>2 DEF Input
  <2> DEFINE m == signed_number(Input, 10)
             c == Len(Input) - Len(m.rest)
  <2>3. /\ at' = at + (Len(Input) - Len(m.rest))
        /\ k = 0 => stored' = stored \o <<m.value>> /\ vals' = vals + 1
        /\ k # 0 => stored' = stored /\ vals' = vals
        /\ sfmt' = Second /\ scan' = "runs"
    <3>1. "d" \in {"d", "x"} /\ 10 = (IF "d" = "d" THEN 10 ELSE 16)
      OBVIOUS
    <3>. QED
      BY <1>2, <2>1, <3>1, NumberRound
  <2>4. m.value = v /\ c = l
    BY Zenon, <1>1, <2>2
  <2>5. at' = 0 + c
    BY Zenon, <1>2, <2>3
  <2>. HIDE DEF m, c
  <2>6. at' = l
    BY <1>1, <2>4, <2>5
  <2>7. stored' = FirstKept(k, v) /\ vals' = Len(stored')
    <3>1. CASE k = 0
      <4>1. stored' = <<>> \o <<v>> /\ vals' = 0 + 1
        BY Zenon, <1>2, <2>3, <2>4, <3>1
      <4>2. FirstKept(k, v) = <<>> \o <<v>> /\ Len(FirstKept(k, v)) = 1
        BY Zenon, <3>1, KeptIs
      <4>3. 0 + 1 = 1
        OBVIOUS
      <4>. QED
        BY Zenon, <4>1, <4>2, <4>3
    <3>2. CASE k # 0
      <4>1. stored' = <<>> /\ vals' = 0
        BY Zenon, <1>2, <2>3, <3>2
      <4>2. FirstKept(k, v) = <<>> /\ Len(FirstKept(k, v)) = 0
        BY Zenon, <3>2, KeptIs
      <4>. QED
        BY Zenon, <4>1, <4>2
    <3>. QED
      BY Zenon, <3>1, <3>2
  <2>. QED
    BY Zenon, <2>3, <2>6, <2>7 DEF Progress
<1>3. CASE scan = "runs" /\ sfmt = Second /\ at = l /\ vals = Len(stored) /\ stored = FirstKept(k, v)
  <2>1. Input = Drop(text, l)
    BY <1>3 DEF Input
  <2>2. /\ at' = at + Passed(Input, Spaces) /\ sfmt' = Third
        /\ UNCHANGED <<scan, vals, stored>>
    BY <1>3, BlankRound
  <2>3. at' = l + 1
    BY <1>1, <1>3, <2>1, <2>2
  <2>. QED
    BY Zenon, <1>3, <2>2, <2>3 DEF Progress
<1>4. CASE scan = "runs" /\ sfmt = Third /\ at = l + 1 /\ vals = Len(stored) /\ stored = FirstKept(k, v)
  <2>1. Before(sfmt, "x", 0) /\ Drop(sfmt, 0 + 2) = <<>>
    <3>1. 0 + 2 = 2
      OBVIOUS
    <3>. QED
      BY Zenon, <1>4, <3>1, FormatSteps
  <2>2. Input = Drop(text, l + 1)
    BY Zenon, <1>4 DEF Input
  <2> DEFINE m == signed_number(Input, 16)
  <2>3. stored' = stored \o <<m.value>> /\ vals' = vals + 1 /\ sfmt' = <<>>
    <3>1. "x" \in {"d", "x"} /\ 16 = (IF "x" = "d" THEN 10 ELSE 16) /\ 0 \in Nat
      OBVIOUS
    <3>. QED
      BY <2>1, <3>1, NumberRound
  <2>4. m.value = w
    BY Zenon, <1>1, <2>2
  <2>. HIDE DEF m
  <2>5. stored' = FirstKept(k, v) \o <<w>> /\ vals' = Len(FirstKept(k, v)) + 1
    BY Zenon, <1>4, <2>3, <2>4
  <2>6. stored' = BothKept(k, v, w) /\ vals' = Len(stored')
    <3>1. /\ FirstKept(k, v) \o <<w>> = BothKept(k, v, w)
          /\ Len(BothKept(k, v, w)) = Len(FirstKept(k, v)) + 1
      BY ONLY KeptIs
    <3>. QED
      BY Zenon, <2>5, <3>1
  <2>. QED
    BY Zenon, <2>3, <2>6 DEF Progress
<1>5. CASE sfmt = <<>> /\ vals = Len(stored) /\ stored = BothKept(k, v, w)
  <2>1. Front1(sfmt) # "%"
    BY <1>5 DEF Front1, NUL
  <2>2. scan_end
    BY <1>5, <2>1 DEF SNext, scan_space, scan_literal, scan_d, scan_x, scan_s, scan_other, scan_cut, Conversion
  <2>3. UNCHANGED <<sfmt, vals, stored>>
    BY <2>2 DEF scan_end, stop
  <2>. QED
    BY Zenon, <1>5, <2>3 DEF Progress
<1>. QED
  BY Zenon, <1>2, <1>3, <1>4, <1>5 DEF Progress

Progressing ==
    \A k \in Nat, v, w \in Values :
        (scan_call.fmt = TwoNumbers(k) /\ text = TheText(v, w)) => Progress(v, w, Len(Signed(v, 10)), k)

Scanned2 == job = "scan" => ScanTyped /\ Progressing

LEMMA ValuesAreLong == \A v \in Values : v \in long
BY Zenon, LibraryAssumption

LEMMA ScanInit == Init => Scanned2
<1>. SUFFICES ASSUME Init, job = "scan" PROVE ScanTyped /\ Progressing
  BY DEF Scanned2
<1>1. SInit
  BY DEF Init
<1>2. ScanTyped
  BY <1>1, ScanTypedInit
<1>3. sfmt = scan_call.fmt /\ at = 0 /\ vals = 0 /\ stored = <<>> /\ scan = "runs"
  BY <1>1 DEF SInit
<1>4. Progressing
  BY Zenon, <1>3 DEF Progressing, Progress
<1>. QED
  BY <1>2, <1>4

LEMMA ScanNext == Scanned2 /\ [Next]_lvars => Scanned2'
<1>. SUFFICES ASSUME Scanned2, [Next]_lvars, job' = "scan" PROVE (ScanTyped /\ Progressing)'
  BY DEF Scanned2
<1>1. CASE UNCHANGED lvars
  <2>1. UNCHANGED <<job, scan_call, sfmt, at, vals, stored, scan>>
    BY <1>1 DEF lvars, svars
  <2>2. ScanTyped /\ Progressing
    BY <2>1 DEF Scanned2
  <2>3. text' = text
    BY <2>1 DEF text
  <2>4. ScanTyped'
    BY <2>1, <2>2, <2>3 DEF ScanTyped, EndUnread, CutShort
  <2>5. Progressing'
    <3>1. ASSUME NEW k \in Nat, NEW v \in Values, NEW w \in Values,
                 (scan_call.fmt = TwoNumbers(k) /\ text = TheText(v, w))'
          PROVE  Progress(v, w, Len(Signed(v, 10)), k)'
      <4> DEFINE l == Len(Signed(v, 10))
      <4>1. scan_call.fmt = TwoNumbers(k) /\ text = TheText(v, w)
        BY <2>1, <2>3, <3>1
      <4>2. Progress(v, w, l, k)
        BY Zenon, <2>2, <4>1 DEF Progressing
      <4>. HIDE DEF l
      <4>3. Progress(v, w, l, k)'
        BY <2>1, <4>2 DEF Progress
      <4>. QED
        BY <4>3 DEF l
    <3>. QED
      BY Zenon, <3>1 DEF Progressing
  <2>. QED
    BY <2>4, <2>5
<1>2. CASE Next
  <2>1. job = "scan" /\ SNext
    BY <1>2 DEF Next
  <2>2. ScanTyped /\ Progressing
    BY <2>1 DEF Scanned2
  <2>3. ScanTyped'
    BY <2>1, <2>2, ScanTypedNext
  <2>4. scan_call' = scan_call
    BY <2>1 DEF SNext, scan_space, scan_literal, scan_d, scan_x, scan_s, scan_other, scan_cut, scan_end,
                scan_number, Scanned, stop
  <2>5. text' = text
    BY <2>4 DEF text
  <2>6. ASSUME NEW k \in Nat, NEW v \in Values, NEW w \in Values,
               scan_call.fmt = TwoNumbers(k), text = TheText(v, w)
        PROVE  Progress(v, w, Len(Signed(v, 10)), k)'
    <3> DEFINE l == Len(Signed(v, 10))
    <3>1. Progress(v, w, l, k)
      BY Zenon, <2>2, <2>6 DEF Progressing
    <3>2. v \in long /\ w \in long
      BY Zenon, ValuesAreLong
    <3>3. Numbers(text, v, w, l)
      BY Zenon, <2>6, <3>2, TextIs
    <3>. HIDE DEF l
    <3>4. Progress(v, w, l, k)'
      BY <2>1, <3>1, <3>3, ProgressNext
    <3>. QED
      BY <3>4 DEF l
  <2>7. Progressing'
    BY Zenon, <2>4, <2>5, <2>6 DEF Progressing
  <2>. QED
    BY <2>3, <2>7
<1>. QED
  BY <1>1, <1>2

\* For every text and every format, with any number of stars: two numbers that printf
\* has written with a blank between them are scanned as they were, less a starred one;
\* only a format that ends inside a directive is left, and the white space that ends a
\* text is only passed when the format has some (doscan.c, sscanf.c).
THEOREM TheTextIsScanned == Spec => []ScansTheText
<1>1. Scanned2 => ScansTheText
  <2>. SUFFICES ASSUME ScanTyped, Progressing
                PROVE  /\ scan = "past_format" => scan_call.fmt[Len(scan_call.fmt)] \in {"%", "*"}
                       /\ (scan = "outside" /\ text # <<>> /\ isspace(text[Len(text)])) =>
                             \E i \in DOMAIN scan_call.fmt : isspace(scan_call.fmt[i])
                       /\ scan = "returned" =>
                             \A k \in 0 .. Len(scan_call.fmt), v, w \in Values :
                                 (scan_call.fmt = TwoNumbers(k) /\ text = TheText(v, w))
                                     => stored = BothKept(k, v, w) /\ vals = Len(stored)
    BY Zenon DEF Scanned2, ScansTheText, TheText, BothKept
  <2>1. scan = "past_format" => scan_call.fmt[Len(scan_call.fmt)] \in {"%", "*"}
    BY Zenon DEF ScanTyped, CutShort
  <2>2. (scan = "outside" /\ text # <<>> /\ isspace(text[Len(text)])) =>
            \E i \in DOMAIN scan_call.fmt : isspace(scan_call.fmt[i])
    BY Zenon DEF ScanTyped, EndUnread, BlankEnd, HasSpace
  <2>3. ASSUME scan = "returned", NEW k \in 0 .. Len(scan_call.fmt), NEW v \in Values, NEW w \in Values,
               scan_call.fmt = TwoNumbers(k), text = TheText(v, w)
        PROVE  stored = BothKept(k, v, w) /\ vals = Len(stored)
    <3> DEFINE l == Len(Signed(v, 10))
    <3>1. k \in Nat
      BY DEF ScanTyped
    <3>2. Progress(v, w, l, k)
      BY Zenon, <2>3, <3>1 DEF Progressing
    <3>3. scan # "runs"
      BY <2>3
    <3>. HIDE DEF l
    <3>. QED
      BY Zenon, <3>2, <3>3 DEF Progress
  <2>. QED
    BY Zenon, <2>1, <2>2, <2>3
<1>2. Spec => []Scanned2
  BY ScanInit, ScanNext, PTL DEF Spec
<1>. QED
  BY <1>1, <1>2, PTL

=============================================================================
