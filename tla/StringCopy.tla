----------------------------- MODULE StringCopy -----------------------------
(***************************************************************************)
(* The functions of tasks/libc/string that write: memmove (and memcpy,     *)
(* which calls it), memset, strcpy, strcat, strncat and strncpy, one byte  *)
(* per step, on a memory in which a call may have any legal addresses.     *)
(*                                                                         *)
(* A byte is a member of Char, 0 the terminator.  Counts are of type       *)
(* size_t: from 0, counting down goes to SizeMax.                          *)
(***************************************************************************)
EXTENDS Integers

CONSTANTS
    MemSize,    \* the addresses are 0 .. MemSize - 1
    Char,
    SizeMax     \* 2^32 - 1

Addr == 0 .. (MemSize - 1)

ASSUME CopyAssumption ==
    /\ MemSize \in Nat
    /\ Char \subseteq Nat /\ 0 \in Char
    /\ SizeMax \in Nat /\ MemSize < SizeMax

VARIABLES
    fun,            \* the function that is called, and its arguments; the
    to, from, n,    \* byte of memset is in from
    mem0,           \* what the memory was, and where the strings at to and at
    to_end,         \* from end: not in the program, for the properties
    from_end,
    mem,
    d, s,           \* the pointers that move; in d also the index of memmove
    count,
    pc              \* "seek", "copy", "fill", "end", "returned" or "outside"

call_vars == <<fun, to, from, n, mem0, to_end, from_end>>
cvars == <<call_vars, mem, d, s, count, pc>>

-----------------------------------------------------------------------------
(* Which calls C allows: strings are terminated, what is read and what is  *)
(* written lie in the memory and do not overlap, except for memmove.       *)

Ends(m, a, e) == a \in Addr /\ e \in Addr /\ a <= e /\ m[e] = 0 /\ \A b \in a .. (e - 1) : m[b] # 0
Apart(a, j, b, k) == a + j <= b \/ b + k <= a       \* j bytes at a, k bytes at b
length == from_end - from
Least(j, k) == IF j < k THEN j ELSE k

Legal ==
    \/ /\ fun = "memmove"
       /\ to + n <= MemSize /\ from + n <= MemSize
       /\ to_end = to /\ from_end = from
    \/ /\ fun = "memset"
       /\ to + n <= MemSize /\ from \in Char
       /\ to_end = to /\ from_end = from
    \/ /\ fun \in {"strcpy", "strncpy"}
       /\ Ends(mem0, from, from_end)
       /\ to_end = to
       /\ IF fun = "strcpy"
          THEN n = 0 /\ to + length < MemSize /\ Apart(to, length + 1, from, length + 1)
          ELSE to + n <= MemSize /\ Apart(to, n, from, length + 1)
    \/ /\ fun \in {"strcat", "strncat"}
       /\ Ends(mem0, from, from_end) /\ Ends(mem0, to, to_end)
       /\ fun = "strcat" => n = 0
       /\ LET added == IF fun = "strcat" THEN length ELSE Least(n, length)
          IN  /\ to_end + added < MemSize
              /\ Apart(to, (to_end - to) + added + 1, from, length + 1)

\* Mutant: memmove always copies upwards.
always_upwards == TRUE

upwards == to < from

CInit ==
    /\ fun \in {"memmove", "memset", "strcpy", "strncpy", "strcat", "strncat"}
    /\ to \in 0 .. MemSize /\ from \in 0 .. MemSize /\ n \in 0 .. MemSize
    /\ to_end \in 0 .. MemSize /\ from_end \in 0 .. MemSize
    /\ mem0 \in [Addr -> Char]
    /\ Legal
    /\ mem = mem0
    /\ d = IF fun # "memmove" THEN to ELSE IF upwards THEN 0 ELSE n
    /\ s = from
    /\ count = n
    /\ pc = IF fun \in {"strcat", "strncat"} THEN "seek" ELSE "copy"

-----------------------------------------------------------------------------
dec(k) == IF k = 0 THEN SizeMax ELSE k - 1
store(a, byte) == mem' = [mem EXCEPT ![a] = byte]

\* d counts the bytes that are copied.
memmove_up ==
    /\ fun = "memmove" /\ pc = "copy" /\ upwards
    /\ IF d # n THEN store(to + d, mem[from + d]) /\ d' = d + 1 /\ UNCHANGED pc
                ELSE pc' = "returned" /\ UNCHANGED <<mem, d>>
    /\ UNCHANGED <<call_vars, s, count>>

\* d counts the bytes still to be copied.
memmove_down ==
    /\ fun = "memmove" /\ pc = "copy" /\ ~upwards
    /\ IF d # 0 THEN store(to + d - 1, mem[from + d - 1]) /\ d' = d - 1 /\ UNCHANGED pc
                ELSE pc' = "returned" /\ UNCHANGED <<mem, d>>
    /\ UNCHANGED <<call_vars, s, count>>

\* Mutant: `>=` for `>`.
to_be_set_at_zero(k) == k >= 0

to_be_set(k) == k > 0

memset ==
    /\ fun = "memset" /\ pc = "copy"
    /\ IF to_be_set(count) THEN store(d, from) /\ d' = d + 1 /\ UNCHANGED pc
                    ELSE pc' = "returned" /\ UNCHANGED <<mem, d>>
    /\ count' = dec(count)
    /\ UNCHANGED <<call_vars, s>>

\* strcat and strncat go to the end of the first string.
seek ==
    /\ pc = "seek"
    /\ IF fun = "strncat" /\ n = 0 THEN pc' = "returned" /\ UNCHANGED d
       ELSE IF mem[d] # 0 THEN d' = d + 1 /\ UNCHANGED pc
       ELSE pc' = "copy" /\ UNCHANGED d
    /\ UNCHANGED <<call_vars, mem, s, count>>

\* The loop of strcpy, and the second one of strcat.
copy_string ==
    /\ fun \in {"strcpy", "strcat"} /\ pc = "copy"
    /\ store(d, mem[s])
    /\ d' = d + 1 /\ s' = s + 1
    /\ IF mem[s] = 0 THEN pc' = "returned" ELSE UNCHANGED pc
    /\ UNCHANGED <<call_vars, count>>

strncat_copy ==
    /\ fun = "strncat" /\ pc = "copy"
    /\ store(d, mem[s])
    /\ s' = s + 1
    /\ IF mem[s] = 0 THEN pc' = "end" /\ UNCHANGED <<d, count>>
       ELSE /\ d' = d + 1
            /\ count' = count - 1
            /\ IF count = 1 THEN pc' = "end" ELSE UNCHANGED pc
    /\ UNCHANGED call_vars

strncat_end ==
    /\ fun = "strncat" /\ pc = "end"
    /\ store(d, 0)
    /\ pc' = "returned"
    /\ UNCHANGED <<call_vars, d, s, count>>

\* Counting down is part of the test of both loops, so that a first loop ended
\* by the count leaves SizeMax to the second one.
strncpy ==
    /\ fun = "strncpy"
    /\ \/ /\ pc = "copy" /\ count > 0 /\ d \in Addr
          /\ store(d, mem[s])
          /\ d' = d + 1 /\ s' = s + 1
          /\ IF mem[s] = 0 THEN pc' = "fill" ELSE UNCHANGED pc
       \/ /\ pc = "copy" /\ count = 0
          /\ pc' = "fill"
          /\ UNCHANGED <<mem, d, s>>
       \/ /\ pc = "fill" /\ count > 0 /\ d \in Addr
          /\ store(d, 0)
          /\ d' = d + 1
          /\ UNCHANGED <<s, pc>>
       \/ /\ pc = "fill" /\ count > 0 /\ d \notin Addr
          /\ pc' = "outside"
          /\ UNCHANGED <<mem, d, s>>
       \/ /\ pc = "fill" /\ count = 0
          /\ pc' = "returned"
          /\ UNCHANGED <<mem, d, s>>
    /\ count' = dec(count)
    /\ UNCHANGED call_vars

CNext ==
    \/ memmove_up \/ memmove_down \/ memset \/ seek \/ copy_string
    \/ strncat_copy \/ strncat_end \/ strncpy

CSpec == CInit /\ [][CNext]_cvars

-----------------------------------------------------------------------------
\* The memory of the call with k bytes from `from` copied to address a.
Copied(a, k) == [b \in Addr |-> IF b \in a .. (a + k - 1) THEN mem0[from + (b - a)] ELSE mem0[b]]
With(m, a, byte) == [m EXCEPT ![a] = byte]

\* Whether strncpy meets the end of its source before its count runs out.
EndsInTime == length < n

CTypeOK ==
    /\ mem \in [Addr -> Char]
    /\ d \in 0 .. MemSize /\ s \in Nat /\ count \in 0 .. SizeMax
    /\ pc \in {"seek", "copy", "fill", "end", "returned", "outside"}

\* Every function leaves exactly what C says: memmove whatever the overlap of
\* its regions; the strings whole, terminated, padded by strncpy; and not a byte
\* outside changed.  A strncpy whose source does not end in time never returns: its
\* count has wrapped (strncpy.c:51-54), and it clears memory behind its destination.
ReturnsTheCopy ==
    /\ pc = "outside" => fun = "strncpy" /\ ~EndsInTime
    /\ pc = "returned" /\ fun = "strncpy" => EndsInTime
    /\ pc = "returned" =>
        mem = CASE fun = "memmove" -> Copied(to, n)
                [] fun = "memset"  -> [b \in Addr |-> IF b \in to .. (to + n - 1) THEN from ELSE mem0[b]]
                [] fun = "strcpy"  -> Copied(to, length + 1)
                [] fun = "strcat"  -> Copied(to_end, length + 1)
                [] fun = "strncat" -> IF n = 0 THEN mem0
                                      ELSE With(Copied(to_end, Least(n, length)),
                                                to_end + Least(n, length), 0)
                [] fun = "strncpy" -> [b \in Addr |-> IF b \in (to + length) .. (to + n - 1) THEN 0
                                                      ELSE Copied(to, length)[b]]

\* strncat.c:47-48, "at most n+1 bytes being appended", seen at every step, and
\* the same of the others: only the destination is ever written.
WritesOnlyTheDestination ==
    \A b \in Addr : mem[b] # mem0[b] =>
        CASE fun \in {"memmove", "memset"} -> b \in to .. (to + n - 1)
          [] fun \in {"strcpy", "strcat"}  -> b \in to_end .. (to_end + length)
          [] fun = "strncat" -> b \in to_end .. (to_end + n)
          [] fun = "strncpy" -> b >= to /\ (EndsInTime => b < to + n)
=============================================================================
