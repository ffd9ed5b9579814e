---------------------------- MODULE StringSearch ----------------------------
(***************************************************************************)
(* The functions of tasks/libc/string that only read.  A string is the     *)
(* sequence of its characters, numbers above 0, without the terminator; a  *)
(* pointer into it is the number of characters before the place.           *)
(***************************************************************************)
EXTENDS Numerals

NULL_POINTER == -1

\* The place found, unless the search came to the end of s.
Found(s, k) == IF k = Len(s) THEN NULL_POINTER ELSE k

strchr(s, c) == LET k == Passed(s, Range(s) \ {c})
                IN  IF c = 0 THEN k ELSE Found(s, k)

\* The terminator is not looked at.
strrchr(s, c) == Max({NULL_POINTER} \cup {i - 1 : i \in {j \in DOMAIN s : s[j] = c}})

strspn(s1, s2)  == Passed(s1, Range(s2))
strcspn(s1, s2) == Passed(s1, Range(s1) \ Range(s2))
strpbrk(s1, s2) == Found(s1, Passed(s1, Range(s1) \ Range(s2)))

places(haystack, needle) == 0 .. (Len(haystack) - Len(needle))

strstr(haystack, needle) ==
    LET hits == {k \in places(haystack, needle) :
                    SubSeq(haystack, k + 1, k + Len(needle)) = needle}
    IN  IF hits = {} THEN NULL_POINTER ELSE Min(hits)

-----------------------------------------------------------------------------
\* The character at place k, 0 at the end.
At(s, k) == IF k < Len(s) THEN s[k + 1] ELSE 0

\* Mutant: the loop ends before the shorter string does.
stops_early(a, b) == Min({k \in 0 .. Len(a) : At(a, k) # At(b, k) \/ At(a, k + 1) = 0 \/ At(b, k + 1) = 0})

\* Where a loop over both strings stops: at a difference or at an end.
stops(a, b) == Min({k \in 0 .. Len(a) : At(a, k) # At(b, k) \/ At(a, k) = 0})

strcmp(s1, s2) == At(s1, stops(s1, s2)) - At(s2, stops(s1, s2))

strncmp(s1, s2, n) ==
    IF n <= stops(s1, s2) THEN 0 ELSE At(s1, stops(s1, s2)) - At(s2, stops(s1, s2))
=============================================================================
