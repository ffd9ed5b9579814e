-------------------------------- MODULE Scan --------------------------------
(***************************************************************************)
(* sscanf of the user library: _doscan (stdio/doscan.c) over readchar and  *)
(* unchar of stdio/sscanf.c.  One action is one round of the loop over the *)
(* format.                                                                 *)
(*                                                                         *)
(* readchar goes on behind the terminator of the text, which unchar gives  *)
(* back only when it was the last character read: `at` is the position in  *)
(* the text, and above its length the call is reading memory of others.    *)
(***************************************************************************)
EXTENDS Numerals

CONSTANT ScanCalls      \* the calls considered: records [text, fmt]

VARIABLES
    scan_call,  \* the call as it was made
    sfmt,       \* the rest of the format
    at,         \* how many characters of the text were read
    vals,       \* the count that is returned
    stored,     \* what was stored through the arguments
    scan        \* "runs", "returned", "outside" when it left the text, or
                \* "past_format" when it left the format

svars == <<scan_call, sfmt, at, vals, stored, scan>>

text     == scan_call.text
Scanning == scan = "runs"
Input    == Drop(text, at)

\* Any number of `*` in front of a conversion.
stars   == Passed(Drop(sfmt, 1), {"*"})
discard == stars > 0
conv    == Front1(Drop(sfmt, stars + 1))

\* Mutant: the character that ended the conversion is not given back.
scanned_no_unchar(k, v) ==
    /\ at' = at + k + 1
    /\ stored' = IF discard THEN stored ELSE stored \o v
    /\ vals' = IF discard THEN vals ELSE vals + 1
    /\ sfmt' = Drop(sfmt, stars + 2)
    /\ UNCHANGED <<scan_call, scan>>

\* The end of a round: k more characters read, v stored unless it is discarded.
Scanned(k, v) ==
    /\ at' = at + k
    /\ stored' = IF discard THEN stored ELSE stored \o v
    /\ vals' = IF discard THEN vals ELSE vals + 1
    /\ sfmt' = Drop(sfmt, stars + 2)
    /\ UNCHANGED <<scan_call, scan>>

stop(how) == scan' = how /\ UNCHANGED <<scan_call, sfmt, at, vals, stored>>

Conversion(c) == Scanning /\ Front1(sfmt) = "%" /\ conv = c

\* White space of the format passes any white space of the text.
scan_space ==
    /\ Scanning /\ sfmt # <<>> /\ isspace(sfmt[1])
    /\ at' = at + Passed(Input, Spaces)
    /\ sfmt' = Tail(sfmt)
    /\ UNCHANGED <<scan_call, vals, stored, scan>>

\* A character that does not match ends the call.
scan_literal ==
    /\ Scanning /\ sfmt # <<>> /\ sfmt[1] # "%" /\ ~isspace(sfmt[1])
    /\ IF Front1(Input) = sfmt[1]
       THEN at' = at + 1 /\ sfmt' = Tail(sfmt) /\ UNCHANGED <<scan_call, vals, stored, scan>>
       ELSE stop("returned")

\* A minus sign and any number of digits, none included.
signed_number(s, base) ==
    LET neg == Front1(s) = "-"
        n   == read_digits(Drop(s, IF neg THEN 1 ELSE 0), base, TRUE)
    IN  [n EXCEPT !.value = IF neg THEN wrap_signed(-@) ELSE @]

scan_number(base) ==
    LET n == signed_number(Input, base)
    IN  Scanned(Len(Input) - Len(n.rest), <<n.value>>)

scan_d == Conversion("d") /\ scan_number(10)
scan_x == Conversion("x") /\ scan_number(16)

\* Only white space ends a word: without any, the loop leaves the text.
scan_s ==
    LET k == Passed(Input, Chars \ Spaces)
    IN  /\ Conversion("s")
        /\ IF k = Len(Input) THEN stop("outside") ELSE Scanned(k, <<SubSeq(Input, 1, k)>>)

\* Any other conversion reads nothing and counts.
scan_other ==
    /\ Scanning /\ Front1(sfmt) = "%" /\ conv \notin {"d", "x", "s", NUL}
    /\ Scanned(0, <<>>)

\* So does the terminator of a format that ends in `%` or `*`, and the loop goes on
\* with what is in memory behind it.
scan_cut ==
    /\ Conversion(NUL)
    /\ vals' = IF discard THEN vals ELSE vals + 1
    /\ scan' = "past_format"
    /\ UNCHANGED <<scan_call, sfmt, at, stored>>

scan_end == Scanning /\ sfmt = <<>> /\ stop("returned")

SInit ==
    /\ scan_call \in ScanCalls /\ sfmt = scan_call.fmt
    /\ at = 0 /\ vals = 0 /\ stored = <<>>
    /\ scan = "runs"

SNext ==
    scan_space \/ scan_literal \/ scan_d \/ scan_x \/ scan_s \/ scan_other \/ scan_cut
    \/ scan_end
=============================================================================
