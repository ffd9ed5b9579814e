------------------------------ MODULE Numerals ------------------------------
(***************************************************************************)
(* Numbers and their digits in the user library (tasks/libc): the          *)
(* conversions of stdlib/strtol.c, strtoul.c and atoi.c, the printnum of   *)
(* stdio/doprnt.c, and the C arithmetic they share.                        *)
(*                                                                         *)
(* A text is a sequence of characters, each a string of length one, without *)
(* its terminator; reading behind the end gives NUL.                       *)
(***************************************************************************)
EXTENDS Integers, Sequences, SequencesExt, FiniteSetsExt

CONSTANTS
    Half,       \* half of the values of a C long: 2^31 in the code
    Chars       \* the characters

NUL == "NUL"

digs == <<"0", "1", "2", "3", "4", "5", "6", "7", "8", "9",
          "a", "b", "c", "d", "e", "f">>
CAPS == <<"A", "B", "C", "D", "E", "F">>

Spaces  == {" ", "\f", "\n", "VT", "\r", "\t"}      \* VT: \v
Decimal == {digs[i] : i \in 1 .. 10}
isspace(c) == c \in Spaces

ASSUME NumeralsAssumption ==
    /\ Half \in Nat \ {0}
    /\ {digs[i] : i \in 1 .. 16} \cup {CAPS[i] : i \in 1 .. 6} \cup Spaces
       \cup {NUL, "x", "X", "-", "+", "#", "%", "*", ".", ":", ",", "<", ">", "[", "]"} \subseteq Chars

long      == (-Half) .. (Half - 1)
long_long == (-(2 * Half * Half)) .. (2 * Half * Half - 1)
wrap_unsigned(x) == x % (2 * Half)
wrap_signed(x)   == ((x + Half) % (2 * Half)) - Half

\* What follows the first k characters, and the character at the front.
Drop(s, k) == SubSeq(s, k + 1, Len(s))
Front1(s)  == IF s = <<>> THEN NUL ELSE s[1]

\* How many characters a loop `while (*p is one of C) p++` passes.
Passed(s, C) ==
    LET stops == {i \in DOMAIN s : s[i] \notin C}
    IN  IF stops = {} THEN Len(s) ELSE Min(stops) - 1

\* The value of a character as a digit, 99 when it is none.
digit_value(c) ==
    IF \E i \in DOMAIN digs : digs[i] = c THEN (CHOOSE i \in DOMAIN digs : digs[i] = c) - 1
    ELSE IF \E i \in DOMAIN CAPS : CAPS[i] = c THEN (CHOOSE i \in DOMAIN CAPS : CAPS[i] = c) + 9
    ELSE 99

digits_of(base) == {c \in Chars : digit_value(c) < base}

-----------------------------------------------------------------------------
\* The digits of u in a base; a buffer of W characters is enough from base 2 on.
printnum(u, base) ==
    LET text[v \in Nat] == IF v < base THEN <<digs[v + 1]>>
                           ELSE Append(text[v \div base], digs[(v % base) + 1])
    IN  text[u]

\* Mutant: the accumulated value is not multiplied.
accumulate_unscaled(v, base, c) == v + digit_value(c)

accumulate(v, base, c) == v * base + digit_value(c)

\* The digits at the front of s in a base: their value, each step reduced to a
\* long or an unsigned long, and what follows them.
read_digits(s, base, signed) ==
    LET k == Passed(s, digits_of(base))
        value[i \in 0 .. k] ==
            IF i = 0 THEN 0
            ELSE LET v == accumulate(value[i - 1], base, s[i])
                 IN  IF signed THEN wrap_signed(v) ELSE wrap_unsigned(v)
    IN  [value |-> value[k], rest |-> Drop(s, k)]

skip_space(s) == Drop(s, Passed(s, Spaces))

\* The base that a text in base 16 or 0 announces by its first characters, and
\* the text behind a 0x.
announced(s, base) ==
    LET hex == base \in {0, 16} /\ Len(s) > 1 /\ s[1] = "0" /\ s[2] \in {"x", "X"}
    IN  [base |-> IF hex THEN 16 ELSE IF base # 0 THEN base
                  ELSE IF Front1(s) = "0" THEN 8 ELSE 10,
         rest |-> IF hex THEN Drop(s, 2) ELSE s]

strtoul(s, base) ==
    LET a == announced(skip_space(s), base)
    IN  read_digits(a.rest, a.base, FALSE)

\* A plus sign is recognised and not passed, so that it ends the number.
strtol(s, base) ==
    LET t      == skip_space(s)
        is_neg == Front1(t) = "-"
        a      == announced(Drop(t, IF is_neg THEN 1 ELSE 0), base)
        n      == read_digits(a.rest, a.base, TRUE)
    IN  [n EXCEPT !.value = IF is_neg THEN wrap_signed(-@) ELSE @]

atol(s) == read_digits(s, 10, TRUE).value
=============================================================================
