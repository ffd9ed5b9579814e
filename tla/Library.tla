------------------------------ MODULE Library ------------------------------
(***************************************************************************)
(* The user library, one call per behaviour: a formatted output, a scan, a *)
(* string function that writes, or two strings for those that read; and    *)
(* what its functions, written apart, promise of each other.               *)
(***************************************************************************)
EXTENDS Format, Scan, StringSearch, StringCopy

CONSTANTS
    Pending,    \* what a formatted output can have left to do: records [fmt, args]
    Strings,    \* what the string functions that read are called with
    Values      \* the numbers that are printed and scanned

Numeric == {"d", "D", "z", "Z", "u", "U", "o", "O", "x", "X", "p"}

\* A field of a register: a single bit when j is 0.
Field == [i : 1 .. 32, j : 0 .. 32, name : Seq(Chars)]

\* A thread id, its fields as wide as in the code (doprnt.c:334-352).
ThreadId == [task : 0 .. 2047, lthread : 0 .. 127,
             high : 0 .. (2 * Half - 1), low : 0 .. (2 * Half - 1)]

\* The arguments of a directive are those it takes; a star takes a long.
Fits(p) ==
    /\ p.length \in 0 .. Half /\ p.prec \in long
    /\ p.conv = "c" => p.args[1] \in Chars
    /\ p.conv = "s" => p.args[1] \in Seq(Chars \ {NUL})
    /\ p.conv \in Numeric => p.args[1] \in integers(p)
    /\ p.conv = "t" => p.args[1] \in ThreadId
    /\ p.conv \in {"b", "B"} =>
          /\ p.args[1] \in Nat
          /\ p.args[2].base \in 2 .. 16 /\ p.args[2].fields \in Seq(Field)
          /\ \A k \in DOMAIN p.args[2].fields : p.args[2].fields[k].j <= p.args[2].fields[k].i

\* What is left when the first round over r is done.
Following(r) ==
    LET p == parse(Tail(r.fmt), r.args)
    IN  IF r.fmt[1] # "%" THEN [fmt |-> Tail(r.fmt), args |-> r.args]
        ELSE [fmt  |-> IF p.conv = NUL THEN <<>> ELSE p.rest,
              args |-> IF p.conv \in {"b", "B"} THEN Drop(p.args, 2)
                       ELSE IF p.conv \in Numeric \cup {"c", "s", "t"} THEN Drop(p.args, 1)
                       ELSE p.args]

\* The caller's part: every directive of every call finds its arguments.
ASSUME LibraryAssumption ==
    /\ \A c \in Calls : c.to \in {"console", "buffer"} /\ (c.size = UNLIMITED \/ c.size \in Nat)
    /\ {[fmt |-> c.fmt, args |-> c.args] : c \in Calls} \subseteq Pending
    /\ {Following(r) : r \in {q \in Pending : q.fmt # <<>>}} \subseteq Pending
    /\ \A r \in Pending :
          /\ r.fmt \in Seq(Chars \ {NUL})
          /\ Front1(r.fmt) = "%" => Fits(parse(Tail(r.fmt), r.args))
    /\ PRINTF_BUFMAX \in Nat \ {0}
    /\ \A c \in ScanCalls : c.text \in Seq(Chars \ {NUL}) /\ c.fmt \in Seq(Chars \ {NUL})
    /\ Strings \subseteq Seq(Nat \ {0})
    /\ Values \subseteq long

VARIABLES job, s1, s2

idle == <<>>

lvars == <<job, s1, s2, fvars, svars, cvars>>

NoFormat == call = idle /\ fmt = idle /\ args = idle /\ out = idle /\ sink = idle /\ status = idle
NoScan == scan_call = idle /\ sfmt = idle /\ at = 0 /\ vals = 0 /\ stored = idle /\ scan = idle
NoCopy == /\ fun = "none" /\ to = 0 /\ from = 0 /\ n = 0 /\ to_end = 0 /\ from_end = 0
          /\ mem0 = [b \in Addr |-> 0] /\ mem = mem0 /\ d = 0 /\ s = 0 /\ count = 0 /\ pc = "none"

Init ==
    \/ job = "format" /\ FInit /\ NoScan /\ NoCopy /\ s1 = idle /\ s2 = idle
    \/ job = "scan" /\ SInit /\ NoFormat /\ NoCopy /\ s1 = idle /\ s2 = idle
    \/ job = "copy" /\ CInit /\ NoFormat /\ NoScan /\ s1 = idle /\ s2 = idle
    \/ job = "search" /\ s1 \in Strings /\ s2 \in Strings /\ NoFormat /\ NoScan /\ NoCopy

Next ==
    /\ UNCHANGED <<job, s1, s2>>
    /\ \/ job = "format" /\ FNext /\ UNCHANGED <<svars, cvars>>
       \/ job = "scan" /\ SNext /\ UNCHANGED <<fvars, cvars>>
       \/ job = "copy" /\ CNext /\ UNCHANGED <<fvars, svars>>

Spec == Init /\ [][Next]_lvars

-----------------------------------------------------------------------------
\* A call that has printed one directive and nothing else.
Printing(convs) ==
    /\ job = "format" /\ status = "returned"
    /\ Front1(call.fmt) = "%"
    /\ LET p == parse(Tail(call.fmt), call.args) IN p.rest = <<>> /\ p.conv \in convs

D == parse(Tail(call.fmt), call.args)
Arg == D.args[1]

\* One that has printed a long.
PrintingLong(convs) == Printing(convs) /\ ~(D.longopt > 1)

\* What printf writes, strtol, strtoul and sscanf read back, whatever the flags,
\* the width and the padding: two pairs of functions written apart (doprnt.c:
\* 531-603, strtol.c, strtoul.c, doscan.c:72-132).  Not with a plus sign, where
\* strtol stops (strtol.c:34-35), nor a long long, which they do not read.
ReadsBackWhatItPrints ==
    /\ (PrintingLong({"d"}) /\ D.sign # <<"+">>) =>
          strtol(out, 10).value = Arg /\ signed_number(skip_space(out), 10).value = Arg
    /\ (PrintingLong({"z"}) /\ D.sign # <<"+">>) => (strtol(out, 16).value = Arg)
    /\ PrintingLong({"u"}) => (strtoul(out, 10).value = wrap_unsigned(Arg))
    /\ PrintingLong({"o"}) => (strtoul(out, IF D.altfmt THEN 0 ELSE 8).value = wrap_unsigned(Arg))
    /\ (PrintingLong({"x", "p"}) /\ (D.conv = "x" \/ ~D.altfmt)) =>
          (strtoul(out, 16).value = wrap_unsigned(Arg))

\* What is printed for a directive.
FieldText(p, v) ==
    IF p.conv = "s" THEN string_text(p, v)
    ELSE IF p.conv = "t" THEN (IF p.longopt > 0 THEN long_thread_text(p, v) ELSE short_thread_text(p, v))
    ELSE IF p.conv = "d" THEN signed_text(p, v, 10)
    ELSE IF p.conv = "z" THEN signed_text(p, v, 16)
    ELSE number_text(p, <<>>, unsigned_arg(p, v), IF p.conv = "u" THEN 10 ELSE IF p.conv = "x" THEN 16 ELSE 8)

\* A directive fills its field: never shorter than the width, never longer than
\* it needs (doprnt.c:62-65, 129-130), but for a string that is both cut and left
\* adjusted.
FillsItsField ==
    Printing({"d", "u", "x", "o", "z", "s", "t"}) =>
        LET text0 == FieldText([D EXCEPT !.length = 0], Arg)
        IN  (D.conv = "s" /\ D.ladjust /\ Len(text0) # Len(Arg))
            \/ Len(out) = Max({D.length, Len(text0)})

\* A text without its NULs.
visible(t) ==
    LET shown[i \in 0 .. Len(t)] ==
            IF i = 0 THEN <<>>
            ELSE IF t[i] = NUL THEN shown[i - 1] ELSE Append(shown[i - 1], t[i])
    IN  shown[Len(t)]

\* All that _doprnt passes on arrives, in order and once.  On the console, through
\* the buffer, its flushes and the lines (printf.c), NULs aside, since putchar adds
\* three of them; the buffer always has room for its terminator.  In snprintf's
\* memory, the front of it and a terminator, which comes one byte behind the size
\* that was given when the text is cut (sprintf.c:75).
SinksGetTheText ==
    /\ (job = "format" /\ call.to = "console") =>
          /\ visible(sink.console) \o sink.buf = visible(out)
          /\ Len(sink.buf) < PRINTF_BUFMAX
    /\ (job = "format" /\ call.to = "buffer" /\ status = "returned") =>
          sink.buf = (IF call.size = UNLIMITED \/ Len(out) <= call.size THEN out
                      ELSE SubSeq(out, 1, call.size)) \o <<NUL>>

\* A number as printf writes it without flags or width.
Printed(v, c) == number_text(parse(<<c>>, <<>>), IF v < 0 THEN <<"-">> ELSE <<>>,
                             IF v < 0 THEN -v ELSE v, IF c = "x" THEN 16 ELSE 10)

\* A format for two numbers with a blank between them, k stars in the first.
TwoNumbers(k) == <<"%">> \o [i \in 1 .. k |-> "*"] \o <<"d", " ", "%", "x">>

\* Two numbers printed with a blank between them are scanned as they were, the first
\* one dropped when it is starred, however often.  The format is only left when it
\* ends inside a directive (doscan.c:73, 166), and a text that ends in white space, as
\* a line does, only when the format has white space too, which may pass that end
\* before a %s comes to it (doscan.c:57-60, 148-154).
ScansTheText ==
    job = "scan" =>
        /\ scan = "past_format" => scan_call.fmt[Len(scan_call.fmt)] \in {"%", "*"}
        /\ (scan = "outside" /\ text # <<>> /\ isspace(text[Len(text)])) =>
              \E i \in DOMAIN scan_call.fmt : isspace(scan_call.fmt[i])
        /\ scan = "returned" =>
              \A k \in 0 .. Len(scan_call.fmt), v, w \in Values :
                  (scan_call.fmt = TwoNumbers(k) /\ text = Printed(v, "d") \o <<" ">> \o Printed(w, "x"))
                      => stored = (IF k = 0 THEN <<v, w>> ELSE <<w>>) /\ vals = Len(stored)

\* The functions that read agree with each other on every pair of strings: strcmp
\* orders all strings and strncmp agrees with it on what it is given (strcmp.c,
\* strncmp.c), and so do the searching functions, each of which could be written
\* with another (strstr.c, strchr.c, strspn.c, strcspn.c, strpbrk.c).
StringFunctionsAgree ==
    job = "search" =>
        LET front == strspn(s1, s2)
            free  == strcspn(s1, s2)
            at1   == strstr(s1, s2)
        IN
        /\ (strcmp(s1, s2) = 0) <=> (s1 = s2)
        /\ strcmp(s1, s2) = -strcmp(s2, s1)
        /\ \A t \in Strings : (strcmp(s1, s2) <= 0 /\ strcmp(s2, t) <= 0) => strcmp(s1, t) <= 0
        /\ \A k \in 0 .. (Len(s1) + 1) :
              strncmp(s1, s2, k) = strcmp(SubSeq(s1, 1, Min({k, Len(s1)})), SubSeq(s2, 1, Min({k, Len(s2)})))
        /\ front = 0 \/ free = 0
        /\ strpbrk(s1, s2) = (IF \A i \in DOMAIN s2 : strchr(s1, s2[i]) = -1
                              THEN -1 ELSE free)
        /\ \A c \in Range(s1) \cup Range(s2) :
              /\ strchr(s1, c) = strstr(s1, <<c>>) /\ strchr(s1, c) = strpbrk(s1, <<c>>)
              /\ strrchr(s1, c) >= strchr(s1, c)
              /\ strchr(s2, c) # -1 => strcspn(s1, <<c>>) >= free
        /\ at1 >= 0 => strncmp(Drop(s1, at1), s2, Len(s2)) = 0
        /\ \A k \in 0 .. (Len(s1) - Len(s2)) :
              strncmp(Drop(s1, k), s2, Len(s2)) = 0 => at1 \in 0 .. k
=============================================================================
