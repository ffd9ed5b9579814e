------------------------------- MODULE Format -------------------------------
(***************************************************************************)
(* The printf family of the user library: _doprnt (stdio/doprnt.c) with    *)
(* the sinks that take its characters (sprintf.c, printf.c, puts.c,        *)
(* putchar.c).  One action is one round of the loop over the format: a     *)
(* literal character, or a whole conversion with all the characters it     *)
(* passes on.                                                              *)
(***************************************************************************)
EXTENDS Numerals

CONSTANTS
    Calls,          \* the calls considered: records [to, size, fmt, args]
    PRINTF_BUFMAX,  \* 128 in the code
    UNLIMITED       \* the size of sprintf

VARIABLES
    call,       \* the call as it was made
    fmt,        \* the rest of the format
    args,       \* the arguments not yet taken
    out,        \* the characters _doprnt has passed on, and the sink's state
    sink,
    status      \* "runs", "returned", or "raise" after a division by zero

fvars == <<call, fmt, args, out, sink, status>>

-----------------------------------------------------------------------------
(* The sinks.  write is the system call: text for the console.             *)

write(st, text) == [st EXCEPT !.console = @ \o text]

\* putchar writes the sizeof(int) bytes of its argument.
putchar(st, c) == write(st, <<c, NUL, NUL, NUL>>)
puts(st, text) == write(write(st, text), <<"\n">>)
flush(st)      == [write(st, st.buf) EXCEPT !.buf = <<>>]

\* Mutant: the buffer takes one character too many.
full_late(st) == Len(st.buf) >= PRINTF_BUFMAX

buffer_full(st) == Len(st.buf) >= PRINTF_BUFMAX - 1

\* buf[0 .. index-1], to which every way out of the buffer appends a NUL.
printf_char(st, c) ==
    IF c = "\n" THEN [puts(st, st.buf) EXCEPT !.buf = <<>>]
    ELSE IF c = NUL \/ buffer_full(st) THEN putchar(flush(st), c)
    ELSE [st EXCEPT !.buf = Append(@, c)]

\* What is stored; its length is also the count that is returned.
savechar(st, c, size) ==
    IF size # UNLIMITED /\ Len(st.buf) = size THEN st
    ELSE [st EXCEPT !.buf = Append(@, c)]

putc(st, c) == IF call.to = "console" THEN printf_char(st, c) ELSE savechar(st, c, call.size)

\* The sink when the characters of a text have been passed to it, one by one.
put_all(st, text) ==
    LET after[i \in 0 .. Len(text)] == IF i = 0 THEN st ELSE putc(after[i - 1], text[i])
    IN  after[Len(text)]

\* The end of vprintf, and of vsprintf and vsnprintf with their terminator.
finish(st) ==
    IF call.to # "console" THEN [st EXCEPT !.buf = Append(@, NUL)]
    ELSE IF st.buf = <<>> THEN st ELSE flush(st)

-----------------------------------------------------------------------------
(* What stands between a percent sign and its conversion character.        *)

number(s) == read_digits(s, 10, TRUE).value

\* Digits of the format, an argument for a star, or neither; and what is left of
\* the format and of the arguments.
parse_number(f, a, default) ==
    LET n == Passed(f, Decimal)
    IN  IF n > 0 THEN [value |-> number(f), rest |-> Drop(f, n), args |-> a]
        ELSE IF Front1(f) = "*" THEN [value |-> a[1], rest |-> Tail(f), args |-> Tail(a)]
        ELSE [value |-> default, rest |-> f, args |-> a]

\* The precision behind the width, and the directive once all of it has been read:
\* a negative width is a positive one adjusted to the other side.
precision(width) ==
    IF Front1(width.rest) = "." THEN parse_number(Tail(width.rest), width.args, -1)
    ELSE [width EXCEPT !.value = -1]

directive(flags, zero, width, prec, longs) ==
    [altfmt  |-> "#" \in flags,
     sign    |-> IF "+" \in flags THEN <<"+">> ELSE IF " " \in flags THEN <<" ">> ELSE <<>>,
     padc    |-> IF zero THEN "0" ELSE " ",
     ladjust |-> (width.value < 0) # ("-" \in flags),
     length  |-> IF width.value < 0 THEN -width.value ELSE width.value,
     prec    |-> prec.value,
     longopt |-> longs,
     conv    |-> Front1(Drop(prec.rest, longs)),
     rest    |-> Drop(prec.rest, longs + 1),
     args    |-> prec.args]

\* f is the format behind the percent sign, a the arguments.
parse(f, a) ==
    LET n     == Passed(f, {"#", "-", "+", " "})
        zero  == Front1(Drop(f, n)) = "0"
        width == parse_number(Drop(f, IF zero THEN n + 1 ELSE n), a, 0)
        prec  == precision(width)
    IN  directive({f[i] : i \in 1 .. n}, zero, width, prec, Passed(prec.rest, {"l"}))

\* The values of an integer argument, which is a long long behind two l's, and the
\* unsigned number that has its bits.
integers(d) == IF d.longopt > 1 THEN long_long ELSE long
unsigned_arg(d, u) == IF d.longopt > 1 THEN u % ((2 * Half) * (2 * Half)) ELSE wrap_unsigned(u)

pad(c, n) == [i \in 1 .. n |-> c]       \* empty when n is negative

-----------------------------------------------------------------------------
(* The text of each conversion, d being the parsed directive.              *)

\* %s.  Left adjusted, a text that the precision cuts counts one too many.
string_text(d, p) ==
    LET cut     == IF d.prec = -1 THEN Len(p) ELSE IF d.prec < 0 THEN 0 ELSE d.prec
        shown   == SubSeq(p, 1, Min({Len(p), cut}))
        counted == Len(shown) + (IF Len(shown) < Len(p) THEN 1 ELSE 0)
    IN  IF d.ladjust THEN shown \o pad(" ", d.length - counted)
        ELSE pad(" ", d.length - Len(shown)) \o shown

\* Mutant: the sign does not count for the width.
taken_without_sign(sign, prefix, digits) == Len(prefix) + Len(digits)

taken(sign, prefix, digits) == Len(sign) + Len(prefix) + Len(digits)

\* print_num: blanks before the sign, or zeros behind it, or blanks at the end.
number_text(d, sign, u, base) ==
    LET prefix == IF u = 0 \/ ~d.altfmt THEN <<>>
                  ELSE IF base = 8 THEN <<"0">> ELSE IF base = 16 THEN <<"0", "x">> ELSE <<>>
        digits == printnum(u, base)
        fill   == d.length - taken(sign, prefix, digits)
    IN  (IF d.padc = " " /\ ~d.ladjust THEN pad(" ", fill) ELSE <<>>)
        \o sign \o prefix
        \o (IF d.padc = "0" THEN pad("0", fill) ELSE <<>>)
        \o digits
        \o (IF d.padc = " " /\ d.ladjust THEN pad(" ", fill) ELSE <<>>)

signed_text(d, n, base) ==
    number_text(d, IF n >= 0 THEN d.sign ELSE <<"-">>, IF n >= 0 THEN n ELSE -n, base)

\* The width and the zeros of %p come after its 0x.
pointer_text(d, u) ==
    <<"0", "x">> \o number_text([d EXCEPT !.padc = "0", !.length = 8], <<>>, u, 16)

two_to(k) == LET power[i \in 0 .. k] == IF i = 0 THEN 1 ELSE 2 * power[i - 1] IN power[k]

bits(u, i, j) == (u \div two_to(j - 1)) % two_to(i - j + 1)     \* bits j to i, from 1

\* %b: v has the base and the fields; a field has a single bit i when its j is 0.
register_text(u, v) ==
    LET shown(f) == f.j # 0 \/ bits(u, f.i, f.i) = 1
        item(f)  == f.name \o (IF f.j = 0 THEN <<>> ELSE printnum(bits(u, f.i, f.j), v.base))
        list[k \in 0 .. Len(v.fields)] ==
            IF k = 0 THEN <<>>
            ELSE IF ~shown(v.fields[k]) THEN list[k - 1]
            ELSE list[k - 1] \o (IF list[k - 1] = <<>> THEN <<"<">> ELSE <<",">>) \o item(v.fields[k])
        text == list[Len(v.fields)]
    IN  printnum(u, v.base) \o (IF u = 0 \/ text = <<>> THEN <<>> ELSE Append(text, ">"))

\* printnum_16 has always eight digits.
printnum_16(u) == pad("0", 8 - Len(printnum(u, 16))) \o printnum(u, 16)

bracket(d, text) == IF d.altfmt THEN <<"[">> \o text \o <<"]">> ELSE text

\* %lt: both words of a thread id.
long_thread_text(d, id) ==
    LET text == bracket(d, printnum_16(id.high) \o <<":">> \o printnum_16(id.low))
        fill == IF d.length > 0 THEN d.length - Len(text) ELSE 0
    IN  IF d.ladjust THEN text \o pad(" ", fill) ELSE pad(" ", fill) \o text

\* %t: task.thread.  m and n count the digits, the point and the brackets; two
\* places are kept for the thread, what else is missing goes before the task.
short_thread_text(d, id) ==
    LET m      == IF id.lthread >= 16 THEN 2 ELSE 1
        n      == (IF d.altfmt THEN 4 ELSE 2)
                  + (IF id.task >= 16 THEN 1 ELSE 0) + (IF id.task >= 256 THEN 1 ELSE 0)
        right  == d.length > 0 /\ ~d.ladjust
        before == IF right /\ d.length > n + 2 THEN d.length - n - 2 ELSE 0
        middle == IF right THEN d.length - (n + before) - m ELSE 0
        text   == bracket(d, (IF d.padc = "0" THEN pad("0", before) ELSE <<>>)
                             \o printnum(id.task, 16) \o <<".">>
                             \o pad(d.padc, middle) \o printnum(id.lthread, 16))
    IN  (IF d.padc = " " THEN pad(" ", before) ELSE <<>>)
        \o text
        \o (IF d.ladjust THEN pad(" ", d.length - n - m) ELSE <<>>)

-----------------------------------------------------------------------------
(* The loop.                                                               *)

Directive == parse(Tail(fmt), args)

\* text is passed on; the format goes on behind the directive with the rest of
\* the arguments.
Emit(text, rest, more) ==
    /\ out' = out \o text
    /\ sink' = put_all(sink, text)
    /\ fmt' = rest
    /\ args' = more
    /\ UNCHANGED <<call, status>>

Running == status = "runs"

literal ==
    /\ Running /\ fmt # <<>> /\ fmt[1] # "%"
    /\ Emit(<<fmt[1]>>, Tail(fmt), args)

Converts(convs) == Running /\ Front1(fmt) = "%" /\ Directive.conv \in convs

\* One argument, turned to text.
EmitArg(Text(_, _)) ==
    LET d == Directive IN Emit(Text(d, d.args[1]), d.rest, Drop(d.args, 1))

conv_c == Converts({"c"}) /\ EmitArg(LAMBDA d, c : <<c>>)
conv_s == Converts({"s"}) /\ EmitArg(string_text)
conv_d == Converts({"d", "D"}) /\ EmitArg(LAMBDA d, n : signed_text(d, n, 10))
conv_z == Converts({"z", "Z"}) /\ EmitArg(LAMBDA d, n : signed_text(d, n, 16))
conv_u == Converts({"u", "U"}) /\ EmitArg(LAMBDA d, u : number_text(d, <<>>, unsigned_arg(d, u), 10))
conv_o == Converts({"o", "O"}) /\ EmitArg(LAMBDA d, u : number_text(d, <<>>, unsigned_arg(d, u), 8))
conv_x == Converts({"x", "X"}) /\ EmitArg(LAMBDA d, u : number_text(d, <<>>, unsigned_arg(d, u), 16))
conv_p == Converts({"p"}) /\ EmitArg(LAMBDA d, u : pointer_text(d, unsigned_arg(d, u)))

conv_t ==
    /\ Converts({"t"})
    /\ EmitArg(LAMBDA d, id : IF d.longopt > 0 THEN long_thread_text(d, id)
                                               ELSE short_thread_text(d, id))

conv_b ==
    LET d == Directive
    IN  /\ Converts({"b", "B"})
        /\ Emit(register_text(d.args[1], d.args[2]), d.rest, Drop(d.args, 2))

\* Every caller passes 0 for the radix, which print_num divides by.
conv_radix ==
    /\ Converts({"r", "R", "n", "N"})
    /\ status' = "raise"
    /\ UNCHANGED <<call, fmt, args, out, sink>>

\* A directive that the end of the format cuts off prints nothing; of any other
\* character, the character.
conv_end   == Converts({NUL}) /\ Emit(<<>>, <<>>, Directive.args)
conv_other ==
    /\ Running /\ Front1(fmt) = "%"
    /\ Directive.conv \notin {NUL, "b", "B", "c", "t", "s", "o", "O", "d", "D", "u", "U",
                              "p", "x", "X", "z", "Z", "r", "R", "n", "N"}
    /\ Emit(<<Directive.conv>>, Directive.rest, Directive.args)

returns ==
    /\ Running /\ fmt = <<>>
    /\ sink' = finish(sink)
    /\ status' = "returned"
    /\ UNCHANGED <<call, fmt, args, out>>

FInit ==
    /\ call \in Calls
    /\ fmt = call.fmt
    /\ args = call.args
    /\ out = <<>>
    /\ sink = [buf |-> <<>>, console |-> <<>>]
    /\ status = "runs"

FNext ==
    \/ literal \/ conv_c \/ conv_s \/ conv_d \/ conv_z \/ conv_u \/ conv_o \/ conv_x
    \/ conv_p \/ conv_t \/ conv_b \/ conv_radix \/ conv_end \/ conv_other \/ returns
=============================================================================
