----------------------------- MODULE MCLibrary -----------------------------
(***************************************************************************)
(* The calls of module Library that TLC considers.  A directive is made of *)
(* all its parts; a part may take an argument of its own.                  *)
(***************************************************************************)
EXTENDS Library

TheChars == {digs[i] : i \in 1 .. 16} \cup {CAPS[i] : i \in 1 .. 6} \cup Spaces
            \cup {NUL, "x", "X", "-", "+", "#", "%", "*", ".", ":", ",", "<", ">", "[", "]"}
            \cup {"T", "W", "O", "N", "F", "=", "u", "o", "z", "p", "s", "t", "l", "r", "n", "q"}

Part(f) == [fmt |-> f, args |-> <<>>]
Star(f, a) == [fmt |-> f, args |-> <<a>>]

Flags  == {<<>>, <<"-">>, <<"+">>, <<" ">>, <<"#">>, <<"-", "#">>, <<" ", "+">>}
Zeros  == {<<>>, <<"0">>}
Widths == {Part(<<>>), Part(<<"5">>), Part(<<"1", "2">>), Star(<<"*">>, 4), Star(<<"*">>, -6)}
Precs  == {Part(<<>>), Part(<<".">>), Part(<<".", "2">>), Star(<<".", "*">>, 1), Star(<<".", "*">>, -2)}

TheValues == {0, 1, 7, 8, 100, 127, -1, -128}
Words   == {<<>>, <<"a">>, <<"a", "b", "c", "d">>}
Threads == {[task |-> t, lthread |-> l, high |-> 18, low |-> l] : t \in {1, 16, 256}, l \in {2, 17}}

To(where, size, f, a) == [to |-> where, size |-> size, fmt |-> f, args |-> a]
Sprintf(f, a) == To("buffer", UNLIMITED, f, a)
Single(flags, zero, width, prec, letters, arg) ==
    Sprintf(<<"%">> \o flags \o zero \o width.fmt \o prec.fmt \o letters,
            width.args \o prec.args \o <<arg>>)

Singles ==
    {Single(f, z, w, Part(<<>>), <<c>>, v) : f \in Flags, z \in Zeros, w \in Widths,
             c \in {"d", "u", "x", "o", "z", "p"}, v \in TheValues}
    \cup {Single(f, <<>>, w, Part(<<>>), <<"l", "l", c>>, v) : f \in {<<>>, <<"#">>}, w \in Widths,
             c \in {"d", "u", "x", "o", "z", "p"}, v \in {0, 256, 32767, -1, -32768}}
    \cup {Single(f, <<>>, w, p, <<"s">>, v) : f \in {<<>>, <<"-">>}, w \in Widths,
             p \in Precs, v \in Words}
    \cup {Single(f, z, w, Part(<<>>), l \o <<"t">>, v) : f \in Flags, z \in Zeros, w \in Widths,
             l \in {<<>>, <<"l">>}, v \in Threads}

Bit(i, name) == [i |-> i, j |-> 0, name |-> name]
BITS == [base |-> 8, fields |-> <<Bit(2, <<"T", "W", "O">>), Bit(1, <<"O", "N", "E">>)>>]
FIELD == [base |-> 16, fields |-> <<[i |-> 4, j |-> 3, name |-> <<"F", "=">>],
                                    Bit(2, <<"T", "W", "O">>), Bit(1, <<"O", "N", "E">>)>>]
Registers == {Sprintf(<<"r", "%", "b">>, <<u, v>>) : u \in {0, 3, 4, 11}, v \in {BITS, FIELD}}

\* Lines of all kinds for the sinks, a NUL among them.
Lines == {<<"%">> \o x : x \in {<<"%">>, <<>>, <<"q">>, <<"r">>, <<"l", "n">>, <<"-">>}}
         \cup {[i \in 1 .. k |-> IF i = e THEN "\n" ELSE "a"] : k \in 0 .. 7, e \in 0 .. 7}
         \cup {<<"a", "%", "c", "b">>, <<"a", "a", "%", "c">>}
Sinks == {To(where, size, f, <<c>>) : where \in {"console", "buffer"}, size \in 0 .. 3,
              f \in Lines, c \in {"x", NUL}}

TheCalls == Singles \cup Registers \cup Sinks

\* R and where the rounds over it lead.
RECURSIVE Reached(_)
Reached(R) ==
    IF R = {} THEN {} ELSE R \cup Reached({Following(r) : r \in {q \in R : q.fmt # <<>>}})

ThePending == Reached({[fmt |-> c.fmt, args |-> c.args] : c \in TheCalls})

TheScans ==
    {[text |-> Printed(v, "d") \o <<" ">> \o Printed(w, "x"),
      fmt |-> TwoNumbers(k)] : v \in TheValues, w \in TheValues, k \in 0 .. 2}
    \cup {[text |-> t, fmt |-> f] :
             t \in SeqOf({"1", " ", "-", "a"}, 4),
             f \in {<<"%", "s">>, <<"%", "*", "d", "a">>, <<"%", "x", "%", "%">>,
                    <<" ", "a", "%", "s">>, <<"%", "s", " ", "%", "s">>,
                    <<"%", "*", "*", "s", " ", "%">>, <<"%", "s", "%", "s", "%", "*", "*">>}}

TheStrings == SeqOf({1, 2}, 3)
=============================================================================
