------------------------------ MODULE Console ------------------------------
(***************************************************************************)
(* The console calls of kernel/syscall/io.c, and the program               *)
(* tasks/typo/typo.c that reads a line with one of them and echoes it with *)
(* the other.  A step is one key or one character: both calls wait for the *)
(* serial line, and the user types whatever he likes.                      *)
(*                                                                         *)
(* Characters are abstract, but for those the calls look for.              *)
(***************************************************************************)
EXTENDS Integers, Sequences, SequencesExt

CONSTANTS
    Letters,        \* the characters without a meaning
    Size,           \* sizeof(buf) in main
    Wrap            \* 2^32: where an unsigned int starts again from 0

EOT == "eot"        \* 4
BS  == "bs"         \* 8 and 127
NL  == "nl"         \* 10 and 13; '\n' in the buffer
NUL == "nul"
Keys   == Letters \cup {EOT, BS, NL}
Places == {"low", "sdram", "high"}      \* where a caller's buffer may lie

ASSUME ConsoleAssumption ==
    /\ Size \in 2 .. (Wrap - 2) /\ Wrap \in Nat
    /\ Letters \cap {EOT, BS, NL, NUL} = {}

VARIABLES
    pc,             \* where main is: "main" (about to read), "read",
                    \* "typo" (has read) or "write"
    i,              \* the loop variable of the call, an unsigned int
    ret,            \* the answer of the last call
    buf,            \* main's buffer, and at index Size the byte behind it
    screen,         \* what the terminal shows of the line since the read began
    strayed,        \* whether erase was pressed with nothing to erase
    finish,         \* how the last read ended: "newline", "eot" or "full"
    echo            \* what the last write has put out

vars == <<pc, i, ret, buf, screen, strayed, finish, echo>>

Init ==
    /\ pc = "main" /\ i = 0 /\ ret = 0
    /\ buf = [k \in 0 .. Size |-> NUL]
    /\ screen = <<>> /\ strayed = FALSE /\ finish = "none" /\ echo = <<>>

-----------------------------------------------------------------------------
\* EBADF and EFAULT.
refused(fd_is_right, place) ==
    /\ pc = "main"
    /\ ~fd_is_right \/ place # "sdram"
    /\ ret' = -1
    /\ UNCHANGED <<pc, i, buf, screen, strayed, finish, echo>>

\* read(0, buf, Size) passes the checks.
read_syscall ==
    /\ pc = "main" /\ pc' = "read"
    /\ i' = 0
    /\ screen' = <<>> /\ strayed' = FALSE /\ finish' = "none" /\ echo' = <<>>
    /\ UNCHANGED <<ret, buf>>

returns(n, why) == pc' = "typo" /\ ret' = n /\ finish' = why

eot_key ==
    /\ returns(i, "eot")
    /\ UNCHANGED <<i, buf, screen, strayed, echo>>

\* Mutant: the loop's i++ is not allowed for.
step_back_once == (i - 1) % Wrap

step_back == (i - 2) % Wrap

erase_key ==
    /\ IF i > 0
       THEN /\ i' = (step_back + 1) % Wrap
            /\ screen' = IF screen = <<>> THEN <<>> ELSE Front(screen)
            /\ UNCHANGED strayed
       ELSE i' = 1 /\ strayed' = TRUE /\ UNCHANGED screen
    /\ UNCHANGED <<pc, ret, buf, finish, echo>>

line_ended == [buf EXCEPT ![i] = NL, ![i + 1] = NUL]

newline_key ==
    /\ buf' = line_ended
    /\ screen' = Append(screen, NL)
    /\ i' = i + 1
    /\ returns(i + 1, "newline")
    /\ UNCHANGED <<strayed, echo>>

letter_key(key) ==
    /\ buf' = [buf EXCEPT ![i] = key]
    /\ screen' = Append(screen, key)
    /\ i' = i + 1
    /\ UNCHANGED <<pc, ret, strayed, finish, echo>>

\* One round of the loop of read_syscall, with what getc() delivers.
take_key(key) ==
    /\ pc = "read" /\ i < Size
    /\ \/ key = EOT /\ eot_key
       \/ key = BS /\ erase_key
       \/ key = NL /\ newline_key
       \/ key \in Letters /\ letter_key(key)

read_full ==
    /\ pc = "read" /\ ~(i < Size)
    /\ returns(i, "full")
    /\ UNCHANGED <<i, buf, screen, strayed, echo>>

\* typo.c: a line that fills the buffer is complained about, any other one is
\* written with the size of the buffer, less one, as its length.
typo ==
    /\ pc = "typo"
    /\ IF ret >= Size
       THEN pc' = "main" /\ UNCHANGED i
       ELSE pc' = "write" /\ i' = 0
    /\ UNCHANGED <<ret, buf, screen, strayed, finish, echo>>

\* Mutant: the line goes on behind its newline.
never_ends == FALSE

line_ends == buf[i] = NL

\* One round of the loop of write_syscall: it ends behind the first newline.
put_char ==
    /\ pc = "write" /\ i < Size - 1
    /\ echo' = Append(echo, buf[i])
    /\ i' = i + 1
    /\ IF line_ends THEN pc' = "main" /\ ret' = i + 1 ELSE UNCHANGED <<pc, ret>>
    /\ UNCHANGED <<buf, screen, strayed, finish>>

write_full ==
    /\ pc = "write" /\ ~(i < Size - 1)
    /\ pc' = "main" /\ ret' = i
    /\ UNCHANGED <<i, buf, screen, strayed, finish, echo>>

Next ==
    \/ \E fd_is_right \in BOOLEAN, place \in Places : refused(fd_is_right, place)
    \/ read_syscall
    \/ \E key \in Keys : take_key(key)
    \/ read_full
    \/ typo
    \/ put_char
    \/ write_full

Spec == Init /\ [][Next]_vars

-----------------------------------------------------------------------------
Stored(n) == [k \in 1 .. n |-> buf[k - 1]]

\* Types; i never stays at the value that an erase at 1 wraps it to.
TypeOK ==
    /\ pc \in {"main", "read", "typo", "write"}
    /\ i \in 0 .. Size
    /\ ret \in -1 .. Size
    /\ buf \in [0 .. Size -> Letters \cup {NL, NUL}]
    /\ screen \in Seq(Letters \cup {NL})
    /\ strayed \in BOOLEAN
    /\ finish \in {"none", "newline", "eot", "full"}
    /\ echo \in Seq(Letters \cup {NL, NUL})

\* What the user sees is what the program gets, after every key and every
\* correction (io.c:47-72), unless erase was pressed on an empty line.
SeenIsStored == pc \in {"read", "typo"} /\ ~strayed => Stored(i) = screen

\* A line that the user has ended is echoed to its end and no further, though
\* typo.c passes a length that has nothing to do with it.
EchoesTheLine ==
    [][pc = "write" /\ pc' = "main" /\ finish = "newline" /\ ~strayed
          => echo' = screen]_vars
=============================================================================
