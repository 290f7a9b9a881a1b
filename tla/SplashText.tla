----------------------------- MODULE SplashText -----------------------------
(***************************************************************************)
(* The two lines of the splash that are put together at run time, in one   *)
(* buffer (draw_idle_splash in src/vekterm_baremetal.c): the build, of any *)
(* length, and the active rate.  One step per character, and a character   *)
(* is a number.                                                            *)
(***************************************************************************)
EXTENDS Integers, SequencesExt

CONSTANTS
    CAP,           \* sizeof line
    TMP,           \* sizeof tmp, in append_u32
    ZERO,          \* the character '0'
    Versions, Commits, Bauds, BaudText   \* the pieces of text

Sum10(digits) ==
    LET value[i \in 0 .. Len(digits)] == IF i = 0 THEN 0 ELSE 10 * value[i - 1] + digits[i]
    IN  value[Len(digits)]

ASSUME TextAssumption ==
    /\ CAP \in Nat /\ TMP \in Nat \ {0} /\ ZERO \in Nat
    /\ Versions \subseteq Seq(Nat) /\ Commits \subseteq Seq(Nat)
    /\ BaudText \in Seq(Nat) /\ TMP + Len(BaudText) < CAP
    /\ \A n \in Bauds : n \in 0 .. Sum10([i \in 1 .. TMP |-> 9])

VARIABLES
    line,    \* the buffer's first pos characters
    text,    \* what append_str has still to copy
    v, tmp,  \* append_u32's
    meant    \* the piece of text, or the number before it, that the line is made of

text_vars == <<line, text, v, tmp, meant>>

Nothing == [number |-> FALSE, text |-> <<>>]

TextInit == line = <<>> /\ text = <<>> /\ v = 0 /\ tmp = <<>> /\ meant = Nothing

\* The build line: two appends, the second where the first one stopped.
StartBuild ==
    /\ meant = Nothing
    /\ \E a \in Versions, b \in Commits :
          text' = a \o b /\ meant' = [number |-> FALSE, text |-> a \o b]
    /\ UNCHANGED <<line, v, tmp>>

StartBaud ==
    /\ meant = Nothing
    /\ \E n \in Bauds :
          /\ v' = n
          /\ line' = IF n = 0 THEN <<ZERO>> ELSE <<>>
          /\ meant' = [number |-> TRUE, value |-> n]
    /\ text' = BaudText
    /\ UNCHANGED tmp

digits_end_early == v > 9 \* mutant of digits_left
digits_left == v > 0

Digit == \* the lowest digit first
    /\ digits_left /\ Len(tmp) < TMP
    /\ tmp' = Append(tmp, ZERO + (v % 10))
    /\ v' = v \div 10
    /\ UNCHANGED <<line, text, meant>>

CopyDigit == \* and the highest first again
    /\ ~(digits_left /\ Len(tmp) < TMP) /\ tmp # <<>>
    /\ line' = Append(line, Last(tmp))
    /\ tmp' = Front(tmp) /\ v' = 0
    /\ UNCHANGED <<text, meant>>

room_to_cap == Len(line) < CAP \* mutant of room: no place for the NUL
room == Len(line) < CAP - 1

CopyChar ==
    /\ ~digits_left /\ tmp = <<>> /\ text # <<>> /\ room
    /\ line' = Append(line, Head(text))
    /\ text' = Tail(text)
    /\ UNCHANGED <<v, tmp, meant>>

Composed == meant # Nothing /\ ~digits_left /\ tmp = <<>> /\ (text = <<>> \/ ~room)

\* pos = 0 for the next line.
Reset == line' = <<>> /\ text' = <<>> /\ v' = 0 /\ tmp' = <<>> /\ meant' = Nothing

-----------------------------------------------------------------------------
\* The line and its NUL fit in the buffer, whatever the build is called:
\* append_u32 does not look at the room at all.
Fits == Len(line) < CAP

\* What is drawn is the text, cut only where the buffer ends, or the rate in
\* decimal, all its digits and no more, and its unit after it.
SaysWhatWasMeant ==
    Composed =>
        IF meant.number
        THEN LET k == Len(line) - Len(BaudText)
             IN  /\ k > 0 /\ SubSeq(line, k + 1, Len(line)) = BaudText
                 /\ Sum10([i \in 1 .. k |-> line[i] - ZERO]) = meant.value
                 /\ line[1] = ZERO => k = 1
        ELSE IsPrefix(line, meant.text) /\ Len(line) = IF Len(meant.text) < CAP THEN Len(meant.text)
                                                       ELSE CAP - 1
=============================================================================
