------------------------------ MODULE MCSplash ------------------------------
(* The instance TLC checks Splash on: a buffer of six, numbers of up to    *)
(* three digits, and builds that fit in the buffer, fill it or do not fit. *)
(* The characters: 2 is the space, 5 a small 3, 8 to 17 are the digits, 18 *)
(* is the unit of the rate, and 0, 1 and 19 have no glyph.  Glyphs have    *)
(* pen lifts at every place, no strokes, or one point.                     *)
EXTENDS Splash

U == PenUp
MCglyphs == <<
    [width |-> 1, points |-> <<>>],
    [width |-> 2, points |-> <<0, 2, 1, U, 3, 4>>],
    [width |-> 1, points |-> <<U, 1, 0, U, U, 2>>],
    [width |-> 1, points |-> <<1>>],
    [width |-> 3, points |-> <<2, U, 0, 3, U>>]>>
MCfont == [c \in 0 .. 16 |-> MCglyphs[(c % 5) + 1]]

MCStrings == UNION {[1 .. n -> (0 .. 6) \cup {19}] : n \in 0 .. 3}
MCPens == {-2, 3}

Texts(lengths) == UNION {[1 .. k -> {4, 5}] : k \in lengths}
MCVersions == {t \o <<2>> : t \in Texts({0, 1, 4})}
MCCommits == Texts({0, 1, 2})
MCBauds == 0 .. 109 \cup {199, 900, 999}
MCBaudText == <<2, 18>>
=============================================================================
