----------------------------- MODULE MCDrawPath -----------------------------
(* The instances TLC checks DrawPath on: bytes of 16 values, corners of a  *)
(* square at unequal distances and a point near one of them, so that a     *)
(* vector starts where the last one ended, near it, or far away; and one   *)
(* vector of the least scale that is not short.                            *)
EXTENDS DrawPath

Points == {<<0, 0>>, <<13, 6>>, <<12, 7>>, <<-9, 5>>}

Vector(p, q, z) == [x0 |-> p[1], y0 |-> p[2], x1 |-> q[1], y1 |-> q[2], z |-> z]

MCVectors == {Vector(p, q, z) : p \in Points, q \in Points, z \in {0, 3, 5}}
                \union {Vector(<<0, 0>>, <<13, 6>>, 9), Vector(<<0, 0>>, <<-4, 5>>, 3)}

\* Strings at unequal distances, with strokes that join, strokes near and far
\* from each other, one reached by a move from where the last one ended, and
\* none.  A splash's strings begin away from where earlier ones ended.
Centre == <<0, 0>>
Right  == <<13, 6>>
Beside == <<12, 7>>
Left   == <<-9, 5>>

String(s, from, to, more) == [scale |-> s, strokes |-> <<Vector(from, to, 5)>> \o more]

RightStrings(ends) ==
    {String(s, Right, p, more) : s \in {1, 2}, p \in {Centre, Beside}, more \in ends}

LeftStrings ==
    {String(1, Left, Centre, more) : more \in {<<>>, <<Vector(Left, Centre, 3)>>}}

Blank == [scale |-> 4, strokes |-> <<>>]

MCSplashes ==
    {<<l, r>> : l \in LeftStrings,
                r \in RightStrings({<<Vector(Left, Right, 5), Vector(Beside, Left, 5)>>,
                                    <<Vector(Right, Centre, 5), Vector(Left, Left, 5)>>})}
    \union {<<r, Blank, l>> : r \in RightStrings({<<>>, <<Vector(Right, Beside, 5)>>}),
                              l \in LeftStrings}
=============================================================================
