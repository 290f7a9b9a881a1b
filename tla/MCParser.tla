------------------------------ MODULE MCParser ------------------------------
(* The instances TLC checks Parser on.  A known subtype with a one-byte    *)
(* payload header, ext_buf of two bytes, two vectors to a frame, and the   *)
(* coordinates 0, the centre 1, and 2, which is off the grid 0..1.         *)
EXTENDS Parser

MCMinPayload == [poly |-> 1]
MCSink == {"frame", "exit", "query", "keepalive"}

Word(f) == [flag |-> f]
Move(x) == [flag |-> "XY", blank |-> TRUE, x |-> x]
Lit(x) == [flag |-> "XY", blank |-> FALSE, x |-> x]
Colour == [flag |-> "RGB", z |-> 1]
Cmd(c) == [flag |-> "CMD", cmd |-> c]
Ext(s, n, g) == [flag |-> "EXT", subtype |-> s, length |-> n, geom |-> g]
Raw(a, b) == [from |-> a, to |-> b, z |-> 1]

\* Containers: empty, expanded, truncated, unknown, too long for ext_buf.
MCContainers ==
    {Ext("poly", 0, <<>>), Ext("poly", 2, <<Raw(0, 2), Raw(2, -1)>>),
     Ext("other", 1, <<>>), Ext("poly", 3, <<Raw(0, 0)>>)}

MCWords == {Word("FRAME"), Word("COMPLETE"), Word("EXIT"), Cmd("hello"), Colour, Lit(0), Move(2)}
MCItems == MCWords \union MCContainers
=============================================================================
