--------------------------- MODULE MCCalculations ---------------------------
(* The instance TLC checks Calculations on.                                *)
(* Words: bytes of four bits and words of 16, laid out like the program's; *)
(* every colour, coordinates and lengths around each field's limits, and   *)
(* every damaged word.                                                     *)
(* Coordinates: ranges narrower and wider than the device's grid, through  *)
(* zero and beside it.                                                     *)
(* Lines: every line between two points around a small screen, points      *)
(* included, in every direction.                                           *)
(* Shapes: grids of up to three by two, with every pattern of blank cells, *)
(* and paths of up to two steps; on the screen and off it on every side.   *)
EXTENDS Calculations

Wide == {0, 1, 15, 16, 62, 63, 64, 65, 127, 128, 255}
Wider == Wide \union {4095, 4096, 8191, 8192, 65535}

MCCommands ==
    [flag : {RGB}, r : UInt8, g : UInt8, b : UInt8]
    \union [flag : {XY}, x : Wide, y : Wide, blank : BOOLEAN]
    \union [flag : {FRAME, QUALITY}, value : Wider]
    \union [flag : {COMPLETE}, monochrome : BOOLEAN]
    \union [flag : {EXT}, subtype : UInt8, length : Wider]
    \union [flag : {CMD}, cmd : {HELLO, KEEPALIVE}]
    \union [flag : {EXIT}]

MCNoisyBytes == UInt8

MCOutputs == (-5 .. 5) \cup {-23, -16, 31, 40}

MCEnds == [x0 : {0, 6}, y0 : {0, 5}, x1 : -3 .. 9, y1 : -3 .. 8]

Patterns(len, z) == {<<>>} \union [1 .. len -> {0, z}]

MCGrids ==
    UNION {[kind : {"heightfield"}, inten : Patterns(c * w, 5), serpentine : BOOLEAN,
            cols : {c}, rows : {w}, x0 : {-2, 3}, x_step : {-3, 4}, y0 : {-1}, y_step : {5},
            y_scale : {24}, bright : {0, 7}, disp : {[i \in 1 .. c * w |-> (5 * i) % 16]}] :
           c \in 0 .. 3, w \in {0, 2}}

\* A grid of the largest displacement times the largest scale.
MCTallGrid ==
    [kind |-> "heightfield", inten |-> <<9, 15>>, serpentine |-> TRUE, cols |-> 2, rows |-> 1,
     x0 |-> 9, x_step |-> -128, y0 |-> -128, y_step |-> 127, y_scale |-> 255, bright |-> 1,
     disp |-> <<15, 8>>]

MCSteps(is_wide) == IF is_wide THEN {<<3, -40>>, <<-100, 2>>} ELSE {<<3, -8>>, <<-4, 7>>}

MCPaths ==
    UNION {[kind : {"polyline"}, inten : Patterns(m, 3), closed : BOOLEAN, wide : {is_wide},
            x0 : {1, 9}, y0 : {12}, bright : {0, 7}, steps : [1 .. m -> MCSteps(is_wide)],
            count : {0, m + 1}] :
           m \in 0 .. 2, is_wide \in BOOLEAN}

MCShapes == MCGrids \union {MCTallGrid} \union MCPaths

MCLengths == {-10, -1, 0, 1}
=============================================================================
