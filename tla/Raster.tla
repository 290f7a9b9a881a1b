------------------------------- MODULE Raster -------------------------------
(***************************************************************************)
(* The emulator's line drawing: draw_line in tools/emu/emu_main.c, and the *)
(* same loop in render of tools/emu/emu_vekterm.c.  One pixel a step, with *)
(* an error term that says which way to go.                                *)
(***************************************************************************)
EXTENDS Integers

CONSTANT Ends     \* the lines drawn: their end points, on or off the screen

ASSUME RasterAssumption == Ends \subseteq [x0 : Int, y0 : Int, x1 : Int, y1 : Int]

VARIABLES l,            \* the line
          px, py,       \* the pixel lit next
          err, done

line_vars == <<l, px, py, err, done>>

abs(n) == IF n < 0 THEN -n ELSE n
Sign(n) == IF n > 0 THEN 1 ELSE -1

dx == abs(l.x1 - l.x0)
dy == -abs(l.y1 - l.y0)
sx == Sign(l.x1 - l.x0)
sy == Sign(l.y1 - l.y0)

LineInit ==
    /\ l \in Ends
    /\ px = l.x0 /\ py = l.y0 /\ err = dx + dy
    /\ done = FALSE

AtEnd == px = l.x1 /\ py = l.y1

stepx_strict == 2 * err > dy + 1 \* mutant of stepx
stepx_sign == 2 * err >= -dy \* mutant of stepx: dy taken as positive
stepx == 2 * err >= dy
stepy == 2 * err <= dx

\* The pixel is lit; then the loop goes on or ends.
Step ==
    /\ ~done /\ ~AtEnd
    /\ px' = IF stepx THEN px + sx ELSE px
    /\ py' = IF stepy THEN py + sy ELSE py
    /\ err' = err + (IF stepx THEN dy ELSE 0) + (IF stepy THEN dx ELSE 0)
    /\ UNCHANGED <<l, done>>

Finish ==
    /\ ~done /\ AtEnd
    /\ done' = TRUE
    /\ UNCHANGED <<l, px, py, err>>

\* The next line of the picture.
NextLine ==
    /\ done
    /\ l' \in Ends
    /\ px' = l'.x0 /\ py' = l'.y0 /\ err' = abs(l'.x1 - l'.x0) - abs(l'.y1 - l'.y0)
    /\ done' = FALSE

LineNext == Step \/ Finish \/ NextLine

LineSpec == LineInit /\ [][LineNext]_line_vars /\ WF_line_vars(Step \/ Finish)

-----------------------------------------------------------------------------
\* How far it has gone along each axis, both counted from the start.
gone_x == abs(px - l.x0)
gone_y == abs(py - l.y0)
Longer == IF dx > -dy THEN dx ELSE -dy

\* The pixel is within half a pixel of the ideal line, on the shorter axis, all
\* the way (as a cross product, without division).
OnTheLine == 2 * abs(gone_x * (-dy) - gone_y * dx) <= Longer

\* It never goes past the end point, on either axis.
NotPastTheEnd == gone_x <= dx /\ gone_y <= -dy

\* Every step moves along the longer axis: no pixel twice, no gap.
OneStepAlongTheLonger ==
    [][Step => IF dx >= -dy THEN px' = px + sx ELSE py' = py + sy]_line_vars

\* The loop's only exit is reached.
LineEnds == []<>done
=============================================================================
