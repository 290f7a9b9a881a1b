------------------------------ MODULE Protocol ------------------------------
(***************************************************************************)
(* The pure arithmetic of src/protocol.c, on integers that the C types are *)
(* wide enough for (vt_map_coord works in 64 bits for that reason).        *)
(***************************************************************************)
EXTENDS Integers

\* C's integer division, which truncates towards zero.
Quotient(a, b) == IF a >= 0 THEN a \div b ELSE -((-a) \div b)

\* num / res rounded to nearest, half away from zero.
Rounded_up(num, res) == Quotient(num + res \div 2, res) \* mutant of Rounded: half up
Rounded(num, res) ==
    Quotient(IF num >= 0 THEN num + res \div 2 ELSE num - res \div 2, res)

\* Mutant of vt_map_coord: the product in too narrow an integer, of 8 bits.
vt_map_coord_narrow(dev, res, lo, hi) ==
    LET on == IF dev < 0 THEN 0 ELSE IF dev > res THEN res ELSE dev
    IN  lo + Rounded((((hi - lo) * on + 128) % 256) - 128, res)

\* The device coordinate dev in 0..res, mapped linearly onto lo..hi and rounded,
\* whichever way lo..hi runs.
vt_map_coord(dev, res, lo, hi) ==
    LET on == IF dev < 0 THEN 0 ELSE IF dev > res THEN res ELSE dev
    IN  lo + Rounded((hi - lo) * on, res)
=============================================================================
