----------------------------- MODULE CoordSweep -----------------------------
(***************************************************************************)
(* vt_map_coord of src/protocol.c over a whole range: a device coordinate  *)
(* sweeps the grid from below it to above it, and each is mapped onto the  *)
(* output range, which may ascend, descend or be a single point.           *)
(***************************************************************************)
EXTENDS Protocol

CONSTANTS
    RES,       \* VT_DVG_RES_MAX, the device's largest coordinate
    Outputs,   \* the ends of output ranges
    MARGIN     \* how far off the grid the sweep begins and ends

ASSUME SweepAssumption ==
    RES \in Nat \ {0} /\ Outputs \subseteq Int /\ MARGIN \in Nat

VARIABLES out_lo, out_hi, dev, mapped

sweep_vars == <<out_lo, out_hi, dev, mapped>>

SweepInit ==
    /\ out_lo \in Outputs /\ out_hi \in Outputs
    /\ dev = -MARGIN
    /\ mapped = vt_map_coord(dev, RES, out_lo, out_hi)

Sweep ==
    /\ dev < RES + MARGIN
    /\ dev' = dev + 1
    /\ mapped' = vt_map_coord(dev', RES, out_lo, out_hi)
    /\ UNCHANGED <<out_lo, out_hi>>

SweepSpec == SweepInit /\ [][Sweep]_sweep_vars

-----------------------------------------------------------------------------
OnGrid == IF dev < 0 THEN 0 ELSE IF dev > RES THEN RES ELSE dev
Span == out_hi - out_lo
Distance(n) == IF n < 0 THEN -n ELSE n

\* Both ends of the output range are met exactly, from on the grid and from off
\* it, whichever way the range runs (protocol.c:172-176).
EndsExact ==
    /\ dev <= 0 => mapped = out_lo
    /\ dev >= RES => mapped = out_hi

\* In between it is the integer nearest the exact point (as a cross product).
Nearest == 2 * Distance((mapped - out_lo) * RES - Span * OnGrid) <= RES

\* The map never turns back.
NeverTurns ==
    [][IF out_lo <= out_hi THEN mapped <= mapped' ELSE mapped' <= mapped]_sweep_vars

\* Flipping an axis mirrors the picture, point for point.
Mirrored == vt_map_coord(dev, RES, out_hi, out_lo) = out_lo + out_hi - mapped
=============================================================================
