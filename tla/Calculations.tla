---------------------------- MODULE Calculations ----------------------------
(***************************************************************************)
(* Four calculations that share no state, in one state space: the words of *)
(* Codec, the coordinates of CoordSweep, the lines of Raster and the       *)
(* shapes of ExtDecode.  A behaviour is about one of them, and the others  *)
(* are at rest.                                                            *)
(***************************************************************************)
EXTENDS Codec, CoordSweep, Raster, ExtDecode

VARIABLE about

calc_vars == <<about, vars, sweep_vars, line_vars, ext_vars>>

AtRest ==
    /\ (about # "words" => Init)
    /\ (about # "coordinates" =>
            out_lo = 0 /\ out_hi = 0 /\ dev = 0 /\ mapped = 0)
    /\ (about # "lines" =>
            /\ l = [x0 |-> 0, y0 |-> 0, x1 |-> 0, y1 |-> 0]
            /\ px = 0 /\ py = 0 /\ err = 0 /\ done = TRUE)
    /\ ExtInit

Words ==
    /\ about = "words" /\ Next
    /\ UNCHANGED <<about, sweep_vars, line_vars, ext_vars>>

Coordinates ==
    /\ about = "coordinates" /\ Sweep
    /\ UNCHANGED <<about, vars, line_vars, ext_vars>>

Lines ==
    /\ about = "lines" /\ LineNext
    /\ UNCHANGED <<about, vars, sweep_vars, ext_vars>>

ShapesTraced ==
    /\ about = "shapes" /\ ExtNext
    /\ UNCHANGED <<about, vars, sweep_vars, line_vars>>

CalcInit ==
    /\ about \in {"words", "coordinates", "lines", "shapes"}
    /\ about = "words" => Init
    /\ about = "coordinates" => SweepInit
    /\ about = "lines" => LineInit
    /\ AtRest

CalcNext == Words \/ Coordinates \/ Lines \/ ShapesTraced

CalcSpec ==
    /\ CalcInit /\ [][CalcNext]_calc_vars
    /\ WF_line_vars(Step \/ Finish)
=============================================================================
