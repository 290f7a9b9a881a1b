----------------------------- MODULE MCSession -----------------------------
(* The instance: a counter that wraps at 12 ticks, a timeout of 5 of them, *)
(* passes of up to 3, two buttons, and two of the line rates.              *)
EXTENDS Session

MCFewBauds == <<1280000, 2000000>>
=============================================================================
