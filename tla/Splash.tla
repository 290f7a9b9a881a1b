------------------------------- MODULE Splash -------------------------------
(***************************************************************************)
(* draw_idle_splash of src/vekterm_baremetal.c: fixed texts and composed   *)
(* lines, each drawn by vt_draw_string before the next is begun.  Which    *)
(* texts, and in which order, is left open.                                *)
(***************************************************************************)
EXTENDS SplashText, StrokeFont

CONSTANTS Strings, Pens, Sizes   \* the fixed texts; where and how large

ASSUME SplashAssumption == Strings \subseteq Seq(Nat) /\ Pens \subseteq Int /\ Sizes \subseteq Nat

splash_vars == <<text_vars, font_vars>>

DrawFixed ==
    /\ meant = Nothing
    /\ \E str \in Strings, x \in Pens, size \in Sizes : vt_draw_string(str, x, size)
    /\ UNCHANGED text_vars

Compose ==
    /\ arg = None
    /\ StartBuild \/ StartBaud \/ Digit \/ CopyDigit \/ CopyChar
    /\ UNCHANGED font_vars

\* The NUL, and the call.
DrawLine ==
    /\ Composed
    /\ \E x \in Pens, size \in Sizes : vt_draw_string(line, x, size)
    /\ UNCHANGED text_vars

Stroke == Loop /\ UNCHANGED text_vars

NextLine == Return /\ Reset

SplashInit == TextInit /\ FontInit

SplashNext == DrawFixed \/ Compose \/ DrawLine \/ Stroke \/ NextLine

SplashSpec == SplashInit /\ [][SplashNext]_splash_vars
=============================================================================
