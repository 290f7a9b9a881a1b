------------------------------ MODULE Display -------------------------------
(***************************************************************************)
(* What a receiver promises its sender: every frame handed over in full is *)
(* taken up before the next one is, and the screen shows a whole frame     *)
(* that was handed over, the latest taken up, or the splash when none is   *)
(* held.  No other picture is ever shown.                                  *)
(***************************************************************************)
CONSTANTS Frames,   \* the pictures a sender composes
          Nothing   \* no picture: the splash

VARIABLES inbox,    \* a frame handed over in full and not taken up yet
          held,     \* the frame the receiver holds
          screen    \* what it drew last

displayVars == <<inbox, held, screen>>

DisplayInit == inbox = Nothing /\ held = Nothing /\ screen = Nothing

\* The last byte of a frame leaves the sender.
Submit == /\ inbox = Nothing
          /\ inbox' \in Frames
          /\ UNCHANGED <<held, screen>>

\* The receiver takes it up.
Accept == /\ inbox # Nothing
          /\ held' = inbox
          /\ inbox' = Nothing
          /\ UNCHANGED screen

\* The receiver gives up a frame nobody renewed.
Expire == /\ held # Nothing
          /\ held' = Nothing
          /\ UNCHANGED <<inbox, screen>>

Refresh == screen' = held /\ UNCHANGED <<inbox, held>>

DisplayNext == Submit \/ Accept \/ Expire \/ Refresh

DisplaySpec == DisplayInit /\ [][DisplayNext]_displayVars
=============================================================================
