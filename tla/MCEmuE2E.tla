------------------------------ MODULE MCEmuE2E ------------------------------
(* The instance TLC checks EmuE2E on. *)
EXTENDS EmuE2E
=============================================================================
