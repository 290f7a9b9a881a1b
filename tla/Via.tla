-------------------------------- MODULE Via --------------------------------
(***************************************************************************)
(* tools/emu/via_vectrex.c: the emulator's 6522 VIA and the integrators it *)
(* drives, as an operator from the model's state and one register write to *)
(* the state after it.  A ramp is `armed' by the write that starts T1 and  *)
(* moves the beam later, when it is committed.                             *)
(*                                                                         *)
(* Data.  A byte has BYTE values, its upper half negative to the DAC and   *)
(* blanked to the Z input (bit 7).  What port B's bits select and what the *)
(* control register's do is named instead of spelt.                        *)
(***************************************************************************)
EXTENDS Protocol, Sequences

CONSTANTS BYTE,                \* values of a byte
          SCALE_STRENGTH_DIF   \* ticks a ramp lasts beyond T1's count

HALF == BYTE \div 2
Signed(b) == IF b < HALF THEN b ELSE b - BYTE
Unsigned(n) == n % BYTE

ASSUME ViaAssumption == HALF \in Nat \ {0} /\ BYTE = 2 * HALF /\ SCALE_STRENGTH_DIF \in Nat

\* Port B: the DAC drives the Y integrator, the brightness, something else
\* behind the multiplexer, or (multiplexer off) the X integrator.
Muxes == {"y", "z", "other", "off"}
\* The control register: /BLANK high, and /ZERO low.
Controls == [beam : BOOLEAN, zero : BOOLEAN]

vx_reset ==
    [t1 |-> [lo |-> 0, hi |-> 0], x |-> 0, y |-> 0, dac |-> 0, mux |-> "off",
     x_rate |-> 0, y_rate |-> 0, intensity |-> 0, beam_on |-> FALSE, armed |-> FALSE,
     a_xrate |-> 0, a_yrate |-> 0, a_visible |-> FALSE, a_ticks |-> 0, lines |-> <<>>]

commit_ramp(v) ==
    LET nx == v.x + v.a_xrate * v.a_ticks
        ny == v.y + v.a_yrate * v.a_ticks
        line == [x0 |-> v.x, y0 |-> v.y, x1 |-> nx, y1 |-> ny, z |-> v.intensity]
        shown == v.a_visible /\ v.intensity \in 1 .. HALF - 1
    IN  IF ~v.armed THEN v
        ELSE [v EXCEPT !.x = nx, !.y = ny, !.armed = FALSE,
                       !.lines = IF shown THEN Append(@, line) ELSE @]

arm_over(v) == \* mutant of arm_ramp: the ramp before it is forgotten
    [v EXCEPT !.a_ticks = v.t1.lo + v.t1.hi * BYTE + SCALE_STRENGTH_DIF,
              !.a_xrate = v.x_rate, !.a_yrate = v.y_rate,
              !.a_visible = v.beam_on, !.armed = TRUE]

arm_ramp(v) ==
    [commit_ramp(v) EXCEPT !.a_ticks = v.t1.lo + v.t1.hi * BYTE + SCALE_STRENGTH_DIF,
                           !.a_xrate = v.x_rate, !.a_yrate = v.y_rate,
                           !.a_visible = v.beam_on, !.armed = TRUE]

\* The DAC reaches what the multiplexer lets it.
Routed(v) ==
    CASE v.mux = "y"   -> [v EXCEPT !.y_rate = v.dac]
      [] v.mux = "z"   -> [v EXCEPT !.intensity = Unsigned(v.dac)]
      [] v.mux = "off" -> [v EXCEPT !.x_rate = v.dac]
      [] OTHER         -> v

Switched_dull(v, on) == \* mutant of Switched: an armed ramp stays dark
    IF on THEN [v EXCEPT !.beam_on = on] ELSE commit_ramp([v EXCEPT !.beam_on = on])

\* The beam is switched: on while a ramp is armed, it lights that ramp.
Switched(v, on) ==
    LET lit == [v EXCEPT !.a_visible = @ \/ (on /\ v.armed), !.beam_on = on]
    IN  IF on THEN lit ELSE commit_ramp(lit)

vectrexwrite(v, reg, data) ==
    CASE reg = "PORTA" -> Routed([v EXCEPT !.dac = Signed(data)])
      [] reg = "PORTB" -> Routed([v EXCEPT !.mux = data])
      [] reg = "T1CL"  -> [v EXCEPT !.t1.lo = data]
      [] reg = "T1CH"  -> arm_ramp([v EXCEPT !.t1.hi = data])
      [] reg = "PCR"   -> LET w == Switched(v, data.beam)
                          IN  IF data.zero THEN [commit_ramp(w) EXCEPT !.x = 0, !.y = 0] ELSE w
      [] reg = "SR" /\ data \in {0, BYTE - 1} -> Switched(v, data = BYTE - 1)
      [] OTHER -> v

vx_flush(v) == commit_ramp(v)
=============================================================================
