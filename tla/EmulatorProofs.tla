--------------------------- MODULE EmulatorProofs ---------------------------
(***************************************************************************)
(* The emulator.                                                           *)
(*                                                                         *)
(* Raster: for every line between integer points, draw_line stays within   *)
(* half a pixel of it, never passes its end, and moves along its longer    *)
(* axis at every step.  The argument: after a steps along x and b along y  *)
(* the error term is D - E - c, where D and E are the line's extents and   *)
(* c = a * E - b * D is how far the pixel is off the line.                 *)
(*                                                                         *)
(* EmuE2E: however many frames, segments and passes there are, what the    *)
(* end-to-end tool renders is the last picture received, whole, and        *)
(* nothing older than the one on its way at the clear.  The argument is    *)
(* what is settled after the first, second and third reply since then.     *)
(*                                                                         *)
(* DrawPath: libpitrex writes a register of the VIA only when it believes  *)
(* the VIA to hold something else.  Every vector still becomes one line of *)
(* its own brightness and a straight one, and the drift stays bounded.  The *)
(* argument: what each cache knows is so, the beam rests between calls, and *)
(* T1 has the scale's low byte, or the next ramp needs another scale.      *)
(***************************************************************************)
EXTENDS Raster, EmuE2E, DrawPath, SequenceTheorems, TLAPS

-----------------------------------------------------------------------------
(* Lines.                                                                  *)

D == dx
E == -dy

\* The pixel is a steps along x and b steps along y, and c off the line.
At(a, b) ==
    /\ px = l.x0 + (IF l.x1 > l.x0 THEN a ELSE -a)
    /\ py = l.y0 + (IF l.y1 > l.y0 THEN b ELSE -b)
    /\ err = D - E - (a * E - b * D)
    /\ 2 * (a * E - b * D) <= Longer /\ -Longer <= 2 * (a * E - b * D)

LineInv ==
    /\ l \in [x0 : Int, y0 : Int, x1 : Int, y1 : Int]
    /\ \E a \in 0 .. D, b \in 0 .. E : At(a, b)

-----------------------------------------------------------------------------
(* The arithmetic, over integers alone.  d and e are the extents, c = a * e *)
(* - b * d the distance off the line.                                       *)

\* Where a coordinate of the pixel is at the line's end: after all its steps.
LEMMA EndOfAxis ==
    ASSUME NEW p0 \in Int, NEW p1 \in Int, NEW a \in 0 .. abs(p1 - p0)
    PROVE  (p0 + (IF p1 > p0 THEN a ELSE -a) = p1) <=> (a = abs(p1 - p0))
BY DEF abs

\* A product grows with its factor.
LEMMA Grows ==
    ASSUME NEW d \in Nat, NEW n \in Int, n >= 1
    PROVE  d * n \in Int /\ d * n >= d
<1>1. PICK m \in Nat : n = m + 1
  BY n - 1 \in Nat, n = (n - 1) + 1
<1>2. d * m \in Nat
  OBVIOUS
<1>3. d * n = d * m + d
  BY <1>1
<1> QED BY <1>2, <1>3

\* On the longer axis the line's end is passed only from the end itself.
LEMMA LongerEnds ==
    ASSUME NEW d \in Nat, NEW e \in Nat, NEW b \in 0 .. e, d > 0,
           2 * (d * e - b * d) <= d
    PROVE  b = e
<1> SUFFICES ASSUME b # e PROVE FALSE
  OBVIOUS
<1>1. e - b \in Int /\ e - b >= 1
  OBVIOUS
<1>2. d * (e - b) >= d
  BY <1>1, Grows
<1>3. d * e - b * d = d * (e - b)
  OBVIOUS
<1> DEFINE q == d * (e - b)
<1>4. q \in Int
  OBVIOUS
<1>5. 2 * q <= d /\ q >= d
  BY <1>2, <1>3
<1> HIDE DEF q
<1> QED BY <1>4, <1>5

\* With every step of the shorter axis taken the line is behind the pixel.
LEMMA ShorterDone ==
    ASSUME NEW d \in Nat, NEW e \in Nat, NEW a \in 0 .. d, a < d
    PROVE  d * e - a * e >= e
<1>1. d - a \in Int /\ d - a >= 1
  OBVIOUS
<1>2. e * (d - a) >= e
  BY <1>1, Grows
<1>3. d * e - a * e = e * (d - a)
  OBVIOUS
<1> QED BY <1>2, <1>3

\* One step of the loop on the error: the longer axis always moves and the
\* shorter moves when that keeps the pixel on the line.
LEMMA OnTheError ==
    ASSUME NEW d \in Nat, NEW e \in Nat, NEW c \in Int, NEW r \in Int, e <= d,
           r = d - e - c, 2 * c <= d, -d <= 2 * c
    PROVE  /\ 2 * r >= -e
           /\ 2 * r <= d => /\ 2 * (c + e - d) <= d
                            /\ -d <= 2 * (c + e - d)
           /\ 2 * r > d => 2 * (c + e) <= d /\ -d <= 2 * (c + e)
OBVIOUS

LEMMA OnTheErrorY ==
    ASSUME NEW d \in Nat, NEW e \in Nat, NEW c \in Int, NEW r \in Int, d < e,
           r = d - e - c, 2 * c <= e, -e <= 2 * c
    PROVE  /\ 2 * r <= d
           /\ 2 * r >= -e => /\ 2 * (c + e - d) <= e
                             /\ -e <= 2 * (c + e - d)
           /\ 2 * r < -e => 2 * (c - d) <= e /\ -e <= 2 * (c - d)
OBVIOUS

\* What one more step along either axis does to c.
LEMMA Products ==
    ASSUME NEW d \in Nat, NEW e \in Nat, NEW a \in Nat, NEW b \in Nat
    PROVE  /\ a * e - b * d \in Int
           /\ (a + 1) * e - b * d = (a * e - b * d) + e
           /\ a * e - (b + 1) * d = (a * e - b * d) - d
           /\ (a + 1) * e - (b + 1) * d = (a * e - b * d) + e - d
<1>1. a * e \in Int /\ b * d \in Int
  OBVIOUS
<1>2. (a + 1) * e = a * e + e
  OBVIOUS
<1>3. (b + 1) * d = b * d + d
  OBVIOUS
<1> DEFINE ae == a * e
           bd == b * d
<1>4. ae \in Int /\ bd \in Int
  BY <1>1
<1>5. (a + 1) * e = ae + e /\ (b + 1) * d = bd + d
  BY <1>2, <1>3
<1> HIDE DEF ae, bd
<1>6. /\ ae - bd \in Int
      /\ (a + 1) * e - bd = (ae - bd) + e
      /\ ae - (b + 1) * d = (ae - bd) - d
      /\ (a + 1) * e - (b + 1) * d = (ae - bd) + e - d
  BY <1>4, <1>5
<1> QED BY <1>6 DEF ae, bd

LEMMA NoStepsYet ==
    ASSUME NEW d \in Nat, NEW e \in Nat
    PROVE  d - e - (0 * e - 0 * d) = d - e /\ 2 * (0 * e - 0 * d) = 0
<1>1. 0 * e = 0 /\ 0 * d = 0
  OBVIOUS
<1> QED BY <1>1

LEMMA Extents ==
    ASSUME LineInv
    PROVE  /\ D \in Nat /\ E \in Nat
           /\ D = abs(l.x1 - l.x0) /\ E = abs(l.y1 - l.y0)
           /\ dx = D /\ dy = -E
           /\ l.x0 \in Int /\ l.x1 \in Int /\ l.y0 \in Int /\ l.y1 \in Int
           /\ Longer = IF D > E THEN D ELSE E
BY DEF LineInv, D, E, dx, dy, abs, Longer

-----------------------------------------------------------------------------
\* What a step of the loop does: a + i and b + j steps are taken after it, the
\* longer axis always moves, and neither axis moves past its end.
LEMMA Moves ==
    ASSUME LineInv, ~AtEnd, NEW a \in 0 .. D, NEW b \in 0 .. E, At(a, b)
    PROVE  /\ stepx => a + 1 \in 0 .. D
           /\ stepy => b + 1 \in 0 .. E
           /\ D >= E => stepx
           /\ D < E => stepy
           /\ LET i == IF stepx THEN 1 ELSE 0
                  j == IF stepy THEN 1 ELSE 0
              IN  /\ 2 * ((a + i) * E - (b + j) * D) <= Longer
                  /\ -Longer <= 2 * ((a + i) * E - (b + j) * D)
                  /\ (a + i) * E - (b + j) * D
                       = (a * E - b * D) + (IF stepx THEN E ELSE 0)
                                         - (IF stepy THEN D ELSE 0)
<1>1. /\ D \in Nat /\ E \in Nat /\ dx = D /\ dy = -E
      /\ Longer = IF D > E THEN D ELSE E
      /\ a \in Nat /\ b \in Nat
  BY Extents
<1>2. ~(a = D /\ b = E)
  <2>1. (px = l.x1) <=> (a = D)
    <3>1. D = abs(l.x1 - l.x0) /\ l.x0 \in Int /\ l.x1 \in Int
      BY Extents
    <3>2. a \in 0 .. abs(l.x1 - l.x0)
      BY <3>1
    <3>3. (l.x0 + (IF l.x1 > l.x0 THEN a ELSE -a) = l.x1) <=> (a = D)
      BY <3>1, <3>2, EndOfAxis
    <3>4. px = l.x0 + (IF l.x1 > l.x0 THEN a ELSE -a)
      BY DEF At
    <3> QED BY <3>3, <3>4
  <2>2. (py = l.y1) <=> (b = E)
    <3>1. E = abs(l.y1 - l.y0) /\ l.y0 \in Int /\ l.y1 \in Int
      BY Extents
    <3>2. b \in 0 .. abs(l.y1 - l.y0)
      BY <3>1
    <3>3. (l.y0 + (IF l.y1 > l.y0 THEN b ELSE -b) = l.y1) <=> (b = E)
      BY <3>1, <3>2, EndOfAxis
    <3>4. py = l.y0 + (IF l.y1 > l.y0 THEN b ELSE -b)
      BY DEF At
    <3> QED BY <3>3, <3>4
  <2> QED BY <2>1, <2>2 DEF AtEnd
<1> DEFINE c == a * E - b * D
<1>3. c \in Int
  BY <1>1, Products
<1>4. err = D - E - c /\ 2 * c <= Longer /\ -Longer <= 2 * c
  BY DEF At
<1>5. /\ (a + 1) * E - b * D = c + E
      /\ a * E - (b + 1) * D = c - D
      /\ (a + 1) * E - (b + 1) * D = c + E - D
  BY <1>1, Products
<1>6. stepx <=> 2 * err >= -E
  BY <1>1 DEF stepx
<1>7. stepy <=> 2 * err <= D
  BY <1>1 DEF stepy
<1>8. a = D => c = E * D - b * D
  BY <1>1
<1>9. b = E => c = a * E - E * D
  BY <1>1
<1>10. CASE D >= E
  <2>1. Longer = D
    BY <1>1, <1>10
  <2>2. /\ stepx
        /\ stepy => 2 * (c + E - D) <= D /\ -D <= 2 * (c + E - D)
        /\ ~stepy => 2 * (c + E) <= D /\ -D <= 2 * (c + E)
    <3> HIDE DEF c
    <3>1. err \in Int
      BY <1>1, <1>3, <1>4
    <3>2. /\ 2 * err >= -E
          /\ 2 * err <= D => 2 * (c + E - D) <= D /\ -D <= 2 * (c + E - D)
          /\ 2 * err > D => 2 * (c + E) <= D /\ -D <= 2 * (c + E)
      BY <1>1, <1>3, <1>4, <1>10, <2>1, <3>1, OnTheError
    <3>3. ~(2 * err <= D) => 2 * err > D
      BY <1>1, <3>1
    <3> QED BY <3>2, <3>3, <1>6, <1>7
  <2>3. a < D
    <3> SUFFICES ASSUME a = D PROVE FALSE
      BY <1>1
    <3>1. D > 0
      BY <1>1, <1>2, <1>10
    <3>2. 2 * (D * E - b * D) <= D
      BY <1>4, <2>1
    <3> QED BY <3>1, <3>2, <1>1, <1>2, LongerEnds
  <2>4. stepy => b + 1 \in 0 .. E
    <3> SUFFICES ASSUME b = E, stepy PROVE FALSE
      BY <1>1
    <3>1. D * E - a * E >= E
      BY <1>1, <2>3, ShorterDone
    <3>2. c <= -E
      <4> DEFINE u == D * E
                 v == a * E
      <4>1. u \in Int /\ v \in Int /\ u - v >= E /\ c = v - u
        BY <1>1, <3>1
      <4> HIDE DEF u, v, c
      <4> QED BY <4>1, <1>1
    <3> HIDE DEF c
    <3> QED BY <3>2, <1>1, <1>3, <1>4, <1>7, <2>3
  <2> HIDE DEF c
  <2>5. stepx => a + 1 \in 0 .. D
    BY <2>3, <1>1
  <2>6. a + 0 = a /\ b + 0 = b
    BY <1>1
  <2>7. CASE stepy
    BY <2>7, <2>1, <2>2, <2>4, <2>5, <1>5, <1>1, <1>3, <1>10 DEF c
  <2>8. CASE ~stepy
    BY <2>8, <2>1, <2>2, <2>4, <2>5, <2>6, <1>5, <1>1, <1>3, <1>10 DEF c
  <2> QED BY <2>7, <2>8
<1>11. CASE D < E
  <2>1. Longer = E
    BY <1>1, <1>11
  <2>2. /\ stepy
        /\ stepx => 2 * (c + E - D) <= E /\ -E <= 2 * (c + E - D)
        /\ ~stepx => 2 * (c - D) <= E /\ -E <= 2 * (c - D)
    <3> HIDE DEF c
    <3>1. err \in Int
      BY <1>1, <1>3, <1>4
    <3>2. /\ 2 * err <= D
          /\ 2 * err >= -E => 2 * (c + E - D) <= E /\ -E <= 2 * (c + E - D)
          /\ 2 * err < -E => 2 * (c - D) <= E /\ -E <= 2 * (c - D)
      BY <1>1, <1>3, <1>4, <1>11, <2>1, <3>1, OnTheErrorY
    <3>3. ~(2 * err >= -E) => 2 * err < -E
      BY <1>1, <3>1
    <3> QED BY <3>2, <3>3, <1>6, <1>7
  <2>3. b < E
    <3> SUFFICES ASSUME b = E PROVE FALSE
      BY <1>1
    <3>1. 2 * (E * D - a * E) <= E
      <4> DEFINE u == E * D
                 v == a * E
      <4>1. u \in Int /\ v \in Int /\ c = v - u /\ -E <= 2 * c
        BY <1>1, <1>4, <1>9, <2>1
      <4> HIDE DEF u, v, c
      <4>2. 2 * (u - v) <= E
        BY <4>1, <1>1
      <4> QED BY <4>2 DEF u, v
    <3> QED BY <3>1, <1>1, <1>2, <1>11, LongerEnds
  <2>4. stepx => a + 1 \in 0 .. D
    <3> SUFFICES ASSUME a = D, stepx PROVE FALSE
      BY <1>1
    <3>1. E * D - b * D >= D
      BY <1>1, <2>3, ShorterDone
    <3>2. c >= D
      BY <3>1, <1>8
    <3> HIDE DEF c
    <3> QED BY <3>2, <1>1, <1>3, <1>4, <1>6, <1>11
  <2> HIDE DEF c
  <2>5. stepy => b + 1 \in 0 .. E
    BY <2>3, <1>1
  <2>6. a + 0 = a /\ b + 0 = b
    BY <1>1
  <2>7. CASE stepx
    BY <2>7, <2>1, <2>2, <2>4, <2>5, <1>5, <1>1, <1>3, <1>11 DEF c
  <2>8. CASE ~stepx
    BY <2>8, <2>1, <2>2, <2>4, <2>5, <2>6, <1>5, <1>1, <1>3, <1>11 DEF c
  <2> QED BY <2>7, <2>8
<1> QED BY <1>1, <1>10, <1>11

-----------------------------------------------------------------------------
\* A line starts at its first point, with no steps taken.
AtStart ==
    /\ l \in [x0 : Int, y0 : Int, x1 : Int, y1 : Int]
    /\ px = l.x0 /\ py = l.y0
    /\ err = abs(l.x1 - l.x0) - abs(l.y1 - l.y0)

LEMMA Starts == AtStart => LineInv
<1> SUFFICES ASSUME AtStart PROVE LineInv
  OBVIOUS
<1>1. /\ D \in Nat /\ E \in Nat /\ err = D - E
      /\ Longer \in Nat
  BY DEF AtStart, D, E, dx, dy, abs, Longer
<1>2. D - E - (0 * E - 0 * D) = D - E /\ 2 * (0 * E - 0 * D) = 0
  BY <1>1, NoStepsYet
<1>3. 2 * (0 * E - 0 * D) <= Longer /\ -Longer <= 2 * (0 * E - 0 * D)
  BY <1>1, <1>2
<1>4. /\ px = l.x0 + (IF l.x1 > l.x0 THEN 0 ELSE -0)
      /\ py = l.y0 + (IF l.y1 > l.y0 THEN 0 ELSE -0)
  BY DEF AtStart
<1>5. At(0, 0)
  BY <1>1, <1>2, <1>3, <1>4 DEF At
<1> QED BY <1>1, <1>5 DEF AtStart, LineInv

LEMMA LineInvInit == LineInit => LineInv
<1> SUFFICES ASSUME LineInit PROVE LineInv
  OBVIOUS
<1>1. l \in [x0 : Int, y0 : Int, x1 : Int, y1 : Int]
  BY RasterAssumption DEF LineInit
<1>2. err = abs(l.x1 - l.x0) - abs(l.y1 - l.y0)
  BY <1>1 DEF LineInit, dx, dy, abs
<1> QED BY <1>1, <1>2, Starts DEF LineInit, AtStart

\* The three facts a step of the loop is about, and the invariant after it.
LEMMA StepKeeps ==
    ASSUME LineInv, Step
    PROVE  /\ LineInv'
           /\ IF dx >= -dy THEN px' = px + sx ELSE py' = py + sy
<1>1. PICK a \in 0 .. D, b \in 0 .. E : At(a, b)
  BY DEF LineInv
<1> DEFINE i == IF stepx THEN 1 ELSE 0
           j == IF stepy THEN 1 ELSE 0
<1>2. /\ stepx => a + 1 \in 0 .. D
      /\ stepy => b + 1 \in 0 .. E
      /\ D >= E => stepx
      /\ D < E => stepy
      /\ 2 * ((a + i) * E - (b + j) * D) <= Longer
      /\ -Longer <= 2 * ((a + i) * E - (b + j) * D)
      /\ (a + i) * E - (b + j) * D
           = (a * E - b * D) + (IF stepx THEN E ELSE 0)
                             - (IF stepy THEN D ELSE 0)
  BY <1>1, Moves DEF Step
<1>3. /\ D \in Nat /\ E \in Nat /\ dx = D /\ dy = -E
      /\ l.x0 \in Int /\ l.x1 \in Int /\ l.y0 \in Int /\ l.y1 \in Int
      /\ Longer \in Nat
  BY Extents
<1>4. l' = l /\ D' = D /\ E' = E /\ Longer' = Longer
  BY DEF Step, D, E, dx, dy, Longer
<1>5. a + i \in 0 .. D /\ b + j \in 0 .. E
  BY <1>2, <1>3
<1>6. px' = px + i * sx /\ py' = py + j * sy /\ sx \in {1, -1} /\ sy \in {1, -1}
  <2>1. /\ px = l.x0 + (IF l.x1 > l.x0 THEN a ELSE -a)
        /\ py = l.y0 + (IF l.y1 > l.y0 THEN b ELSE -b)
    BY <1>1 DEF At
  <2> QED BY <2>1, <1>3 DEF Step, sx, sy, Sign
<1>7. px' = l.x0 + (IF l.x1 > l.x0 THEN a + i ELSE -(a + i))
  <2>1. sx = IF l.x1 > l.x0 THEN 1 ELSE -1
    BY <1>3 DEF sx, Sign
  <2> QED BY <1>1, <1>3, <1>6, <2>1 DEF At
<1>8. py' = l.y0 + (IF l.y1 > l.y0 THEN b + j ELSE -(b + j))
  <2>1. sy = IF l.y1 > l.y0 THEN 1 ELSE -1
    BY <1>3 DEF sy, Sign
  <2> QED BY <1>1, <1>3, <1>6, <2>1 DEF At
<1>9. err' = D - E - ((a + i) * E - (b + j) * D)
  <2> DEFINE c == a * E - b * D
             cc == (a + i) * E - (b + j) * D
  <2>1. c \in Int
    BY <1>3, Products
  <2>2. err = D - E - c
    BY <1>1 DEF At
  <2>3. err' = err + (IF stepx THEN -E ELSE 0) + (IF stepy THEN D ELSE 0)
    BY <1>3 DEF Step
  <2>4. cc = c + (IF stepx THEN E ELSE 0) - (IF stepy THEN D ELSE 0)
    BY <1>2
  <2> HIDE DEF c, cc
  <2>5. err' = D - E - cc
    BY <2>1, <2>2, <2>3, <2>4, <1>3
  <2> QED BY <2>5 DEF cc
<1>10. LineInv'
  <2> HIDE DEF i, j
  <2>1. PICK n \in 0 .. D, m \in 0 .. E : n = a + i /\ m = b + j
    BY <1>5
  <2>2. At(n, m)'
    BY <2>1, <1>2, <1>4, <1>7, <1>8, <1>9 DEF At
  <2> QED BY <2>2, <1>4 DEF LineInv
<1>11. IF dx >= -dy THEN px' = px + sx ELSE py' = py + sy
  BY <1>2, <1>3, <1>6
<1> QED BY <1>10, <1>11

LEMMA LineInvNext == LineInv /\ [LineNext]_line_vars => LineInv'
<1> SUFFICES ASSUME LineInv, [LineNext]_line_vars PROVE LineInv'
  OBVIOUS
<1>1. CASE Step
  BY <1>1, StepKeeps
<1>2. CASE Finish
  BY <1>2 DEF Finish, LineInv, At, D, E, dx, dy, Longer
<1>3. CASE NextLine
  <2>1. AtStart'
    BY <1>3, RasterAssumption DEF NextLine, AtStart
  <2>2. AtStart' => LineInv'
    BY Starts, PTL
  <2> QED BY <2>1, <2>2
<1>4. CASE UNCHANGED line_vars
  BY <1>4 DEF line_vars, LineInv, At, D, E, dx, dy, Longer
<1> QED BY <1>1, <1>2, <1>3, <1>4 DEF LineNext

\* What the invariant says of the pixel.
LEMMA LineInvPixel == LineInv => OnTheLine /\ NotPastTheEnd
<1> SUFFICES ASSUME LineInv PROVE OnTheLine /\ NotPastTheEnd
  OBVIOUS
<1>1. PICK a \in 0 .. D, b \in 0 .. E : At(a, b)
  BY DEF LineInv
<1>2. /\ D \in Nat /\ E \in Nat /\ dx = D /\ -dy = E /\ Longer \in Nat
      /\ l.x0 \in Int /\ l.x1 \in Int /\ l.y0 \in Int /\ l.y1 \in Int
  BY Extents
<1>3. gone_x = a /\ gone_y = b
  BY <1>1, <1>2 DEF At, gone_x, gone_y, abs
<1>4. a * E - b * D \in Int
  BY <1>2, Products
<1>5. 2 * abs(a * E - b * D) <= Longer
  <2> DEFINE c == a * E - b * D
  <2>1. c \in Int /\ 2 * c <= Longer /\ -Longer <= 2 * c
    BY <1>1, <1>4 DEF At
  <2> HIDE DEF c
  <2>2. 2 * abs(c) <= Longer
    BY <2>1, <1>2 DEF abs
  <2> QED BY <2>2 DEF c
<1> QED BY <1>2, <1>3, <1>5 DEF OnTheLine, NotPastTheEnd

\* The pixel draw_line lights is always the steps' worth of the error term away
\* from the line.
THEOREM LineInvariant == LineSpec => []LineInv
<1> QED BY LineInvInit, LineInvNext, PTL DEF LineSpec

\* draw_line never lights a pixel more than half a pixel off the line.
THEOREM StaysOnTheLine == LineSpec => []OnTheLine
<1> QED BY LineInvariant, LineInvPixel, PTL

\* draw_line never lights a pixel past the line's end.
THEOREM StaysWithinTheLine == LineSpec => []NotPastTheEnd
<1> QED BY LineInvariant, LineInvPixel, PTL

\* Every step of draw_line moves along the line's longer axis.
THEOREM EveryStepMoves == LineSpec => OneStepAlongTheLonger
<1>1. LineInv /\ [LineNext]_line_vars
        => [Step => IF dx >= -dy THEN px' = px + sx ELSE py' = py + sy]_line_vars
  BY StepKeeps
<1> QED BY <1>1, LineInvariant, PTL DEF LineSpec, OneStepAlongTheLonger

-----------------------------------------------------------------------------
(* The end-to-end tool: what is on its way.                                *)

\* The frames the loop will take up, in their order.
Coming == rb \o pty

\* Frames taken up after h, of the n sent.
InTurn(q, h, n) ==
    \A i \in 1 .. Len(q) :
        /\ h < q[i] /\ q[i] <= n
        /\ \A j \in 1 .. i - 1 : q[j] < q[i]

Whole == \A k \in 1 .. SEGMENTS : <<held, k>> \in segs
Played == \A k \in left + 1 .. SEGMENTS : <<queued, k>> \in segs

EmuTypes ==
    /\ pc \in {"receive", "wait_recal", "flush", "reply"}
    /\ held \in Nat /\ queued \in Nat /\ left \in 0 .. SEGMENTS
    /\ pty \in Seq(Nat) /\ rb \in Seq(Nat) /\ sent \in Nat
    /\ child \in {"running", "exited", "failed"}
    /\ tool \in {"waitpid", "usleep", "rendered"}
    /\ passes \in 0 .. PASSES /\ cleared \in Nat

\* Pictures are drawn in the order they were sent in.
InOrderSent == queued <= held /\ held <= sent /\ InTurn(Coming, held, sent)

\* The tool clears when the sender has gone, and nothing older than the picture
\* then on its way is captured after it.
SinceClear ==
    /\ tool = "waitpid" => passes = 0
    /\ tool # "waitpid" =>
          child # "running" /\ cleared <= queued /\ \A s \in segs : s[1] >= cleared
    /\ tool = "rendered" => passes >= 3

\* After one reply since the clear, the next flush leaves nothing to come; after
\* two nothing comes, and the picture held is the one to be played; after three
\* it was played.
Settled ==
    /\ pc # "wait_recal" => queued = held
    /\ pc = "flush" => left = SEGMENTS
    /\ passes >= 1 /\ pc = "reply" => left = SEGMENTS /\ Coming = <<>>
    /\ passes >= 2 => /\ Coming = <<>> /\ queued = held
                      /\ pc = "receive" => left = SEGMENTS
                      /\ pc = "wait_recal" => Played
                      /\ pc \in {"flush", "reply"} => Whole
    /\ passes >= 3 => Whole

EmuInv == EmuTypes /\ InOrderSent /\ SinceClear /\ Settled

-----------------------------------------------------------------------------
LEMMA InTurnTail ==
    ASSUME NEW q \in Seq(Nat), q # <<>>, NEW h, NEW n \in Nat, InTurn(q, h, n)
    PROVE  /\ Head(q) \in Nat /\ h < Head(q) /\ Head(q) <= n
           /\ InTurn(Tail(q), Head(q), n)
<1>1. Len(q) \in Nat /\ 1 \in 1 .. Len(q) /\ Head(q) = q[1] /\ q[1] \in Nat
  BY EmptySeq
<1>2. Len(Tail(q)) = Len(q) - 1 /\ \A i \in 1 .. Len(Tail(q)) : Tail(q)[i] = q[i + 1]
  BY HeadTailProperties
<1>3. ASSUME NEW i \in 1 .. Len(Tail(q))
      PROVE  /\ q[1] < Tail(q)[i] /\ Tail(q)[i] <= n
             /\ \A j \in 1 .. i - 1 : Tail(q)[j] < Tail(q)[i]
  <2>1. i + 1 \in 1 .. Len(q) /\ 1 \in 1 .. (i + 1) - 1 /\ Tail(q)[i] = q[i + 1]
    BY <1>1, <1>2
  <2>2. q[1] < q[i + 1] /\ q[i + 1] <= n
    BY <2>1 DEF InTurn
  <2>3. ASSUME NEW j \in 1 .. i - 1 PROVE Tail(q)[j] < Tail(q)[i]
    <3>1. j \in 1 .. Len(Tail(q)) /\ j + 1 \in 1 .. (i + 1) - 1
      BY <1>1, <1>2
    <3>2. Tail(q)[j] = q[j + 1]
      BY <3>1, <1>2
    <3>3. q[j + 1] < q[i + 1]
      BY <2>1, <3>1 DEF InTurn
    <3> QED BY <2>1, <3>2, <3>3
  <2> QED BY <2>1, <2>2, <2>3
<1>4. InTurn(Tail(q), Head(q), n)
  BY <1>1, <1>3 DEF InTurn
<1> QED BY <1>1, <1>4 DEF InTurn

LEMMA InTurnAppend ==
    ASSUME NEW q \in Seq(Nat), NEW h \in Nat, NEW n \in Nat, h <= n, InTurn(q, h, n)
    PROVE  InTurn(Append(q, n + 1), h, n + 1)
<1> DEFINE r == Append(q, n + 1)
<1>1. /\ Len(q) \in Nat /\ Len(r) = Len(q) + 1 /\ r[Len(q) + 1] = n + 1
      /\ \A i \in 1 .. Len(q) : r[i] = q[i] /\ q[i] \in Nat
  BY AppendProperties
<1> HIDE DEF r
<1>2. ASSUME NEW i \in 1 .. Len(r)
      PROVE  h < r[i] /\ r[i] <= n + 1 /\ \A j \in 1 .. i - 1 : r[j] < r[i]
  <2>1. CASE i \in 1 .. Len(q)
    <3>1. h < q[i] /\ q[i] <= n /\ r[i] = q[i] /\ q[i] \in Nat
      BY <1>1, <2>1 DEF InTurn
    <3>2. ASSUME NEW j \in 1 .. i - 1 PROVE r[j] < r[i]
      <4>1. j \in 1 .. Len(q)
        BY <2>1, <1>1
      <4> QED BY <4>1, <3>1, <1>1, <2>1 DEF InTurn
    <3> QED BY <3>1, <3>2
  <2>2. CASE i = Len(q) + 1
    <3>1. ASSUME NEW j \in 1 .. i - 1 PROVE r[j] < r[i]
      <4>1. j \in 1 .. Len(q)
        BY <2>2, <1>1
      <4>2. q[j] <= n /\ q[j] \in Nat /\ r[j] = q[j]
        BY <4>1, <1>1 DEF InTurn
      <4> QED BY <4>2, <2>2, <1>1
    <3> QED BY <3>1, <2>2, <1>1
  <2> QED BY <1>1, <2>1, <2>2
<1>3. InTurn(r, h, n + 1)
  BY <1>2 DEF InTurn
<1> QED BY <1>3 DEF r

LEMMA InTurnNone == \A h, n : InTurn(<<>>, h, n)
<1>1. Len(<<>>) = 0
  BY EmptySeq
<1> QED BY <1>1 DEF InTurn

-----------------------------------------------------------------------------
(* The end-to-end tool: every step.                                        *)

LEMMA EmuInvInit == EmuInit => EmuInv
<1> SUFFICES ASSUME EmuInit PROVE EmuInv
  OBVIOUS
<1>1. EmuTypes
  BY EmuAssumption DEF EmuInit, EmuTypes, Splash
<1>2. Coming = <<>>
  BY ConcatEmptySeq, EmptySeq DEF EmuInit, Coming
<1>3. InOrderSent
  BY <1>2, InTurnNone DEF EmuInit, InOrderSent, Splash
<1>4. SinceClear
  BY DEF EmuInit, SinceClear
<1>5. Settled
  BY DEF EmuInit, Settled
<1> QED BY <1>1, <1>3, <1>4, <1>5 DEF EmuInv

\* The bytes of the PTY are put behind those of the ring.
LEMMA PollKeeps == ASSUME EmuInv, uart_rx_poll PROVE EmuInv'
<1> USE DEF EmuInv
<1>1. /\ pty \in Seq(Nat) /\ rb \in Seq(Nat) /\ rb \o pty \in Seq(Nat)
      /\ (rb \o pty) \o <<>> = rb \o pty
  <2>1. pty \in Seq(Nat) /\ rb \in Seq(Nat)
    BY DEF EmuTypes
  <2>2. rb \o pty \in Seq(Nat)
    BY <2>1, ConcatProperties
  <2> QED BY <2>1, <2>2, ConcatEmptySeq
<1>2. Coming' = Coming
  BY <1>1 DEF uart_rx_poll, Coming
<1>3. EmuTypes'
  BY <1>1, EmptySeq DEF EmuTypes, uart_rx_poll, loop, capture
<1>4. InOrderSent'
  BY <1>2 DEF InOrderSent, uart_rx_poll, loop, InTurn
<1>5. SinceClear'
  BY DEF SinceClear, uart_rx_poll, loop, capture
<1>6. Settled'
  BY <1>2 DEF Settled, uart_rx_poll, loop, capture, Whole, Played
<1> QED BY <1>3, <1>4, <1>5, <1>6

\* The first frame of the ring is taken up.
LEMMA GetKeeps == ASSUME EmuInv, uart_rx_get PROVE EmuInv'
<1> USE DEF EmuInv
<1>1. /\ pty \in Seq(Nat) /\ rb \in Seq(Nat) /\ rb # <<>> /\ rb' = Tail(rb) /\ pty' = pty
      /\ held' = Head(rb) /\ held \in Nat /\ sent \in Nat
  BY DEF EmuTypes, uart_rx_get
<1>2. /\ Coming \in Seq(Nat) /\ Coming # <<>>
      /\ Head(Coming) = Head(rb) /\ Tail(Coming) = Tail(rb) \o pty
  BY <1>1, ConcatProperties, EmptySeq DEF Coming
<1>3. Coming' = Tail(Coming)
  BY <1>1, <1>2 DEF Coming
<1>4. /\ held' \in Nat /\ held < held' /\ held' <= sent /\ InTurn(Coming', held', sent)
  <2> HIDE DEF Coming
  <2>1. InTurn(Coming, held, sent)
    BY DEF InOrderSent
  <2> QED BY <1>1, <1>2, <1>3, <2>1, InTurnTail
<1>5. rb' \in Seq(Nat)
  BY <1>1, HeadTailProperties
<1>6. EmuTypes'
  BY <1>4, <1>5 DEF EmuTypes, uart_rx_get, capture
<1>7. InOrderSent'
  <2>1. queued \in Nat /\ queued <= held /\ queued' = queued /\ sent' = sent
    BY DEF InOrderSent, EmuTypes, uart_rx_get
  <2> QED BY <1>1, <1>4, <2>1 DEF InOrderSent
<1>8. SinceClear'
  BY DEF SinceClear, uart_rx_get, capture
<1>9. Settled'
  <2>1. passes' = passes /\ pc' = "wait_recal" /\ passes \in Nat
    BY DEF EmuTypes, uart_rx_get, capture
  <2>2. ~(passes >= 2)
    BY <1>2 DEF Settled
  <2>3. ~(passes >= 3)
    BY <2>1, <2>2
  <2> QED BY <2>1, <2>2, <2>3 DEF Settled
<1> QED BY <1>6, <1>7, <1>8, <1>9

\* The window closes; the picture queued is about to be played from its start.
LEMMA TimeoutKeeps == ASSUME EmuInv, RxTimeout PROVE EmuInv'
<1> USE DEF EmuInv
<1>1. Coming' = Coming
  BY DEF RxTimeout, Coming
<1>2. EmuTypes'
  BY DEF EmuTypes, RxTimeout, capture
<1>3. InOrderSent'
  BY <1>1 DEF InOrderSent, RxTimeout, InTurn
<1>4. SinceClear'
  BY DEF SinceClear, RxTimeout, capture
<1>5. Settled'
  <2>1. /\ pc = "receive" /\ pc' = "wait_recal" /\ passes' = passes /\ left' = left
        /\ queued' = queued /\ held' = held /\ segs' = segs
    BY DEF RxTimeout, capture
  <2>2. passes >= 2 => Played'
    <3> SUFFICES ASSUME passes >= 2 PROVE Played'
      OBVIOUS
    <3>1. left' = SEGMENTS /\ SEGMENTS \in Nat
      BY <2>1, EmuAssumption DEF Settled
    <3> QED BY <3>1 DEF Played
  <2>3. Whole' <=> Whole
    BY <2>1 DEF Whole
  <2> QED BY <1>1, <2>1, <2>2, <2>3 DEF Settled
<1> QED BY <1>2, <1>3, <1>4, <1>5

\* One segment of the picture queued is lit.
LEMMA LineKeeps == ASSUME EmuInv, on_line PROVE EmuInv'
<1> USE DEF EmuInv
<1>1. /\ pc = "wait_recal" /\ pc' = pc /\ left > 0 /\ left' = left - 1
      /\ segs' = segs \cup {<<queued, left>>} /\ left \in 0 .. SEGMENTS /\ SEGMENTS \in Nat
      /\ UNCHANGED <<held, queued, pty, rb, sent, child, tool, passes, cleared>>
  BY EmuAssumption DEF EmuTypes, on_line
<1>2. EmuTypes'
  BY <1>1 DEF EmuTypes
<1>3. InOrderSent' /\ Coming' = Coming
  BY <1>1 DEF InOrderSent, Coming, InTurn
<1>4. SinceClear'
  <2> SUFFICES ASSUME tool # "waitpid", NEW s \in segs' PROVE s[1] >= cleared
    BY <1>1 DEF SinceClear
  <2>1. cleared <= queued /\ (s \in segs \/ s = <<queued, left>>)
    BY <1>1 DEF SinceClear
  <2> QED BY <2>1 DEF SinceClear, EmuTypes
<1>5. Whole => Whole'
  BY <1>1 DEF Whole
<1>6. Played => Played'
  <2> SUFFICES ASSUME Played, NEW k \in left' + 1 .. SEGMENTS PROVE <<queued, k>> \in segs'
    BY <1>1 DEF Played
  <2>1. k = left \/ k \in left + 1 .. SEGMENTS
    BY <1>1
  <2> QED BY <2>1, <1>1 DEF Played
<1>7. Settled'
  BY <1>1, <1>3, <1>5, <1>6 DEF Settled
<1> QED BY <1>2, <1>3, <1>4, <1>7

\* The picture held is queued; the one before was played to its end.
LEMMA DrawKeeps == ASSUME EmuInv, DrawHeld PROVE EmuInv'
<1> USE DEF EmuInv
<1>1. /\ pc = "wait_recal" /\ pc' = "flush" /\ left = 0 /\ left' = SEGMENTS /\ queued' = held
      /\ SEGMENTS \in Nat /\ held \in Nat /\ queued \in Nat /\ cleared \in Nat
      /\ UNCHANGED <<held, pty, rb, sent, child, segs, tool, passes, cleared>>
  BY EmuAssumption DEF EmuTypes, DrawHeld, capture
<1>2. EmuTypes'
  BY <1>1 DEF EmuTypes
<1>3. InOrderSent' /\ Coming' = Coming
  BY <1>1 DEF InOrderSent, Coming, InTurn
<1>4. SinceClear'
  BY <1>1 DEF SinceClear, InOrderSent
<1>5. Whole' <=> Whole
  BY <1>1 DEF Whole
<1>6. passes >= 2 => Whole
  <2> SUFFICES ASSUME passes >= 2 PROVE Whole
    OBVIOUS
  <2>1. Played /\ queued = held
    BY <1>1 DEF Settled
  <2> QED BY <2>1, <1>1 DEF Played, Whole
<1>7. Settled'
  BY <1>1, <1>3, <1>5, <1>6 DEF Settled
<1> QED BY <1>2, <1>3, <1>4, <1>7

\* What was on its way is thrown away.
LEMMA FlushKeeps == ASSUME EmuInv, uart_rx_flush PROVE EmuInv'
<1> USE DEF EmuInv
<1>1. Coming' = <<>>
  BY ConcatEmptySeq, EmptySeq DEF uart_rx_flush, Coming
<1>2. EmuTypes'
  BY EmptySeq DEF EmuTypes, uart_rx_flush, capture
<1>3. InOrderSent'
  BY <1>1, InTurnNone DEF InOrderSent, uart_rx_flush
<1>4. SinceClear'
  BY DEF SinceClear, uart_rx_flush, capture
<1>5. Whole' <=> Whole
  BY DEF Whole, uart_rx_flush, capture
<1>6. Settled'
  BY <1>1, <1>5 DEF Settled, uart_rx_flush, capture
<1> QED BY <1>2, <1>3, <1>4, <1>6

\* A pass ends: one more since the clear.
LEMMA ReplyKeeps == ASSUME EmuInv, Reply, tool # "rendered" PROVE EmuInv'
<1> USE DEF EmuInv
<1>1. /\ pc = "reply" /\ pc' = "receive" /\ passes \in 0 .. PASSES /\ PASSES \in Nat
      /\ passes' = IF tool = "usleep" THEN Least(passes + 1, PASSES) ELSE passes
      /\ UNCHANGED <<held, queued, left, pty, rb, sent, child, segs, tool, cleared>>
  BY EmuAssumption DEF EmuTypes, Reply
<1>2. /\ passes' \in 0 .. PASSES
      /\ passes' >= 2 => passes >= 1
      /\ passes' >= 3 => passes >= 2
  <2>1. CASE tool = "usleep"
    BY <1>1, <2>1 DEF Least
  <2>2. CASE tool = "waitpid"
    BY <1>1, <2>2 DEF SinceClear
  <2> QED BY <2>1, <2>2 DEF EmuTypes
<1>3. EmuTypes'
  BY <1>1, <1>2 DEF EmuTypes
<1>4. InOrderSent' /\ Coming' = Coming
  BY <1>1 DEF InOrderSent, Coming, InTurn
<1>5. SinceClear'
  BY <1>1 DEF SinceClear, EmuTypes
<1>6. Whole' <=> Whole
  BY <1>1 DEF Whole
<1>7. Settled'
  BY <1>1, <1>2, <1>4, <1>6 DEF Settled
<1> QED BY <1>3, <1>4, <1>5, <1>7

\* One more frame is put on the PTY, while the tool waits for the sender.
LEMMA SendKeeps == ASSUME EmuInv, SendFrame PROVE EmuInv'
<1> USE DEF EmuInv
<1>1. /\ tool = "waitpid" /\ passes = 0 /\ sent \in Nat /\ held \in Nat /\ held <= sent
      /\ pty \in Seq(Nat) /\ rb \in Seq(Nat) /\ pty' = Append(pty, sent + 1)
      /\ sent' = sent + 1
      /\ UNCHANGED <<pc, held, queued, left, rb, child, segs, tool, passes, cleared>>
  BY DEF EmuTypes, InOrderSent, SinceClear, SendFrame, loop, capture
<1>2. EmuTypes'
  BY <1>1, AppendProperties DEF EmuTypes
<1>3. Coming \in Seq(Nat) /\ Coming' = Append(Coming, sent + 1)
  <2>1. sent + 1 \in Nat
    BY <1>1
  <2>2. rb \o Append(pty, sent + 1) = Append(rb \o pty, sent + 1)
    BY <1>1, <2>1
  <2> QED BY <1>1, <2>2, ConcatProperties DEF Coming
<1>4. InOrderSent'
  <2> HIDE DEF Coming
  <2>1. InTurn(Coming, held, sent)
    BY DEF InOrderSent
  <2>2. InTurn(Coming', held, sent + 1)
    BY <1>1, <1>3, <2>1, InTurnAppend
  <2>3. queued <= held /\ held <= sent + 1
    BY <1>1 DEF InOrderSent
  <2>4. held' = held /\ sent' = sent + 1 /\ queued' = queued
    BY <1>1
  <2> QED BY <2>2, <2>3, <2>4 DEF InOrderSent
<1>5. SinceClear'
  BY <1>1 DEF SinceClear
<1>6. Settled'
  BY <1>1 DEF Settled
<1> QED BY <1>2, <1>4, <1>5, <1>6

\* The sender goes; the tool clears, or renders.
LEMMA ToolKeeps ==
    ASSUME EmuInv, SenderExits \/ SenderFails \/ Clear \/ render
    PROVE  EmuInv'
<1> USE DEF EmuInv
<1>1. UNCHANGED <<pc, held, queued, left, pty, rb, sent, passes>>
  BY DEF SenderExits, SenderFails, Clear, render, loop, capture
<1>2. EmuTypes'
  BY <1>1 DEF EmuTypes, SenderExits, SenderFails, Clear, render, capture
<1>3. InOrderSent' /\ Coming' = Coming
  BY <1>1 DEF InOrderSent, Coming, InTurn
<1>4. CASE SenderExits \/ SenderFails
  <2>1. UNCHANGED <<tool, segs, cleared>> /\ tool = "waitpid"
    BY <1>4 DEF SenderExits, SenderFails, capture, SinceClear, EmuTypes
  <2>2. SinceClear'
    BY <1>1, <2>1 DEF SinceClear
  <2>3. Settled'
    BY <1>1, <1>3, <2>1 DEF Settled, Whole, Played
  <2> QED BY <1>2, <1>3, <2>2, <2>3
<1>5. CASE Clear
  <2>1. /\ tool = "waitpid" /\ tool' = "usleep" /\ passes = 0 /\ segs' = {}
        /\ child # "running" /\ child' = child /\ cleared' = queued /\ queued \in Nat
    BY <1>5 DEF Clear, NoSegs, SinceClear, EmuTypes
  <2>2. SinceClear'
    BY <1>1, <2>1 DEF SinceClear
  <2>3. Settled'
    BY <1>1, <1>3, <2>1 DEF Settled
  <2> QED BY <1>2, <1>3, <2>2, <2>3
<1>6. CASE render
  <2>1. /\ tool = "usleep" /\ tool' = "rendered" /\ passes >= 3
        /\ UNCHANGED <<segs, cleared, child>>
    BY <1>6, EmuAssumption DEF render, SleptOver
  <2>2. SinceClear'
    BY <1>1, <2>1 DEF SinceClear
  <2>3. Settled'
    BY <1>1, <1>3, <2>1 DEF Settled, Whole, Played
  <2> QED BY <1>2, <1>3, <2>2, <2>3
<1> QED BY <1>4, <1>5, <1>6

LEMMA EmuInvNext == EmuInv /\ [EmuNext]_emu_vars => EmuInv'
<1> SUFFICES ASSUME EmuInv, [EmuNext]_emu_vars PROVE EmuInv'
  OBVIOUS
<1>1. CASE UNCHANGED emu_vars
  BY <1>1 DEF emu_vars, loop, capture, EmuInv, EmuTypes, InOrderSent, SinceClear, Settled,
              Coming, InTurn, Whole, Played
<1>2. CASE EmuNext
  BY <1>2, PollKeeps, GetKeeps, TimeoutKeeps, LineKeeps, DrawKeeps, FlushKeeps, ReplyKeeps,
     SendKeeps, ToolKeeps DEF EmuNext, vekterm_thread
<1> QED BY <1>1, <1>2

\* Whatever the thread, the sender and the tool do, and in whatever order.
THEOREM EmuInvariant == EmuSpec => []EmuInv
<1> QED BY EmuInvInit, EmuInvNext, PTL DEF EmuSpec

\* emu_vekterm renders no segment of the splash or of a picture older than the
\* one that was being drawn when it cleared its capture.
THEOREM RendersNothingOlder == EmuSpec => []StreamedOnceDrawn
<1>1. EmuInv => StreamedOnceDrawn
  BY DEF EmuInv, SinceClear, StreamedOnceDrawn
<1> QED BY <1>1, EmuInvariant, PTL

\* emu_vekterm renders every segment of the last picture the receiver took up.
THEOREM RendersLastWhole == EmuSpec => []LastReceivedWhole
<1>1. EmuInv => LastReceivedWhole
  BY DEF EmuInv, EmuTypes, SinceClear, Settled, LastReceivedWhole, Whole
<1> QED BY <1>1, EmuInvariant, PTL

-----------------------------------------------------------------------------
(* DrawPath: numbers.                                                      *)

LEMMA ByteFacts ==
    /\ HALF \in Nat \ {0} /\ BYTE \in Nat \ {0} /\ BYTE = 2 * HALF
    /\ SCALE_STRENGTH_DIF \in Nat /\ UNKNOWN = BYTE
  BY ViaAssumption DEF UNKNOWN

LEMMA Remainder ==
    ASSUME NEW u \in Nat \ {0}, NEW w \in Int
    PROVE  /\ w \div u \in Int /\ w % u \in 0 .. u - 1
           /\ w = u * (w \div u) + (w % u)
  OBVIOUS

\* A remainder is the only one.
LEMMA OnlyRemainder ==
    ASSUME NEW u \in Nat \ {0}, NEW w \in Int, NEW q \in Int, NEW r \in 0 .. u - 1,
           w = u * q + r
    PROVE  w % u = r /\ w \div u = q
<1> DEFINE a == w \div u
           m == w % u
<1>1. a \in Int /\ m \in 0 .. u - 1 /\ w = u * a + m
  BY Remainder
<1> HIDE DEF a, m
<1>2. ~(a < q)
  <2> SUFFICES ASSUME a < q PROVE FALSE
    OBVIOUS
  <2>1. PICK k \in Nat : q = a + 1 + k
    <3>1. q - a - 1 \in Nat /\ q = a + 1 + (q - a - 1)
      BY <1>1
    <3> QED BY <3>1
  <2>2. u * q = u * a + u + u * k /\ u * k >= 0 /\ u * a \in Int /\ u * k \in Int
    BY <2>1, <1>1
  <2> QED BY <2>2, <1>1
<1>3. ~(q < a)
  <2> SUFFICES ASSUME q < a PROVE FALSE
    OBVIOUS
  <2>1. PICK k \in Nat : a = q + 1 + k
    <3>1. a - q - 1 \in Nat /\ a = q + 1 + (a - q - 1)
      BY <1>1
    <3> QED BY <3>1
  <2>2. u * a = u * q + u + u * k /\ u * k >= 0 /\ u * q \in Int /\ u * k \in Int
    BY <2>1, <1>1
  <2> QED BY <2>2, <1>1
<1>4. a = q
  BY <1>1, <1>2, <1>3
<1> QED BY <1>1, <1>4 DEF a, m

\* What a byte becomes in a signed char and back.
LEMMA SignedByte ==
    ASSUME NEW b \in 0 .. BYTE - 1
    PROVE  /\ Signed(b) \in Int /\ Signed(Signed(b)) = Signed(b)
           /\ Unsigned(Signed(b)) = b
<1>1. Signed(b) \in -HALF .. HALF - 1
  BY ByteFacts DEF Signed
<1>2. Signed(Signed(b)) = Signed(b)
  BY <1>1, ByteFacts DEF Signed
<1>3. CASE b < HALF
  <2>1. b = BYTE * 0 + b
    BY ByteFacts
  <2>2. b % BYTE = b
    BY <2>1, ByteFacts, OnlyRemainder
  <2> QED BY <1>1, <1>2, <1>3, <2>2 DEF Signed, Unsigned
<1>4. CASE ~(b < HALF)
  <2>1. b - BYTE = BYTE * (-1) + b
    BY ByteFacts
  <2>2. (b - BYTE) % BYTE = b
    <3>1. b - BYTE \in Int /\ -1 \in Int
      BY ByteFacts
    <3> QED BY <2>1, <3>1, ByteFacts, OnlyRemainder
  <2> QED BY <1>1, <1>2, <1>4, <2>2 DEF Signed, Unsigned
<1> QED BY <1>3, <1>4

\* A rate that fits a signed char is itself after the cast to a byte.
LEMMA SignedRate ==
    ASSUME NEW n \in Int, -HALF <= n, n < HALF
    PROVE  Unsigned(n) \in 0 .. BYTE - 1 /\ Signed(Unsigned(n)) = n
<1>1. Unsigned(n) \in 0 .. BYTE - 1
  BY ByteFacts, Remainder DEF Unsigned
<1>2. CASE n >= 0
  <2>1. n = BYTE * 0 + n /\ n \in 0 .. BYTE - 1
    BY <1>2, ByteFacts
  <2>2. n % BYTE = n
    BY <2>1, ByteFacts, OnlyRemainder
  <2> QED BY <1>1, <2>2 DEF Signed, Unsigned
<1>3. CASE n < 0
  <2>1. n = BYTE * (-1) + (n + BYTE) /\ n + BYTE \in 0 .. BYTE - 1
    BY <1>3, ByteFacts
  <2>2. n % BYTE = n + BYTE
    BY <2>1, ByteFacts, OnlyRemainder
  <2> QED BY <1>1, <1>3, <2>2, ByteFacts DEF Signed, Unsigned
<1> QED BY <1>2, <1>3

\* A length over T ticks: the rate is at most m, and what the rate leaves of the
\* length is less than T.
LEMMA Cut ==
    ASSUME NEW t \in Nat \ {0}, NEW n \in Int, NEW m \in Nat, Abs(n) <= m * t
    PROVE  /\ Quotient(n, t) \in Int /\ -m <= Quotient(n, t) /\ Quotient(n, t) <= m
           /\ Quotient(n, t) * t \in Int
           /\ Abs(Quotient(n, t) * t - n) < t
<1> DEFINE a == Abs(n)
           q == a \div t
           r == a % t
           p == t * q
<1>1. a \in Nat /\ (n >= 0 => a = n) /\ (n < 0 => a = -n)
  BY DEF Abs
<1>2. q \in Int /\ r \in 0 .. t - 1 /\ a = t * q + r /\ q * t = p /\ p \in Int
  <2>1. q \in Int /\ r \in 0 .. t - 1 /\ a = t * q + r
    <3> HIDE DEF a
    <3> QED BY <1>1, Remainder
  <2> HIDE DEF q, r
  <2> QED BY <2>1
<1>3. 0 <= q /\ q <= m
  <2> HIDE DEF a, q, r
  <2>1. ~(q < 0)
    <3> SUFFICES ASSUME q < 0 PROVE FALSE
      OBVIOUS
    <3>1. PICK k \in Nat : q = -1 - k
      <4>1. -1 - q \in Nat /\ q = -1 - (-1 - q)
        BY <1>2
      <4> QED BY <4>1
    <3>2. t * q = -t - t * k /\ t * k >= 0 /\ t * k \in Int
      BY <3>1
    <3> QED BY <3>2, <1>1, <1>2
  <2>2. ~(m < q)
    <3> SUFFICES ASSUME m < q PROVE FALSE
      OBVIOUS
    <3>1. PICK k \in Nat : q = m + 1 + k
      <4>1. q - m - 1 \in Nat /\ q = m + 1 + (q - m - 1)
        BY <1>2
      <4> QED BY <4>1
    <3>2. t * q = m * t + t + t * k /\ t * k >= 0 /\ t * k \in Int /\ m * t \in Int
      BY <3>1
    <3> QED BY <3>2, <1>1, <1>2 DEF a
  <2> QED BY <2>1, <2>2, <1>2
<1>4. CASE n >= 0
  <2>1. Quotient(n, t) = q
    BY <1>1, <1>4 DEF Quotient
  <2>2. q * t - n = -r
    <3> HIDE DEF q, r, p
    <3> QED BY <1>1, <1>2, <1>4 DEF p
  <2>3. Abs(-r) < t
    <3> HIDE DEF r
    <3> QED BY <1>2 DEF Abs
  <2> HIDE DEF q, r, p, a
  <2> QED BY <1>2, <1>3, <2>1, <2>2, <2>3
<1>5. CASE n < 0
  <2>1. Quotient(n, t) = -q
    BY <1>1, <1>5 DEF Quotient
  <2>2. (-q) * t - n = r
    <3> HIDE DEF q, r, p
    <3>1. (-q) * t = -p
      BY <1>2
    <3> QED BY <3>1, <1>1, <1>2, <1>5 DEF p
  <2>3. Abs(r) < t /\ (-q) * t \in Int
    <3> HIDE DEF r, q
    <3> QED BY <1>2 DEF Abs
  <2> HIDE DEF q, r, p, a
  <2> QED BY <1>2, <1>3, <2>1, <2>2, <2>3
<1> QED BY <1>4, <1>5

\* The scale is such that no rate is above MAX_USED_STRENGTH.
LEMMA OptimalScale ==
    ASSUME NEW a \in Int, NEW b \in Int
    PROVE  /\ GET_OPTIMAL_SCALE(a, b) \in Nat
           /\ Abs(a) <= MAX_USED_STRENGTH * GET_OPTIMAL_SCALE(a, b)
           /\ Abs(b) <= MAX_USED_STRENGTH * GET_OPTIMAL_SCALE(a, b)
<1> DEFINE m == Larger(Abs(a), Abs(b))
           w == m + MAX_USED_STRENGTH - 1
           q == w \div MAX_USED_STRENGTH
           r == w % MAX_USED_STRENGTH
<1>1. m \in Nat /\ Abs(a) <= m /\ Abs(b) <= m
  BY DEF Abs, Larger
<1>2. MAX_USED_STRENGTH \in Nat \ {0}
  BY DrawAssumption
<1>3. w \in Nat
  <2> HIDE DEF m
  <2> QED BY <1>1, <1>2
<1>4. q \in Nat /\ r \in 0 .. MAX_USED_STRENGTH - 1 /\ w = MAX_USED_STRENGTH * q + r
  <2> HIDE DEF w
  <2> QED BY <1>2, <1>3
<1>5. GET_OPTIMAL_SCALE(a, b) = q
  BY DEF GET_OPTIMAL_SCALE
<1>6. m <= MAX_USED_STRENGTH * q
  <2> DEFINE p == MAX_USED_STRENGTH * q
  <2>1. p \in Nat /\ m + MAX_USED_STRENGTH - 1 = p + r
    BY <1>2, <1>4
  <2> HIDE DEF p, q, r, m
  <2>2. m <= p
    BY <2>1, <1>1, <1>2, <1>4
  <2> QED BY <2>2 DEF p
<1>7. Abs(a) \in Nat /\ Abs(b) \in Nat
  BY DEF Abs
<1> HIDE DEF m, q, r, w
<1>8. MAX_USED_STRENGTH * q \in Nat
  BY <1>2, <1>4
<1> QED BY <1>1, <1>4, <1>5, <1>6, <1>7, <1>8

-----------------------------------------------------------------------------
(* The VIA, write by write.                                                *)

LineType == [x0 : Int, y0 : Int, x1 : Int, y1 : Int, z : Nat]

ViaType ==
    [t1 : [lo : Nat, hi : Nat], x : Int, y : Int, dac : Int, mux : Muxes,
     x_rate : Int, y_rate : Int, intensity : Nat, beam_on : BOOLEAN, armed : BOOLEAN,
     a_xrate : Int, a_yrate : Int, a_visible : BOOLEAN, a_ticks : Nat,
     lines : Seq(LineType)]

\* A write leaves the beam and what is armed as they were.
SameBeam(v, w) ==
    /\ w.x = v.x /\ w.y = v.y /\ w.beam_on = v.beam_on /\ w.armed = v.armed
    /\ w.a_xrate = v.a_xrate /\ w.a_yrate = v.a_yrate /\ w.a_visible = v.a_visible
    /\ w.a_ticks = v.a_ticks /\ w.lines = v.lines

\* A write leaves the rates, the brightness and the multiplexer as they were.
SameRates(v, w) ==
    /\ w.dac = v.dac /\ w.mux = v.mux /\ w.x_rate = v.x_rate /\ w.y_rate = v.y_rate
    /\ w.intensity = v.intensity

\* Where the beam is once the armed ramp has run.
AtX(v) == IF v.armed THEN v.x + v.a_xrate * v.a_ticks ELSE v.x
AtY(v) == IF v.armed THEN v.y + v.a_yrate * v.a_ticks ELSE v.y

LEMMA AtType ==
    ASSUME NEW v \in ViaType
    PROVE  AtX(v) \in Int /\ AtY(v) \in Int
<1> DEFINE p == v.a_xrate * v.a_ticks
           q == v.a_yrate * v.a_ticks
<1>1. /\ v.x \in Int /\ v.y \in Int
      /\ v.a_xrate \in Int /\ v.a_yrate \in Int /\ v.a_ticks \in Int
  BY DEF ViaType
<1>2. p \in Int /\ q \in Int
  BY <1>1
<1> HIDE DEF p, q
<1>3. AtX(v) = (IF v.armed THEN v.x + p ELSE v.x) /\ AtY(v) = (IF v.armed THEN v.y + q ELSE v.y)
  BY DEF AtX, AtY, p, q
<1> QED BY <1>1, <1>2, <1>3

Lighted(v) == v.armed /\ v.a_visible /\ v.intensity \in 1 .. HALF - 1
Trace(v) == [x0 |-> v.x, y0 |-> v.y, x1 |-> AtX(v), y1 |-> AtY(v), z |-> v.intensity]

LEMMA WritePortA ==
    ASSUME NEW v \in ViaType, NEW b \in 0 .. BYTE - 1,
           NEW w, w = vectrexwrite(v, "PORTA", b)
    PROVE  /\ w \in ViaType /\ SameBeam(v, w) /\ w.t1 = v.t1 /\ w.mux = v.mux
           /\ w.dac = Signed(b)
           /\ w.y_rate = IF v.mux = "y" THEN Signed(b) ELSE v.y_rate
           /\ w.x_rate = IF v.mux = "off" THEN Signed(b) ELSE v.x_rate
           /\ w.intensity = IF v.mux = "z" THEN b ELSE v.intensity
<1> DEFINE n == Signed(b)
           u == [v EXCEPT !.dac = n]
<1>1. n \in Int /\ Unsigned(n) = b /\ b \in Nat
  BY SignedByte, ByteFacts
<1>2. w = Routed(u)
  BY DEF vectrexwrite
<1> HIDE DEF n
<1>3. u \in ViaType /\ u.dac = n /\ u.mux = v.mux /\ SameBeam(v, u) /\ u.t1 = v.t1
      /\ u.x_rate = v.x_rate /\ u.y_rate = v.y_rate /\ u.intensity = v.intensity
  BY <1>1 DEF ViaType, SameBeam
<1> HIDE DEF u
<1>4. CASE v.mux = "y"
  <2>1. w = [u EXCEPT !.y_rate = n]
    BY <1>2, <1>3, <1>4 DEF Routed
  <2> QED BY <1>1, <1>3, <1>4, <2>1 DEF ViaType, SameBeam, n
<1>5. CASE v.mux = "z"
  <2>1. w = [u EXCEPT !.intensity = b]
    BY <1>1, <1>2, <1>3, <1>5 DEF Routed
  <2> QED BY <1>1, <1>3, <1>5, <2>1 DEF ViaType, SameBeam, n
<1>6. CASE v.mux = "off"
  <2>1. w = [u EXCEPT !.x_rate = n]
    BY <1>2, <1>3, <1>6 DEF Routed
  <2> QED BY <1>1, <1>3, <1>6, <2>1 DEF ViaType, SameBeam, n
<1>7. CASE v.mux = "other"
  <2>1. w = u
    BY <1>2, <1>3, <1>7 DEF Routed
  <2> QED BY <1>1, <1>3, <1>7, <2>1 DEF n
<1> QED BY <1>4, <1>5, <1>6, <1>7 DEF ViaType, Muxes

LEMMA WritePortB ==
    ASSUME NEW v \in ViaType, NEW m \in {"y", "z", "off"},
           NEW w, w = vectrexwrite(v, "PORTB", m)
    PROVE  /\ w \in ViaType /\ SameBeam(v, w) /\ w.t1 = v.t1 /\ w.mux = m
           /\ w.dac = v.dac
           /\ w.y_rate = IF m = "y" THEN v.dac ELSE v.y_rate
           /\ w.x_rate = IF m = "off" THEN v.dac ELSE v.x_rate
           /\ w.intensity = IF m = "z" THEN Unsigned(v.dac) ELSE v.intensity
<1> DEFINE u == [v EXCEPT !.mux = m]
<1>1. w = Routed(u)
  BY DEF vectrexwrite
<1>2. u \in ViaType /\ u.dac = v.dac /\ u.mux = m /\ SameBeam(v, u) /\ u.t1 = v.t1
      /\ u.x_rate = v.x_rate /\ u.y_rate = v.y_rate /\ u.intensity = v.intensity
      /\ v.dac \in Int
  BY DEF ViaType, SameBeam, Muxes
<1>3. Unsigned(v.dac) \in Nat
  BY <1>2, ByteFacts, Remainder DEF Unsigned
<1> HIDE DEF u
<1>4. CASE m = "y"
  <2>1. w = [u EXCEPT !.y_rate = v.dac]
    BY <1>1, <1>2, <1>4 DEF Routed
  <2> QED BY <1>2, <1>4, <2>1 DEF ViaType, SameBeam
<1>5. CASE m = "z"
  <2>1. w = [u EXCEPT !.intensity = Unsigned(v.dac)]
    BY <1>1, <1>2, <1>5 DEF Routed
  <2> QED BY <1>2, <1>3, <1>5, <2>1 DEF ViaType, SameBeam
<1>6. CASE m = "off"
  <2>1. w = [u EXCEPT !.x_rate = v.dac]
    BY <1>1, <1>2, <1>6 DEF Routed
  <2> QED BY <1>2, <1>6, <2>1 DEF ViaType, SameBeam
<1> QED BY <1>4, <1>5, <1>6

LEMMA WriteT1CL ==
    ASSUME NEW v \in ViaType, NEW n \in Nat, NEW w, w = vectrexwrite(v, "T1CL", n)
    PROVE  /\ w \in ViaType /\ SameBeam(v, w) /\ SameRates(v, w) /\ w.t1.lo = n
  BY DEF ViaType, SameBeam, SameRates, vectrexwrite

LEMMA Committed ==
    ASSUME NEW v \in ViaType, NEW w, w = commit_ramp(v)
    PROVE  /\ w \in ViaType /\ ~w.armed /\ w.x = AtX(v) /\ w.y = AtY(v)
           /\ SameRates(v, w) /\ w.t1 = v.t1 /\ w.beam_on = v.beam_on
           /\ w.lines = IF Lighted(v) THEN Append(v.lines, Trace(v)) ELSE v.lines
<1> DEFINE p == AtX(v)
           q == AtY(v)
           ls == IF Lighted(v) THEN Append(v.lines, Trace(v)) ELSE v.lines
<1>1. p \in Int /\ q \in Int
  BY AtType
<1>2. ls \in Seq(LineType)
  <2>1. Trace(v) \in LineType /\ v.lines \in Seq(LineType)
    BY <1>1 DEF ViaType, Trace, LineType
  <2> QED BY <2>1, AppendProperties
<1>3. CASE ~v.armed
  <2>1. w = v
    BY <1>3 DEF commit_ramp
  <2> QED BY <1>3, <2>1 DEF AtX, AtY, SameRates, Lighted
<1>4. CASE v.armed
  <2>1. w = [v EXCEPT !.x = p, !.y = q, !.armed = FALSE, !.lines = ls]
    BY <1>4 DEF commit_ramp, AtX, AtY, Trace, Lighted, ViaType
  <2> HIDE DEF p, q, ls
  <2>2. w \in ViaType
    BY <1>1, <1>2, <2>1, ZenonT(60) DEF ViaType
  <2>3. ~w.armed /\ w.x = p /\ w.y = q /\ w.lines = ls
    BY <2>1 DEF ViaType
  <2>4. SameRates(v, w) /\ w.t1 = v.t1 /\ w.beam_on = v.beam_on
    BY <2>1 DEF ViaType, SameRates
  <2> QED BY <2>2, <2>3, <2>4 DEF p, q, ls
<1> QED BY <1>3, <1>4

LEMMA WriteT1CH ==
    ASSUME NEW v \in ViaType, NEW n \in Nat, NEW w, w = vectrexwrite(v, "T1CH", n)
    PROVE  /\ w \in ViaType /\ w.armed /\ w.x = AtX(v) /\ w.y = AtY(v)
           /\ SameRates(v, w) /\ w.t1.lo = v.t1.lo /\ w.beam_on = v.beam_on
           /\ w.lines = IF Lighted(v) THEN Append(v.lines, Trace(v)) ELSE v.lines
           /\ w.a_xrate = v.x_rate /\ w.a_yrate = v.y_rate /\ w.a_visible = v.beam_on
           /\ w.a_ticks = v.t1.lo + n * BYTE + SCALE_STRENGTH_DIF
<1> DEFINE u == [v EXCEPT !.t1.hi = n]
           c == commit_ramp(u)
           k == v.t1.lo + n * BYTE + SCALE_STRENGTH_DIF
<1>1. /\ u \in ViaType /\ SameBeam(v, u) /\ SameRates(v, u) /\ u.t1.lo = v.t1.lo /\ u.t1.hi = n
      /\ u.x_rate = v.x_rate /\ u.y_rate = v.y_rate /\ u.beam_on = v.beam_on
  BY DEF ViaType, SameBeam, SameRates
<1>2. /\ AtX(u) = AtX(v) /\ AtY(u) = AtY(v) /\ Lighted(u) = Lighted(v) /\ Trace(u) = Trace(v)
      /\ u.lines = v.lines
  <2> HIDE DEF u
  <2> QED BY <1>1 DEF SameBeam, SameRates, AtX, AtY, Lighted, Trace
<1>3. k \in Nat
  <2>1. n * BYTE \in Nat /\ v.t1.lo \in Nat
    BY ByteFacts DEF ViaType
  <2> QED BY <2>1, ByteFacts
<1>4. w = [c EXCEPT !.a_ticks = u.t1.lo + u.t1.hi * BYTE + SCALE_STRENGTH_DIF,
                    !.a_xrate = u.x_rate, !.a_yrate = u.y_rate,
                    !.a_visible = u.beam_on, !.armed = TRUE]
  BY DEF vectrexwrite, arm_ramp
<1> HIDE DEF u
<1>5. /\ c \in ViaType /\ c.x = AtX(u) /\ c.y = AtY(u)
      /\ SameRates(u, c) /\ c.t1 = u.t1 /\ c.beam_on = u.beam_on
      /\ c.lines = IF Lighted(u) THEN Append(u.lines, Trace(u)) ELSE u.lines
  BY <1>1, Committed
<1> HIDE DEF c
<1>6. w = [c EXCEPT !.a_ticks = k, !.a_xrate = v.x_rate, !.a_yrate = v.y_rate,
                    !.a_visible = v.beam_on, !.armed = TRUE]
  BY <1>1, <1>4
<1> HIDE DEF k
<1>7. v.x_rate \in Int /\ v.y_rate \in Int /\ v.beam_on \in BOOLEAN
  BY DEF ViaType
<1>8. /\ w \in ViaType /\ w.armed /\ w.x = c.x /\ w.y = c.y
      /\ SameRates(c, w) /\ w.t1 = c.t1 /\ w.beam_on = c.beam_on /\ w.lines = c.lines
      /\ w.a_xrate = v.x_rate /\ w.a_yrate = v.y_rate /\ w.a_visible = v.beam_on
      /\ w.a_ticks = k
  <2>1. w \in ViaType
    BY <1>3, <1>5, <1>6, <1>7, ZenonT(60) DEF ViaType
  <2>2. /\ w.armed /\ w.a_xrate = v.x_rate /\ w.a_yrate = v.y_rate
        /\ w.a_visible = v.beam_on /\ w.a_ticks = k
    BY <1>5, <1>6 DEF ViaType
  <2>3. w.x = c.x /\ w.y = c.y /\ w.t1 = c.t1 /\ w.beam_on = c.beam_on /\ w.lines = c.lines
    BY <1>5, <1>6 DEF ViaType
  <2>4. SameRates(c, w)
    BY <1>5, <1>6 DEF ViaType, SameRates
  <2> QED BY <2>1, <2>2, <2>3, <2>4
<1>9. SameRates(v, w) /\ w.beam_on = v.beam_on /\ w.t1.lo = v.t1.lo
  BY <1>1, <1>5, <1>8 DEF SameRates
<1>10. w.x = AtX(v) /\ w.y = AtY(v)
  BY <1>2, <1>5, <1>8
<1>11. w.lines = IF Lighted(v) THEN Append(v.lines, Trace(v)) ELSE v.lines
  BY <1>2, <1>5, <1>8
<1> QED BY <1>8, <1>9, <1>10, <1>11 DEF k

\* The beam is switched on.
LEMMA BeamOn ==
    ASSUME NEW v \in ViaType, NEW w, w = vectrexwrite(v, "PCR", Lit)
    PROVE  /\ w \in ViaType /\ SameRates(v, w) /\ w.t1 = v.t1
           /\ w.x = v.x /\ w.y = v.y /\ w.armed = v.armed /\ w.lines = v.lines
           /\ w.a_xrate = v.a_xrate /\ w.a_yrate = v.a_yrate /\ w.a_ticks = v.a_ticks
           /\ w.a_visible = (v.a_visible \/ v.armed)
<1> DEFINE s == v.a_visible \/ v.armed
<1>1. w = [v EXCEPT !.a_visible = s, !.beam_on = TRUE]
  BY DEF vectrexwrite, Switched, Lit, ViaType
<1>2. s \in BOOLEAN
  OBVIOUS
<1> HIDE DEF s
<1>3. /\ w \in ViaType /\ SameRates(v, w) /\ w.t1 = v.t1
      /\ w.x = v.x /\ w.y = v.y /\ w.armed = v.armed /\ w.lines = v.lines
      /\ w.a_xrate = v.a_xrate /\ w.a_yrate = v.a_yrate /\ w.a_ticks = v.a_ticks
      /\ w.a_visible = s
  <2>1. w \in ViaType
    BY <1>1, <1>2 DEF ViaType
  <2>2. /\ w.a_xrate = v.a_xrate /\ w.a_yrate = v.a_yrate /\ w.a_ticks = v.a_ticks
        /\ w.a_visible = s
    BY <1>1 DEF ViaType
  <2>3. w.x = v.x /\ w.y = v.y /\ w.armed = v.armed /\ w.lines = v.lines /\ w.t1 = v.t1
    BY <1>1 DEF ViaType
  <2>4. SameRates(v, w)
    BY <1>1 DEF ViaType, SameRates
  <2> QED BY <2>1, <2>2, <2>3, <2>4
<1> QED BY <1>3 DEF s

\* It is switched off, and the armed ramp runs.
LEMMA BeamOff ==
    ASSUME NEW v \in ViaType, NEW w, w = vectrexwrite(v, "PCR", Dark)
    PROVE  /\ w \in ViaType /\ ~w.armed /\ ~w.beam_on /\ w.x = AtX(v) /\ w.y = AtY(v)
           /\ SameRates(v, w) /\ w.t1 = v.t1
           /\ w.lines = IF Lighted(v) THEN Append(v.lines, Trace(v)) ELSE v.lines
<1> DEFINE s == v.a_visible
           u == [v EXCEPT !.a_visible = s, !.beam_on = FALSE]
<1>1. w = commit_ramp(u)
  <2>1. Switched(v, FALSE) = commit_ramp([v EXCEPT !.a_visible = @ \/ FALSE, !.beam_on = FALSE])
    BY DEF Switched
  <2>2. (v.a_visible \/ FALSE) = v.a_visible
    BY DEF ViaType
  <2>3. Switched(v, FALSE) = commit_ramp([v EXCEPT !.a_visible = v.a_visible, !.beam_on = FALSE])
    <3> DEFINE a == v.a_visible \/ FALSE
    <3>1. [v EXCEPT !.a_visible = a, !.beam_on = FALSE]
            = [v EXCEPT !.a_visible = v.a_visible, !.beam_on = FALSE]
      <4>1. a = v.a_visible
        BY <2>2
      <4> HIDE DEF a
      <4> QED BY <4>1
    <3> QED BY <2>1, <3>1
  <2> QED BY <2>3 DEF vectrexwrite, Dark
<1>2. s \in BOOLEAN /\ s = v.a_visible
  BY DEF ViaType
<1>3. u \in ViaType /\ SameRates(v, u) /\ u.t1 = v.t1 /\ ~u.beam_on /\ u.x = v.x /\ u.y = v.y
      /\ u.armed = v.armed /\ u.a_visible = v.a_visible /\ u.lines = v.lines
      /\ u.a_xrate = v.a_xrate /\ u.a_yrate = v.a_yrate /\ u.a_ticks = v.a_ticks
  BY <1>2 DEF ViaType, SameRates
<1> HIDE DEF u
<1>4. AtX(u) = AtX(v) /\ AtY(u) = AtY(v) /\ Lighted(u) = Lighted(v) /\ Trace(u) = Trace(v)
  BY <1>3 DEF AtX, AtY, Lighted, Trace, SameRates
<1>5. /\ w \in ViaType /\ ~w.armed /\ w.x = AtX(u) /\ w.y = AtY(u)
      /\ SameRates(u, w) /\ w.t1 = u.t1 /\ w.beam_on = u.beam_on
      /\ w.lines = IF Lighted(u) THEN Append(u.lines, Trace(u)) ELSE u.lines
  BY <1>1, <1>3, Committed
<1>6. SameRates(v, w)
  BY <1>3, <1>5 DEF SameRates
<1> QED BY <1>3, <1>4, <1>5, <1>6

\* It is brought to the centre.
LEMMA Zeroed ==
    ASSUME NEW v \in ViaType, ~v.armed, NEW w, w = vectrexwrite(v, "PCR", ToZero)
    PROVE  /\ w \in ViaType /\ ~w.armed /\ ~w.beam_on /\ w.x = 0 /\ w.y = 0
           /\ SameRates(v, w) /\ w.t1 = v.t1 /\ w.lines = v.lines
<1> DEFINE o == Switched(v, FALSE)
           c == commit_ramp(o)
<1>1. w = [c EXCEPT !.x = 0, !.y = 0]
  BY DEF vectrexwrite, ToZero
<1>2. o = vectrexwrite(v, "PCR", Dark)
  BY DEF vectrexwrite, Dark
<1> HIDE DEF o
<1>3. o \in ViaType /\ ~o.armed /\ ~o.beam_on /\ SameRates(v, o) /\ o.t1 = v.t1
      /\ o.lines = v.lines
  BY <1>2, BeamOff DEF Lighted
<1>4. c = o
  BY <1>3 DEF commit_ramp
<1> HIDE DEF c
<1>5. w \in ViaType /\ ~w.armed /\ ~w.beam_on /\ w.x = 0 /\ w.y = 0
      /\ SameRates(o, w) /\ w.t1 = o.t1 /\ w.lines = o.lines
  <2>1. w = [o EXCEPT !.x = 0, !.y = 0] /\ o \in ViaType /\ 0 \in Int
    BY <1>1, <1>3, <1>4
  <2>2. w \in ViaType
    BY <2>1 DEF ViaType
  <2>3. w.x = 0 /\ w.y = 0 /\ w.armed = o.armed /\ w.beam_on = o.beam_on /\ w.t1 = o.t1
        /\ w.lines = o.lines /\ SameRates(o, w)
    BY <2>1 DEF ViaType, SameRates
  <2> QED BY <1>3, <2>2, <2>3
<1>6. SameRates(v, w)
  BY <1>3, <1>5 DEF SameRates
<1> QED BY <1>3, <1>5, <1>6

-----------------------------------------------------------------------------
(* The library's caches.                                                   *)

LibType ==
    [via : ViaType, portA : Int, ysh : Int, zsh : Int, scale : Nat, lastScale : Nat,
     cx : Int, cy : Int, draws : Nat]

\* The integrator behind the multiplexer has the DAC's rate.
Driven(v) ==
    /\ v.mux = "y" => v.y_rate = v.dac
    /\ v.mux = "off" => v.x_rate = v.dac

\* What a cache knows is so; it knows nothing before its first write.
KnowsPortA(d) == d.portA # UNKNOWN => d.via.dac = Signed(d.portA)
KnowsBrightness(d) == d.zsh # UNKNOWN => d.zsh \in 0 .. BYTE - 1 /\ d.via.intensity = d.zsh
KnowsRate(d) == d.ysh # UNKNOWN => d.via.y_rate = Signed(d.ysh)
Caches(d) == KnowsPortA(d) /\ KnowsBrightness(d) /\ KnowsRate(d) /\ Driven(d.via)

\* Between two calls the multiplexer is off.
MuxOff(d) == d.via.mux = "off"

SameBook(d, r) ==
    /\ r.scale = d.scale /\ r.lastScale = d.lastScale
    /\ r.cx = d.cx /\ r.cy = d.cy /\ r.draws = d.draws

LEMMA SetVia ==
    ASSUME NEW d \in LibType, NEW reg, NEW data, vectrexwrite(d.via, reg, data) \in ViaType,
           NEW r, r = SET(d, reg, data)
    PROVE  /\ r \in LibType /\ r.via = vectrexwrite(d.via, reg, data) /\ SameBook(d, r)
           /\ r.portA = d.portA /\ r.ysh = d.ysh /\ r.zsh = d.zsh
<1> DEFINE w == vectrexwrite(d.via, reg, data)
<1>1. r = [d EXCEPT !.via = w]
  BY DEF SET
<1> HIDE DEF w
<1>2. w \in ViaType
  BY DEF w
<1>3. r \in LibType /\ r.via = w /\ SameBook(d, r)
      /\ r.portA = d.portA /\ r.ysh = d.ysh /\ r.zsh = d.zsh
  BY <1>1, <1>2 DEF LibType, SameBook
<1> QED BY <1>3 DEF w

LEMMA SetPortA ==
    ASSUME NEW d \in LibType, NEW b \in 0 .. BYTE - 1, NEW r, r = SET(d, "PORTA", b),
           d.via.mux \in {"y", "off"}
    PROVE  /\ r \in LibType /\ SameBook(d, r) /\ SameBeam(d.via, r.via) /\ r.via.t1 = d.via.t1
           /\ r.portA = d.portA /\ r.ysh = d.ysh /\ r.zsh = d.zsh
           /\ r.via.mux = d.via.mux /\ r.via.dac = Signed(b)
           /\ r.via.intensity = d.via.intensity /\ Driven(r.via)
           /\ d.via.mux = "off" => r.via.y_rate = d.via.y_rate
<1> DEFINE v == d.via
           w == vectrexwrite(v, "PORTA", b)
<1>1. v \in ViaType
  BY DEF LibType
<1>2. /\ w \in ViaType /\ SameBeam(v, w) /\ w.t1 = v.t1 /\ w.mux = v.mux /\ w.dac = Signed(b)
      /\ w.y_rate = IF v.mux = "y" THEN Signed(b) ELSE v.y_rate
      /\ w.x_rate = IF v.mux = "off" THEN Signed(b) ELSE v.x_rate
      /\ w.intensity = IF v.mux = "z" THEN b ELSE v.intensity
  <2> HIDE DEF v
  <2> QED BY <1>1, WritePortA
<1>3. /\ r \in LibType /\ r.via = w /\ SameBook(d, r)
      /\ r.portA = d.portA /\ r.ysh = d.ysh /\ r.zsh = d.zsh
  <2>1. vectrexwrite(d.via, "PORTA", b) \in ViaType
    BY <1>2
  <2> QED BY <2>1, SetVia
<1> HIDE DEF w
<1>4. Driven(w)
  BY <1>2 DEF Driven
<1> QED BY <1>2, <1>3, <1>4

LEMMA SetPortB ==
    ASSUME NEW d \in LibType, NEW m \in {"y", "z", "off"}, NEW r, r = SET(d, "PORTB", m)
    PROVE  /\ r \in LibType /\ SameBook(d, r) /\ SameBeam(d.via, r.via) /\ r.via.t1 = d.via.t1
           /\ r.portA = d.portA /\ r.ysh = d.ysh /\ r.zsh = d.zsh
           /\ r.via.mux = m /\ r.via.dac = d.via.dac /\ Driven(r.via)
           /\ m # "y" => r.via.y_rate = d.via.y_rate
           /\ r.via.intensity = IF m = "z" THEN Unsigned(d.via.dac) ELSE d.via.intensity
<1> DEFINE v == d.via
           w == vectrexwrite(v, "PORTB", m)
<1>1. v \in ViaType
  BY DEF LibType
<1>2. /\ w \in ViaType /\ SameBeam(v, w) /\ w.t1 = v.t1 /\ w.mux = m /\ w.dac = v.dac
      /\ w.y_rate = IF m = "y" THEN v.dac ELSE v.y_rate
      /\ w.x_rate = IF m = "off" THEN v.dac ELSE v.x_rate
      /\ w.intensity = IF m = "z" THEN Unsigned(v.dac) ELSE v.intensity
  <2> HIDE DEF v
  <2> QED BY <1>1, WritePortB
<1>3. /\ r \in LibType /\ r.via = w /\ SameBook(d, r)
      /\ r.portA = d.portA /\ r.ysh = d.ysh /\ r.zsh = d.zsh
  <2>1. vectrexwrite(d.via, "PORTB", m) \in ViaType
    BY <1>2
  <2> QED BY <2>1, SetVia
<1> HIDE DEF w
<1>4. Driven(w)
  BY <1>2 DEF Driven
<1> QED BY <1>2, <1>3, <1>4

LEMMA SameBeamTwice ==
    ASSUME NEW u, NEW v, NEW w, SameBeam(u, v), SameBeam(v, w)
    PROVE  SameBeam(u, w)
  BY DEF SameBeam

LEMMA SameBookTwice ==
    ASSUME NEW c, NEW d, NEW r, SameBook(c, d), SameBook(d, r)
    PROVE  SameBook(c, r)
  BY DEF SameBook

\* Port A is written unless it has the byte already.
LEMMA PortA ==
    ASSUME NEW d \in LibType, NEW b \in 0 .. BYTE - 1, NEW r, r = SETPortA(d, b),
           KnowsPortA(d), Driven(d.via), d.via.mux \in {"y", "off"}
    PROVE  /\ r \in LibType /\ SameBook(d, r) /\ SameBeam(d.via, r.via) /\ r.via.t1 = d.via.t1
           /\ KnowsPortA(r) /\ r.ysh = d.ysh /\ r.zsh = d.zsh
           /\ r.via.mux = d.via.mux /\ r.via.dac = Signed(b)
           /\ r.via.intensity = d.via.intensity /\ Driven(r.via)
           /\ d.via.mux = "off" => r.via.y_rate = d.via.y_rate
<1> DEFINE e == IF b # d.portA THEN SET(d, "PORTA", b) ELSE d
<1>1. /\ e \in LibType /\ SameBook(d, e) /\ SameBeam(d.via, e.via) /\ e.via.t1 = d.via.t1
      /\ e.ysh = d.ysh /\ e.zsh = d.zsh
      /\ e.via.mux = d.via.mux /\ e.via.dac = Signed(b)
      /\ e.via.intensity = d.via.intensity /\ Driven(e.via)
      /\ d.via.mux = "off" => e.via.y_rate = d.via.y_rate
  <2>1. CASE b # d.portA
    <3>1. e = SET(d, "PORTA", b)
      BY <2>1
    <3> HIDE DEF e
    <3> QED BY <3>1, SetPortA
  <2>2. CASE b = d.portA
    <3>1. e = d
      BY <2>2
    <3>2. b # UNKNOWN
      BY ByteFacts
    <3>3. d.via.dac = Signed(b)
      BY <2>2, <3>2 DEF KnowsPortA
    <3> HIDE DEF e
    <3> QED BY <3>1, <3>3 DEF SameBook, SameBeam
  <2> QED BY <2>1, <2>2
<1>2. r = [e EXCEPT !.portA = b]
  BY DEF SETPortA
<1> HIDE DEF e
<1>3. /\ r \in LibType /\ r.via = e.via /\ r.portA = b /\ SameBook(e, r)
      /\ r.ysh = e.ysh /\ r.zsh = e.zsh
  <2>1. b \in Int
    BY ByteFacts
  <2> QED BY <1>1, <1>2, <2>1 DEF LibType, SameBook
<1>4. KnowsPortA(r)
  BY <1>1, <1>3 DEF KnowsPortA
<1>5. SameBook(d, r)
  BY <1>1, <1>3, SameBookTwice
<1> QED BY <1>1, <1>3, <1>4, <1>5

LEMMA Brightness ==
    ASSUME NEW d \in LibType, NEW z \in 0 .. BYTE - 1, NEW r, r = v_setBrightness(d, z),
           Caches(d), MuxOff(d)
    PROVE  /\ r \in LibType /\ SameBook(d, r) /\ SameBeam(d.via, r.via) /\ r.via.t1 = d.via.t1
           /\ Caches(r) /\ r.via.mux = "off" /\ r.via.intensity = z
<1>0. z # UNKNOWN /\ z \in Int /\ UNKNOWN \notin 0 .. BYTE - 1 /\ Signed(z) \in Int
      /\ Signed(Signed(z)) = Signed(z) /\ Unsigned(Signed(z)) = z
  BY ByteFacts, SignedByte
<1>1. CASE z = d.zsh
  <2>1. r = d /\ d.via.intensity = z /\ d.via.mux = "off"
    BY <1>0, <1>1 DEF v_setBrightness, MuxOff, Caches, KnowsBrightness
  <2> QED BY <2>1 DEF SameBook, SameBeam
<1>2. CASE z # d.zsh
  <2> DEFINE a == SET(d, "PORTA", z)
             put == IF z = d.portA THEN d ELSE [a EXCEPT !.portA = Signed(z)]
             e == SET(put, "PORTB", "z")
             f == SET(e, "PORTB", "off")
  <2>1. r = [f EXCEPT !.zsh = z]
    BY <1>2 DEF v_setBrightness
  <2>2. d.via.mux \in {"y", "off"}
    BY DEF MuxOff
  <2>3. /\ a \in LibType /\ SameBook(d, a) /\ SameBeam(d.via, a.via) /\ a.via.t1 = d.via.t1
        /\ a.ysh = d.ysh /\ a.via.dac = Signed(z)
        /\ d.via.mux = "off" => a.via.y_rate = d.via.y_rate
    BY <2>2, SetPortA
  <2> HIDE DEF a
  <2>4. /\ put \in LibType /\ SameBook(d, put) /\ SameBeam(d.via, put.via)
        /\ put.via.t1 = d.via.t1 /\ put.ysh = d.ysh /\ put.via.dac = Signed(z)
        /\ KnowsPortA(put)
        /\ d.via.mux = "off" => put.via.y_rate = d.via.y_rate
    <3>1. CASE z = d.portA
      <4>1. put = d /\ d.via.dac = Signed(z)
        BY <3>1, <1>0 DEF Caches, KnowsPortA
      <4> HIDE DEF put
      <4> QED BY <4>1 DEF Caches, SameBook, SameBeam
    <3>2. CASE z # d.portA
      <4>1. put = [a EXCEPT !.portA = Signed(z)]
        BY <3>2
      <4> HIDE DEF put
      <4>2. /\ put \in LibType /\ put.via = a.via /\ SameBook(a, put) /\ put.ysh = a.ysh
            /\ put.portA = Signed(z)
        BY <4>1, <2>3, <1>0 DEF LibType, SameBook
      <4>3. KnowsPortA(put)
        BY <4>2, <2>3, <1>0 DEF KnowsPortA
      <4>4. SameBook(d, put)
        BY <4>2, <2>3, SameBookTwice
      <4> QED BY <4>2, <4>3, <4>4, <2>3
    <3> QED BY <3>1, <3>2
  <2> HIDE DEF put
  <2>5. /\ e \in LibType /\ SameBook(put, e) /\ SameBeam(put.via, e.via)
        /\ e.via.t1 = put.via.t1 /\ e.portA = put.portA /\ e.ysh = put.ysh
        /\ e.via.dac = put.via.dac /\ e.via.y_rate = put.via.y_rate
        /\ e.via.intensity = Unsigned(put.via.dac)
    BY <2>4, SetPortB
  <2> HIDE DEF e
  <2>6. /\ f \in LibType /\ SameBook(e, f) /\ SameBeam(e.via, f.via)
        /\ f.via.t1 = e.via.t1 /\ f.portA = e.portA /\ f.ysh = e.ysh
        /\ f.via.mux = "off" /\ f.via.dac = e.via.dac /\ f.via.y_rate = e.via.y_rate
        /\ f.via.intensity = e.via.intensity /\ Driven(f.via)
    BY <2>5, SetPortB
  <2> HIDE DEF f
  <2>7. /\ r \in LibType /\ r.via = f.via /\ SameBook(f, r) /\ r.portA = f.portA
        /\ r.ysh = f.ysh /\ r.zsh = z
    BY <2>1, <2>6, <1>0 DEF LibType, SameBook
  <2>8. SameBook(d, r)
    BY <2>4, <2>5, <2>6, <2>7 DEF SameBook
  <2>9. SameBeam(d.via, r.via) /\ r.via.t1 = d.via.t1
    BY <2>4, <2>5, <2>6, <2>7 DEF SameBeam
  <2>10. r.via.intensity = z /\ r.via.mux = "off"
    BY <2>4, <2>5, <2>6, <2>7, <1>0
  <2>11. KnowsPortA(r)
    BY <2>4, <2>5, <2>6, <2>7 DEF KnowsPortA
  <2>12. KnowsBrightness(r)
    BY <2>7, <2>10 DEF KnowsBrightness
  <2>13. KnowsRate(r)
    <3> SUFFICES ASSUME r.ysh # UNKNOWN PROVE r.via.y_rate = Signed(r.ysh)
      BY DEF KnowsRate
    <3>1. r.ysh = d.ysh
      BY <2>4, <2>5, <2>6, <2>7
    <3>2. d.via.mux = "off" /\ d.via.y_rate = Signed(d.ysh)
      BY <3>1 DEF MuxOff, Caches, KnowsRate
    <3> QED BY <3>1, <3>2, <2>4, <2>5, <2>6, <2>7
  <2>14. Driven(r.via)
    BY <2>6, <2>7
  <2> QED BY <2>7, <2>8, <2>9, <2>10, <2>11, <2>12, <2>13, <2>14 DEF Caches
<1> QED BY <1>1, <1>2

-----------------------------------------------------------------------------
(* A ramp: two rates, and the timer that runs them.                        *)
LEMMA QuotientType ==
    ASSUME NEW n \in Int, NEW t \in Nat \ {0}
    PROVE  Quotient(n, t) \in Int
<1>1. \A k \in Int : k \div t \in Int
  BY Remainder
<1>2. n \div t \in Int /\ (-n) \div t \in Int
  <2>1. -n \in Int
    OBVIOUS
  <2> QED BY <1>1, <2>1
<1>3. -((-n) \div t) \in Int
  <2> DEFINE q == (-n) \div t
  <2>1. q \in Int
    BY <1>2
  <2> HIDE DEF q
  <2>2. -q \in Int
    BY <2>1
  <2> QED BY <2>2 DEF q
<1> QED BY <1>2, <1>3 DEF Quotient

Ticks(d) == d.scale + SCALE_STRENGTH_DIF

LEMMA StrengthType ==
    ASSUME NEW d \in LibType, d.scale # 0, NEW n \in Int
    PROVE  /\ Ticks(d) \in Nat \ {0}
           /\ Strength(d, n) \in 0 .. BYTE - 1
           /\ Strength(d, n) = Unsigned(Quotient(n, Ticks(d)))
<1>1. Ticks(d) \in Nat \ {0}
  BY ByteFacts DEF LibType, Ticks
<1>2. Quotient(n, Ticks(d)) \in Int
  BY <1>1, QuotientType
<1>3. Strength(d, n) = Unsigned(Quotient(n, Ticks(d)))
  BY DEF Strength, Ticks
<1> DEFINE k == Quotient(n, Ticks(d))
<1> HIDE DEF k
<1>4. k \in Int => Unsigned(k) \in 0 .. BYTE - 1
  BY ByteFacts, Remainder DEF Unsigned
<1> QED BY <1>1, <1>2, <1>3, <1>4 DEF k

\* After a call the books and the beam are as they were, and what is cached is so.
Kept(d, r) ==
    /\ r \in LibType /\ SameBook(d, r) /\ SameBeam(d.via, r.via) /\ r.via.t1 = d.via.t1
    /\ Caches(r) /\ r.via.intensity = d.via.intensity

LEMMA YRate ==
    ASSUME NEW d \in LibType, Caches(d), d.via.mux = "off", d.scale # 0, NEW n \in Int,
           NEW r, r = SET_YSH16(d, n)
    PROVE  /\ Kept(d, r) /\ r.via.mux \in {"y", "off"}
           /\ r.via.y_rate = Signed(Strength(d, n))
<1> DEFINE t == Strength(d, n)
<1>1. t \in 0 .. BYTE - 1 /\ t # UNKNOWN /\ t \in Int
  <2>1. t \in 0 .. BYTE - 1
    BY StrengthType
  <2> HIDE DEF t
  <2> QED BY <2>1, ByteFacts
<1>2. CASE t = d.ysh
  <2>1. r = d
    BY <1>2 DEF SET_YSH16
  <2>2. d.via.y_rate = Signed(t)
    BY <1>1, <1>2 DEF Caches, KnowsRate
  <2> HIDE DEF t
  <2>3. Kept(d, r) /\ r.via.mux = "off" /\ r.via.y_rate = Signed(t)
    BY <2>1, <2>2 DEF Kept, SameBook, SameBeam
  <2> QED BY <2>3 DEF t
<1>3. CASE t # d.ysh
  <2> DEFINE e == SET(d, "PORTB", "y")
             f == SETPortA(e, t)
  <2>1. r = [f EXCEPT !.ysh = t]
    BY <1>3 DEF SET_YSH16
  <2> HIDE DEF t
  <2>2. /\ e \in LibType /\ SameBook(d, e) /\ SameBeam(d.via, e.via) /\ e.via.t1 = d.via.t1
        /\ e.portA = d.portA /\ e.zsh = d.zsh
        /\ e.via.mux = "y" /\ e.via.dac = d.via.dac /\ Driven(e.via)
        /\ e.via.intensity = d.via.intensity
    BY SetPortB
  <2> HIDE DEF e
  <2>3. KnowsPortA(e)
    BY <2>2 DEF Caches, KnowsPortA
  <2>4. /\ f \in LibType /\ SameBook(e, f) /\ SameBeam(e.via, f.via) /\ f.via.t1 = e.via.t1
        /\ KnowsPortA(f) /\ f.zsh = e.zsh
        /\ f.via.mux = "y" /\ f.via.dac = Signed(t)
        /\ f.via.intensity = e.via.intensity /\ Driven(f.via)
    BY <1>1, <2>2, <2>3, PortA
  <2> HIDE DEF f
  <2>5. /\ r \in LibType /\ r.via = f.via /\ SameBook(f, r) /\ r.portA = f.portA
        /\ r.zsh = f.zsh /\ r.ysh = t
    BY <1>1, <2>1, <2>4 DEF LibType, SameBook
  <2>6. r.via.y_rate = Signed(t)
    BY <2>4, <2>5 DEF Driven
  <2>7. KnowsPortA(r)
    BY <2>4, <2>5 DEF KnowsPortA
  <2>8. KnowsBrightness(r)
    BY <2>2, <2>4, <2>5 DEF Caches, KnowsBrightness
  <2>9. KnowsRate(r)
    BY <2>5, <2>6 DEF KnowsRate
  <2>10. Driven(r.via)
    BY <2>4, <2>5
  <2>11. SameBook(d, r)
    BY <2>2, <2>4, <2>5 DEF SameBook
  <2>12. SameBeam(d.via, r.via)
    BY <2>2, <2>4, <2>5 DEF SameBeam
  <2>13. Kept(d, r)
    BY <2>2, <2>4, <2>5, <2>7, <2>8, <2>9, <2>10, <2>11, <2>12 DEF Kept, Caches
  <2> QED BY <2>4, <2>5, <2>6, <2>13 DEF t
<1> QED BY <1>2, <1>3

LEMMA XRate ==
    ASSUME NEW d \in LibType, Caches(d), d.scale # 0, NEW n \in Int,
           NEW r, r = SET_XSH16(d, n)
    PROVE  /\ Kept(d, r) /\ r.via.mux = "off" /\ r.via.y_rate = d.via.y_rate
           /\ r.via.x_rate = Signed(Strength(d, n))
<1> DEFINE t == Strength(d, n)
           e == SET(d, "PORTB", "off")
<1>1. t \in 0 .. BYTE - 1
  BY StrengthType
<1>2. r = SETPortA(e, t)
  BY DEF SET_XSH16
<1> HIDE DEF t
<1>3. /\ e \in LibType /\ SameBook(d, e) /\ SameBeam(d.via, e.via) /\ e.via.t1 = d.via.t1
      /\ e.portA = d.portA /\ e.zsh = d.zsh /\ e.ysh = d.ysh /\ e.via.y_rate = d.via.y_rate
      /\ e.via.mux = "off" /\ e.via.dac = d.via.dac /\ Driven(e.via)
      /\ e.via.intensity = d.via.intensity
  BY SetPortB
<1> HIDE DEF e
<1>4. KnowsPortA(e)
  BY <1>3 DEF Caches, KnowsPortA
<1>5. /\ r \in LibType /\ SameBook(e, r) /\ SameBeam(e.via, r.via) /\ r.via.t1 = e.via.t1
      /\ KnowsPortA(r) /\ r.zsh = e.zsh /\ r.ysh = e.ysh /\ r.via.y_rate = e.via.y_rate
      /\ r.via.mux = "off" /\ r.via.dac = Signed(t)
      /\ r.via.intensity = e.via.intensity /\ Driven(r.via)
  BY <1>1, <1>2, <1>3, <1>4, PortA
<1>6. r.via.x_rate = Signed(t)
  BY <1>5 DEF Driven
<1>7. KnowsBrightness(r)
  BY <1>3, <1>5 DEF Caches, KnowsBrightness
<1>8. KnowsRate(r)
  BY <1>3, <1>5 DEF Caches, KnowsRate
<1>9. SameBook(d, r)
  BY <1>3, <1>5 DEF SameBook
<1>10. SameBeam(d.via, r.via)
  BY <1>3, <1>5 DEF SameBeam
<1>11. Kept(d, r)
  BY <1>3, <1>5, <1>7, <1>8, <1>9, <1>10 DEF Kept, Caches
<1> QED BY <1>3, <1>5, <1>6, <1>11 DEF t

\* What a ramp leaves: a dark armed ramp of the rates, the one before it run.
Armed(d, r) ==
    /\ r.via.armed /\ ~r.via.beam_on /\ ~r.via.a_visible
    /\ r.via.x = AtX(d.via) /\ r.via.y = AtY(d.via) /\ r.via.lines = d.via.lines
    /\ r.via.intensity = d.via.intensity

\* T1's low byte is the current scale's, so that leaving its write out does no harm,
\* and it does none when a ramp needs another scale.
Timed(d) == d.via.t1.lo = d.scale % BYTE
Fits(d, x, y) == d.scale = Larger(MINSCALE, GET_OPTIMAL_SCALE(x, y)) => Timed(d)

LEMMA Timer ==
    ASSUME NEW d \in LibType, Caches(d), d.via.mux = "off", ~d.via.beam_on, ~Lighted(d.via),
           NEW r, r = START_T1_TIMER(d)
    PROVE  /\ r \in LibType /\ SameBook(d, r) /\ Caches(r) /\ r.via.mux = "off" /\ Armed(d, r)
           /\ r.via.a_xrate = d.via.x_rate /\ r.via.a_yrate = d.via.y_rate
           /\ (d.lastScale = d.scale => Timed(d)) => Timed(r) /\ r.via.a_ticks = Ticks(d)
<1> DEFINE lo == d.scale % BYTE
           hi == d.scale \div BYTE
           e == IF d.lastScale = d.scale THEN d ELSE SET(d, "T1CL", lo)
           v == e.via
           w == vectrexwrite(v, "T1CH", hi)
<1>1. r = SET(e, "T1CH", hi)
  BY DEF START_T1_TIMER
<1>2. lo \in Nat /\ hi \in Nat /\ d.scale = hi * BYTE + lo
  <2>1. d.scale \in Nat /\ BYTE \in Nat \ {0}
    BY ByteFacts DEF LibType
  <2>2. lo \in 0 .. BYTE - 1 /\ hi \in Int /\ d.scale = BYTE * hi + lo
    <3> DEFINE n == d.scale
    <3>1. n \in Int
      BY <2>1
    <3> HIDE DEF n
    <3>2. n % BYTE \in 0 .. BYTE - 1 /\ n \div BYTE \in Int
          /\ n = BYTE * (n \div BYTE) + (n % BYTE)
      BY <2>1, <3>1, Remainder
    <3> QED BY <3>2 DEF n
  <2> HIDE DEF lo, hi
  <2>3. ~(hi < 0)
    <3> SUFFICES ASSUME hi < 0 PROVE FALSE
      OBVIOUS
    <3>1. PICK k \in Nat : hi = -1 - k
      <4>1. -1 - hi \in Nat /\ hi = -1 - (-1 - hi)
        BY <2>2
      <4> QED BY <4>1
    <3>2. BYTE * hi = -BYTE - BYTE * k /\ BYTE * k >= 0 /\ BYTE * k \in Int
      BY <2>1, <3>1
    <3> QED BY <2>1, <2>2, <3>2
  <2>4. BYTE * hi = hi * BYTE
    BY <2>1, <2>2
  <2>5. lo \in Nat /\ hi \in Nat
    BY <2>1, <2>2, <2>3
  <2> QED BY <2>2, <2>4, <2>5
<1> HIDE DEF lo, hi
<1>3. /\ e \in LibType /\ SameBook(d, e) /\ e.portA = d.portA /\ e.ysh = d.ysh /\ e.zsh = d.zsh
      /\ SameBeam(d.via, v) /\ SameRates(d.via, v)
      /\ v.t1.lo = IF d.lastScale = d.scale THEN d.via.t1.lo ELSE lo
  <2>1. CASE d.lastScale = d.scale
    BY <2>1 DEF SameBook, SameBeam, SameRates
  <2>2. CASE d.lastScale # d.scale
    <3> DEFINE u == vectrexwrite(d.via, "T1CL", lo)
    <3>1. e = SET(d, "T1CL", lo)
      BY <2>2
    <3>2. u \in ViaType /\ SameBeam(d.via, u) /\ SameRates(d.via, u) /\ u.t1.lo = lo
      BY <1>2, WriteT1CL DEF LibType
    <3>3. /\ e \in LibType /\ e.via = u /\ SameBook(d, e)
          /\ e.portA = d.portA /\ e.ysh = d.ysh /\ e.zsh = d.zsh
      <4> HIDE DEF e
      <4> QED BY <3>1, <3>2, SetVia
    <3> HIDE DEF e, u
    <3> QED BY <2>2, <3>2, <3>3
  <2> QED BY <2>1, <2>2
<1> HIDE DEF e
<1>4. v \in ViaType
  BY <1>3 DEF LibType
<1>5. /\ w \in ViaType /\ w.armed /\ w.x = AtX(v) /\ w.y = AtY(v)
      /\ SameRates(v, w) /\ w.t1.lo = v.t1.lo /\ w.beam_on = v.beam_on
      /\ w.lines = IF Lighted(v) THEN Append(v.lines, Trace(v)) ELSE v.lines
      /\ w.a_xrate = v.x_rate /\ w.a_yrate = v.y_rate /\ w.a_visible = v.beam_on
      /\ w.a_ticks = v.t1.lo + hi * BYTE + SCALE_STRENGTH_DIF
  <2> HIDE DEF v
  <2> QED BY <1>2, <1>4, WriteT1CH
<1>6. /\ r \in LibType /\ r.via = w /\ SameBook(e, r)
      /\ r.portA = e.portA /\ r.ysh = e.ysh /\ r.zsh = e.zsh
  BY <1>1, <1>3, <1>5, SetVia
<1> HIDE DEF v, w
<1>7. AtX(v) = AtX(d.via) /\ AtY(v) = AtY(d.via) /\ ~Lighted(v) /\ v.lines = d.via.lines
  BY <1>3 DEF AtX, AtY, Lighted, SameBeam, SameRates
<1>8. Armed(d, r)
  BY <1>3, <1>5, <1>6, <1>7 DEF Armed, SameBeam, SameRates
<1>9. SameRates(d.via, r.via)
  BY <1>3, <1>5, <1>6 DEF SameRates
<1>10. Caches(r) /\ r.via.mux = "off"
  BY <1>3, <1>6, <1>9 DEF Caches, KnowsPortA, KnowsBrightness, KnowsRate, Driven, SameRates
<1>11. SameBook(d, r)
  BY <1>3, <1>6 DEF SameBook
<1>12. r.via.a_xrate = d.via.x_rate /\ r.via.a_yrate = d.via.y_rate
  BY <1>3, <1>5, <1>6 DEF SameRates
<1>13. ASSUME d.lastScale = d.scale => Timed(d)
       PROVE  Timed(r) /\ r.via.a_ticks = Ticks(d)
  <2>1. v.t1.lo = lo
    BY <1>3, <1>13 DEF Timed, lo
  <2>2. Timed(r)
    BY <1>5, <1>6, <1>11, <2>1 DEF Timed, SameBook, lo
  <2>3. lo + hi * BYTE + SCALE_STRENGTH_DIF = Ticks(d)
    <3> DEFINE p == hi * BYTE
    <3>1. p \in Nat /\ d.scale = p + lo
      BY <1>2, ByteFacts
    <3> HIDE DEF p
    <3>2. lo + p + SCALE_STRENGTH_DIF = Ticks(d)
      BY <1>2, <3>1, ByteFacts DEF Ticks
    <3> QED BY <3>2 DEF p
  <2> QED BY <1>5, <1>6, <2>1, <2>2, <2>3
<1> QED BY <1>6, <1>8, <1>10, <1>11, <1>12, <1>13

LEMMA TimesMore ==
    ASSUME NEW m \in Nat, NEW a \in Nat, NEW b \in Nat, a <= b
    PROVE  m * a <= m * b /\ m * a \in Nat /\ m * b \in Nat
<1>1. PICK k \in Nat : b = a + k
  <2>1. b - a \in Nat /\ b = a + (b - a)
    OBVIOUS
  <2> QED BY <2>1
<1>2. m * b = m * a + m * k /\ m * k \in Nat /\ m * a \in Nat
  BY <1>1
<1> QED BY <1>2

LEMMA ScaleIsSet ==
    ASSUME NEW d \in LibType, NEW a \in Int, NEW b \in Int,
           NEW r, r = SET_OPTIMAL_SCALE(d, a, b)
    PROVE  /\ r \in LibType /\ r.via = d.via
           /\ r.portA = d.portA /\ r.ysh = d.ysh /\ r.zsh = d.zsh
           /\ r.cx = d.cx /\ r.cy = d.cy /\ r.draws = d.draws /\ r.lastScale = d.scale
           /\ r.scale = Larger(MINSCALE, GET_OPTIMAL_SCALE(a, b)) /\ r.scale # 0
           /\ Abs(a) <= MAX_USED_STRENGTH * Ticks(r) /\ Abs(b) <= MAX_USED_STRENGTH * Ticks(r)
<1> DEFINE o == GET_OPTIMAL_SCALE(a, b)
           s == Larger(MINSCALE, o)
<1>1. o \in Nat /\ Abs(a) <= MAX_USED_STRENGTH * o /\ Abs(b) <= MAX_USED_STRENGTH * o
  BY OptimalScale
<1>2. MAX_USED_STRENGTH \in Nat /\ MINSCALE \in Nat \ {0} /\ SCALE_STRENGTH_DIF \in Nat
  BY DrawAssumption, ByteFacts
<1>3. Abs(a) \in Nat /\ Abs(b) \in Nat
  BY DEF Abs
<1> HIDE DEF o
<1>4. s \in Nat \ {0} /\ o <= s
  BY <1>1, <1>2 DEF Larger
<1>5. r = [d EXCEPT !.lastScale = d.scale, !.scale = s]
  BY DEF SET_OPTIMAL_SCALE, o
<1> HIDE DEF s
<1>6. /\ r \in LibType /\ r.via = d.via
      /\ r.portA = d.portA /\ r.ysh = d.ysh /\ r.zsh = d.zsh
      /\ r.cx = d.cx /\ r.cy = d.cy /\ r.draws = d.draws /\ r.lastScale = d.scale
      /\ r.scale = s
  BY <1>4, <1>5 DEF LibType
<1>7. Ticks(r) \in Nat /\ o <= Ticks(r)
  BY <1>1, <1>2, <1>4, <1>6 DEF Ticks
<1> DEFINE p == MAX_USED_STRENGTH * o
           q == MAX_USED_STRENGTH * Ticks(r)
<1>8. p <= q /\ p \in Nat /\ q \in Nat
  BY <1>1, <1>2, <1>7, TimesMore
<1>9. Abs(a) <= p /\ Abs(b) <= p
  BY <1>1
<1> HIDE DEF p, q
<1>10. Abs(a) <= q /\ Abs(b) <= q
  BY <1>3, <1>8, <1>9
<1> QED BY <1>4, <1>6, <1>10 DEF q, s, o

\* A ramp of a rate a over t ticks covers n, but for less than t.
Covers(a, t, n) == a * t \in Int /\ Abs(a * t - n) < t

LEMMA Reached ==
    ASSUME NEW d \in LibType, d.scale # 0, NEW n \in Int,
           Abs(n) <= MAX_USED_STRENGTH * Ticks(d)
    PROVE  Covers(Signed(Strength(d, n)), Ticks(d), n)
<1> DEFINE t == Ticks(d)
           a == Quotient(n, t)
<1>1. t \in Nat \ {0} /\ Strength(d, n) = Unsigned(a)
  BY StrengthType
<1>2. MAX_USED_STRENGTH \in Nat /\ MAX_USED_STRENGTH < HALF /\ HALF \in Nat
  BY DrawAssumption, ByteFacts
<1>3. /\ a \in Int /\ -MAX_USED_STRENGTH <= a /\ a <= MAX_USED_STRENGTH
      /\ a * t \in Int /\ Abs(a * t - n) < t
  <2>1. Abs(n) <= MAX_USED_STRENGTH * t
    OBVIOUS
  <2> HIDE DEF t
  <2> QED BY <1>1, <1>2, <2>1, Cut
<1> HIDE DEF a, t
<1>4. Signed(Unsigned(a)) = a
  BY <1>2, <1>3, SignedRate
<1>5. Covers(a, t, n)
  BY <1>3 DEF Covers
<1> QED BY <1>1, <1>4, <1>5 DEF t

LEMMA RampTo ==
    ASSUME NEW d \in LibType, Caches(d), d.via.mux = "off", ~d.via.beam_on, ~Lighted(d.via),
           NEW x \in Int, NEW y \in Int, NEW r, r = Ramp(d, x, y)
    PROVE  /\ r \in LibType /\ Caches(r) /\ r.via.mux = "off" /\ Armed(d, r)
           /\ r.cx = d.cx /\ r.cy = d.cy /\ r.draws = d.draws
           /\ r.scale = Larger(MINSCALE, GET_OPTIMAL_SCALE(x, y))
           /\ Fits(d, x, y) => /\ Timed(r)
                               /\ Covers(r.via.a_xrate, r.via.a_ticks, x)
                               /\ Covers(r.via.a_yrate, r.via.a_ticks, y)
                               /\ r.via.a_ticks = Ticks(r)
<1> DEFINE s == SET_OPTIMAL_SCALE(d, x, y)
           a == SET_YSH16(s, y)
           b == SET_XSH16(a, x)
<1>1. r = START_T1_TIMER(b)
  BY DEF Ramp
<1>2. /\ s \in LibType /\ s.via = d.via
      /\ s.portA = d.portA /\ s.ysh = d.ysh /\ s.zsh = d.zsh
      /\ s.cx = d.cx /\ s.cy = d.cy /\ s.draws = d.draws /\ s.lastScale = d.scale
      /\ s.scale = Larger(MINSCALE, GET_OPTIMAL_SCALE(x, y)) /\ s.scale # 0
      /\ Abs(x) <= MAX_USED_STRENGTH * Ticks(s) /\ Abs(y) <= MAX_USED_STRENGTH * Ticks(s)
  BY ScaleIsSet
<1> HIDE DEF s
<1>3. Caches(s) /\ s.via.mux = "off"
  BY <1>2 DEF Caches, KnowsPortA, KnowsBrightness, KnowsRate
<1>4. /\ Kept(s, a) /\ a.via.mux \in {"y", "off"}
      /\ a.via.y_rate = Signed(Strength(s, y))
  BY <1>2, <1>3, YRate
<1> HIDE DEF a
<1>5. a \in LibType /\ Caches(a) /\ a.scale # 0 /\ Strength(a, x) = Strength(s, x)
  BY <1>2, <1>4 DEF Kept, SameBook, Strength
<1>6. /\ Kept(a, b) /\ b.via.mux = "off" /\ b.via.y_rate = a.via.y_rate
      /\ b.via.x_rate = Signed(Strength(a, x))
  BY <1>5, XRate
<1> HIDE DEF b
<1>7. /\ SameBeam(d.via, b.via) /\ b.via.t1 = d.via.t1 /\ b.via.intensity = d.via.intensity
      /\ SameBook(s, b) /\ b \in LibType /\ Caches(b)
  BY <1>2, <1>4, <1>6 DEF Kept, SameBeam, SameBook
<1>8. /\ ~b.via.beam_on /\ ~Lighted(b.via) /\ AtX(b.via) = AtX(d.via) /\ AtY(b.via) = AtY(d.via)
  BY <1>7 DEF SameBeam, Lighted, AtX, AtY
<1>9. /\ r \in LibType /\ SameBook(b, r) /\ Caches(r) /\ r.via.mux = "off" /\ Armed(b, r)
      /\ r.via.a_xrate = b.via.x_rate /\ r.via.a_yrate = b.via.y_rate
      /\ (b.lastScale = b.scale => Timed(b)) => Timed(r) /\ r.via.a_ticks = Ticks(b)
  BY <1>1, <1>6, <1>7, <1>8, Timer
<1>10. Armed(d, r)
  BY <1>7, <1>8, <1>9 DEF Armed, SameBeam
<1>11. /\ r.cx = d.cx /\ r.cy = d.cy /\ r.draws = d.draws /\ r.scale = s.scale
       /\ Ticks(r) = Ticks(s) /\ Ticks(b) = Ticks(s)
  BY <1>2, <1>7, <1>9 DEF SameBook, Ticks
<1>12. ASSUME Fits(d, x, y)
       PROVE  /\ Timed(r) /\ Covers(r.via.a_xrate, r.via.a_ticks, x)
              /\ Covers(r.via.a_yrate, r.via.a_ticks, y) /\ r.via.a_ticks = Ticks(r)
  <2>1. b.lastScale = b.scale => Timed(b)
    BY <1>2, <1>7, <1>12 DEF Fits, Timed, SameBook
  <2>2. Timed(r) /\ r.via.a_ticks = Ticks(s)
    BY <1>9, <1>11, <2>1
  <2>3. /\ Covers(Signed(Strength(s, x)), Ticks(s), x)
        /\ Covers(Signed(Strength(s, y)), Ticks(s), y)
    BY <1>2, Reached
  <2>4. /\ r.via.a_xrate = Signed(Strength(s, x))
        /\ r.via.a_yrate = Signed(Strength(s, y))
    BY <1>4, <1>5, <1>6, <1>9
  <2> QED BY <1>11, <2>2, <2>3, <2>4
<1> QED BY <1>2, <1>9, <1>10, <1>11, <1>12

-----------------------------------------------------------------------------
(* Bringing the beam to where a vector starts, and drawing it.             *)

Rests(d) == ~d.via.armed /\ ~d.via.beam_on

\* The library believes the beam at the centre or where a vector ended.
AfterVector(d) == (d.cx = 0 /\ d.cy = 0) \/ \E b \in Vectors : d.cx = b.x1 /\ d.cy = b.y1

Near(a, b, bound) == a \in Int /\ b \in Int /\ Abs(a - b) <= bound

\* What one draw can add to the drift, and what it may have come to.
Slip == Quantum - 1 + POSITION_MARGIN
Drift(n) == (n + 1) * Slip
Drifts(d) == Near(d.via.x, d.cx, Drift(d.draws)) /\ Near(d.via.y, d.cy, Drift(d.draws))

LEMMA DriftFacts ==
    /\ Quantum \in Nat \ {0} /\ Slip \in Nat /\ POSITION_MARGIN \in Nat /\ Quantum - 1 <= Slip
    /\ \A n \in Nat : Drift(n) \in Nat /\ Drift(n + 1) = Drift(n) + Slip /\ Slip <= Drift(n)
<1>1. Quantum \in Nat \ {0} /\ POSITION_MARGIN \in Nat
  BY DrawAssumption, ScaleAssumption, ByteFacts DEF Quantum
<1>2. Slip \in Nat /\ Quantum - 1 <= Slip
  BY <1>1 DEF Slip
<1>3. ASSUME NEW n \in Nat
      PROVE  Drift(n) \in Nat /\ Drift(n + 1) = Drift(n) + Slip /\ Slip <= Drift(n)
  <2> DEFINE s == Slip
  <2>1. s \in Nat
    BY <1>2
  <2> HIDE DEF s
  <2>2. /\ (n + 1) * s \in Nat /\ ((n + 1) + 1) * s = (n + 1) * s + s
        /\ n * s \in Nat /\ (n + 1) * s = n * s + s
    BY <2>1
  <2> QED BY <2>1, <2>2 DEF Drift, s
<1> QED BY <1>1, <1>2, <1>3

LEMMA VectorType ==
    ASSUME NEW c \in Vectors
    PROVE  /\ c.x0 \in Int /\ c.y0 \in Int /\ c.x1 \in Int /\ c.y1 \in Int
           /\ c.z \in 0 .. BYTE - 1
  BY DrawAssumption

\* What a ramp of the given lengths lasts, and all an instance's do.
RampTicks(x, y) == Larger(MINSCALE, GET_OPTIMAL_SCALE(x, y)) + SCALE_STRENGTH_DIF

LEMMA ScaleCovers ==
    ASSUME NEW d \in LibType, AfterVector(d), NEW c \in Vectors
    PROVE  /\ GET_OPTIMAL_SCALE(c.x1 - c.x0, c.y1 - c.y0) <= MAX_SCALE
           /\ GET_OPTIMAL_SCALE(c.x0, c.y0) <= MAX_SCALE
           /\ GET_OPTIMAL_SCALE(c.x0 - d.cx, c.y0 - d.cy) <= MAX_SCALE
<1>1. CASE d.cx = 0 /\ d.cy = 0
  <2>1. c.x0 - 0 = c.x0 /\ c.y0 - 0 = c.y0
    BY VectorType
  <2>2. GET_OPTIMAL_SCALE(c.x0 - d.cx, c.y0 - d.cy) = GET_OPTIMAL_SCALE(c.x0, c.y0)
    BY <1>1, <2>1
  <2> QED BY <2>2, ScaleAssumption
<1>2. CASE \E b \in Vectors : d.cx = b.x1 /\ d.cy = b.y1
  BY <1>2, ScaleAssumption
<1> QED BY <1>1, <1>2 DEF AfterVector

LEMMA Short ==
    ASSUME NEW d \in LibType, NEW x \in Int, NEW y \in Int,
           d.scale = Larger(MINSCALE, GET_OPTIMAL_SCALE(x, y)),
           GET_OPTIMAL_SCALE(x, y) <= MAX_SCALE,
           NEW a, NEW n \in Int, Covers(a, Ticks(d), n)
    PROVE  /\ Near(a * Ticks(d), n, Quantum - 1)
           /\ Near(a * Ticks(d), n, RampTicks(x, y) - 1)
<1> DEFINE o == GET_OPTIMAL_SCALE(x, y)
           p == a * Ticks(d)
<1>1. o \in Nat /\ o <= MAX_SCALE
  BY OptimalScale
<1> HIDE DEF o
<1>2. d.scale = Larger(MINSCALE, o)
  BY DEF o
<1>3. d.scale \in Nat /\ d.scale <= MAX_SCALE
  BY <1>1, <1>2, ScaleAssumption, DrawAssumption DEF Larger
<1>4. Ticks(d) \in Nat /\ Ticks(d) <= Quantum /\ Quantum \in Nat
  BY <1>3, ByteFacts, ScaleAssumption DEF Ticks, Quantum
<1>5. p \in Int /\ Abs(p - n) < Ticks(d)
  BY DEF Covers
<1> HIDE DEF p
<1>6. Abs(p - n) \in Nat
  BY <1>5 DEF Abs
<1>7. Near(p, n, Quantum - 1) /\ Near(p, n, Ticks(d) - 1)
  BY <1>4, <1>5, <1>6 DEF Near
<1>8. Ticks(d) = RampTicks(x, y)
  BY <1>2 DEF Ticks, RampTicks, o
<1> QED BY <1>7, <1>8 DEF p

\* Errors add up.
LEMMA NearTwice ==
    ASSUME NEW a \in Int, NEW b \in Int, NEW c \in Int, NEW p, NEW m \in Int, NEW n \in Int,
           Near(a, b, m), Near(p, c - b, n)
    PROVE  Near(a + p, c, m + n)
  BY DEF Near, Abs

LEMMA NearMore ==
    ASSUME NEW a, NEW b, NEW m \in Int, NEW n \in Int, Near(a, b, m), m <= n
    PROVE  Near(a, b, n)
<1>1. Abs(a - b) \in Int
  BY DEF Near, Abs
<1> QED BY <1>1 DEF Near

\* The beam is dark, nothing is lit and the registers are known.
Dimmed(d) == d \in LibType /\ Caches(d) /\ d.via.mux = "off" /\ ~d.via.beam_on /\ ~Lighted(d.via)

LEMMA SwitchOff ==
    ASSUME NEW d \in LibType, Caches(d), d.via.mux = "off", NEW r, r = SET(d, "PCR", Dark)
    PROVE  /\ Dimmed(r) /\ Rests(r) /\ SameBook(d, r) /\ r.via.t1 = d.via.t1
           /\ r.via.x = AtX(d.via) /\ r.via.y = AtY(d.via) /\ r.via.intensity = d.via.intensity
           /\ r.via.lines = IF Lighted(d.via) THEN Append(d.via.lines, Trace(d.via))
                            ELSE d.via.lines
<1> DEFINE v == d.via
           w == vectrexwrite(v, "PCR", Dark)
<1>1. v \in ViaType
  BY DEF LibType
<1>2. /\ w \in ViaType /\ ~w.armed /\ ~w.beam_on /\ w.x = AtX(v) /\ w.y = AtY(v)
      /\ SameRates(v, w) /\ w.t1 = v.t1
      /\ w.lines = IF Lighted(v) THEN Append(v.lines, Trace(v)) ELSE v.lines
  <2> HIDE DEF v
  <2> QED BY <1>1, BeamOff
<1>3. /\ r \in LibType /\ r.via = w /\ SameBook(d, r)
      /\ r.portA = d.portA /\ r.ysh = d.ysh /\ r.zsh = d.zsh
  BY <1>2, SetVia
<1> HIDE DEF w
<1>4. Caches(r) /\ r.via.mux = "off" /\ r.via.intensity = d.via.intensity
  BY <1>2, <1>3 DEF Caches, KnowsPortA, KnowsBrightness, KnowsRate, Driven, SameRates
<1>5. ~Lighted(r.via) /\ Rests(r)
  BY <1>2, <1>3 DEF Lighted, Rests
<1>6. Dimmed(r)
  BY <1>2, <1>3, <1>4, <1>5 DEF Dimmed
<1> QED BY <1>2, <1>3, <1>4, <1>5, <1>6

LEMMA SwitchToZero ==
    ASSUME NEW d \in LibType, Caches(d), d.via.mux = "off", Rests(d),
           NEW r, r = SET(SET(d, "PCR", ToZero), "PCR", Dark)
    PROVE  /\ Dimmed(r) /\ Rests(r) /\ SameBook(d, r) /\ r.via.t1 = d.via.t1
           /\ r.via.x = 0 /\ r.via.y = 0 /\ r.via.intensity = d.via.intensity
           /\ r.via.lines = d.via.lines
<1> DEFINE v == d.via
           w == vectrexwrite(v, "PCR", ToZero)
           e == SET(d, "PCR", ToZero)
<1>1. v \in ViaType /\ ~v.armed
  BY DEF LibType, Rests
<1>2. /\ w \in ViaType /\ ~w.armed /\ ~w.beam_on /\ w.x = 0 /\ w.y = 0
      /\ SameRates(v, w) /\ w.t1 = v.t1 /\ w.lines = v.lines
  <2> HIDE DEF v
  <2> QED BY <1>1, Zeroed
<1>3. /\ e \in LibType /\ e.via = w /\ SameBook(d, e)
      /\ e.portA = d.portA /\ e.ysh = d.ysh /\ e.zsh = d.zsh
  <2>1. vectrexwrite(d.via, "PCR", ToZero) \in ViaType
    BY <1>2
  <2> QED BY <2>1, SetVia
<1> HIDE DEF w
<1>4. r = SET(e, "PCR", Dark)
  OBVIOUS
<1> HIDE DEF e
<1>5. Caches(e) /\ e.via.mux = "off" /\ e.via.intensity = d.via.intensity
  BY <1>2, <1>3 DEF Caches, KnowsPortA, KnowsBrightness, KnowsRate, Driven, SameRates
<1>6. ~Lighted(e.via) /\ AtX(e.via) = 0 /\ AtY(e.via) = 0
  BY <1>2, <1>3 DEF Lighted, AtX, AtY
<1>7. /\ Dimmed(r) /\ Rests(r) /\ SameBook(e, r) /\ r.via.t1 = e.via.t1
      /\ r.via.x = AtX(e.via) /\ r.via.y = AtY(e.via) /\ r.via.intensity = e.via.intensity
      /\ r.via.lines = e.via.lines
  BY <1>3, <1>4, <1>5, <1>6, SwitchOff
<1>8. SameBook(d, r)
  BY <1>3, <1>7, SameBookTwice
<1> QED BY <1>2, <1>3, <1>5, <1>6, <1>7, <1>8

\* After d's ramp the beam is x and y on, but for the rounding of the rates.
Ramped(d, r, x, y) ==
    \E p, q : /\ AtX(r.via) = AtX(d.via) + p /\ AtY(r.via) = AtY(d.via) + q
              /\ Near(p, x, Quantum - 1) /\ Near(q, y, Quantum - 1)
              /\ Near(p, x, RampTicks(x, y) - 1) /\ Near(q, y, RampTicks(x, y) - 1)

AfterRamp(d, r, x, y) ==
    /\ Dimmed(r) /\ r.via.armed /\ r.via.lines = d.via.lines
    /\ r.via.intensity = d.via.intensity
    /\ r.cx = d.cx /\ r.cy = d.cy /\ r.draws = d.draws
    /\ r.via.x = AtX(d.via) /\ r.via.y = AtY(d.via)
    /\ AtX(d.via) \in Int /\ AtY(d.via) \in Int
    /\ Fits(d, x, y) => Timed(r)
    /\ Fits(d, x, y) /\ GET_OPTIMAL_SCALE(x, y) <= MAX_SCALE => Ramped(d, r, x, y)

LEMMA RampEnds ==
    ASSUME NEW d, Dimmed(d), NEW x \in Int, NEW y \in Int
    PROVE  AfterRamp(d, Ramp(d, x, y), x, y)
<1> DEFINE r == Ramp(d, x, y)
<1>1. /\ r \in LibType /\ Caches(r) /\ r.via.mux = "off" /\ Armed(d, r)
      /\ r.cx = d.cx /\ r.cy = d.cy /\ r.draws = d.draws
      /\ r.scale = Larger(MINSCALE, GET_OPTIMAL_SCALE(x, y))
      /\ Fits(d, x, y) => /\ Timed(r)
                          /\ Covers(r.via.a_xrate, r.via.a_ticks, x)
                          /\ Covers(r.via.a_yrate, r.via.a_ticks, y)
                          /\ r.via.a_ticks = Ticks(r)
  BY RampTo DEF Dimmed
<1> HIDE DEF r
<1>2. Dimmed(r) /\ r.via.armed
  BY <1>1 DEF Dimmed, Armed, Lighted
<1>3. AtX(d.via) \in Int /\ AtY(d.via) \in Int
  <2> DEFINE v == d.via
  <2>1. v \in ViaType
    BY DEF Dimmed, LibType
  <2>2. AtX(v) \in Int /\ AtY(v) \in Int
    <3> HIDE DEF v
    <3> QED BY <2>1, AtType
  <2> QED BY <2>2
<1>4. ASSUME Fits(d, x, y), GET_OPTIMAL_SCALE(x, y) <= MAX_SCALE
      PROVE  Ramped(d, r, x, y)
  <2> DEFINE a == r.via.a_xrate
             b == r.via.a_yrate
             t == Ticks(r)
             k == RampTicks(x, y) - 1
  <2>1. Covers(a, t, x) /\ Covers(b, t, y) /\ r.via.a_ticks = t
    BY <1>1, <1>4
  <2>2. /\ Near(a * t, x, Quantum - 1) /\ Near(b * t, y, Quantum - 1)
        /\ Near(a * t, x, k) /\ Near(b * t, y, k)
    <3> HIDE DEF a, b
    <3> QED BY <1>1, <1>4, <2>1, Short
  <2>3. AtX(r.via) = AtX(d.via) + a * t /\ AtY(r.via) = AtY(d.via) + b * t
    BY <1>1, <1>2, <2>1 DEF Armed, AtX, AtY
  <2> DEFINE p == a * t
             q == b * t
  <2>4. /\ AtX(r.via) = AtX(d.via) + p /\ AtY(r.via) = AtY(d.via) + q
        /\ Near(p, x, Quantum - 1) /\ Near(q, y, Quantum - 1)
        /\ Near(p, x, k) /\ Near(q, y, k)
    BY <2>2, <2>3
  <2> HIDE DEF p, q
  <2> QED BY <2>4 DEF Ramped, k
<1>5. AfterRamp(d, r, x, y)
  BY <1>1, <1>2, <1>3, <1>4 DEF Armed, AfterRamp
<1> QED BY <1>5 DEF r

\* The beam comes to where a vector starts, but for the drift and a gap that is
\* not bridged.
There(r, c) ==
    /\ Near(AtX(r.via), c.x0, Drift(r.draws) + POSITION_MARGIN)
    /\ Near(AtY(r.via), c.y0, Drift(r.draws) + POSITION_MARGIN)

\* T1 is right, or will be: the move to where a vector starts takes a larger
\* scale than the one in force, and starts at the centre for it.
Anew(d, c) ==
    /\ Larger(Abs(c.x0 - d.cx), Abs(c.y0 - d.cy)) > POSITION_MARGIN
    /\ GET_OPTIMAL_SCALE(c.x0 - d.cx, c.y0 - d.cy) > d.scale
    /\ GET_OPTIMAL_SCALE(c.x0, c.y0) > d.scale

Sure(d, c) == Timed(d) \/ Anew(d, c)

\* A scale that grows is a jump in unsigned arithmetic.
LEMMA Jumps ==
    ASSUME NEW s \in Nat, NEW o \in Nat, s < o, o <= MAX_SCALE
    PROVE  (s - o) % UINT > SCALE_JUMP
<1> DEFINE r == UINT + (s - o)
<1>1. /\ UINT \in Nat \ {0} /\ SCALE_JUMP \in Nat /\ MAX_SCALE \in Nat
      /\ MAX_SCALE + SCALE_JUMP < UINT
  BY DrawAssumption, ScaleAssumption
<1>2. r \in 0 .. UINT - 1 /\ r > SCALE_JUMP /\ s - o = UINT * (-1) + r /\ s - o \in Int
  BY <1>1
<1> HIDE DEF r
<1>3. (s - o) % UINT = r
  <2> DEFINE n == s - o
  <2>1. n \in Int /\ n = UINT * (-1) + r /\ -1 \in Int
    BY <1>2
  <2> HIDE DEF n
  <2>2. n % UINT = r
    BY <1>1, <1>2, <2>1, OnlyRemainder
  <2> QED BY <2>2 DEF n
<1> QED BY <1>2, <1>3

LEMMA PositionedThere ==
    ASSUME NEW d, Dimmed(d), Rests(d), AfterVector(d), NEW c \in Vectors, Sure(d, c),
           NEW r, r = Positioned(d, c)
    PROVE  /\ Dimmed(r) /\ r.via.lines = d.via.lines /\ r.via.intensity = d.via.intensity
           /\ Timed(r) /\ (Drifts(d) => There(r, c))
<1> DEFINE gx == c.x0 - d.cx
           gy == c.y0 - d.cy
           near == Abs(gx) <= POSITION_MARGIN /\ Abs(gy) <= POSITION_MARGIN
           reset == \/ d.draws > MAX_CONSECUTIVE_DRAWS
                    \/ (d.scale - GET_OPTIMAL_SCALE(gx, gy)) % UINT > SCALE_JUMP
                    \/ Abs(gx) > FAR \/ Abs(gy) > FAR
           z == SET(SET(d, "PCR", ToZero), "PCR", Dark)
<1>1. r = IF near THEN d
          ELSE IF reset THEN [Ramp(z, c.x0, c.y0) EXCEPT !.draws = 0]
          ELSE [Ramp(d, gx, gy) EXCEPT !.draws = @ + 1]
  BY DEF Positioned
<1>2. /\ d \in LibType /\ d.cx \in Int /\ d.cy \in Int /\ d.draws \in Nat
      /\ d.via.x \in Int /\ d.via.y \in Int
      /\ AtX(d.via) = d.via.x /\ AtY(d.via) = d.via.y
  BY DEF Dimmed, LibType, ViaType, Rests, AtX, AtY
<1>3. /\ c.x0 \in Int /\ c.y0 \in Int /\ c.x1 \in Int /\ c.y1 \in Int
      /\ gx \in Int /\ gy \in Int
  BY <1>2, VectorType
<1>4. POSITION_MARGIN \in Nat /\ Slip \in Nat /\ Quantum \in Nat /\ Quantum - 1 <= Slip
  BY DriftFacts
<1>5. d.scale \in Nat
  BY <1>2 DEF LibType
\* A move anew is neither left out nor made from here.
<1>6. Anew(d, c) => ~near /\ reset
  <2> SUFFICES ASSUME Anew(d, c) PROVE ~near /\ reset
    OBVIOUS
  <2>1. ~near
    BY <1>3, <1>4 DEF Anew, Abs, Larger
  <2> DEFINE o == GET_OPTIMAL_SCALE(gx, gy)
  <2>2. o \in Nat /\ o <= MAX_SCALE /\ d.scale < o
    <3>1. o > d.scale /\ o <= MAX_SCALE
      BY <1>2, ScaleCovers DEF Anew
    <3>2. o \in Nat
      <4> HIDE DEF gx, gy
      <4> QED BY <1>3, OptimalScale
    <3> HIDE DEF o
    <3> QED BY <1>5, <3>1, <3>2
  <2> HIDE DEF o
  <2>3. (d.scale - o) % UINT > SCALE_JUMP
    BY <1>5, <2>2, Jumps
  <2> QED BY <2>1, <2>3 DEF o
<1>7. GET_OPTIMAL_SCALE(c.x0, c.y0) \in Nat /\ MINSCALE \in Nat
  BY <1>3, OptimalScale, DrawAssumption
<1>8. Anew(d, c) => d.scale # Larger(MINSCALE, GET_OPTIMAL_SCALE(c.x0, c.y0))
  <2> DEFINE o == GET_OPTIMAL_SCALE(c.x0, c.y0)
  <2>1. Anew(d, c) => o > d.scale
    BY DEF Anew
  <2>2. o \in Nat
    BY <1>7
  <2> HIDE DEF o
  <2>3. Anew(d, c) => d.scale # Larger(MINSCALE, o)
    BY <1>5, <1>7, <2>1, <2>2 DEF Larger
  <2> QED BY <2>3 DEF o
<1> HIDE DEF reset
<1>9. CASE near
  <2>1. r = d
    BY <1>1, <1>9
  <2>2. Timed(d)
    BY <1>9, <1>6 DEF Sure
  <2>3. ASSUME Drifts(d) PROVE There(d, c)
    <3>1. Drift(d.draws) \in Int
      BY <1>2, DriftFacts
    <3> DEFINE e == Drift(d.draws)
    <3> HIDE DEF e
    <3>2. Near(d.via.x, d.cx, e) /\ Near(d.via.y, d.cy, e)
      BY <2>3 DEF Drifts, e
    <3>3. Near(0, c.x0 - d.cx, POSITION_MARGIN) /\ Near(0, c.y0 - d.cy, POSITION_MARGIN)
      BY <1>2, <1>3, <1>4, <1>9 DEF Near, Abs
    <3>4. e \in Int
      BY <3>1 DEF e
    <3>5. Near(d.via.x + 0, c.x0, e + POSITION_MARGIN)
      BY <1>2, <1>3, <1>4, <3>2, <3>3, <3>4, NearTwice
    <3>6. Near(d.via.y + 0, c.y0, e + POSITION_MARGIN)
      BY <1>2, <1>3, <1>4, <3>2, <3>3, <3>4, NearTwice
    <3>7. d.via.x + 0 = d.via.x /\ d.via.y + 0 = d.via.y
      BY <1>2
    <3> QED BY <1>2, <3>5, <3>6, <3>7 DEF There, e
  <2> QED BY <2>1, <2>3, <2>2
<1>10. CASE ~near /\ reset
  <2> DEFINE m == Ramp(z, c.x0, c.y0)
  <2>1. r = [m EXCEPT !.draws = 0]
    BY <1>1, <1>10
  <2> HIDE DEF near
  <2>2. /\ Dimmed(z) /\ Rests(z) /\ SameBook(d, z) /\ z.via.t1 = d.via.t1
        /\ z.via.x = 0 /\ z.via.y = 0 /\ z.via.intensity = d.via.intensity
        /\ z.via.lines = d.via.lines
    BY <1>2, SwitchToZero DEF Dimmed
  <2> HIDE DEF z
  <2>3. AtX(z.via) = 0 /\ AtY(z.via) = 0
    BY <2>2 DEF Rests, AtX, AtY
  <2>4. /\ Dimmed(m) /\ m.via.lines = z.via.lines /\ m.via.intensity = z.via.intensity
        /\ Fits(z, c.x0, c.y0) => Timed(m)
        /\ Fits(z, c.x0, c.y0) /\ GET_OPTIMAL_SCALE(c.x0, c.y0) <= MAX_SCALE =>
              Ramped(z, m, c.x0, c.y0)
    BY <1>3, <2>2, RampEnds DEF AfterRamp
  <2> HIDE DEF m
  <2>5. /\ r \in LibType /\ r.via = m.via /\ r.draws = 0 /\ r.scale = m.scale
        /\ r.portA = m.portA /\ r.ysh = m.ysh /\ r.zsh = m.zsh
    BY <2>1, <2>4 DEF Dimmed, LibType
  <2>6. Dimmed(r)
    BY <2>4, <2>5 DEF Dimmed, Caches, KnowsPortA, KnowsBrightness, KnowsRate
  <2>7. Fits(z, c.x0, c.y0)
    <3>1. z.scale = d.scale /\ (Timed(d) => Timed(z))
      BY <2>2 DEF Timed, SameBook
    <3> QED BY <1>8, <3>1 DEF Fits, Sure
  <2>8. Timed(r)
    BY <2>4, <2>5, <2>7 DEF Timed
  <2>9. There(r, c)
    <3>1. PICK p, q : /\ AtX(m.via) = 0 + p /\ Near(p, c.x0, Quantum - 1)
                      /\ AtY(m.via) = 0 + q /\ Near(q, c.y0, Quantum - 1)
      BY <1>2, <2>3, <2>4, <2>7, ScaleCovers DEF Ramped
    <3>2. 0 + p = p /\ 0 + q = q
      BY <3>1 DEF Near
    <3>3. Quantum - 1 \in Int /\ Drift(0) + POSITION_MARGIN \in Int
          /\ Quantum - 1 <= Drift(0) + POSITION_MARGIN
      <4>1. 0 \in Nat
        OBVIOUS
      <4>2. Drift(0) \in Nat /\ Slip <= Drift(0)
        BY <4>1, DriftFacts
      <4> QED BY <1>4, <4>2
    <3>4. /\ Near(p, c.x0, Drift(0) + POSITION_MARGIN)
          /\ Near(q, c.y0, Drift(0) + POSITION_MARGIN)
      BY <3>1, <3>3, NearMore
    <3> QED BY <2>5, <3>1, <3>2, <3>4 DEF There
  <2> QED BY <2>2, <2>4, <2>5, <2>6, <2>8, <2>9
<1>11. CASE ~near /\ ~reset
  <2> DEFINE m == Ramp(d, gx, gy)
  <2>1. r = [m EXCEPT !.draws = @ + 1]
    BY <1>1, <1>11
  <2> HIDE DEF near
  <2>2. /\ Dimmed(m) /\ m.via.lines = d.via.lines /\ m.via.intensity = d.via.intensity
        /\ m.draws = d.draws
        /\ Fits(d, gx, gy) => Timed(m)
        /\ Fits(d, gx, gy) /\ GET_OPTIMAL_SCALE(gx, gy) <= MAX_SCALE => Ramped(d, m, gx, gy)
    <3> HIDE DEF gx, gy
    <3> QED BY <1>2, <1>3, RampEnds DEF AfterRamp
  <2> HIDE DEF m
  <2>3. /\ r \in LibType /\ r.via = m.via /\ r.draws = d.draws + 1 /\ r.scale = m.scale
        /\ r.portA = m.portA /\ r.ysh = m.ysh /\ r.zsh = m.zsh
    BY <1>2, <2>1, <2>2 DEF Dimmed, LibType
  <2>4. Dimmed(r)
    BY <2>2, <2>3 DEF Dimmed, Caches, KnowsPortA, KnowsBrightness, KnowsRate
  <2>5. Fits(d, gx, gy)
    BY <1>11, <1>6 DEF Fits, Sure
  <2>6. Timed(r)
    BY <2>2, <2>3, <2>5 DEF Timed
  <2>7. ASSUME Drifts(d) PROVE There(r, c)
    <3>1. PICK p, q : /\ AtX(m.via) = d.via.x + p /\ Near(p, gx, Quantum - 1)
                      /\ AtY(m.via) = d.via.y + q /\ Near(q, gy, Quantum - 1)
      BY <1>2, <2>2, <2>5, ScaleCovers DEF Ramped
    <3> DEFINE e == Drift(d.draws)
               f == Drift(d.draws + 1)
    <3>2. e \in Nat /\ f = e + Slip /\ f \in Nat
      BY <1>2, <1>4, DriftFacts
    <3>3. Near(d.via.x, d.cx, e) /\ Near(d.via.y, d.cy, e)
      BY <2>7 DEF Drifts
    <3> HIDE DEF e, f
    <3>4. Quantum - 1 \in Int /\ e \in Int
      BY <1>4, <3>2
    <3>5. /\ Near(d.via.x + p, c.x0, e + (Quantum - 1))
          /\ Near(d.via.y + q, c.y0, e + (Quantum - 1))
      BY <1>2, <1>3, <3>1, <3>3, <3>4, NearTwice
    <3>6. /\ e + (Quantum - 1) <= f + POSITION_MARGIN
          /\ e + (Quantum - 1) \in Int /\ f + POSITION_MARGIN \in Int
      BY <1>4, <3>2
    <3>7. /\ Near(d.via.x + p, c.x0, f + POSITION_MARGIN)
          /\ Near(d.via.y + q, c.y0, f + POSITION_MARGIN)
      BY <3>5, <3>6, NearMore
    <3> QED BY <2>3, <3>1, <3>7 DEF There, f
  <2> QED BY <2>2, <2>3, <2>4, <2>6, <2>7
<1> QED BY <1>9, <1>10, <1>11

\* Only what the vector is changes, when the beam is on its way.
StraightLine(w, c) ==
    /\ Abs((w.x1 - w.x0) - (c.x1 - c.x0)) < Rounding(c)
    /\ Abs((w.y1 - w.y0) - (c.y1 - c.y0)) < Rounding(c)

LEMMA VectorDrawn ==
    ASSUME NEW d \in LibType, Caches(d), MuxOff(d), Rests(d), d.via.lines = <<>>,
           AfterVector(d), Drifts(d), NEW c \in Vectors, c.z # 0, Sure(d, c),
           NEW r, r = v_directDraw32(d, c)
    PROVE  /\ r \in LibType /\ Caches(r) /\ MuxOff(r) /\ Rests(r) /\ AfterVector(r)
           /\ IF Visible(c)
              THEN /\ Len(r.via.lines) = 1 /\ r.via.lines[1].z = c.z
                   /\ DOMAIN r.via.lines = {1} /\ StraightLine(r.via.lines[1], c)
              ELSE r.via.lines = <<>>
           /\ Timed(r) /\ Drifts(r) /\ r.cx = c.x1 /\ r.cy = c.y1
<1> DEFINE b == v_setBrightness(d, c.z)
           e == SET(b, "PCR", Dark)
           p == Positioned(e, c)
           q == Ramp(p, c.x1 - c.x0, c.y1 - c.y0)
           lit == SET(q, "PCR", Lit)
           k == SET(lit, "PCR", Dark)
<1>1. r = [k EXCEPT !.cx = c.x1, !.cy = c.y1, !.draws = @ + 1]
  BY DEF v_directDraw32
<1>2. /\ c.x0 \in Int /\ c.y0 \in Int /\ c.x1 \in Int /\ c.y1 \in Int
      /\ c.z \in 0 .. BYTE - 1 /\ c.x1 - c.x0 \in Int /\ c.y1 - c.y0 \in Int
  BY VectorType
<1>3. /\ b \in LibType /\ SameBook(d, b) /\ SameBeam(d.via, b.via) /\ b.via.t1 = d.via.t1
      /\ Caches(b) /\ b.via.mux = "off" /\ b.via.intensity = c.z
  BY <1>2, Brightness
<1> HIDE DEF b
<1>4. AtX(b.via) = d.via.x /\ AtY(b.via) = d.via.y /\ ~Lighted(b.via) /\ b.via.lines = <<>>
  BY <1>3 DEF Rests, SameBeam, AtX, AtY, Lighted
<1>5. /\ Dimmed(e) /\ Rests(e) /\ SameBook(b, e) /\ e.via.t1 = b.via.t1
      /\ e.via.x = d.via.x /\ e.via.y = d.via.y /\ e.via.intensity = c.z /\ e.via.lines = <<>>
  BY <1>3, <1>4, SwitchOff
<1> HIDE DEF e
<1>6. Sure(e, c) /\ AfterVector(e) /\ Drifts(e)
  <2>1. /\ e.via.t1 = d.via.t1 /\ e.scale = d.scale /\ e.cx = d.cx /\ e.cy = d.cy
        /\ e.draws = d.draws /\ e.via.x = d.via.x /\ e.via.y = d.via.y
    BY <1>3, <1>5 DEF SameBook
  <2>2. Sure(e, c)
    BY <2>1 DEF Sure, Timed, Anew
  <2> QED BY <2>1, <2>2 DEF AfterVector, Drifts
<1>7. /\ Dimmed(p) /\ p.via.lines = <<>> /\ p.via.intensity = c.z
      /\ Timed(p) /\ There(p, c)
  BY <1>5, <1>6, PositionedThere
<1> HIDE DEF p
<1>8. /\ Dimmed(q) /\ q.via.armed /\ q.via.lines = <<>> /\ q.via.intensity = c.z
      /\ q.draws = p.draws
      /\ q.via.x = AtX(p.via) /\ q.via.y = AtY(p.via)
      /\ AtX(p.via) \in Int /\ AtY(p.via) \in Int
      /\ Timed(q) /\ Ramped(p, q, c.x1 - c.x0, c.y1 - c.y0)
  <2> DEFINE x == c.x1 - c.x0
             y == c.y1 - c.y0
  <2>1. x \in Int /\ y \in Int /\ Dimmed(p)
    BY <1>2, <1>7
  <2>2. q = Ramp(p, x, y)
    OBVIOUS
  <2>3. AfterRamp(p, Ramp(p, x, y), x, y)
    <3> HIDE DEF x, y
    <3> QED BY <2>1, RampEnds
  <2> HIDE DEF q
  <2>4. AfterRamp(p, q, x, y)
    BY <2>2, <2>3
  <2>5. Fits(p, x, y) /\ GET_OPTIMAL_SCALE(x, y) <= MAX_SCALE
    BY <1>7, ScaleAssumption DEF Fits
  <2> QED BY <1>7, <2>4, <2>5 DEF AfterRamp
<1> HIDE DEF q
<1>9. /\ lit \in LibType /\ Caches(lit) /\ lit.via.mux = "off" /\ SameBook(q, lit)
      /\ lit.via.t1 = q.via.t1 /\ lit.via.lines = <<>> /\ lit.via.intensity = c.z
      /\ lit.via.x = q.via.x /\ lit.via.y = q.via.y
      /\ AtX(lit.via) = AtX(q.via) /\ AtY(lit.via) = AtY(q.via)
      /\ Lighted(lit.via) = Visible(c)
  <2> DEFINE v == q.via
             w == vectrexwrite(v, "PCR", Lit)
  <2>1. v \in ViaType /\ q \in LibType /\ Caches(q)
    BY <1>8 DEF Dimmed, LibType
  <2>2. /\ w \in ViaType /\ SameRates(v, w) /\ w.t1 = v.t1
        /\ w.x = v.x /\ w.y = v.y /\ w.armed = v.armed /\ w.lines = v.lines
        /\ w.a_xrate = v.a_xrate /\ w.a_yrate = v.a_yrate /\ w.a_ticks = v.a_ticks
        /\ w.a_visible = (v.a_visible \/ v.armed)
    <3> HIDE DEF v
    <3> QED BY <2>1, BeamOn
  <2>3. /\ lit \in LibType /\ lit.via = w /\ SameBook(q, lit)
        /\ lit.portA = q.portA /\ lit.ysh = q.ysh /\ lit.zsh = q.zsh
    BY <2>1, <2>2, SetVia
  <2> HIDE DEF w
  <2>4. Caches(lit) /\ lit.via.mux = "off" /\ lit.via.intensity = c.z
    BY <1>8, <2>1, <2>2, <2>3
       DEF Caches, KnowsPortA, KnowsBrightness, KnowsRate, Driven, SameRates, Dimmed
  <2>5. Lighted(lit.via) = Visible(c)
    <3>1. lit.via.armed /\ lit.via.a_visible
      BY <1>8, <2>2, <2>3
    <3> HIDE DEF lit
    <3> QED BY <2>4, <3>1 DEF Lighted, Visible
  <2>6. AtX(lit.via) = AtX(q.via) /\ AtY(lit.via) = AtY(q.via)
    BY <2>2, <2>3 DEF AtX, AtY
  <2> QED BY <1>8, <2>2, <2>3, <2>4, <2>5, <2>6
<1> HIDE DEF lit
<1>10. /\ Dimmed(k) /\ Rests(k) /\ SameBook(lit, k) /\ k.via.t1 = lit.via.t1
       /\ k.via.x = AtX(q.via) /\ k.via.y = AtY(q.via)
       /\ k.via.lines = IF Visible(c) THEN Append(<<>>, Trace(lit.via)) ELSE <<>>
  <2>1. /\ Dimmed(k) /\ Rests(k) /\ SameBook(lit, k) /\ k.via.t1 = lit.via.t1
        /\ k.via.x = AtX(lit.via) /\ k.via.y = AtY(lit.via)
        /\ k.via.lines = IF Lighted(lit.via) THEN Append(lit.via.lines, Trace(lit.via))
                         ELSE lit.via.lines
    BY <1>9, SwitchOff
  <2> HIDE DEF k
  <2>2. k.via.lines = IF Visible(c) THEN Append(<<>>, Trace(lit.via)) ELSE <<>>
    BY <1>9, <2>1
  <2> QED BY <1>9, <2>1, <2>2
<1> HIDE DEF k
<1>11. /\ r \in LibType /\ r.via = k.via /\ r.cx = c.x1 /\ r.cy = c.y1
       /\ r.portA = k.portA /\ r.ysh = k.ysh /\ r.zsh = k.zsh
       /\ r.scale = k.scale /\ r.draws = k.draws + 1 /\ k.draws = p.draws /\ p.draws \in Nat
  <2>1. k \in LibType /\ k.draws \in Nat
    BY <1>10 DEF Dimmed, LibType
  <2>2. k.draws = p.draws
    BY <1>8, <1>9, <1>10 DEF SameBook
  <2> DEFINE n == k.draws + 1
  <2>3. r = [k EXCEPT !.cx = c.x1, !.cy = c.y1, !.draws = n] /\ n \in Nat
    BY <1>1, <2>1
  <2> HIDE DEF n
  <2>4. /\ r \in LibType /\ r.via = k.via /\ r.cx = c.x1 /\ r.cy = c.y1
        /\ r.portA = k.portA /\ r.ysh = k.ysh /\ r.zsh = k.zsh
        /\ r.scale = k.scale /\ r.draws = n
    BY <1>2, <2>1, <2>3, ZenonT(60) DEF LibType
  <2> QED BY <2>1, <2>2, <2>4 DEF n
<1>12. Caches(r) /\ MuxOff(r) /\ Rests(r) /\ AfterVector(r)
  BY <1>10, <1>11
     DEF Dimmed, Caches, KnowsPortA, KnowsBrightness, KnowsRate, MuxOff, Rests, AfterVector
<1>13. Timed(r)
  BY <1>8, <1>9, <1>10, <1>11 DEF Timed, SameBook
<1>14. PICK m, n :
          /\ AtX(q.via) = AtX(p.via) + m /\ AtY(q.via) = AtY(p.via) + n
          /\ Near(m, c.x1 - c.x0, Quantum - 1) /\ Near(n, c.y1 - c.y0, Quantum - 1)
          /\ Near(m, c.x1 - c.x0, Rounding(c) - 1) /\ Near(n, c.y1 - c.y0, Rounding(c) - 1)
  BY <1>8 DEF Ramped, RampTicks, Rounding
<1>15. IF Visible(c)
       THEN r.via.lines = <<Trace(lit.via)>> ELSE r.via.lines = <<>>
  BY <1>10, <1>11
<1>16. StraightLine(Trace(lit.via), c)
  <2> DEFINE t == Trace(lit.via)
             a == AtX(p.via)
             i == AtY(p.via)
  <2>1. t.x0 = a /\ t.x1 = a + m /\ t.y0 = i /\ t.y1 = i + n
    BY <1>8, <1>9, <1>14 DEF Trace
  <2>2. a \in Int /\ i \in Int
    BY <1>8
  <2> HIDE DEF t, a, i
  <2>3. t.x1 - t.x0 = m /\ t.y1 - t.y0 = n
    BY <1>14, <2>1, <2>2 DEF Near
  <2> DEFINE gx == c.x1 - c.x0
             gy == c.y1 - c.y0
             u == Rounding(c)
  <2>4. gx \in Int /\ gy \in Int
    BY <1>2
  <2>5. Near(m, gx, u - 1) /\ Near(n, gy, u - 1)
    BY <1>14
  <2>6. u \in Int
    <3> HIDE DEF gx, gy
    <3>1. GET_OPTIMAL_SCALE(gx, gy) \in Nat
      BY <2>4, OptimalScale
    <3> QED BY <3>1, DrawAssumption, ByteFacts DEF Rounding, Larger, gx, gy
  <2> HIDE DEF gx, gy, u
  <2>7. Abs(m - gx) < u /\ Abs(n - gy) < u
    BY <2>6, <2>4, <2>5 DEF Near, Abs
  <2> QED BY <2>3, <2>7 DEF StraightLine, t, gx, gy, u
<1>17. Drifts(r)
  <2>1. There(p, c)
    BY <1>7
  <2> DEFINE f == Drift(p.draws) + POSITION_MARGIN
             g == Drift(p.draws + 1)
             a == AtX(p.via)
             i == AtY(p.via)
  <2>2. Near(a, c.x0, f) /\ Near(i, c.y0, f)
    BY <2>1 DEF There
  <2>3. f \in Int /\ g = f + (Quantum - 1) /\ Quantum - 1 \in Int
    <3> DEFINE n0 == p.draws
    <3>1. n0 \in Nat
      BY <1>11
    <3> HIDE DEF n0
    <3>2. Drift(n0) \in Nat /\ Drift(n0 + 1) = Drift(n0) + Slip
      BY <3>1, DriftFacts
    <3>3. Slip = Quantum - 1 + POSITION_MARGIN /\ Quantum \in Nat /\ POSITION_MARGIN \in Nat
      BY DriftFacts DEF Slip
    <3> QED BY <3>2, <3>3 DEF n0
  <2>4. a \in Int /\ i \in Int
    BY <1>8
  <2> HIDE DEF f, g, a, i
  <2>5. Near(a + m, c.x1, f + (Quantum - 1)) /\ Near(i + n, c.y1, f + (Quantum - 1))
    BY <1>2, <1>14, <2>2, <2>3, <2>4, NearTwice
  <2>6. Near(k.via.x, c.x1, g) /\ Near(k.via.y, c.y1, g)
    BY <1>10, <1>14, <2>3, <2>5 DEF a, i
  <2> QED BY <1>11, <2>6 DEF Drifts, g
<1>18. Trace(lit.via).z = c.z
  BY <1>9 DEF Trace
<1>19. CASE Visible(c)
  <2> DEFINE t == Trace(lit.via)
  <2>1. r.via.lines = <<t>>
    BY <1>15, <1>19
  <2> HIDE DEF t
  <2>2. Len(r.via.lines) = 1 /\ r.via.lines[1] = t /\ DOMAIN r.via.lines = {1}
    BY <2>1
  <2> QED BY <1>11, <1>12, <1>13, <1>16, <1>17, <1>18, <1>19, <2>2 DEF t
<1>20. CASE ~Visible(c)
  BY <1>11, <1>12, <1>13, <1>15, <1>17, <1>20
<1> QED BY <1>19, <1>20

-----------------------------------------------------------------------------
(* Between two calls: what the library remembers is so, the beam rests, and *)
(* what was drawn is as it should be.                                      *)
LibInv ==
    /\ lib \in LibType /\ Caches(lib) /\ MuxOff(lib) /\ Rests(lib) /\ AfterVector(lib)
    /\ Drifts(lib) /\ OneLineEach /\ Straight

(* In a frame T1 has the current scale's low byte, for nothing changes the  *)
(* scale behind the library's back.  A string does, and T1 is right for its *)
(* strokes all the same: the first is reached by a move that needs another  *)
(* scale, for strings begin away from where the beam is left.              *)
FarFrom(q, x, y) == \A i \in DOMAIN q : Away(q[i], x, y)
FarFromEnds(q, ss) == \A k \in DOMAIN ss : FarFrom(q, ss[k].x1, ss[k].y1)
Bright(ss) == \A k \in DOMAIN ss : ss[k].z # 0

Apart(q) ==
    /\ q \in Seq(Strings) /\ FarFrom(q, 0, 0)
    /\ \A i \in DOMAIN q : Bright(q[i].strokes)
    /\ \A i \in DOMAIN q : \A j \in 1 .. i - 1 : \A k \in DOMAIN q[j].strokes :
          Away(q[i], q[j].strokes[k].x1, q[j].strokes[k].y1)

SplashInv ==
    /\ strokes \in Seq(Vectors) /\ Bright(strokes)
    /\ strokes # <<>> => Sure(lib, strokes[1])
    /\ Apart(coming) /\ FarFrom(coming, lib.cx, lib.cy) /\ FarFromEnds(coming, strokes)

FrameInv == Timed(lib) /\ coming = <<>> /\ strokes = <<>> /\ saved = NotSaved

PathInv ==
    /\ LibInv /\ SplashInv /\ saved \in Nat \union {NotSaved}
    /\ job = "frame" => FrameInv

\* What is left of a sequence, where it was.
LEMMA TailOf ==
    ASSUME NEW S, NEW q \in Seq(S), q # <<>>
    PROVE  /\ Head(q) = q[1] /\ q[1] \in S /\ 1 \in DOMAIN q
           /\ Tail(q) \in Seq(S)
           /\ \A i \in DOMAIN Tail(q) :
                 i \in Nat \ {0} /\ i + 1 \in DOMAIN q /\ Tail(q)[i] = q[i + 1]
<1>1. Tail(q) \in Seq(S) /\ Len(q) \in Nat \ {0} /\ Len(Tail(q)) = Len(q) - 1
      /\ Head(q) = q[1] /\ q[1] \in S
  BY HeadTailProperties, LenProperties
<1>2. DOMAIN q = 1 .. Len(q) /\ DOMAIN Tail(q) = 1 .. Len(Tail(q))
  BY <1>1, LenProperties
<1>3. ASSUME NEW i \in DOMAIN Tail(q)
      PROVE  i \in Nat \ {0} /\ i + 1 \in DOMAIN q /\ Tail(q)[i] = q[i + 1]
  <2>1. i \in 1 .. Len(q) - 1
    BY <1>1, <1>2, <1>3
  <2> QED BY <1>1, <1>2, <2>1
<1> QED BY <1>1, <1>2, <1>3

LEMMA TailFar ==
    ASSUME NEW q \in Seq(Strings), q # <<>>, NEW x, NEW y, FarFrom(q, x, y)
    PROVE  FarFrom(Tail(q), x, y) /\ Away(q[1], x, y)
  BY TailOf DEF FarFrom

\* A string begins: it is away from the places behind, the rest from its own, too.
LEMMA TailApart ==
    ASSUME NEW q, q # <<>>, Apart(q)
    PROVE  Apart(Tail(q)) /\ FarFromEnds(Tail(q), q[1].strokes) /\ Bright(q[1].strokes)
<1> DEFINE t == Tail(q)
<1>1. q \in Seq(Strings)
  BY DEF Apart
<1>2. /\ t \in Seq(Strings) /\ 1 \in DOMAIN q
      /\ \A i \in DOMAIN t : i \in Nat \ {0} /\ i + 1 \in DOMAIN q /\ t[i] = q[i + 1]
  BY <1>1, TailOf
<1>3. FarFrom(t, 0, 0)
  BY <1>1, TailFar DEF Apart
<1> HIDE DEF t
<1>4. \A i \in DOMAIN t : Bright(t[i].strokes)
  BY <1>2 DEF Apart
<1>5. ASSUME NEW i \in DOMAIN t, NEW j \in 1 .. i - 1, NEW k \in DOMAIN t[j].strokes
      PROVE  Away(t[i], t[j].strokes[k].x1, t[j].strokes[k].y1)
  <2>1. i \in Nat \ {0} /\ i + 1 \in DOMAIN q /\ t[i] = q[i + 1]
    BY <1>2
  <2>2. j \in DOMAIN t
    BY <1>2, <2>1, LenProperties
  <2>3. t[j] = q[j + 1] /\ j + 1 \in 1 .. (i + 1) - 1
    BY <1>2, <2>1, <2>2
  <2> QED BY <2>1, <2>3 DEF Apart
<1>6. ASSUME NEW k \in DOMAIN q[1].strokes, NEW i \in DOMAIN t
      PROVE  Away(t[i], q[1].strokes[k].x1, q[1].strokes[k].y1)
  <2>1. i \in Nat \ {0} /\ i + 1 \in DOMAIN q /\ t[i] = q[i + 1]
    BY <1>2
  <2>2. 1 \in 1 .. (i + 1) - 1
    BY <2>1
  <2> QED BY <2>1, <2>2 DEF Apart
<1>7. FarFromEnds(t, q[1].strokes)
  BY <1>6 DEF FarFromEnds, FarFrom
<1>8. Bright(q[1].strokes)
  BY <1>2 DEF Apart
<1> QED BY <1>2, <1>3, <1>4, <1>5, <1>7, <1>8 DEF Apart, t

\* v_readButtons leaves the multiplexer off and its byte on the DAC.
LEMMA ButtonsRead ==
    ASSUME NEW v \in ViaType, NEW w, w = v_readButtons(v)
    PROVE  w \in ViaType /\ SameBeam(v, w) /\ w.t1 = v.t1 /\ w.mux = "off" /\ Driven(w)
<1> DEFINE u == vectrexwrite(v, "PORTA", PSG_BUTTONS)
<1>1. u \in ViaType /\ SameBeam(v, u) /\ u.t1 = v.t1
  BY DrawAssumption, WritePortA
<1>2. w = vectrexwrite(u, "PORTB", "off")
  BY DEF v_readButtons
<1> HIDE DEF u
<1>3. /\ w \in ViaType /\ SameBeam(u, w) /\ w.t1 = u.t1 /\ w.mux = "off"
      /\ w.dac = u.dac /\ w.x_rate = u.dac
  BY <1>1, <1>2, WritePortB
<1>4. SameBeam(v, w)
  BY <1>1, <1>3, SameBeamTwice
<1> QED BY <1>1, <1>3, <1>4 DEF Driven

LEMMA PathInit == Init => PathInv
<1> SUFFICES ASSUME Init PROVE PathInv
  OBVIOUS
<1>1. 0 \in Nat /\ <<>> \in Seq(LineType) /\ <<>> \in Seq(Vectors) /\ <<>> \in Seq(Strings)
  BY EmptySeq
<1>2. vx_reset \in ViaType
  BY <1>1 DEF vx_reset, ViaType, Muxes
<1> DEFINE v == v_readButtons(vx_reset)
<1>3. /\ lib.via = v /\ lib.portA = UNKNOWN /\ lib.ysh = UNKNOWN /\ lib.zsh = UNKNOWN
      /\ lib.scale = 0 /\ lib.lastScale = 1 /\ lib.cx = 0 /\ lib.cy = 0 /\ lib.draws = 0
  BY DEF Init, v_init
<1>4. /\ v \in ViaType /\ SameBeam(vx_reset, v) /\ v.t1 = vx_reset.t1 /\ v.mux = "off"
       /\ Driven(v)
  BY <1>2, ButtonsRead
<1>5. lib \in LibType
  <2>1. lib = [via |-> v, portA |-> UNKNOWN, ysh |-> UNKNOWN, zsh |-> UNKNOWN,
               scale |-> 0, lastScale |-> 1, cx |-> 0, cy |-> 0, draws |-> 0]
    BY DEF Init, v_init
  <2>2. UNKNOWN \in Int
    BY ByteFacts
  <2> HIDE DEF v
  <2> QED BY <1>4, <2>1, <2>2 DEF LibType
<1> HIDE DEF v
<1>6. /\ v.x = 0 /\ v.y = 0 /\ ~v.armed /\ ~v.beam_on /\ v.lines = <<>> /\ v.t1.lo = 0
  BY <1>4 DEF SameBeam, vx_reset
<1>7. Caches(lib) /\ MuxOff(lib) /\ Rests(lib) /\ AfterVector(lib)
  BY <1>3, <1>4, <1>6
     DEF Caches, KnowsPortA, KnowsBrightness, KnowsRate, MuxOff, Rests, AfterVector
<1>8. lib.via.lines = <<>> /\ DOMAIN lib.via.lines = {}
  BY <1>3, <1>6
<1>9. OneLineEach /\ Straight
  BY <1>8 DEF Init, OneLineEach, Straight, Visible, NoVector
<1>10. Timed(lib)
  <2>1. 0 \in Int /\ 0 \in 0 .. BYTE - 1 /\ 0 = BYTE * 0 + 0
    BY ByteFacts
  <2>2. 0 % BYTE = 0
    BY <2>1, ByteFacts, OnlyRemainder
  <2> QED BY <1>3, <1>6, <2>2 DEF Timed
<1>11. Drifts(lib)
  <2>1. Drift(0) \in Nat
    BY <1>1, DriftFacts
  <2>2. Near(0, 0, Drift(0))
    BY <2>1 DEF Near, Abs
  <2> QED BY <1>3, <1>6, <2>2 DEF Drifts
<1>12. Apart(coming)
  <2>1. CASE coming = <<>>
    BY <1>1, <2>1 DEF Apart, FarFrom
  <2>2. CASE coming \in Splashes
    <3> DEFINE q == coming
    <3>1. /\ q \in Seq(Strings)
          /\ \A i \in DOMAIN q :
                /\ \A k \in DOMAIN q[i].strokes : q[i].strokes[k].z # 0
                /\ Away(q[i], 0, 0)
                /\ \A j \in 1 .. i - 1 : \A k \in DOMAIN q[j].strokes :
                      Away(q[i], q[j].strokes[k].x1, q[j].strokes[k].y1)
      BY <2>2, SplashAssumption
    <3> HIDE DEF q
    <3>2. Apart(q)
      BY <3>1 DEF Apart, FarFrom, Bright
    <3> QED BY <3>2 DEF q
  <2> QED BY <2>1, <2>2 DEF Init
<1>13. strokes = <<>> /\ saved = NotSaved /\ (job = "frame" => coming = <<>>)
  BY DEF Init
<1>14. SplashInv
  <2>1. Bright(strokes) /\ FarFromEnds(coming, strokes)
    BY <1>13 DEF Bright, FarFromEnds
  <2>2. FarFrom(coming, lib.cx, lib.cy)
    BY <1>3, <1>12 DEF Apart
  <2> QED BY <1>1, <1>12, <1>13, <2>1, <2>2 DEF SplashInv
<1> QED BY <1>5, <1>7, <1>9, <1>10, <1>11, <1>13, <1>14 DEF PathInv, LibInv, FrameInv

\* A call of the library, in a frame or a string.
LEMMA DrawnKeeps ==
    ASSUME LibInv, NEW c \in Vectors, Sure(lib, c), Drawn(c)
    PROVE  /\ LibInv'
           /\ Timed(lib) \/ c.z # 0 => Timed(lib')
           /\ c.z # 0 => lib'.cx = c.x1 /\ lib'.cy = c.y1
<1> USE DEF LibInv
<1> DEFINE d == [lib EXCEPT !.via.lines = <<>>]
           v == [lib.via EXCEPT !.lines = <<>>]
<1>1. d = [lib EXCEPT !.via = v]
  OBVIOUS
<1>2. lib.via \in ViaType
  BY DEF LibType
<1>3. /\ v \in ViaType /\ v.lines = <<>> /\ v.t1 = lib.via.t1 /\ v.x = lib.via.x
      /\ v.y = lib.via.y /\ v.dac = lib.via.dac /\ v.mux = lib.via.mux
      /\ v.x_rate = lib.via.x_rate /\ v.y_rate = lib.via.y_rate
      /\ v.intensity = lib.via.intensity /\ v.armed = lib.via.armed
      /\ v.beam_on = lib.via.beam_on
  BY <1>2, EmptySeq DEF ViaType
<1>4. lib' = v_directDraw32(d, c) /\ last' = c
  BY DEF Drawn
<1> HIDE DEF v, d
<1>5. /\ d \in LibType /\ d.via = v /\ SameBook(lib, d)
      /\ d.portA = lib.portA /\ d.ysh = lib.ysh /\ d.zsh = lib.zsh
  BY <1>1, <1>3 DEF LibType, SameBook
<1>6. Caches(d) /\ MuxOff(d) /\ Rests(d)
  BY <1>3, <1>5 DEF Caches, KnowsPortA, KnowsBrightness, KnowsRate, Driven, MuxOff, Rests
<1>7. AfterVector(d) /\ Drifts(d) /\ Sure(d, c) /\ (Timed(lib) => Timed(d))
  <2>1. AfterVector(d) /\ Drifts(d)
    BY <1>3, <1>5 DEF AfterVector, Drifts, SameBook
  <2>2. Sure(d, c) /\ (Timed(lib) => Timed(d))
    BY <1>3, <1>5 DEF Sure, Anew, Timed, SameBook
  <2> QED BY <2>1, <2>2
<1>8. CASE c.z = 0
  <2>1. lib' = d
    BY <1>4, <1>8 DEF v_directDraw32
  <2>2. OneLineEach' /\ Straight'
    <3>1. lib'.via.lines = <<>> /\ DOMAIN lib'.via.lines = {}
      BY <1>3, <1>5, <2>1
    <3>2. ~Visible(last')
      BY <1>4, <1>8 DEF Visible
    <3> QED BY <3>1, <3>2 DEF OneLineEach, Straight
  <2> QED BY <1>5, <1>6, <1>7, <1>8, <2>1, <2>2
<1>9. CASE c.z # 0
  <2>1. /\ lib' \in LibType /\ Caches(lib') /\ MuxOff(lib') /\ Rests(lib') /\ AfterVector(lib')
        /\ IF Visible(c)
           THEN /\ Len(lib'.via.lines) = 1 /\ lib'.via.lines[1].z = c.z
                /\ DOMAIN lib'.via.lines = {1} /\ StraightLine(lib'.via.lines[1], c)
           ELSE lib'.via.lines = <<>>
        /\ Timed(lib') /\ Drifts(lib') /\ lib'.cx = c.x1 /\ lib'.cy = c.y1
    BY <1>3, <1>4, <1>5, <1>6, <1>7, <1>9, VectorDrawn
  <2>2. OneLineEach' /\ Straight'
    BY <1>4, <2>1 DEF OneLineEach, Straight, StraightLine
  <2> QED BY <2>1, <2>2
<1> QED BY <1>8, <1>9

\* A string changes the scale, and nothing else the library goes by.
LEMMA ScaleKeeps ==
    ASSUME LibInv, NEW n \in Nat, lib' = [lib EXCEPT !.scale = n], last' = last
    PROVE  LibInv' /\ lib'.cx = lib.cx /\ lib'.cy = lib.cy /\ lib'.scale = n
<1> USE DEF LibInv
<1>1. /\ lib' \in LibType /\ lib'.via = lib.via /\ lib'.portA = lib.portA
      /\ lib'.ysh = lib.ysh /\ lib'.zsh = lib.zsh /\ lib'.cx = lib.cx /\ lib'.cy = lib.cy
      /\ lib'.draws = lib.draws /\ lib'.scale = n
  BY DEF LibType
<1>2. Caches(lib') /\ MuxOff(lib') /\ Rests(lib') /\ AfterVector(lib') /\ Drifts(lib')
  BY <1>1 DEF Caches, KnowsPortA, KnowsBrightness, KnowsRate, MuxOff, Rests, AfterVector, Drifts
<1>3. OneLineEach' /\ Straight'
  BY <1>1 DEF OneLineEach, Straight
<1> QED BY <1>1, <1>2, <1>3

LEMMA PathStep == PathInv /\ [Next]_vars => PathInv'
<1> SUFFICES ASSUME PathInv, [Next]_vars PROVE PathInv'
  OBVIOUS
<1> USE DEF PathInv
<1>1. CASE UNCHANGED vars
  BY <1>1 DEF vars, LibInv, SplashInv, FrameInv, OneLineEach, Straight
<1>2. CASE Draw
  <2>1. FrameInv
    BY <1>2 DEF Draw
  <2>2. PICK c \in Vectors : Drawn(c)
    BY <1>2 DEF Draw
  <2>3. LibInv' /\ Timed(lib')
    BY <2>1, <2>2, DrawnKeeps DEF FrameInv, Sure
  <2>4. coming' = <<>> /\ strokes' = <<>> /\ saved' = NotSaved
    BY <1>2, <2>1 DEF Draw, FrameInv
  <2>5. <<>> \in Seq(Vectors) /\ <<>> \in Seq(Strings)
    BY EmptySeq
  <2>6. SplashInv'
    BY <2>4, <2>5 DEF SplashInv, Apart, FarFrom, FarFromEnds, Bright
  <2> QED BY <2>3, <2>4, <2>6 DEF FrameInv
<1>3. CASE StartString
  <2>1. coming # <<>> /\ Apart(coming) /\ coming \in Seq(Strings)
    BY <1>3 DEF StartString, SplashInv, Apart
  <2> DEFINE s == coming[1]
  <2>2. Head(coming) = s /\ s \in Strings
    BY <2>1, TailOf
  <2>3. /\ lib' = [lib EXCEPT !.scale = s.scale] /\ saved' = lib.scale /\ strokes' = s.strokes
        /\ coming' = Tail(coming) /\ UNCHANGED <<job, last, calls>>
    BY <1>3, <2>2 DEF StartString
  <2>4. /\ Apart(coming') /\ FarFromEnds(coming', strokes') /\ Bright(strokes')
    BY <2>1, <2>3, TailApart
  <2>5. /\ FarFrom(coming', lib.cx, lib.cy) /\ Away(s, lib.cx, lib.cy) /\ Away(s, 0, 0)
    BY <2>1, <2>3, TailFar DEF SplashInv, Apart
  <2> HIDE DEF s
  <2>6. s.scale \in Nat /\ s.strokes \in Seq(Vectors) /\ lib.scale \in Nat
    BY <2>2 DEF Strings, LibInv, LibType
  <2>7. LibInv' /\ lib'.cx = lib.cx /\ lib'.cy = lib.cy /\ lib'.scale = s.scale
    BY <2>3, <2>6, ScaleKeeps
  <2>8. ASSUME strokes' # <<>> PROVE Sure(lib', strokes'[1])
    <3> DEFINE c == s.strokes[1]
    <3>1. c \in Vectors
      BY <2>3, <2>6, <2>8, TailOf
    <3> HIDE DEF c
    <3>2. c.x0 - 0 = c.x0 /\ c.y0 - 0 = c.y0
      BY <3>1, VectorType
    <3>3. /\ Larger(Abs(c.x0 - lib.cx), Abs(c.y0 - lib.cy)) > POSITION_MARGIN
          /\ GET_OPTIMAL_SCALE(c.x0 - lib.cx, c.y0 - lib.cy) > s.scale
          /\ GET_OPTIMAL_SCALE(c.x0 - 0, c.y0 - 0) > s.scale
      BY <2>3, <2>5, <2>8 DEF Away, c
    <3>4. Anew(lib', c)
      BY <2>7, <3>2, <3>3 DEF Anew
    <3> QED BY <2>3, <3>4 DEF Sure, c
  <2>9. SplashInv'
    BY <2>3, <2>4, <2>5, <2>6, <2>7, <2>8 DEF SplashInv
  <2>10. job' # "frame"
    BY <2>1, <2>3 DEF FrameInv
  <2> QED BY <2>3, <2>6, <2>7, <2>9, <2>10
<1>4. CASE Stroke
  <2> DEFINE c == strokes[1]
  <2>1. strokes # <<>> /\ strokes \in Seq(Vectors)
    BY <1>4 DEF Stroke, SplashInv
  <2>2. /\ Head(strokes) = c /\ c \in Vectors /\ 1 \in DOMAIN strokes
        /\ Tail(strokes) \in Seq(Vectors)
        /\ \A i \in DOMAIN Tail(strokes) : /\ i + 1 \in DOMAIN strokes
                                           /\ Tail(strokes)[i] = strokes[i + 1]
    BY <2>1, TailOf
  <2>3. Drawn(c) /\ strokes' = Tail(strokes) /\ UNCHANGED <<job, coming, saved, calls>>
    BY <1>4, <2>2 DEF Stroke
  <2>4. c.z # 0 /\ Sure(lib, c) /\ FarFrom(coming, c.x1, c.y1)
    BY <2>1, <2>2 DEF SplashInv, Bright, FarFromEnds
  <2> HIDE DEF c
  <2>5. LibInv' /\ Timed(lib') /\ lib'.cx = c.x1 /\ lib'.cy = c.y1
    BY <2>2, <2>3, <2>4, DrawnKeeps
  <2>6. strokes' \in Seq(Vectors) /\ Bright(strokes') /\ FarFromEnds(coming', strokes')
    BY <2>2, <2>3 DEF SplashInv, Bright, FarFromEnds
  <2>7. Apart(coming') /\ FarFrom(coming', lib'.cx, lib'.cy)
    BY <2>3, <2>4, <2>5 DEF SplashInv
  <2>8. SplashInv'
    BY <2>5, <2>6, <2>7 DEF SplashInv, Sure
  <2>9. job' # "frame"
    BY <2>1, <2>3 DEF FrameInv
  <2> QED BY <2>3, <2>5, <2>8, <2>9
<1>5. CASE EndString
  <2>1. /\ saved \in Nat /\ lib' = [lib EXCEPT !.scale = saved] /\ strokes = <<>>
        /\ saved' = NotSaved /\ UNCHANGED <<job, coming, strokes, last, calls>>
    BY <1>5 DEF EndString
  <2>2. LibInv' /\ lib'.cx = lib.cx /\ lib'.cy = lib.cy
    BY <2>1, ScaleKeeps
  <2>3. SplashInv'
    BY <2>1, <2>2 DEF SplashInv
  <2>4. job' # "frame"
    <3>1. saved # NotSaved
      BY <1>5 DEF EndString
    <3> QED BY <2>1, <3>1 DEF FrameInv
  <2> QED BY <2>1, <2>2, <2>3, <2>4
<1>6. CASE Flush
  <2>1. vx_flush(lib.via) = lib.via
    BY DEF vx_flush, commit_ramp, LibInv, Rests
  <2>2. lib' = lib
    <3>1. [lib EXCEPT !.via = lib.via] = lib
      BY DEF LibInv, LibType
    <3> QED BY <1>6, <2>1, <3>1 DEF Flush
  <2>3. job' # "frame" /\ UNCHANGED <<coming, strokes, saved, last>>
    BY <1>6 DEF Flush
  <2>4. LibInv' /\ SplashInv'
    BY <2>2, <2>3 DEF LibInv, SplashInv, OneLineEach, Straight
  <2> QED BY <2>3, <2>4
<1> QED BY <1>1, <1>2, <1>3, <1>4, <1>5, <1>6 DEF Next

LEMMA PathHolds == Spec => []PathInv
  BY PathInit, PathStep, PTL DEF Spec

\* Whatever frame or splash is drawn: every vector comes out as one line of its
\* own brightness, an invisible one and every move as none.  The writes the
\* library leaves out because it did them before do no harm.
THEOREM EachVectorOneLine == Spec => []OneLineEach
<1>1. PathInv => OneLineEach
  BY DEF PathInv, LibInv
<1> QED BY <1>1, PathHolds, PTL

\* Every line has its vector's length and direction, but for the rounding of
\* the rates, although a string changes the scale the library goes by without
\* telling T1: its first move takes another one.
THEOREM LinesAreStraight == Spec => []Straight
<1>1. PathInv => Straight
  BY DEF PathInv, LibInv
<1> QED BY <1>1, PathHolds, PTL

\* And the beam drifts from where the library believes it by no more than each
\* ramp's rounding and each gap it did not bridge, since the last zeroing.
THEOREM DriftStaysBounded == Spec => []DriftBounded
<1>1. PathInv => DriftBounded
  BY DEF PathInv, LibInv, DriftBounded, Drifts, Drift, Slip, Near
<1> QED BY <1>1, PathHolds, PTL
=============================================================================
