----------------------------- MODULE ExtDecode -----------------------------
(***************************************************************************)
(* The EXT expanders of src/frame.c: dispatch_heightfield, a grid of       *)
(* displacements scanned row by row, and dispatch_polyline, an anchor and  *)
(* signed steps.  A payload comes from a sender that means a shape by it,  *)
(* and may be short or have bytes to spare.  The code counts the bytes a   *)
(* grid needs in 32 bits: grids are assumed to be of a size that does not  *)
(* wrap there, which those a payload can carry are far from.               *)
(***************************************************************************)
EXTENDS Integers, SequencesExt

CONSTANTS
    OCTET,      \* values of a byte; a 16-bit field has OCTET * OCTET
    GRID_MAX,   \* VT_DVG_RES_MAX
    Shapes,     \* what senders mean
    Lengths     \* how much longer than the shape's a payload is; shorter when negative

Unsigned(values) == 0 .. values - 1
TwosComplement(values) == -(values \div 2) .. (values - 1) \div 2
Byte == Unsigned(OCTET)
Word16 == Unsigned(OCTET * OCTET)
Int16 == TwosComplement(OCTET * OCTET)
UINT32_VALUES == OCTET * OCTET * OCTET * OCTET     \* values of a uint32_t

\* What fits in the fields.
Grids == [kind : {"heightfield"}, inten : Seq(Byte), serpentine : BOOLEAN,
          cols : Word16, rows : Word16, x0 : Int16, x_step : Int16, y0 : Int16, y_step : Int16,
          y_scale : Word16, bright : Byte, disp : Seq(Byte)]
Paths == [kind : {"polyline"}, inten : Seq(Byte), closed : BOOLEAN, wide : BOOLEAN,
          x0 : Word16, y0 : Word16, bright : Byte, steps : Seq(Int16 \X Int16), count : Word16]

ASSUME ExtAssumption ==
    /\ OCTET \in Nat /\ OCTET >= 8 /\ GRID_MAX \in Nat /\ Lengths \subseteq Int
    /\ \A s \in Shapes :
          \/ /\ s \in Grids
             /\ Len(s.disp) = s.cols * s.rows /\ Len(s.inten) \in {0, Len(s.disp)}
             /\ 16 + Len(s.disp) + Len(s.inten) < UINT32_VALUES
          \/ /\ s \in Paths
             /\ s.count \in {0, Len(s.steps) + 1} /\ Len(s.inten) \in {0, Len(s.steps)}
             /\ ~s.wide => s.steps \in Seq(TwosComplement(OCTET) \X TwosComplement(OCTET))

VARIABLES
    shape,      \* ghost: what the payload was meant to be
    buf,        \* ext_buf, ext_len bytes of it
    added       \* the calls of add_segment, as a sequence of one; empty before

ext_vars == <<shape, buf, added>>

NoShape == [kind |-> "none"]

-----------------------------------------------------------------------------
(* The sender: a shape as bytes (tests/test_ext.c:63-90).                  *)

Hi(n) == (n \div OCTET) % OCTET
Lo(n) == n % OCTET
Bit(is, value) == IF is THEN value ELSE 0

GridHeader(s) ==
    <<Bit(s.inten # <<>>, 1) + Bit(s.serpentine, 2),
      Hi(s.cols), Lo(s.cols), Hi(s.rows), Lo(s.rows), Hi(s.x0), Lo(s.x0), Hi(s.x_step), Lo(s.x_step),
      Hi(s.y0), Lo(s.y0), Hi(s.y_step), Lo(s.y_step), Hi(s.y_scale), Lo(s.y_scale), s.bright>>

PathHeader(s) ==
    <<Bit(s.inten # <<>>, 1) + Bit(s.closed, 2) + Bit(s.wide, 4), s.bright,
      Hi(s.x0), Lo(s.x0), Hi(s.y0), Lo(s.y0), Hi(s.count), Lo(s.count)>>

EncodedStep(s, i) ==
    LET d == s.steps[i]
    IN  (IF s.wide THEN <<Hi(d[1]), Lo(d[1]), Hi(d[2]), Lo(d[2])>> ELSE <<Lo(d[1]), Lo(d[2])>>)
            \o (IF s.inten = <<>> THEN <<>> ELSE <<s.inten[i]>>)

Encoded(s) ==
    IF s.kind = "heightfield" THEN GridHeader(s) \o s.disp \o s.inten
    ELSE PathHeader(s) \o FlattenSeq([i \in 1 .. Len(s.steps) |-> EncodedStep(s, i)])

-----------------------------------------------------------------------------
(* The expanders.  They add vectors to what they have drawn, `run': from   *)
(* its pen to the next place.                                              *)

Signed(v, values) == IF 2 * v >= values THEN v - values ELSE v
rd_u8(b, off) == b[off + 1]
rd_u16(b, off) == b[off + 1] * OCTET + b[off + 2]
rd_i8(b, off) == Signed(rd_u8(b, off), OCTET)
rd_i16(b, off) == Signed(rd_u16(b, off), OCTET * OCTET)
FlagSet(b, bit) == (b[1] \div bit) % 2 = 1

clamp_dev_int(v) == IF v < 0 THEN 0 ELSE IF v > GRID_MAX THEN GRID_MAX ELSE v
OnScreen(x, y) == [x |-> clamp_dev_int(x), y |-> clamp_dev_int(y)]
Call(from, to, z) == [from |-> from, to |-> to, z |-> z]

\* The column that a row's k-th place is; the mutant starts a row one off.
column_shifted(cols, reverse, k) == IF reverse THEN (cols - k) % cols ELSE k
column(cols, reverse, k) == IF reverse THEN cols - 1 - k ELSE k

GridHead(b) ==
    [has_intensity |-> FlagSet(b, 1), serpentine |-> FlagSet(b, 2), cols |-> rd_u16(b, 1), rows |-> rd_u16(b, 3),
     x0 |-> rd_i16(b, 5), x_step |-> rd_i16(b, 7), y0 |-> rd_i16(b, 9), y_step |-> rd_i16(b, 11),
     y_scale |-> rd_u16(b, 13), bright |-> rd_u8(b, 15)]

\* The i-th cell in the order of the scan.
Cell(b, h, run, i) ==
    LET r == i \div h.cols
        k == i % h.cols
        c == column(h.cols, h.serpentine /\ r % 2 = 1, k)
        idx == r * h.cols + c
        z == IF h.has_intensity THEN rd_u8(b, 16 + h.cols * h.rows + idx) ELSE h.bright
        place == OnScreen(h.x0 + c * h.x_step,
                          h.y0 + r * h.y_step + ((rd_u8(b, 16 + idx) * h.y_scale) \div OCTET))
    IN  IF z = 0 THEN [run EXCEPT !.have = FALSE]
        ELSE [have |-> TRUE, pen |-> place,
              added |-> IF k > 0 /\ run.have THEN Append(run.added, Call(run.pen, place, z)) ELSE run.added]

GridStart == [have |-> FALSE, pen |-> OnScreen(0, 0), added |-> <<>>]

Scan(b, h, n) ==
    LET run[i \in 0 .. n] == IF i = 0 THEN GridStart ELSE Cell(b, h, run[i - 1], i - 1)
    IN  run[n]

dispatch_heightfield(b) ==
    LET h == GridHead(b)
        n == h.cols * h.rows
        need == (16 + n + (IF h.has_intensity THEN n ELSE 0)) % UINT32_VALUES
    IN  IF Len(b) < 16 \/ Len(b) < need THEN <<>> ELSE Scan(b, h, n).added

PathHead(b) ==
    [has_intensity |-> FlagSet(b, 1), closed |-> FlagSet(b, 2), wide |-> FlagSet(b, 4), bright |-> rd_u8(b, 1),
     x0 |-> rd_u16(b, 2), y0 |-> rd_u16(b, 4), count |-> rd_u16(b, 6)]

stride(h) == (IF h.wide THEN 4 ELSE 2) + (IF h.has_intensity THEN 1 ELSE 0)

\* The i-th point after the anchor, at p.
Point(b, h, run, i) ==
    LET p == 8 + (i - 1) * stride(h)
        x == run.x + (IF h.wide THEN rd_i16(b, p) ELSE rd_i8(b, p))
        y == run.y + (IF h.wide THEN rd_i16(b, p + 2) ELSE rd_i8(b, p + 1))
        z == IF h.has_intensity THEN rd_u8(b, p + stride(h) - 1) ELSE h.bright
    IN  [x |-> x, y |-> y, pen |-> OnScreen(x, y),
         added |-> IF z > 0 THEN Append(run.added, Call(run.pen, OnScreen(x, y), z)) ELSE run.added]

PathStart(h) == [x |-> h.x0, y |-> h.y0, pen |-> OnScreen(h.x0, h.y0), added |-> <<>>]

Follow(b, h, n) ==
    LET run[i \in 0 .. n] == IF i = 0 THEN PathStart(h) ELSE Point(b, h, run[i - 1], i)
    IN  run[n]

dispatch_polyline(b) ==
    LET h == PathHead(b)
        npts == h.count - 1
        drawn == Follow(b, h, npts)
    IN  IF Len(b) < 8 THEN <<>>
        ELSE IF h.count = 0 THEN <<>>
        ELSE IF Len(b) < 8 + npts * stride(h) THEN <<>>
        ELSE IF h.closed /\ npts >= 1 /\ h.bright > 0
        THEN Append(drawn.added, Call(drawn.pen, OnScreen(h.x0, h.y0), h.bright))
        ELSE drawn.added

-----------------------------------------------------------------------------
\* A payload comes, whole or not; the expander of its subtype runs; the next.
Dispatched(s, b) == IF s.kind = "heightfield" THEN dispatch_heightfield(b) ELSE dispatch_polyline(b)

Gather ==
    /\ shape = NoShape
    /\ \E s \in Shapes, more \in Lengths :
          /\ shape' = s
          /\ buf' = IF more < 0 THEN SubSeq(Encoded(s), 1, Len(Encoded(s)) + more)
                    ELSE Encoded(s) \o [j \in 1 .. more |-> 1]
    /\ UNCHANGED added

Expand ==
    /\ shape # NoShape /\ added = <<>>
    /\ added' = <<Dispatched(shape, buf)>>
    /\ UNCHANGED <<shape, buf>>

Forget ==
    /\ added # <<>>
    /\ shape' = NoShape /\ buf' = <<>> /\ added' = <<>>

ExtInit == shape = NoShape /\ buf = <<>> /\ added = <<>>
ExtNext == Gather \/ Expand \/ Forget
ExtSpec == ExtInit /\ [][ExtNext]_ext_vars

-----------------------------------------------------------------------------
(* What a shape means (tests/test_ext.c:111-198): the places a sender has  *)
(* in mind, each with its brightness, and a vector from one to the next.   *)

\* The cells of a scan line, in the order it is scanned.
ScanLine(s, row) ==
    LET At(c) == [place |-> OnScreen(s.x0 + c * s.x_step,
                                     s.y0 + row * s.y_step
                                       + ((s.disp[row * s.cols + c + 1] * s.y_scale) \div OCTET)),
                  z |-> IF s.inten = <<>> THEN s.bright ELSE s.inten[row * s.cols + c + 1]]
        line == [i \in 1 .. s.cols |-> At(i - 1)]
    IN  IF s.serpentine /\ row % 2 = 1 THEN Reverse(line) ELSE line

\* From each cell to the next, where both are lit.
Joined(line) ==
    FlattenSeq([i \in 1 .. Len(line) - 1 |->
        IF line[i].z > 0 /\ line[i + 1].z > 0
        THEN <<Call(line[i].place, line[i + 1].place, line[i + 1].z)>> ELSE <<>>])

\* Where a path's points are, the anchor first.
Points(s) ==
    LET at[i \in 0 .. Len(s.steps)] ==
            IF i = 0 THEN <<s.x0, s.y0>>
            ELSE <<at[i - 1][1] + s.steps[i][1], at[i - 1][2] + s.steps[i][2]>>
    IN  at

\* From each point to the next, lit or not, and from the last to the first.
PathVectors(s) ==
    LET Place(i) == OnScreen(Points(s)[i][1], Points(s)[i][2])
        Brightness(i) == IF s.inten = <<>> THEN s.bright ELSE s.inten[i]
        closing == IF s.closed /\ s.steps # <<>> /\ s.bright > 0
                   THEN <<Call(Place(Len(s.steps)), Place(0), s.bright)>> ELSE <<>>
    IN  FlattenSeq([i \in 1 .. Len(s.steps) |->
            IF Brightness(i) > 0 THEN <<Call(Place(i - 1), Place(i), Brightness(i))>> ELSE <<>>]) \o closing

Meaning(s) ==
    CASE s.kind = "heightfield" ->
            FlattenSeq([i \in 1 .. s.rows |-> Joined(ScanLine(s, i - 1))])
      [] s.kind = "polyline" -> IF s.count = 0 THEN <<>> ELSE PathVectors(s)

\* A payload that is all there is drawn as the shape its sender meant, whatever
\* the grid's scan order, its blanked cells and where it leaves the screen; of a
\* payload that is short nothing is drawn, however much of it came.  (Of grids
\* whose size fits in the 32 bits it is counted in.)
TracesTheShape ==
    added # <<>> =>
        added[1] = IF Len(buf) >= Len(Encoded(shape)) THEN Meaning(shape) ELSE <<>>
=============================================================================
