----------------------------- MODULE StrokeFont -----------------------------
(***************************************************************************)
(* vt_draw_string (src/font.c): a string as strokes, glyph by glyph and    *)
(* point by point.  A glyph is a sequence of points and pen lifts; points  *)
(* that follow each other are joined.  The first stroke of every           *)
(* ZERO_EVERY-th glyph zeroes the integrators, which forget their drift.   *)
(*                                                                         *)
(* Data.  A character is a number.  One coordinate stands for x and y,     *)
(* which differ in that only x advances by a glyph's width.                *)
(***************************************************************************)
EXTENDS Integers, SequencesExt

CONSTANTS
    FIRST, LAST,    \* VT_FONT_FIRST and VT_FONT_LAST
    Lower, CASE_BIT,\* the lower-case letters, and how far above the capitals
    PenUp,          \* the point (-1, -1)
    vfont,          \* [0 .. LAST - FIRST -> [width, points]]
    ZERO_EVERY      \* VT_FONT_ZERO_EVERY

ASSUME FontAssumption ==
    /\ FIRST \in Nat /\ LAST \in Nat /\ FIRST <= LAST /\ ZERO_EVERY \in Nat
    /\ vfont \in [0 .. LAST - FIRST -> [width : Nat, points : Seq(Int \cup {PenUp})]]
    /\ \A c \in Lower : c - CASE_BIT \in FIRST .. LAST

VARIABLES s,           \* the characters still to draw, the current one first
          penx, mul,
          points,      \* of the glyph, those still to visit
          glyph_idx, glyph_zero, pen_up, prevx,
          strokes,     \* what v_directDraw32Hinted was called with
          arg          \* the call's arguments; none between two calls

font_vars == <<s, penx, mul, points, glyph_idx, glyph_zero, pen_up, prevx, strokes, arg>>

None == [text |-> <<>>]

\* Lower case folds to capitals, and what has no glyph is a space.
glyph(c) ==
    LET up == IF c \in Lower THEN c - CASE_BIT ELSE c
    IN  vfont[(IF up \in FIRST .. LAST THEN up ELSE FIRST) - FIRST]

FontInit ==
    /\ s = <<>> /\ penx = 0 /\ mul = 0 /\ points = <<>> /\ glyph_idx = 0
    /\ glyph_zero = FALSE /\ pen_up = TRUE /\ prevx = 0 /\ strokes = <<>> /\ arg = None

zeroes_first_only(idx) == idx = 0 \* mutant of zeroes
zeroes(idx) == ZERO_EVERY > 0 /\ idx % ZERO_EVERY = 0

joins_always == TRUE \* mutant of joins: a lifted pen draws
joins == ~pen_up

\* The loop turns to a glyph: points, pen and zeroing are its own.
Enter(str, idx) ==
    /\ points' = IF str = <<>> THEN <<>> ELSE glyph(Head(str)).points
    /\ pen_up' = TRUE /\ prevx' = 0
    /\ glyph_zero' = zeroes(idx)
    /\ glyph_idx' = idx + 1

vt_draw_string(str, x, size) ==
    /\ arg = None
    /\ s' = str /\ penx' = x /\ mul' = size
    /\ arg' = [text |-> str, x |-> x, size |-> size]
    /\ Enter(str, 0)
    /\ strokes' = <<>>

LiftPen ==
    /\ points # <<>> /\ Head(points) = PenUp
    /\ pen_up' = TRUE
    /\ points' = Tail(points)
    /\ UNCHANGED <<s, penx, mul, glyph_idx, glyph_zero, prevx, strokes, arg>>

Point ==
    /\ points # <<>> /\ Head(points) # PenUp
    /\ prevx' = penx + Head(points) * mul
    /\ strokes' = IF joins THEN Append(strokes, [from |-> prevx, to |-> prevx', zero |-> glyph_zero])
                  ELSE strokes
    /\ glyph_zero' = (glyph_zero /\ ~joins)
    /\ pen_up' = FALSE
    /\ points' = Tail(points)
    /\ UNCHANGED <<s, penx, mul, glyph_idx, arg>>

NextGlyph ==
    /\ points = <<>> /\ s # <<>>
    /\ penx' = penx + glyph(Head(s)).width * mul
    /\ s' = Tail(s)
    /\ Enter(s', glyph_idx)
    /\ UNCHANGED <<mul, strokes, arg>>

Return ==
    /\ s = <<>> /\ points = <<>> /\ arg # None
    /\ arg' = None
    /\ UNCHANGED <<s, penx, mul, points, glyph_idx, glyph_zero, pen_up, prevx, strokes>>

Loop == LiftPen \/ Point \/ NextGlyph

-----------------------------------------------------------------------------
(* What a string looks like: the reference.                                *)

WidthBefore(text, k) ==
    LET width[i \in 0 .. Len(text)] ==
            IF i = 0 THEN 0 ELSE width[i - 1] + glyph(text[i]).width
    IN  width[k - 1]

\* The k-th glyph's strokes, in its own place.
StrokesOf(a, k) ==
    LET pts == glyph(a.text[k]).points
        at(i) == a.x + (WidthBefore(a.text, k) + pts[i]) * a.size
    IN  FlattenSeq([i \in 1 .. Len(pts) |->
            IF i > 1 /\ pts[i - 1] # PenUp /\ pts[i] # PenUp
            THEN <<[from |-> at(i - 1), to |-> at(i)]>> ELSE <<>>])

Drawn == [i \in DOMAIN strokes |-> [from |-> strokes[i].from, to |-> strokes[i].to]]
Finished == arg # None /\ s = <<>> /\ points = <<>>

\* A finished string has exactly its glyphs' strokes, each in its place: none
\* joins across a pen lift or from one glyph to the next, and none is lost.
AsWritten ==
    Finished => Drawn = FlattenSeq([k \in DOMAIN arg.text |-> StrokesOf(arg, k)])

\* Where a glyph's first stroke is in the string's.
FirstStroke(k) == 1 + Len(FlattenSeq([m \in 1 .. k - 1 |-> StrokesOf(arg, m)]))

\* The glyphs that are zeroed are every ZERO_EVERY-th from the string's first on,
\* each once and at its first stroke, so that no drift is older than ZERO_EVERY
\* glyphs; one without strokes hands it to no other (less flicker).
ZeroedOncePerGlyph ==
    Finished =>
        {i \in DOMAIN strokes : strokes[i].zero} =
            {FirstStroke(k) : k \in {m \in DOMAIN arg.text :
                StrokesOf(arg, m) # <<>> /\ ZERO_EVERY > 0 /\ (m - 1) % ZERO_EVERY = 0}}
=============================================================================
