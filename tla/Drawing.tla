------------------------------ MODULE Drawing ------------------------------
(***************************************************************************)
(* What a sender means by the items it sends, with no limit on the number  *)
(* of vectors: the other end of the link, which is not in this repository. *)
(* It is modelled from the vectors that tests/test_frame.c and             *)
(* tests/test_ext.c expect for the words they encode, which docs/          *)
(* PROTOCOL.md section 3 puts in words; src/frame.c must agree with it.    *)
(***************************************************************************)
EXTENDS Frame, SequencesExt

\* The vectors of the frame so far, whether a payload the decoder cannot hold
\* was among them, the colour in force and the beam's position.
SentType == [strokes : Seq(Vector), skipped : BOOLEAN, level : Nat, at : 0 .. RES_MAX]

NothingSent == [strokes |-> <<>>, skipped |-> FALSE, level |-> 0, at |-> CENTER]

Stroke(from, to, z) == [from |-> from, to |-> to, z |-> z]

Meaning(s, it) ==
    CASE it.flag \in {"FRAME", "COMPLETE"} -> NothingSent
      [] it.flag = "RGB" -> [s EXCEPT !.level = it.z]
      [] it.flag = "XY" ->
            [s EXCEPT !.at = clamp_dev_int(it.x),
                      !.strokes = IF it.blank THEN @
                          ELSE Append(@, Stroke(s.at, clamp_dev_int(it.x), s.level))]
      [] IsContainer(it) ->
            IF it.length > EXT_MAX THEN [s EXCEPT !.skipped = TRUE]
            ELSE IF it.geom = <<>> THEN s
            ELSE [s EXCEPT !.strokes = @ \o Clamped(it.geom),
                           !.at = Clamped(it.geom)[Len(it.geom)].to]
      [] OTHER -> s

StartsFrame(it) == it.flag \in {"FRAME", "COMPLETE"}

\* The frame a receiver with room for MAX_PIPELINE vectors can show of it.
Showable(s) == [segments |-> Capped(s.strokes),
                overflow |-> Len(s.strokes) > MAX_PIPELINE \/ s.skipped]

\* The bytes of a sequence of items.
Spelt(items) == FlattenSeq([i \in DOMAIN items |-> BytesOf(items[i], 0, Size(items[i]))])

\* What a stream of items composes: the frame begun, those completed, and
\* whether the session is over.
NoFrames == <<>>
NothingYet == [drawn |-> NothingSent, out |-> NoFrames, over |-> FALSE]

Compose(so_far, it) ==
    [drawn |-> Meaning(so_far.drawn, it),
     out   |-> IF it.flag = "COMPLETE"
               THEN Append(so_far.out, Showable(so_far.drawn)) ELSE so_far.out,
     over  |-> so_far.over \/ it.flag = "EXIT"]

Composed(items) == FoldLeft(Compose, NothingYet, items)

\* The frame under construction is the sender's, cut at MAX_PIPELINE, flagged
\* exactly when something was cut or skipped, with the beam where the sender
\* left it.
Represents(pic, s) ==
    /\ pic.segments = Capped(s.strokes)
    /\ pic.overflow = (Len(s.strokes) > MAX_PIPELINE \/ s.skipped)
    /\ pic.brightness = s.level
    /\ (IF pic.have_pos THEN pic.cur ELSE CENTER) = s.at
=============================================================================
