------------------------------- MODULE Frame -------------------------------
(***************************************************************************)
(* The streaming frame decoder of src/frame.c, as operators on a vt_parser *)
(* value.  Every C function that takes a vt_parser pointer is an operator  *)
(* from parser to parser, or to the set of parsers it can leave behind     *)
(* when the bytes it was given do not determine one.                       *)
(*                                                                         *)
(* Data.  A byte is <<it, i>>: the i-th byte of the stream item `it', an   *)
(* item being a command word or an EXT header with its payload.  Four      *)
(* bytes of one word, in order, are that word; any other group of          *)
(* WORD_BYTES bytes is a misread word and may be any of them.  One         *)
(* coordinate stands for x and y, which the code treats alike, and a       *)
(* vector is where it starts, where it ends and its intensity.  The frame  *)
(* fields no receiver reads back (total_length, monochrome) and the        *)
(* lifetime counters are left out.                                         *)
(***************************************************************************)
EXTENDS Integers, Sequences

CONSTANTS
    WORD_BYTES,    \* VT_WORD_BYTES
    MAX_PIPELINE,  \* VT_MAX_PIPELINE: vectors a frame holds
    EXT_MAX,       \* VT_EXT_MAX: bytes ext_buf holds
    RES_MAX,       \* VT_DVG_RES_MAX: the largest device coordinate
    MinPayload,    \* [known EXT subtypes -> length of the payload's header]
    Sink,          \* the callbacks of vt_sink that are not NULL
    Items          \* the stream items of an instance

Known == DOMAIN MinPayload
NoSubtype == "none"
CENTER == (RES_MAX + 1) \div 2

RawVector == [from : Int, to : Int, z : Nat \ {0}]
Vector    == [from : 0 .. RES_MAX, to : 0 .. RES_MAX, z : Nat]

\* Every item the decoder can be offered.  `geom' is what a payload spells
\* out, before clamping; nothing, when it is too short to spell anything.
Words == [flag : {"FRAME", "COMPLETE", "EXIT", "QUALITY"}]
            \union [flag : {"RGB"}, z : Nat]
            \union [flag : {"XY"}, blank : BOOLEAN, x : Nat]
            \union [flag : {"CMD"}, cmd : {"hello", "keepalive", "other"}]
Containers == {it \in [flag : {"EXT"}, subtype : STRING, length : Nat,
                       geom : Seq(RawVector)] :
                  (it.subtype \in Known => it.length < MinPayload[it.subtype])
                     => it.geom = <<>>}
IsContainer(it) == it.flag = "EXT"

ASSUME FrameAssumption ==
    /\ WORD_BYTES \in Nat /\ WORD_BYTES > 1
    /\ MAX_PIPELINE \in Nat \ {0}
    /\ EXT_MAX \in Nat
    /\ RES_MAX \in Nat

ASSUME ItemsAssumption ==
    /\ MinPayload \in [Known -> Nat \ {0}]
    /\ NoSubtype \notin Known
    /\ \A it \in Items : IF IsContainer(it) THEN it \in Containers ELSE it \in Words

Size(it) == WORD_BYTES + (IF IsContainer(it) THEN it.length ELSE 0)
Bytes == Items \X (Nat \ {0})
BytesOf(it, lo, hi) == [k \in 1 .. (hi - lo) |-> <<it, lo + k>>]

\* vt_unpack_be over the gathered bytes: the words they may spell.
vt_unpack_be(bs) ==
    LET spelt == {it \in Items : bs = BytesOf(it, 0, WORD_BYTES)}
    IN  IF spelt # {} THEN spelt ELSE Items

clamp_dev_int(v) == IF v < 0 THEN 0 ELSE IF v > RES_MAX THEN RES_MAX ELSE v
Clamped(g) == [i \in DOMAIN g |->
                 [g[i] EXCEPT !.from = clamp_dev_int(@), !.to = clamp_dev_int(@)]]

-----------------------------------------------------------------------------
(* The frame under construction, with the beam and colour that go with it: *)
(* exactly what vt_parser_reset_frame resets.                              *)
BlankPicture == [segments |-> <<>>, overflow |-> FALSE, brightness |-> 0,
                 have_pos |-> FALSE, cur |-> CENTER]

\* What on_frame is handed.
Published(pic) == [segments |-> pic.segments, overflow |-> pic.overflow]

CappedOneLate(s) == \* mutant of Capped: count > VT_MAX_PIPELINE for >=
    [i \in 1 .. (IF Len(s) > MAX_PIPELINE THEN MAX_PIPELINE + 1 ELSE Len(s)) |-> s[i]]

Capped(s) == [i \in 1 .. (IF Len(s) > MAX_PIPELINE THEN MAX_PIPELINE ELSE Len(s)) |-> s[i]]

add_segments_beam_stuck(pic, g) == \* mutant: returns before the beam moves
    IF g = <<>> THEN pic
    ELSE [pic EXCEPT !.segments = Capped(@ \o g),
                     !.overflow = @ \/ Len(pic.segments) + Len(g) > MAX_PIPELINE,
                     !.cur = IF Len(pic.segments) >= MAX_PIPELINE THEN @ ELSE g[Len(g)].to,
                     !.have_pos = TRUE]

\* add_segment, called for each vector of g in turn: past the cap a vector is
\* dropped and flagged, and the beam moves all the same.
add_segments(pic, g) ==
    IF g = <<>> THEN pic
    ELSE [pic EXCEPT !.segments = Capped(@ \o g),
                     !.overflow = @ \/ Len(pic.segments) + Len(g) > MAX_PIPELINE,
                     !.cur = g[Len(g)].to,
                     !.have_pos = TRUE]

emit_lit(pic, x) ==
    add_segments(pic, <<[from |-> IF pic.have_pos THEN pic.cur ELSE CENTER,
                         to |-> x, z |-> pic.brightness]>>)

DrawKeepsPicture(pic, w) == \* mutant of Draw: COMPLETE does not reset
    CASE w.flag = "FRAME" -> BlankPicture
      [] w.flag = "XY" /\ ~w.blank -> emit_lit(pic, clamp_dev_int(w.x))
      [] OTHER -> pic

\* What a word does to the picture.
Draw(pic, w) ==
    CASE w.flag \in {"FRAME", "COMPLETE"} -> BlankPicture
      [] w.flag = "RGB"                   -> [pic EXCEPT !.brightness = w.z]
      [] w.flag = "XY" /\ w.blank         ->
            [pic EXCEPT !.cur = clamp_dev_int(w.x), !.have_pos = TRUE]
      [] w.flag = "XY" /\ ~w.blank        -> emit_lit(pic, clamp_dev_int(w.x))
      [] OTHER                            -> pic

-----------------------------------------------------------------------------
(* vt_parser.  nbytes is Len(bytes) and ext_len is Len(ext_buf).           *)
vt_parser_init ==
    [bytes |-> <<>>, ext_subtype |-> NoSubtype, ext_remaining |-> 0,
     ext_buf |-> <<>>, ext_overflow |-> FALSE, pic |-> BlankPicture,
     session_over |-> FALSE]

\* Drops a partial word and a half-gathered payload; the picture stays.
vt_parser_resync(p) ==
    [p EXCEPT !.bytes = <<>>, !.ext_remaining = 0, !.ext_buf = <<>>,
              !.ext_overflow = FALSE]

\* dispatch_heightfield and dispatch_polyline: what a gathered payload may
\* spell out.  A payload that is not one item's own bytes may spell anything
\* its subtype can.
Geometries(subtype, buf) ==
    LET ofType == {it \in Items : IsContainer(it) /\ it.subtype = subtype}
        spelt  == {it \in ofType : buf = BytesOf(it, WORD_BYTES, Size(it))}
    IN  IF subtype \notin Known THEN {<<>>}
        ELSE IF Len(buf) < MinPayload[subtype] THEN {<<>>}
        ELSE IF spelt # {} THEN {Clamped(it.geom) : it \in spelt}
        ELSE {<<>>} \union {Clamped(it.geom) : it \in ofType}

dispatch_ext(p) ==
    {[p EXCEPT !.pic = IF p.ext_overflow THEN [@ EXCEPT !.overflow = TRUE]
                                         ELSE add_segments(@, g),
               !.ext_subtype = NoSubtype, !.ext_buf = <<>>,
               !.ext_overflow = FALSE]
       : g \in Geometries(p.ext_subtype, p.ext_buf)}

vt_parser_feed_word_undrained(p, w) == \* mutant: drains only what it can hold
    LET held == IF w.length > EXT_MAX THEN EXT_MAX ELSE w.length
    IN  IF IsContainer(w)
        THEN {[p EXCEPT !.ext_subtype = w.subtype, !.ext_buf = <<>>,
                        !.ext_overflow = w.length > EXT_MAX, !.ext_remaining = held]}
        ELSE {[p EXCEPT !.pic = Draw(@, w)]}

vt_parser_feed_word(p, w) ==
    LET drawn == [p EXCEPT !.pic = Draw(@, w),
                           !.session_over = @ \/ w.flag = "EXIT"]
        opened == [p EXCEPT !.ext_subtype = w.subtype, !.ext_buf = <<>>,
                            !.ext_overflow = w.length > EXT_MAX,
                            !.ext_remaining = w.length]
    IN  IF ~IsContainer(w) THEN {drawn}
        ELSE IF w.length = 0 THEN dispatch_ext(opened)
        ELSE {opened}

\* The callback a word makes, with its argument; p is the parser before it.
NoCall == [cb |-> "none"]
CallbackAfterReset(pic, w) == \* mutant of Callback: resets, then publishes
    IF w.flag = "COMPLETE" /\ "frame" \in Sink
    THEN [cb |-> "frame", frame |-> Published(BlankPicture)] ELSE NoCall

Callback(pic, w) ==
    CASE w.flag = "COMPLETE" /\ "frame" \in Sink ->
            [cb |-> "frame", frame |-> Published(pic)]
      [] w.flag = "EXIT" /\ "exit" \in Sink -> [cb |-> "exit"]
      [] w.flag = "CMD" /\ w.cmd = "hello" /\ "query" \in Sink -> [cb |-> "query"]
      [] w.flag = "CMD" /\ w.cmd = "keepalive" /\ "keepalive" \in Sink ->
            [cb |-> "keepalive"]
      [] OTHER -> NoCall

\* vt_parser_feed of one byte: the parser it leaves and the callback it made.
gather(p, b) ==
    [p EXCEPT !.ext_buf = IF ~p.ext_overflow /\ Len(@) < EXT_MAX
                            THEN Append(@, b) ELSE @,
              !.ext_remaining = @ - 1]

vt_parser_feed(p, b) ==
    LET kept == IF Len(p.bytes) < WORD_BYTES THEN p.bytes ELSE <<>>
        full == Append(kept, b)
        fed  == gather(p, b)
    IN  IF p.ext_remaining > 0
        THEN {[parser |-> q, call |-> NoCall] :
                q \in IF fed.ext_remaining = 0 THEN dispatch_ext(fed) ELSE {fed}}
        ELSE IF Len(full) < WORD_BYTES
        THEN {[parser |-> [p EXCEPT !.bytes = full], call |-> NoCall]}
        ELSE UNION {{[parser |-> q, call |-> Callback(p.pic, w)] :
                        q \in vt_parser_feed_word([p EXCEPT !.bytes = <<>>], w)}
                      : w \in vt_unpack_be(full)}
-----------------------------------------------------------------------------
(* What a parser may be, and where in an item it may stand.                *)
PictureType ==
    [segments : Seq(Vector), overflow : BOOLEAN, brightness : Nat,
     have_pos : BOOLEAN, cur : 0 .. RES_MAX]

ParserType ==
    [bytes : Seq(Bytes), ext_subtype : STRING \union {NoSubtype}, ext_remaining : Nat,
     ext_buf : Seq(Bytes), ext_overflow : BOOLEAN, pic : PictureType,
     session_over : BOOLEAN]

PictureOK(pic) == pic \in PictureType /\ Len(pic.segments) <= MAX_PIPELINE

\* The C arrays bytes, ext_buf and segments are never filled past their ends,
\* and a partial word never coexists with a payload being gathered.
ParserOK(p) ==
    /\ p \in ParserType
    /\ PictureOK(p.pic)
    /\ Len(p.bytes) < WORD_BYTES
    /\ Len(p.ext_buf) <= EXT_MAX
    /\ p.ext_remaining > 0 => p.bytes = <<>>

\* The decoder's registers say that n bytes of item it were fed to it: some
\* of its word, or its word and some of a payload, gathered or only drained.
Gathered(it, n) == IF it.length > EXT_MAX THEN <<>> ELSE BytesOf(it, WORD_BYTES, n)

Between(p) == p.bytes = <<>> /\ p.ext_remaining = 0
Inside(p, it, n) ==
    IF n < WORD_BYTES
    THEN p.bytes = BytesOf(it, 0, n) /\ p.ext_remaining = 0
    ELSE /\ p.bytes = <<>>
         /\ p.ext_remaining = Size(it) - n
         /\ p.ext_subtype = it.subtype
         /\ p.ext_overflow = (it.length > EXT_MAX)
         /\ p.ext_buf = Gathered(it, n)
=============================================================================
