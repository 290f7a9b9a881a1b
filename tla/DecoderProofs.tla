--------------------------- MODULE DecoderProofs ---------------------------
(***************************************************************************)
(* Lemmas about the decoder of Frame and its reference in Drawing, for     *)
(* every word size, pipeline and buffer capacity, grid and set of stream   *)
(* items: what a byte does to a decoder in step, and what a sequence of    *)
(* items spells and composes.  The proofs of the modules that have a       *)
(* decoder inside rest on them.                                            *)
(***************************************************************************)
EXTENDS Drawing, SequenceTheorems, WellFoundedInduction, TLAPS

\* A sequence cut at MAX_PIPELINE is a sequence of the same kind, no longer
\* than MAX_PIPELINE.
LEMMA CappedType ==
    ASSUME NEW S, NEW s \in Seq(S)
    PROVE  /\ Capped(s) \in Seq(S)
           /\ Len(Capped(s)) = IF Len(s) > MAX_PIPELINE THEN MAX_PIPELINE ELSE Len(s)
           /\ \A i \in 1 .. Len(Capped(s)) : Capped(s)[i] = s[i]
  BY FrameAssumption DEF Capped

LEMMA CappedLength ==
    ASSUME NEW S, NEW s \in Seq(S)
    PROVE  Len(Capped(s)) \in Nat /\ Len(Capped(s)) <= MAX_PIPELINE
<1>1. Len(Capped(s)) = IF Len(s) > MAX_PIPELINE THEN MAX_PIPELINE ELSE Len(s)
  BY CappedType
<1> QED
  BY <1>1, FrameAssumption

\* Cutting before or after appending comes to the same frame.
LEMMA CappedConcat ==
    ASSUME NEW S, NEW s \in Seq(S), NEW g \in Seq(S)
    PROVE  Capped(Capped(s) \o g) = Capped(s \o g)
<1>1. /\ Capped(s) \in Seq(S)
      /\ Len(Capped(s)) = IF Len(s) > MAX_PIPELINE THEN MAX_PIPELINE ELSE Len(s)
      /\ \A i \in 1 .. Len(Capped(s)) : Capped(s)[i] = s[i]
  BY CappedType
<1>2. /\ Capped(s) \o g \in Seq(S)
      /\ s \o g \in Seq(S)
      /\ Len(Capped(s) \o g) = Len(Capped(s)) + Len(g)
      /\ Len(s \o g) = Len(s) + Len(g)
  BY <1>1, ConcatProperties
<1> DEFINE a == Capped(s) \o g
           b == s \o g
<1>3. /\ Capped(a) \in Seq(S)
      /\ Len(Capped(a)) = IF Len(a) > MAX_PIPELINE THEN MAX_PIPELINE ELSE Len(a)
      /\ \A i \in 1 .. Len(Capped(a)) : Capped(a)[i] = a[i]
  BY <1>2, CappedType
<1>4. /\ Capped(b) \in Seq(S)
      /\ Len(Capped(b)) = IF Len(b) > MAX_PIPELINE THEN MAX_PIPELINE ELSE Len(b)
      /\ \A i \in 1 .. Len(Capped(b)) : Capped(b)[i] = b[i]
  BY <1>2, CappedType
<1>5. \A i \in 1 .. Len(b) : i <= MAX_PIPELINE => a[i] = b[i]
  BY <1>1, <1>2, ConcatProperties, FrameAssumption
<1>6. Len(s) \in Nat /\ Len(g) \in Nat /\ Len(a) \in Nat /\ Len(b) \in Nat
  BY <1>2, LenProperties
<1>7. Len(Capped(a)) = Len(Capped(b))
  BY <1>1, <1>2, <1>3, <1>4, <1>6, FrameAssumption
<1>8. ASSUME NEW i \in 1 .. Len(Capped(b))
      PROVE  Capped(a)[i] = Capped(b)[i]
  <2>1. i \in 1 .. Len(b) /\ i <= MAX_PIPELINE
    BY <1>4, <1>6, FrameAssumption
  <2> HIDE DEF a, b
  <2> QED
    BY <1>3, <1>4, <1>5, <1>7, <2>1
<1> HIDE DEF a, b
<1>9. Capped(a) = Capped(b)
  BY <1>3, <1>4, <1>7, <1>8, SeqEqual
<1> QED
  BY <1>9 DEF a, b

\* Clamping keeps a polyline's length and puts it on the device grid.
LEMMA ClampedType ==
    ASSUME NEW g \in Seq(RawVector)
    PROVE  /\ Clamped(g) \in Seq(Vector)
           /\ Len(Clamped(g)) = Len(g)
<1>1. \A v \in Int : clamp_dev_int(v) \in 0 .. RES_MAX
  BY FrameAssumption DEF clamp_dev_int
<1>2. \A r \in RawVector :
         [r EXCEPT !.from = clamp_dev_int(@), !.to = clamp_dev_int(@)] \in Vector
  BY <1>1 DEF RawVector, Vector
<1>3. DOMAIN g = 1 .. Len(g) /\ Len(g) \in Nat /\ \A i \in 1 .. Len(g) : g[i] \in RawVector
  OBVIOUS
<1> DEFINE on(r) == [r EXCEPT !.from = clamp_dev_int(@), !.to = clamp_dev_int(@)]
<1>4. Clamped(g) = [i \in 1 .. Len(g) |-> on(g[i])]
  BY <1>3 DEF Clamped
<1>5. \A i \in 1 .. Len(g) : on(g[i]) \in Vector
  BY <1>2, <1>3
<1> HIDE DEF on
<1> QED
  BY <1>3, <1>4, <1>5

-----------------------------------------------------------------------------
(* Types.                                                                  *)

LEMMA NoBytes == <<>> \in Seq(Bytes) /\ Len(<<>>) = 0
  OBVIOUS

LEMMA BlankPictureType == PictureOK(BlankPicture)
  BY FrameAssumption DEF PictureOK, PictureType, BlankPicture, CENTER

\* Adding vectors keeps the frame within its array and the beam on the grid.
LEMMA AddSegmentsType ==
    ASSUME NEW pic, PictureOK(pic), NEW g \in Seq(Vector)
    PROVE  PictureOK(add_segments(pic, g))
<1>1. CASE g = <<>>
  BY <1>1 DEF add_segments
<1>2. CASE g # <<>>
  <2>1. Len(g) \in 1 .. Len(g) /\ g[Len(g)] \in Vector
    BY <1>2
  <2>2. g[Len(g)].to \in 0 .. RES_MAX
    BY <2>1 DEF Vector
  <2>3. pic.segments \in Seq(Vector) /\ pic.segments \o g \in Seq(Vector)
    BY DEF PictureOK, PictureType
  <2>4. /\ Capped(pic.segments \o g) \in Seq(Vector)
        /\ Len(Capped(pic.segments \o g)) <= MAX_PIPELINE
    BY <2>3, CappedType, CappedLength
  <2>5. add_segments(pic, g) =
            [pic EXCEPT !.segments = Capped(@ \o g),
                        !.overflow = @ \/ Len(pic.segments) + Len(g) > MAX_PIPELINE,
                        !.cur = g[Len(g)].to,
                        !.have_pos = TRUE]
    BY <1>2 DEF add_segments
  <2> QED
    BY <2>2, <2>4, <2>5 DEF PictureOK, PictureType
<1> QED
  BY <1>1, <1>2

LEMMA ClampType == \A v \in Int : clamp_dev_int(v) \in 0 .. RES_MAX
  BY FrameAssumption DEF clamp_dev_int

\* What a word that is no container holds.
LEMMA WordFields ==
    ASSUME NEW w \in Items, ~IsContainer(w)
    PROVE  /\ w \in Words
           /\ w.flag = "RGB" => w.z \in Nat
           /\ w.flag = "XY" => w.blank \in BOOLEAN /\ w.x \in Nat
  BY ItemsAssumption DEF Words

\* What a container holds.
LEMMA ContainerFields ==
    ASSUME NEW w \in Items, IsContainer(w)
    PROVE  /\ w.flag = "EXT"
           /\ w.subtype \in STRING
           /\ w.length \in Nat
           /\ w.geom \in Seq(RawVector)
           /\ (w.subtype \in Known => w.length < MinPayload[w.subtype]) => w.geom = <<>>
  BY ItemsAssumption DEF Containers, IsContainer

LEMMA DrawType ==
    ASSUME NEW pic, PictureOK(pic), NEW w \in Items, ~IsContainer(w)
    PROVE  PictureOK(Draw(pic, w))
<1>1. CASE w.flag \in {"FRAME", "COMPLETE"}
  BY <1>1, BlankPictureType DEF Draw
<1>2. CASE w.flag = "RGB"
  <2>1. Draw(pic, w) = [pic EXCEPT !.brightness = w.z]
    BY <1>2 DEF Draw
  <2> QED
    BY <1>2, <2>1, WordFields DEF PictureOK, PictureType
<1>3. CASE w.flag = "XY"
  <2>1. clamp_dev_int(w.x) \in 0 .. RES_MAX /\ w.blank \in BOOLEAN
    BY <1>3, WordFields, ClampType
  <2>2. CASE w.blank
    <3>1. Draw(pic, w) = [pic EXCEPT !.cur = clamp_dev_int(w.x), !.have_pos = TRUE]
      BY <1>3, <2>2 DEF Draw
    <3> QED
      BY <2>1, <3>1 DEF PictureOK, PictureType
  <2>3. CASE ~w.blank
    <3> DEFINE v == [from |-> IF pic.have_pos THEN pic.cur ELSE CENTER,
                     to |-> clamp_dev_int(w.x), z |-> pic.brightness]
    <3>1. Draw(pic, w) = add_segments(pic, <<v>>)
      BY <1>3, <2>3 DEF Draw, emit_lit
    <3>2. v \in Vector
      BY <2>1, FrameAssumption DEF PictureOK, PictureType, Vector, CENTER
    <3> HIDE DEF v
    <3> QED
      BY <3>1, <3>2, AddSegmentsType
  <2> QED
    BY <2>1, <2>2, <2>3
<1>4. CASE w.flag \notin {"FRAME", "COMPLETE", "RGB", "XY"}
  BY <1>4 DEF Draw
<1> QED
  BY <1>1, <1>2, <1>3, <1>4

\* Whatever was gathered, a payload spells out vectors on the grid.
LEMMA GeometriesType ==
    ASSUME NEW subtype, NEW buf, NEW g \in Geometries(subtype, buf)
    PROVE  g \in Seq(Vector)
<1>1. \A it \in Items : IsContainer(it) => Clamped(it.geom) \in Seq(Vector)
  BY ContainerFields, ClampedType
<1>2. <<>> \in Seq(Vector)
  OBVIOUS
<1> QED
  BY <1>1, <1>2 DEF Geometries

\* Dispatching a gathered payload closes the container.
LEMMA DispatchType ==
    ASSUME NEW p \in ParserType, PictureOK(p.pic), Len(p.bytes) < WORD_BYTES,
           p.ext_remaining = 0,
           NEW q \in dispatch_ext(p)
    PROVE  ParserOK(q)
<1>1. PICK g \in Geometries(p.ext_subtype, p.ext_buf) :
        q = [p EXCEPT !.pic = IF p.ext_overflow THEN [@ EXCEPT !.overflow = TRUE]
                                                ELSE add_segments(@, g),
                      !.ext_subtype = NoSubtype, !.ext_buf = <<>>,
                      !.ext_overflow = FALSE]
  BY DEF dispatch_ext
<1>2. PictureOK([p.pic EXCEPT !.overflow = TRUE])
  BY DEF PictureOK, PictureType
<1>3. PictureOK(add_segments(p.pic, g))
  BY GeometriesType, AddSegmentsType
<1>4. PictureOK(q.pic)
  BY <1>1, <1>2, <1>3 DEF ParserType
<1>5. PICK pic : /\ PictureOK(pic)
                 /\ q = [p EXCEPT !.pic = pic, !.ext_subtype = NoSubtype,
                                  !.ext_buf = <<>>, !.ext_overflow = FALSE]
  BY <1>1, <1>2, <1>3
<1>6. q \in ParserType
  <2>1. pic \in PictureType
    BY <1>5 DEF PictureOK
  <2> QED
    BY <1>5, <2>1, NoBytes DEF ParserType
<1>7. q.bytes = p.bytes /\ q.ext_buf = <<>> /\ q.ext_remaining = 0
  BY <1>1 DEF ParserType
<1> QED
  BY <1>4, <1>6, <1>7, FrameAssumption DEF ParserOK

\* A whole word, fed between words, leaves a well-formed parser.
LEMMA FeedWordType ==
    ASSUME NEW p, ParserOK(p), p.bytes = <<>>, p.ext_remaining = 0,
           NEW w \in Items, NEW q \in vt_parser_feed_word(p, w)
    PROVE  ParserOK(q)
<1>1. CASE ~IsContainer(w)
  <2>1. q = [p EXCEPT !.pic = Draw(@, w), !.session_over = @ \/ w.flag = "EXIT"]
    BY <1>1 DEF vt_parser_feed_word
  <2>2. PictureOK(Draw(p.pic, w))
    BY <1>1, DrawType DEF ParserOK
  <2>3. q \in ParserType
    BY <2>1, <2>2 DEF ParserOK, ParserType, PictureOK
  <2>4. /\ q.pic = Draw(p.pic, w) /\ q.bytes = p.bytes
        /\ q.ext_buf = p.ext_buf /\ q.ext_remaining = p.ext_remaining
    BY <2>1 DEF ParserOK, ParserType
  <2> QED
    BY <2>2, <2>3, <2>4 DEF ParserOK
<1>2. CASE IsContainer(w)
  <2> DEFINE opened == [p EXCEPT !.ext_subtype = w.subtype, !.ext_buf = <<>>,
                                 !.ext_overflow = w.length > EXT_MAX,
                                 !.ext_remaining = w.length]
  <2>1. w.subtype \in STRING /\ w.length \in Nat
    BY <1>2, ContainerFields
  <2>2. opened \in ParserType
    <3>1. p \in ParserType /\ (w.length > EXT_MAX) \in BOOLEAN
      BY DEF ParserOK
    <3> QED
      BY <2>1, <3>1, NoBytes DEF ParserType
  <2>3. /\ opened.pic = p.pic /\ opened.bytes = <<>> /\ opened.ext_buf = <<>>
        /\ opened.ext_remaining = w.length
    BY DEF ParserOK, ParserType
  <2>4. q \in (IF w.length = 0 THEN dispatch_ext(opened) ELSE {opened})
    BY <1>2 DEF vt_parser_feed_word
  <2> HIDE DEF opened
  <2>5. CASE w.length = 0
    BY <2>2, <2>3, <2>4, <2>5, DispatchType, FrameAssumption DEF ParserOK
  <2>6. CASE w.length # 0
    BY <2>2, <2>3, <2>4, <2>6, FrameAssumption DEF ParserOK
  <2> QED
    BY <2>5, <2>6
<1> QED
  BY <1>1, <1>2

\* Any byte whatever leaves a well-formed parser.
LEMMA FeedType ==
    ASSUME NEW p, ParserOK(p), NEW b \in Bytes, NEW r \in vt_parser_feed(p, b)
    PROVE  ParserOK(r.parser)
<1> DEFINE full == Append(p.bytes, b)
           fed  == gather(p, b)
<1>1. /\ p \in ParserType /\ Len(p.bytes) < WORD_BYTES /\ p.bytes \in Seq(Bytes)
      /\ p.ext_buf \in Seq(Bytes) /\ Len(p.ext_buf) <= EXT_MAX
      /\ p.ext_remaining \in Nat
  BY DEF ParserOK, ParserType
<1>2. full \in Seq(Bytes) /\ Len(full) = Len(p.bytes) + 1
  BY <1>1
<1>3. CASE p.ext_remaining > 0
  <2>1. r.parser \in (IF fed.ext_remaining = 0 THEN dispatch_ext(fed) ELSE {fed})
    BY <1>3 DEF vt_parser_feed
  <2> DEFINE buf == IF ~p.ext_overflow /\ Len(p.ext_buf) < EXT_MAX
                      THEN Append(p.ext_buf, b) ELSE p.ext_buf
  <2>2. buf \in Seq(Bytes) /\ Len(buf) <= EXT_MAX
    BY <1>1, FrameAssumption
  <2>3. fed = [p EXCEPT !.ext_buf = buf, !.ext_remaining = p.ext_remaining - 1]
    BY <1>1 DEF gather, ParserType
  <2> HIDE DEF buf, fed
  <2>4. /\ fed \in ParserType /\ fed.ext_buf = buf /\ fed.bytes = p.bytes
        /\ fed.pic = p.pic /\ fed.ext_remaining = p.ext_remaining - 1
    <3>1. p.ext_remaining - 1 \in Nat
      BY <1>1, <1>3
    <3> QED
      BY <1>1, <2>2, <2>3, <3>1 DEF ParserType
  <2>5. p.bytes = <<>> /\ PictureOK(p.pic)
    BY <1>3 DEF ParserOK
  <2>6. CASE fed.ext_remaining = 0
    BY <1>1, <2>1, <2>4, <2>5, <2>6, DispatchType
  <2>7. CASE fed.ext_remaining # 0
    BY <1>1, <2>1, <2>2, <2>4, <2>5, <2>7 DEF ParserOK
  <2> QED
    BY <2>6, <2>7
<1>4. CASE ~(p.ext_remaining > 0) /\ Len(full) < WORD_BYTES
  <2>1. r.parser = [p EXCEPT !.bytes = full]
    BY <1>1, <1>4 DEF vt_parser_feed
  <2> HIDE DEF full
  <2>2. /\ r.parser \in ParserType /\ r.parser.bytes = full /\ r.parser.pic = p.pic
        /\ r.parser.ext_buf = p.ext_buf /\ r.parser.ext_remaining = p.ext_remaining
    BY <1>1, <1>2, <2>1 DEF ParserType
  <2> QED
    BY <1>1, <1>2, <1>4, <2>2 DEF ParserOK
<1>5. CASE ~(p.ext_remaining > 0) /\ ~(Len(full) < WORD_BYTES)
  <2> DEFINE clear == [p EXCEPT !.bytes = <<>>]
  <2>1. PICK w \in vt_unpack_be(full) : r.parser \in vt_parser_feed_word(clear, w)
    BY <1>1, <1>5 DEF vt_parser_feed
  <2>2. w \in Items
    BY <2>1 DEF vt_unpack_be
  <2>3. clear \in ParserType /\ clear.bytes = <<>> /\ clear.pic = p.pic
        /\ clear.ext_buf = p.ext_buf /\ clear.ext_remaining = p.ext_remaining
    BY <1>1, NoBytes DEF ParserType
  <2> HIDE DEF clear
  <2>4. ParserOK(clear) /\ clear.ext_remaining = 0
    BY <1>1, <1>5, <2>3, FrameAssumption DEF ParserOK
  <2> QED
    BY <2>1, <2>2, <2>3, <2>4, FeedWordType
<1> QED
  BY <1>3, <1>4, <1>5

-----------------------------------------------------------------------------
(* A byte in step.                                                         *)

\* What a whole item does to the picture.
After(pic, it) ==
    IF ~IsContainer(it) THEN Draw(pic, it)
    ELSE IF it.length > EXT_MAX THEN [pic EXCEPT !.overflow = TRUE]
    ELSE add_segments(pic, Clamped(it.geom))

\* Bytes of an item, one more at a time.
LEMMA BytesOfAppend ==
    ASSUME NEW it \in Items, NEW lo \in Nat, NEW n \in Nat, lo <= n
    PROVE  /\ BytesOf(it, lo, n) \in Seq(Bytes)
           /\ Len(BytesOf(it, lo, n)) = n - lo
           /\ Append(BytesOf(it, lo, n), <<it, n + 1>>) = BytesOf(it, lo, n + 1)
<1>1. \A m \in Nat : lo <= m => /\ BytesOf(it, lo, m) \in Seq(Bytes)
                               /\ Len(BytesOf(it, lo, m)) = m - lo
                               /\ \A k \in 1 .. m - lo : BytesOf(it, lo, m)[k] = <<it, lo + k>>
  BY DEF BytesOf, Bytes
<1>2. <<it, n + 1>> \in Bytes
  BY DEF Bytes
<1> DEFINE s == BytesOf(it, lo, n)
           t == BytesOf(it, lo, n + 1)
           u == Append(s, <<it, n + 1>>)
<1>3. /\ s \in Seq(Bytes) /\ Len(s) = n - lo
      /\ \A k \in 1 .. n - lo : s[k] = <<it, lo + k>>
  BY <1>1
<1>4. /\ t \in Seq(Bytes) /\ Len(t) = n + 1 - lo
      /\ \A k \in 1 .. n + 1 - lo : t[k] = <<it, lo + k>>
  <2> DEFINE m == n + 1
  <2>1. m \in Nat /\ lo <= m
    OBVIOUS
  <2> HIDE DEF m, s, t, u
  <2>2. /\ BytesOf(it, lo, m) \in Seq(Bytes) /\ Len(BytesOf(it, lo, m)) = m - lo
        /\ \A k \in 1 .. m - lo : BytesOf(it, lo, m)[k] = <<it, lo + k>>
    BY <1>1, <2>1
  <2> QED
    BY <2>2 DEF t, m
<1> HIDE DEF s, t
<1>5. /\ u \in Seq(Bytes) /\ Len(u) = n + 1 - lo
      /\ u[n + 1 - lo] = <<it, n + 1>>
      /\ \A k \in 1 .. n - lo : u[k] = s[k]
  <2> DEFINE e == <<it, n + 1>>
  <2>1. e \in Bytes
    BY <1>2
  <2> HIDE DEF e
  <2>2. /\ Append(s, e) \in Seq(Bytes) /\ Len(Append(s, e)) = Len(s) + 1
        /\ \A k \in 1 .. Len(s) : Append(s, e)[k] = s[k]
        /\ Append(s, e)[Len(s) + 1] = e
    BY <1>3, <2>1, AppendProperties
  <2>3. n - lo + 1 = n + 1 - lo
    OBVIOUS
  <2> QED
    BY <1>3, <2>2, <2>3 DEF e
<1> HIDE DEF u
<1>6. ASSUME NEW k \in 1 .. Len(u) PROVE u[k] = t[k]
  <2>1. CASE k = n + 1 - lo
    BY <1>4, <1>5, <2>1
  <2>2. CASE k # n + 1 - lo
    <3>1. k \in 1 .. n - lo /\ k \in 1 .. n + 1 - lo
      BY <1>5, <2>2
    <3> QED
      BY <1>3, <1>4, <1>5, <3>1
  <2> QED
    BY <2>1, <2>2
<1>7. u = t
  BY <1>4, <1>5, <1>6, SeqEqual
<1> QED
  BY <1>3, <1>7 DEF s, t, u

\* The bytes of an item are no other item's.
LEMMA BytesOfInjective ==
    ASSUME NEW a \in Items, NEW b \in Items, NEW lo \in Nat, NEW n \in Nat, lo < n,
           NEW m \in Nat, BytesOf(a, lo, n) = BytesOf(b, lo, m)
    PROVE  a = b
<1>1. 1 \in 1 .. (n - lo) /\ DOMAIN BytesOf(a, lo, n) = 1 .. (n - lo)
  BY DEF BytesOf
<1>2. DOMAIN BytesOf(b, lo, m) = 1 .. (m - lo)
  BY DEF BytesOf
<1>3. BytesOf(a, lo, n)[1] = <<a, lo + 1>>
  BY <1>1 DEF BytesOf
<1>4. BytesOf(b, lo, m)[1] = <<b, lo + 1>>
  BY <1>1, <1>2 DEF BytesOf
<1> QED
  BY <1>3, <1>4

\* WORD_BYTES bytes of one item spell its word.
LEMMA UnpackInStep ==
    ASSUME NEW it \in Items
    PROVE  vt_unpack_be(BytesOf(it, 0, WORD_BYTES)) = {it}
<1>1. \A b \in Items : BytesOf(it, 0, WORD_BYTES) = BytesOf(b, 0, WORD_BYTES) => it = b
  BY BytesOfInjective, FrameAssumption
<1> QED
  BY <1>1 DEF vt_unpack_be

\* A payload gathered whole spells out its own vectors.
LEMMA GeometriesInStep ==
    ASSUME NEW it \in Items, IsContainer(it)
    PROVE  Geometries(it.subtype, BytesOf(it, WORD_BYTES, Size(it))) = {Clamped(it.geom)}
<1> DEFINE buf == BytesOf(it, WORD_BYTES, Size(it))
<1>1. it.length \in Nat /\ Size(it) = WORD_BYTES + it.length /\ it.geom \in Seq(RawVector)
  BY ContainerFields DEF Size
<1>2. buf \in Seq(Bytes) /\ Len(buf) = it.length
  <2>1. WORD_BYTES \in Nat /\ Size(it) \in Nat /\ WORD_BYTES <= Size(it)
    BY <1>1, FrameAssumption
  <2>2. buf \in Seq(Bytes) /\ Len(buf) = Size(it) - WORD_BYTES
    BY <2>1, BytesOfAppend
  <2> QED
    BY <1>1, <2>1, <2>2
<1>3. Clamped(<<>>) = <<>>
  BY DEF Clamped
<1>4. CASE it.subtype \notin Known
  BY <1>3, <1>4, ContainerFields DEF Geometries
<1>5. CASE it.subtype \in Known /\ it.length < MinPayload[it.subtype]
  BY <1>2, <1>3, <1>5, ContainerFields DEF Geometries
<1>6. CASE it.subtype \in Known /\ ~(it.length < MinPayload[it.subtype])
  <2>1. MinPayload[it.subtype] \in Nat \ {0}
    BY <1>6, ItemsAssumption
  <2>2. \A b \in Items : buf = BytesOf(b, WORD_BYTES, Size(b)) /\ Size(b) \in Nat => it = b
    BY <1>1, <1>6, <2>1, BytesOfInjective, FrameAssumption
  <2>3. \A b \in Items : IsContainer(b) => Size(b) \in Nat
    BY ContainerFields, FrameAssumption DEF Size
  <2> DEFINE ofType == {b \in Items : IsContainer(b) /\ b.subtype = it.subtype}
             spelt  == {b \in ofType : buf = BytesOf(b, WORD_BYTES, Size(b))}
  <2>4. spelt = {it}
    BY <2>2, <2>3
  <2>5. Geometries(it.subtype, buf) = {Clamped(b.geom) : b \in spelt}
    BY <1>2, <1>6, <2>4 DEF Geometries
  <2> QED
    BY <2>4, <2>5
<1> QED
  BY <1>4, <1>5, <1>6

\* Dispatching an item's own payload closes it and draws what it means.
LEMMA DispatchInStep ==
    ASSUME NEW p \in ParserType, NEW it \in Items, IsContainer(it),
           p.bytes = <<>>, p.ext_remaining = 0, p.ext_subtype = it.subtype,
           p.ext_overflow = (it.length > EXT_MAX),
           p.ext_buf = Gathered(it, Size(it)),
           NEW q \in dispatch_ext(p)
    PROVE  Between(q) /\ q.pic = After(p.pic, it)
<1>1. PICK g \in Geometries(p.ext_subtype, p.ext_buf) :
        q = [p EXCEPT !.pic = IF p.ext_overflow THEN [@ EXCEPT !.overflow = TRUE]
                                                ELSE add_segments(@, g),
                      !.ext_subtype = NoSubtype, !.ext_buf = <<>>,
                      !.ext_overflow = FALSE]
  BY DEF dispatch_ext
<1>2. /\ q.bytes = <<>> /\ q.ext_remaining = 0
      /\ q.pic = IF p.ext_overflow THEN [p.pic EXCEPT !.overflow = TRUE]
                                   ELSE add_segments(p.pic, g)
  BY <1>1 DEF ParserType
<1>3. CASE it.length > EXT_MAX
  BY <1>2, <1>3 DEF After, Between
<1>4. CASE ~(it.length > EXT_MAX)
  <2>1. g = Clamped(it.geom)
    BY <1>4, GeometriesInStep DEF Gathered
  <2> QED
    BY <1>2, <1>4, <2>1 DEF After, Between
<1> QED
  BY <1>3, <1>4

\* A byte fed in step keeps the decoder in step, and draws an item when it is
\* the item's last.
LEMMA FeedInStep ==
    ASSUME NEW p, ParserOK(p), NEW it \in Items, NEW n \in Nat, n < Size(it),
           Inside(p, it, n),
           NEW r \in vt_parser_feed(p, <<it, n + 1>>)
    PROVE  IF n + 1 = Size(it)
           THEN /\ Between(r.parser)
                /\ r.parser.pic = After(p.pic, it)
                /\ ~IsContainer(it) => r.call = Callback(p.pic, it)
                /\ IsContainer(it) => r.call = NoCall
           ELSE /\ Inside(r.parser, it, n + 1)
                /\ r.parser.pic = p.pic
                /\ r.call = NoCall
<1> DEFINE b == <<it, n + 1>>
<1>1. /\ p \in ParserType /\ Len(p.bytes) < WORD_BYTES
      /\ WORD_BYTES \in Nat /\ WORD_BYTES > 1 /\ EXT_MAX \in Nat
  BY FrameAssumption DEF ParserOK
<1>2. IsContainer(it) => it.length \in Nat /\ it.flag = "EXT"
  BY ContainerFields
<1>3. /\ Size(it) \in Nat /\ WORD_BYTES <= Size(it)
      /\ IsContainer(it) => Size(it) = WORD_BYTES + it.length
      /\ ~IsContainer(it) => Size(it) = WORD_BYTES
  BY <1>1, <1>2 DEF Size
<1>4. CASE n < WORD_BYTES
  <2>1. p.bytes = BytesOf(it, 0, n) /\ p.ext_remaining = 0
    BY <1>4 DEF Inside
  <2> DEFINE full == Append(p.bytes, b)
  <2>2. full = BytesOf(it, 0, n + 1) /\ Len(full) = n + 1
    <3>1. BytesOf(it, 0, n) \in Seq(Bytes) /\ Len(BytesOf(it, 0, n)) = n - 0
      BY BytesOfAppend
    <3>2. Append(BytesOf(it, 0, n), <<it, n + 1>>) = BytesOf(it, 0, n + 1)
      <4>1. 0 \in Nat /\ 0 <= n
        OBVIOUS
      <4> QED
        BY <4>1, BytesOfAppend
    <3>3. n + 1 \in Nat /\ 0 <= n + 1
      OBVIOUS
    <3>4. Len(BytesOf(it, 0, n + 1)) = (n + 1) - 0
      BY <3>3, BytesOfAppend
    <3> QED
      BY <2>1, <3>2, <3>4
  <2>3. CASE n + 1 < WORD_BYTES
    <3>1. r = [parser |-> [p EXCEPT !.bytes = full], call |-> NoCall]
      BY <1>1, <2>1, <2>2, <2>3 DEF vt_parser_feed
    <3> HIDE DEF full
    <3>2. r.parser.bytes = full /\ r.parser.ext_remaining = 0 /\ r.parser.pic = p.pic
      BY <1>1, <2>1, <3>1 DEF ParserType
    <3>3. n + 1 # Size(it) /\ r.call = NoCall
      BY <1>1, <1>3, <2>3, <3>1
    <3>4. Inside(r.parser, it, n + 1)
      BY <2>2, <2>3, <3>2 DEF Inside
    <3> QED
      BY <3>2, <3>3, <3>4
  <2>4. CASE ~(n + 1 < WORD_BYTES)
    <3>1. n + 1 = WORD_BYTES
      BY <1>1, <1>4, <2>4
    <3> DEFINE clear == [p EXCEPT !.bytes = <<>>]
    <3>2. vt_unpack_be(full) = {it}
      BY <2>2, <3>1, UnpackInStep
    <3>3. PICK q \in vt_parser_feed_word(clear, it) :
             r = [parser |-> q, call |-> Callback(p.pic, it)]
      <4>1. r \in UNION {{[parser |-> q, call |-> Callback(p.pic, w)] :
                           q \in vt_parser_feed_word(clear, w)}
                         : w \in vt_unpack_be(full)}
        <5>1. ~(p.ext_remaining > 0) /\ Len(p.bytes) < WORD_BYTES /\ ~(Len(full) < WORD_BYTES)
          BY <1>1, <2>1, <2>2, <2>4
        <5> QED
          BY <5>1 DEF vt_parser_feed
      <4> HIDE DEF full, clear
      <4>2. r \in {[parser |-> q, call |-> Callback(p.pic, it)] :
                    q \in vt_parser_feed_word(clear, it)}
        BY <3>2, <4>1
      <4> QED
        BY <4>2
    <3>4. /\ clear \in ParserType /\ clear.bytes = <<>> /\ clear.ext_remaining = 0
          /\ clear.pic = p.pic
      BY <1>1, <2>1, NoBytes DEF ParserType
    <3>5. r.parser = q /\ r.call = Callback(p.pic, it)
      BY <3>3
    <3>6. IsContainer(it) => r.call = NoCall
      BY <1>2, <3>5 DEF Callback
    <3> HIDE DEF full, clear
    <3>7. CASE ~IsContainer(it)
      <4>1. q = [clear EXCEPT !.pic = Draw(@, it), !.session_over = @ \/ it.flag = "EXIT"]
        BY <3>3, <3>7 DEF vt_parser_feed_word
      <4>2. q.bytes = <<>> /\ q.ext_remaining = 0 /\ q.pic = Draw(p.pic, it)
        BY <3>4, <4>1 DEF ParserType
      <4> QED
        BY <1>3, <3>1, <3>5, <3>7, <4>2 DEF Between, After
    <3>8. CASE IsContainer(it)
      <4> DEFINE opened == [clear EXCEPT !.ext_subtype = it.subtype, !.ext_buf = <<>>,
                                         !.ext_overflow = it.length > EXT_MAX,
                                         !.ext_remaining = it.length]
      <4>1. q \in (IF it.length = 0 THEN dispatch_ext(opened) ELSE {opened})
        BY <3>3, <3>8 DEF vt_parser_feed_word
      <4>2. opened \in ParserType
        <5>1. it.subtype \in STRING /\ it.length \in Nat
          BY <3>8, ContainerFields
        <5>2. (it.length > EXT_MAX) \in BOOLEAN
          OBVIOUS
        <5> QED
          BY <3>4, <5>1, <5>2, NoBytes DEF ParserType
      <4>3. /\ opened.bytes = <<>> /\ opened.ext_remaining = it.length
            /\ opened.pic = p.pic /\ opened.ext_buf = <<>>
            /\ opened.ext_subtype = it.subtype
            /\ opened.ext_overflow = (it.length > EXT_MAX)
        BY <3>4 DEF ParserType
      <4> HIDE DEF opened
      <4>4. Gathered(it, WORD_BYTES) = <<>>
        BY <1>1 DEF Gathered, BytesOf
      <4>5. CASE it.length = 0
        <5>1. Size(it) = WORD_BYTES
          BY <1>1, <1>3, <3>8, <4>5
        <5>2. Between(q) /\ q.pic = After(p.pic, it)
          BY <3>8, <4>1, <4>2, <4>3, <4>4, <4>5, <5>1, DispatchInStep
        <5> QED
          BY <3>1, <3>5, <3>6, <3>8, <5>1, <5>2
      <4>6. CASE it.length # 0
        <5>1. n + 1 # Size(it) /\ Size(it) - (n + 1) = it.length
          BY <1>1, <1>2, <1>3, <3>1, <3>8, <4>6
        <5>2. q = opened
          BY <4>1, <4>6
        <5> QED
          BY <1>1, <3>1, <3>5, <3>6, <3>8, <4>3, <4>4, <5>1, <5>2 DEF Inside
      <4> QED
        BY <4>5, <4>6
    <3> QED
      BY <3>7, <3>8
  <2> QED
    BY <2>3, <2>4
<1>5. CASE ~(n < WORD_BYTES)
  <2>1. /\ p.bytes = <<>> /\ p.ext_remaining = Size(it) - n
        /\ p.ext_subtype = it.subtype
        /\ p.ext_overflow = (it.length > EXT_MAX)
        /\ p.ext_buf = Gathered(it, n)
    BY <1>5 DEF Inside
  <2>2. IsContainer(it) /\ p.ext_remaining > 0 /\ it.length \in Nat
    BY <1>1, <1>2, <1>3, <1>5, <2>1
  <2> DEFINE buf == IF ~p.ext_overflow /\ Len(p.ext_buf) < EXT_MAX
                      THEN Append(p.ext_buf, b) ELSE p.ext_buf
             fed == gather(p, b)
  <2>3. buf = Gathered(it, n + 1)
    <3>1. CASE it.length > EXT_MAX
      BY <2>1, <3>1 DEF Gathered
    <3>2. CASE ~(it.length > EXT_MAX)
      <4>1. WORD_BYTES <= n /\ p.ext_buf = BytesOf(it, WORD_BYTES, n)
        BY <1>1, <1>5, <2>1, <3>2 DEF Gathered
      <4>2. /\ Len(p.ext_buf) = n - WORD_BYTES
            /\ Append(p.ext_buf, b) = BytesOf(it, WORD_BYTES, n + 1)
        BY <1>1, <4>1, BytesOfAppend
      <4>3. n - WORD_BYTES < EXT_MAX
        BY <1>1, <1>3, <2>2, <3>2
      <4> QED
        BY <2>1, <3>2, <4>2, <4>3 DEF Gathered
    <3> QED
      BY <3>1, <3>2
  <2>4. fed = [p EXCEPT !.ext_buf = buf, !.ext_remaining = p.ext_remaining - 1]
    BY <1>1 DEF gather, ParserType
  <2>5. r.parser \in (IF fed.ext_remaining = 0 THEN dispatch_ext(fed) ELSE {fed})
    BY <2>2 DEF vt_parser_feed
  <2>6. r.call = NoCall
    BY <2>2 DEF vt_parser_feed
  <2>7. buf \in Seq(Bytes)
    <3>1. p.ext_buf \in Seq(Bytes) /\ b \in Bytes
      BY <1>1 DEF ParserType, Bytes
    <3> HIDE DEF b
    <3> QED
      BY <3>1
  <2> HIDE DEF buf, fed
  <2>8. /\ fed \in ParserType /\ fed.bytes = <<>> /\ fed.ext_buf = buf
        /\ fed.ext_remaining = Size(it) - n - 1 /\ fed.ext_subtype = it.subtype
        /\ fed.ext_overflow = (it.length > EXT_MAX) /\ fed.pic = p.pic
    <3>1. p.ext_remaining - 1 \in Nat
      BY <1>1, <2>2 DEF ParserType
    <3> QED
      BY <1>1, <2>1, <2>4, <2>7, <3>1 DEF ParserType
  <2>9. CASE n + 1 = Size(it)
    <3>1. fed.ext_remaining = 0
      BY <1>3, <2>8, <2>9
    <3>2. Between(r.parser) /\ r.parser.pic = After(p.pic, it)
      BY <2>2, <2>3, <2>5, <2>8, <2>9, <3>1, DispatchInStep
    <3> QED
      BY <2>2, <2>6, <2>9, <3>2
  <2>10. CASE n + 1 # Size(it)
    <3>1. r.parser = fed
      BY <1>3, <2>5, <2>8, <2>10
    <3>2. ~(n + 1 < WORD_BYTES) /\ fed.ext_remaining = Size(it) - (n + 1)
      BY <1>1, <1>3, <1>5, <2>8
    <3> QED
      BY <2>3, <2>6, <2>8, <2>10, <3>1, <3>2 DEF Inside
  <2> QED
    BY <2>9, <2>10
<1> QED
  BY <1>4, <1>5

-----------------------------------------------------------------------------
(* The sender's picture.                                                   *)

LEMMA NothingSentType == NothingSent \in SentType
  BY FrameAssumption DEF NothingSent, SentType, CENTER

LEMMA MeaningType ==
    ASSUME NEW s \in SentType, NEW it \in Items
    PROVE  Meaning(s, it) \in SentType
<1>1. CASE it.flag \in {"FRAME", "COMPLETE"}
  <2>1. Meaning(s, it) = NothingSent
    BY <1>1 DEF Meaning, IsContainer
  <2> QED
    BY <2>1, NothingSentType
<1>2. CASE it.flag = "RGB"
  <2>1. ~IsContainer(it)
    BY <1>2 DEF IsContainer
  <2>2. Meaning(s, it) = [s EXCEPT !.level = it.z] /\ it.z \in Nat
    BY <1>2, <2>1, WordFields DEF Meaning
  <2> QED
    BY <2>2 DEF SentType
<1>3. CASE it.flag = "XY"
  <2>1. ~IsContainer(it)
    BY <1>3 DEF IsContainer
  <2>2. it.blank \in BOOLEAN /\ clamp_dev_int(it.x) \in 0 .. RES_MAX
    BY <1>3, <2>1, WordFields, ClampType
  <2>3. Stroke(s.at, clamp_dev_int(it.x), s.level) \in Vector
    BY <2>2 DEF Stroke, Vector, SentType
  <2> DEFINE strokes == IF it.blank THEN s.strokes
                        ELSE Append(s.strokes, Stroke(s.at, clamp_dev_int(it.x), s.level))
  <2>4. strokes \in Seq(Vector)
    <3> HIDE DEF Stroke
    <3>1. s.strokes \in Seq(Vector)
      BY DEF SentType
    <3> QED
      BY <2>3, <3>1
  <2>5. Meaning(s, it) = [s EXCEPT !.at = clamp_dev_int(it.x), !.strokes = strokes]
    <3>1. Meaning(s, it) = [s EXCEPT !.at = clamp_dev_int(it.x),
              !.strokes = IF it.blank THEN @
                  ELSE Append(@, Stroke(s.at, clamp_dev_int(it.x), s.level))]
      BY <1>3 DEF Meaning, SentType, IsContainer
    <3> QED
      BY <3>1 DEF SentType
  <2> HIDE DEF strokes
  <2> QED
    BY <2>2, <2>4, <2>5 DEF SentType
<1>4. CASE IsContainer(it)
  <2>1. CASE it.length > EXT_MAX
    BY <1>4, <2>1 DEF Meaning, SentType, IsContainer
  <2>2. CASE ~(it.length > EXT_MAX) /\ it.geom = <<>>
    BY <1>4, <2>2 DEF Meaning, IsContainer
  <2>3. CASE ~(it.length > EXT_MAX) /\ it.geom # <<>>
    <3> DEFINE g == Clamped(it.geom)
    <3>1. g \in Seq(Vector) /\ Len(g) = Len(it.geom) /\ it.geom \in Seq(RawVector)
      BY <1>4, ContainerFields, ClampedType
    <3>2. Meaning(s, it) = [s EXCEPT !.strokes = @ \o g, !.at = g[Len(it.geom)].to]
      BY <1>4, <2>3 DEF Meaning, IsContainer
    <3> HIDE DEF g
    <3>3. g[Len(it.geom)] \in Vector
      BY <2>3, <3>1
    <3>4. g[Len(it.geom)].to \in 0 .. RES_MAX
      BY <3>3 DEF Vector
    <3>5. s.strokes \in Seq(Vector) /\ s.strokes \o g \in Seq(Vector)
      BY <3>1 DEF SentType
    <3> QED
      BY <3>2, <3>4, <3>5 DEF SentType
  <2> QED
    BY <2>1, <2>2, <2>3
<1>5. CASE it.flag \notin {"FRAME", "COMPLETE", "RGB", "XY"} /\ ~IsContainer(it)
  BY <1>5 DEF Meaning
<1> QED
  BY <1>1, <1>2, <1>3, <1>4, <1>5

\* Adding vectors to the decoder's picture and to the sender's.
LEMMA AddSegmentsRepresents ==
    ASSUME NEW pic, PictureOK(pic), NEW s \in SentType, Represents(pic, s),
           NEW g \in Seq(Vector), g # <<>>,
           NEW t \in SentType, t.strokes = s.strokes \o g, t.skipped = s.skipped,
           t.level = s.level, t.at = g[Len(g)].to
    PROVE  Represents(add_segments(pic, g), t)
<1>1. /\ s.strokes \in Seq(Vector) /\ s.strokes \o g \in Seq(Vector)
      /\ Len(s.strokes \o g) = Len(s.strokes) + Len(g)
      /\ Len(s.strokes) \in Nat /\ Len(g) \in Nat
  BY DEF SentType
<1>2. /\ pic.segments = Capped(s.strokes)
      /\ pic.overflow = (Len(s.strokes) > MAX_PIPELINE \/ s.skipped)
      /\ pic.brightness = s.level
  BY DEF Represents
<1>3. Capped(pic.segments \o g) = Capped(t.strokes)
  BY <1>1, <1>2, CappedConcat
<1>4. Len(pic.segments) = IF Len(s.strokes) > MAX_PIPELINE THEN MAX_PIPELINE ELSE Len(s.strokes)
  BY <1>1, <1>2, CappedType
<1>5. (pic.overflow \/ Len(pic.segments) + Len(g) > MAX_PIPELINE)
        = (Len(t.strokes) > MAX_PIPELINE \/ t.skipped)
  <2>1. Len(g) > 0 /\ MAX_PIPELINE \in Nat
    BY <1>1, FrameAssumption
  <2>2. CASE Len(s.strokes) > MAX_PIPELINE
    <3>1. Len(t.strokes) > MAX_PIPELINE
      BY <1>1, <2>1, <2>2
    <3>2. pic.overflow
      BY <1>2, <2>2
    <3> QED
      BY <3>1, <3>2
  <2>3. CASE ~(Len(s.strokes) > MAX_PIPELINE)
    <3>1. pic.overflow = s.skipped
      BY <1>2, <2>3 DEF SentType
    <3>2. Len(pic.segments) + Len(g) = Len(t.strokes)
      BY <1>1, <1>4, <2>3
    <3> QED
      BY <3>1, <3>2
  <2> QED
    BY <2>2, <2>3
<1>6. add_segments(pic, g) =
            [pic EXCEPT !.segments = Capped(pic.segments \o g),
                        !.overflow = pic.overflow \/ Len(pic.segments) + Len(g) > MAX_PIPELINE,
                        !.cur = g[Len(g)].to,
                        !.have_pos = TRUE]
  BY DEF add_segments, PictureOK, PictureType
<1> DEFINE a == add_segments(pic, g)
<1>7. /\ a.segments = Capped(t.strokes)
      /\ a.overflow = (pic.overflow \/ Len(pic.segments) + Len(g) > MAX_PIPELINE)
      /\ a.brightness = pic.brightness
      /\ a.cur = t.at /\ a.have_pos = TRUE
  BY <1>3, <1>6 DEF PictureOK, PictureType
<1> HIDE DEF a
<1> QED
  BY <1>2, <1>5, <1>7 DEF Represents, a

\* The decoder draws an item the way its meaning says.
LEMMA AfterRepresents ==
    ASSUME NEW pic, PictureOK(pic), NEW s \in SentType, NEW it \in Items,
           Represents(pic, s) \/ StartsFrame(it)
    PROVE  Represents(After(pic, it), Meaning(s, it))
<1>1. CASE it.flag \in {"FRAME", "COMPLETE"}
  <2>1. After(pic, it) = BlankPicture /\ Meaning(s, it) = NothingSent
    BY <1>1 DEF After, Draw, Meaning, IsContainer
  <2>2. Capped(<<>>) = <<>>
    BY FrameAssumption DEF Capped
  <2>3. ~(Len(<<>>) > MAX_PIPELINE)
    BY FrameAssumption
  <2>4. /\ BlankPicture.segments = Capped(NothingSent.strokes)
        /\ BlankPicture.brightness = NothingSent.level
        /\ (IF BlankPicture.have_pos THEN BlankPicture.cur ELSE CENTER) = NothingSent.at
    BY <2>2 DEF BlankPicture, NothingSent
  <2>5. BlankPicture.overflow
            = (Len(NothingSent.strokes) > MAX_PIPELINE \/ NothingSent.skipped)
    BY <2>3 DEF BlankPicture, NothingSent
  <2> QED
    BY <2>1, <2>4, <2>5 DEF Represents
<1>2. CASE it.flag = "RGB"
  <2>1. /\ After(pic, it) = [pic EXCEPT !.brightness = it.z]
        /\ Meaning(s, it) = [s EXCEPT !.level = it.z]
        /\ Represents(pic, s)
    BY <1>2 DEF After, Draw, Meaning, IsContainer, StartsFrame
  <2> QED
    BY <2>1 DEF Represents, PictureOK, PictureType, SentType
<1>3. CASE it.flag = "XY"
  <2>1. Represents(pic, s) /\ ~IsContainer(it)
    BY <1>3 DEF StartsFrame, IsContainer
  <2>2. it.blank \in BOOLEAN /\ clamp_dev_int(it.x) \in 0 .. RES_MAX
    BY <1>3, <2>1, WordFields, ClampType
  <2>3. CASE it.blank
    <3>1. /\ After(pic, it) = [pic EXCEPT !.cur = clamp_dev_int(it.x), !.have_pos = TRUE]
          /\ Meaning(s, it) = [s EXCEPT !.at = clamp_dev_int(it.x)]
      BY <1>3, <2>1, <2>3 DEF After, Draw, Meaning, SentType
    <3> QED
      BY <2>1, <3>1 DEF Represents, PictureOK, PictureType, SentType
  <2>4. CASE ~it.blank
    <3> DEFINE v == Stroke(s.at, clamp_dev_int(it.x), s.level)
               t == Meaning(s, it)
    <3>1. After(pic, it) = add_segments(pic, <<v>>)
      BY <1>3, <2>1, <2>4 DEF After, Draw, emit_lit, Represents, Stroke
    <3>2. t = [s EXCEPT !.at = clamp_dev_int(it.x), !.strokes = Append(@, v)]
      BY <1>3, <2>1, <2>4 DEF Meaning, SentType
    <3>3. v \in Vector /\ v.to = clamp_dev_int(it.x)
      BY <2>2 DEF Stroke, Vector, SentType
    <3>4. t \in SentType
      BY MeaningType
    <3> HIDE DEF v, t
    <3>5. s.strokes \in Seq(Vector) /\ Append(s.strokes, v) = s.strokes \o <<v>>
      BY <3>3, AppendIsConcat DEF SentType
    <3>6. /\ t.strokes = s.strokes \o <<v>> /\ t.skipped = s.skipped
          /\ t.level = s.level /\ t.at = v.to
      BY <3>2, <3>3, <3>5 DEF SentType
    <3>7. <<v>> \in Seq(Vector) /\ <<v>> # <<>> /\ <<v>>[Len(<<v>>)] = v
      BY <3>3
    <3>8. Represents(add_segments(pic, <<v>>), t)
      BY <2>1, <3>4, <3>6, <3>7, AddSegmentsRepresents
    <3> QED
      BY <3>1, <3>8 DEF t
  <2> QED
    BY <2>2, <2>3, <2>4
<1>4. CASE IsContainer(it)
  <2>1. Represents(pic, s) /\ it.flag = "EXT"
    BY <1>4 DEF StartsFrame, IsContainer
  <2>2. CASE it.length > EXT_MAX
    <3>1. /\ After(pic, it) = [pic EXCEPT !.overflow = TRUE]
          /\ Meaning(s, it) = [s EXCEPT !.skipped = TRUE]
      BY <1>4, <2>1, <2>2 DEF After, Meaning
    <3> QED
      BY <2>1, <3>1 DEF Represents, PictureOK, PictureType, SentType
  <2>3. CASE ~(it.length > EXT_MAX) /\ it.geom = <<>>
    <3>1. Clamped(it.geom) = <<>>
      BY <2>3 DEF Clamped
    <3>2. After(pic, it) = pic /\ Meaning(s, it) = s
      BY <1>4, <2>1, <2>3, <3>1 DEF After, Meaning, add_segments
    <3> QED
      BY <2>1, <3>2
  <2>4. CASE ~(it.length > EXT_MAX) /\ it.geom # <<>>
    <3> DEFINE g == Clamped(it.geom)
               t == Meaning(s, it)
    <3>1. g \in Seq(Vector) /\ Len(g) = Len(it.geom) /\ it.geom \in Seq(RawVector)
      BY <1>4, ContainerFields, ClampedType
    <3>2. t = [s EXCEPT !.strokes = @ \o g, !.at = g[Len(it.geom)].to]
      BY <1>4, <2>1, <2>4 DEF Meaning
    <3>3. After(pic, it) = add_segments(pic, g)
      BY <1>4, <2>4 DEF After
    <3>4. t \in SentType
      BY MeaningType
    <3> HIDE DEF g, t
    <3>5. g # <<>>
      BY <2>4, <3>1
    <3>6. /\ t.strokes = s.strokes \o g /\ t.skipped = s.skipped
          /\ t.level = s.level /\ t.at = g[Len(g)].to
      BY <3>1, <3>2 DEF SentType
    <3>7. Represents(add_segments(pic, g), t)
      BY <2>1, <3>1, <3>4, <3>5, <3>6, AddSegmentsRepresents
    <3> QED
      BY <3>3, <3>7 DEF t
  <2> QED
    BY <2>2, <2>3, <2>4
<1>5. CASE it.flag \notin {"FRAME", "COMPLETE", "RGB", "XY"} /\ ~IsContainer(it)
  <2>1. After(pic, it) = pic /\ Meaning(s, it) = s /\ Represents(pic, s)
    BY <1>5 DEF After, Draw, Meaning, StartsFrame
  <2> QED
    BY <2>1
<1> QED
  BY <1>1, <1>2, <1>3, <1>4, <1>5
-----------------------------------------------------------------------------
(* Induction over the natural numbers, with a set for the predicate.       *)
Less == {ss \in Nat \X Nat : ss[1] < ss[2]}

LEMMA LessIsWellFounded == IsWellFoundedOn(Less, Nat)
  BY NatLessThanWellFounded DEF OpToRel, Less

LEMMA Induction ==
    ASSUME NEW S, 0 \in S, \A n \in Nat : n \in S => n + 1 \in S
    PROVE  Nat \subseteq S
<1> DEFINE T == Nat \ S
<1> SUFFICES ASSUME T # {} PROVE FALSE
  OBVIOUS
<1>1. \E x \in T : \A y \in T : ~(<<y, x>> \in Less)
  <2>1. T \subseteq Nat
    OBVIOUS
  <2> HIDE DEF T
  <2> QED
    BY LessIsWellFounded, <2>1, WFMin
<1>2. PICK x \in T : \A y \in T : ~(<<y, x>> \in Less)
  BY <1>1
<1>3. x \in Nat /\ x # 0 /\ x - 1 \in Nat
  OBVIOUS
<1>4. x - 1 \in T /\ <<x - 1, x>> \in Less
  BY <1>3 DEF Less
<1> QED
  BY <1>2, <1>4

-----------------------------------------------------------------------------
(* Items one more at a time: what they compose and what they spell.  The   *)
(* library folds a sequence over the subsets of its domain, and flattens   *)
(* it along its prefixes.                                                  *)
Folded(m, D, f) ==
    f = [s \in SUBSET D |-> IF s = {} THEN NothingYet
                            ELSE Compose(f[s \ {Max(s)}], m[Max(s)])]

LEMMA FoldExists ==
    ASSUME NEW m
    PROVE  \A n \in Nat : \E f : Folded(m, 1 .. n, f)
<1> DEFINE S == {n \in Nat : \E f : Folded(m, 1 .. n, f)}
<1>1. 0 \in S
  <2> DEFINE f == [s \in SUBSET (1 .. 0) |-> NothingYet]
  <2>1. \A s \in SUBSET (1 .. 0) : s = {}
    OBVIOUS
  <2>2. f = [s \in SUBSET (1 .. 0) |-> IF s = {} THEN NothingYet
                                      ELSE Compose(f[s \ {Max(s)}], m[Max(s)])]
    BY <2>1
  <2> QED
    BY <2>2 DEF Folded
<1>2. ASSUME NEW n \in Nat, n \in S PROVE n + 1 \in S
  <2>1. PICK f : Folded(m, 1 .. n, f)
    BY <1>2
  <2> DEFINE g == [s \in SUBSET (1 .. n + 1) |->
                     IF n + 1 \in s THEN Compose(f[s \ {n + 1}], m[n + 1]) ELSE f[s]]
             h == [s \in SUBSET (1 .. n + 1) |-> IF s = {} THEN NothingYet
                     ELSE Compose(g[s \ {Max(s)}], m[Max(s)])]
  <2>2. \A s \in SUBSET (1 .. n + 1) : n + 1 \notin s => s \in SUBSET (1 .. n)
    OBVIOUS
  <2>3. \A s \in SUBSET (1 .. n) :
            f[s] = IF s = {} THEN NothingYet ELSE Compose(f[s \ {Max(s)}], m[Max(s)])
    BY <2>1 DEF Folded
  <2>4. ASSUME NEW s \in SUBSET (1 .. n + 1) PROVE g[s] = h[s]
    <3>1. CASE n + 1 \in s
      <4>1. \A y \in s : n + 1 >= y
        OBVIOUS
      <4>2. \A x \in s : (\A y \in s : x >= y) => x = n + 1
        BY <3>1
      <4>3. Max(s) = n + 1
        BY <3>1, <4>1, <4>2 DEF Max
      <4>4. n + 1 \notin s \ {n + 1} /\ s \ {n + 1} \in SUBSET (1 .. n + 1)
        OBVIOUS
      <4>5. g[s \ {n + 1}] = f[s \ {n + 1}]
        BY <4>4
      <4>6. h[s] = Compose(g[s \ {n + 1}], m[n + 1])
        BY <3>1, <4>3
      <4> QED
        BY <3>1, <4>5, <4>6
    <3>2. CASE n + 1 \notin s
      <4>1. s \in SUBSET (1 .. n) /\ g[s] = f[s]
        BY <2>2, <3>2
      <4>2. g[s \ {Max(s)}] = f[s \ {Max(s)}]
        <5>1. s \ {Max(s)} \in SUBSET (1 .. n + 1) /\ n + 1 \notin s \ {Max(s)}
          BY <3>2
        <5> QED
          BY <5>1
      <4>3. h[s] = IF s = {} THEN NothingYet ELSE Compose(f[s \ {Max(s)}], m[Max(s)])
        BY <4>2
      <4> QED
        BY <2>3, <4>1, <4>3
    <3> QED
      BY <3>1, <3>2
  <2>5. g = h
    BY <2>4
  <2> HIDE DEF g
  <2>6. Folded(m, 1 .. n + 1, g)
    BY <2>5 DEF Folded
  <2> QED
    BY <2>6
<1>3. Nat \subseteq S
  <2> HIDE DEF S
  <2> QED
    BY <1>1, <1>2, Induction
<1> QED
  BY <1>3

Alike(a, b, n) == \A k \in 1 .. n : a[k] = b[k]

\* Where a sequence with one item more agrees with it, so do their folds.
LEMMA FoldsAgree ==
    ASSUME NEW a, NEW b, NEW n \in Nat,
           Alike(a, b, n),
           NEW f, Folded(a, 1 .. n, f), NEW g, Folded(b, 1 .. n + 1, g)
    PROVE  f[1 .. n] = g[1 .. n]
<1> DEFINE S == {k \in Nat : k <= n => f[1 .. k] = g[1 .. k]}
<1>1. 0 \in S
  <2>1. 1 .. 0 = {} /\ {} \in SUBSET (1 .. n) /\ {} \in SUBSET (1 .. n + 1)
    OBVIOUS
  <2>2. f[{}] = NothingYet /\ g[{}] = NothingYet
    BY <2>1 DEF Folded
  <2> QED
    BY <2>1, <2>2
<1>2. ASSUME NEW k \in Nat, k \in S PROVE k + 1 \in S
  <2> SUFFICES ASSUME k + 1 <= n PROVE f[1 .. k + 1] = g[1 .. k + 1]
    OBVIOUS
  <2>1. /\ 1 .. k + 1 \in SUBSET (1 .. n) /\ 1 .. k + 1 \in SUBSET (1 .. n + 1)
        /\ k + 1 \in 1 .. k + 1
        /\ (1 .. k + 1) \ {k + 1} = 1 .. k
    OBVIOUS
  <2>2. Max(1 .. k + 1) = k + 1
    <3>1. \A x \in 1 .. k + 1 : (\A y \in 1 .. k + 1 : x >= y) => x = k + 1
      OBVIOUS
    <3> QED
      BY <3>1 DEF Max
  <2>3. 1 .. k + 1 # {}
    BY <2>1
  <2>4. \A s \in SUBSET (1 .. n) :
            f[s] = IF s = {} THEN NothingYet ELSE Compose(f[s \ {Max(s)}], a[Max(s)])
    BY DEF Folded
  <2>5. \A s \in SUBSET (1 .. n + 1) :
            g[s] = IF s = {} THEN NothingYet ELSE Compose(g[s \ {Max(s)}], b[Max(s)])
    BY DEF Folded
  <2> DEFINE s == 1 .. k + 1
  <2>6. s \ {Max(s)} = 1 .. k /\ Max(s) = k + 1 /\ s # {}
    BY <2>1, <2>2, <2>3
  <2>7. s \in SUBSET (1 .. n) /\ s \in SUBSET (1 .. n + 1)
    BY <2>1
  <2> HIDE DEF s
  <2>8. f[s] = Compose(f[1 .. k], a[k + 1]) /\ g[s] = Compose(g[1 .. k], b[k + 1])
    BY <2>4, <2>5, <2>6, <2>7
  <2>9. a[k + 1] = b[k + 1] /\ f[1 .. k] = g[1 .. k]
    BY <1>2 DEF Alike
  <2> QED
    BY <2>8, <2>9 DEF s
<1>3. Nat \subseteq S
  <2> HIDE DEF S
  <2> QED
    BY <1>1, <1>2, Induction
<1> QED
  BY <1>3

LEMMA ComposedFolded ==
    ASSUME NEW m \in Seq(Items)
    PROVE  \E f : Folded(m, 1 .. Len(m), f) /\ Composed(m) = f[1 .. Len(m)]
<1> DEFINE f == CHOOSE f : Folded(m, DOMAIN m, f)
<1>1. Composed(m) = f[DOMAIN m]
  BY DEF Composed, FoldLeft, MapThenFoldSet, Folded
<1>2. DOMAIN m = 1 .. Len(m) /\ Len(m) \in Nat
  OBVIOUS
<1>3. Folded(m, DOMAIN m, f)
  BY <1>2, FoldExists
<1> QED
  BY <1>1, <1>2, <1>3

\* What nothing composes, and one item more.
LEMMA ComposedNothing == Composed(<<>>) = NothingYet
<1>1. <<>> \in Seq(Items) /\ Len(<<>>) = 0 /\ 1 .. 0 = {}
  OBVIOUS
<1>2. PICK f : Folded(<<>>, 1 .. 0, f) /\ Composed(<<>>) = f[1 .. 0]
  BY <1>1, ComposedFolded
<1> QED
  BY <1>1, <1>2 DEF Folded

LEMMA ComposedAppend ==
    ASSUME NEW m \in Seq(Items), NEW it \in Items
    PROVE  Composed(Append(m, it)) = Compose(Composed(m), it)
<1> DEFINE n == Len(m)
           t == Append(m, it)
<1>1. /\ t \in Seq(Items) /\ n \in Nat /\ Len(t) = n + 1 /\ t[n + 1] = it
      /\ \A k \in 1 .. n : t[k] = m[k]
  OBVIOUS
<1>2. PICK f : Folded(m, 1 .. n, f) /\ Composed(m) = f[1 .. n]
  BY ComposedFolded
<1> HIDE DEF n, t
<1>3. PICK g : Folded(t, 1 .. n + 1, g) /\ Composed(t) = g[1 .. n + 1]
  BY <1>1, ComposedFolded
<1>4. f[1 .. n] = g[1 .. n]
  <2>1. n \in Nat /\ Folded(m, 1 .. n, f) /\ Folded(t, 1 .. n + 1, g)
    BY <1>1, <1>2, <1>3
  <2>2. Alike(m, t, n)
    BY <1>1 DEF Alike
  <2> QED
    BY <2>1, <2>2, FoldsAgree
<1>5. (1 .. n + 1) \ {n + 1} = 1 .. n /\ 1 .. n + 1 # {}
  BY <1>1
<1>6. Max(1 .. n + 1) = n + 1
  <2> DEFINE r == 1 .. n + 1
  <2>1. \A x \in r : (\A y \in r : x >= y) => x = n + 1
    BY <1>1
  <2>2. n + 1 \in r /\ \A y \in r : n + 1 >= y
    BY <1>1
  <2> HIDE DEF r
  <2>3. Max(r) = n + 1
    BY <2>1, <2>2 DEF Max
  <2> QED
    BY <2>3 DEF r
<1>7. g[1 .. n + 1] = Compose(g[1 .. n], it)
  <2> DEFINE r == 1 .. n + 1
             rest == 1 .. n
  <2>1. Folded(t, r, g) /\ r # {} /\ Max(r) = n + 1 /\ r \ {n + 1} = rest /\ t[n + 1] = it
    BY <1>1, <1>3, <1>5, <1>6
  <2> HIDE DEF r, rest
  <2>2. g[r] = Compose(g[r \ {Max(r)}], t[Max(r)])
    BY <2>1 DEF Folded
  <2>3. g[r] = Compose(g[rest], it)
    BY <2>1, <2>2
  <2> QED
    BY <2>3 DEF r, rest
<1> QED
  BY <1>2, <1>3, <1>4, <1>7 DEF t


Flattened(s, n, f) == f = [i \in 1 .. n |-> IF i = 1 THEN s[i] ELSE f[i - 1] \o s[i]]

LEMMA FlatteningExists ==
    ASSUME NEW s
    PROVE  \A n \in Nat : \E f : Flattened(s, n, f)
<1> DEFINE S == {n \in Nat : \E f : Flattened(s, n, f)}
<1>1. 0 \in S
  <2> DEFINE f == [i \in 1 .. 0 |-> <<>>]
  <2>1. f = [i \in 1 .. 0 |-> IF i = 1 THEN s[i] ELSE f[i - 1] \o s[i]]
    OBVIOUS
  <2> QED
    BY <2>1 DEF Flattened
<1>2. ASSUME NEW n \in Nat, n \in S PROVE n + 1 \in S
  <2>1. PICK f : Flattened(s, n, f)
    BY <1>2
  <2> DEFINE g == [i \in 1 .. n + 1 |->
                     IF i = n + 1 THEN IF i = 1 THEN s[i] ELSE f[i - 1] \o s[i] ELSE f[i]]
  <2>2. \A i \in 1 .. n : f[i] = IF i = 1 THEN s[i] ELSE f[i - 1] \o s[i]
    BY <2>1 DEF Flattened
  <2>3. ASSUME NEW i \in 1 .. n + 1
        PROVE  g[i] = IF i = 1 THEN s[i] ELSE g[i - 1] \o s[i]
    <3>1. i # 1 => i - 1 \in 1 .. n + 1 /\ i - 1 # n + 1
      OBVIOUS
    <3>2. i # 1 => g[i - 1] = f[i - 1]
      BY <3>1
    <3>3. i # n + 1 => i \in 1 .. n
      OBVIOUS
    <3> QED
      BY <2>2, <3>2, <3>3
  <2>4. g = [i \in 1 .. n + 1 |-> IF i = 1 THEN s[i] ELSE g[i - 1] \o s[i]]
    BY <2>3
  <2> HIDE DEF g
  <2>5. Flattened(s, n + 1, g)
    BY <2>4 DEF Flattened
  <2> QED
    BY <2>5
<1>3. Nat \subseteq S
  <2> HIDE DEF S
  <2> QED
    BY <1>1, <1>2, Induction
<1> QED
  BY <1>3

SameUpTo(a, b, n) == \A k \in 1 .. n : a[k] = b[k]

LEMMA FlatteningsAgree ==
    ASSUME NEW a, NEW b, NEW n \in Nat, n # 0, SameUpTo(a, b, n),
           NEW f, Flattened(a, n, f), NEW g, Flattened(b, n + 1, g)
    PROVE  f[n] = g[n]
<1> DEFINE S == {k \in Nat : k \in 1 .. n => f[k] = g[k]}
<1>1. 0 \in S
  OBVIOUS
<1>2. ASSUME NEW k \in Nat, k \in S PROVE k + 1 \in S
  <2> SUFFICES ASSUME k + 1 \in 1 .. n PROVE f[k + 1] = g[k + 1]
    OBVIOUS
  <2> DEFINE i == k + 1
  <2>1. i \in 1 .. n /\ i \in 1 .. n + 1 /\ i - 1 = k /\ a[i] = b[i]
    BY DEF SameUpTo
  <2>2. i # 1 => f[k] = g[k]
    BY <1>2
  <2> HIDE DEF i
  <2>3. f[i] = IF i = 1 THEN a[i] ELSE f[i - 1] \o a[i]
    BY <2>1 DEF Flattened
  <2>4. g[i] = IF i = 1 THEN b[i] ELSE g[i - 1] \o b[i]
    BY <2>1 DEF Flattened
  <2>5. f[i] = g[i]
    BY <2>1, <2>2, <2>3, <2>4
  <2> QED
    BY <2>5 DEF i
<1>3. Nat \subseteq S
  <2> HIDE DEF S
  <2> QED
    BY <1>1, <1>2, Induction
<1> QED
  BY <1>3

LEMMA FlattenFlattened ==
    ASSUME NEW s, Len(s) \in Nat \ {0}
    PROVE  \E f : Flattened(s, Len(s), f) /\ FlattenSeq(s) = f[Len(s)]
<1> DEFINE f == CHOOSE f : Flattened(s, Len(s), f)
<1>1. FlattenSeq(s) = f[Len(s)]
  BY DEF FlattenSeq, Flattened
<1>2. Flattened(s, Len(s), f)
  BY FlatteningExists
<1> QED
  BY <1>1, <1>2

LEMMA FlattenAppend ==
    ASSUME NEW S, NEW s \in Seq(Seq(S)), NEW e \in Seq(S)
    PROVE  FlattenSeq(Append(s, e)) = IF s = <<>> THEN e ELSE FlattenSeq(s) \o e
<1> DEFINE n == Len(s)
           t == Append(s, e)
<1>1. /\ n \in Nat /\ Len(t) = n + 1 /\ t[n + 1] = e
      /\ \A k \in 1 .. n : s[k] = t[k]
      /\ n = 0 <=> s = <<>>
  OBVIOUS
<1> HIDE DEF t
<1>2. PICK g : Flattened(t, n + 1, g) /\ FlattenSeq(t) = g[n + 1]
  <2>1. Len(t) \in Nat \ {0}
    BY <1>1
  <2> QED
    BY <1>1, <2>1, FlattenFlattened
<1> HIDE DEF n
<1>3. g[n + 1] = IF n + 1 = 1 THEN t[n + 1] ELSE g[n] \o t[n + 1]
  <2>1. n + 1 \in 1 .. n + 1 /\ (n + 1) - 1 = n
    BY <1>1
  <2> QED
    BY <1>2, <2>1 DEF Flattened
<1>4. CASE n = 0
  BY <1>1, <1>2, <1>3, <1>4 DEF t
<1>5. CASE n # 0
  <2>1. PICK f : Flattened(s, n, f) /\ FlattenSeq(s) = f[n]
    BY <1>1, <1>5, FlattenFlattened DEF n
  <2>2. f[n] = g[n]
    <3>1. SameUpTo(s, t, n)
      BY <1>1 DEF SameUpTo
    <3> QED
      BY <1>1, <1>2, <1>5, <2>1, <3>1, FlatteningsAgree
  <2> QED
    BY <1>1, <1>2, <1>3, <1>5, <2>1, <2>2 DEF t
<1> QED
  BY <1>4, <1>5


LEMMA FlattenNothing == FlattenSeq(<<>>) = <<>>
  BY DEF FlattenSeq

-----------------------------------------------------------------------------
(* Places in the bytes of a sequence of items.                             *)
UpTo(m, j) == SubSeq(m, 1, j)
Offset(m, j) == Len(Spelt(UpTo(m, j)))
SoFar(m, j) == Composed(UpTo(m, j))

LEMMA SizeType ==
    ASSUME NEW it \in Items
    PROVE  Size(it) \in Nat /\ Size(it) > 1
  BY ContainerFields, FrameAssumption DEF Size

LEMMA UpToNext ==
    ASSUME NEW m \in Seq(Items), NEW j \in Nat, j < Len(m)
    PROVE  /\ UpTo(m, j) \in Seq(Items) /\ m[j + 1] \in Items
           /\ UpTo(m, j + 1) = Append(UpTo(m, j), m[j + 1])
<1>1. Len(m) \in Nat /\ \A i \in 1 .. j : m[i] \in Items
  OBVIOUS
<1>2. UpTo(m, j) \in Seq(Items) /\ m[j + 1] \in Items
  BY <1>1, SubSeqProperties DEF UpTo
<1>3. SubSeq(m, 1, j + 1) = SubSeq(m, 1, (j + 1) - 1) \o <<m[j + 1]>>
  <2>1. 1 \in 1 .. Len(m) /\ j + 1 \in 1 .. Len(m)
    BY <1>1
  <2> QED
    BY <2>1, SubSeqRecursiveSecond
<1>4. (j + 1) - 1 = j
  OBVIOUS
<1>5. Append(UpTo(m, j), m[j + 1]) = UpTo(m, j) \o <<m[j + 1]>>
  BY <1>2, AppendIsConcat
<1> QED
  BY <1>2, <1>3, <1>4, <1>5 DEF UpTo

LEMMA UpToEnds ==
    ASSUME NEW m \in Seq(Items)
    PROVE  UpTo(m, 0) = <<>> /\ UpTo(m, Len(m)) = m
  BY SubSeqEmpty, SubSeqFull DEF UpTo

\* One item more composes and spells so much more.
LEMMA SoFarNext ==
    ASSUME NEW m \in Seq(Items), NEW j \in Nat, j < Len(m)
    PROVE  SoFar(m, j + 1) = Compose(SoFar(m, j), m[j + 1])
  BY UpToNext, ComposedAppend DEF SoFar

LEMMA SoFarEnds ==
    ASSUME NEW m \in Seq(Items)
    PROVE  SoFar(m, 0) = NothingYet /\ SoFar(m, Len(m)) = Composed(m)
  BY UpToEnds, ComposedNothing DEF SoFar

LEMMA SpeltNothing == Spelt(<<>>) = <<>>
<1>1. [i \in DOMAIN <<>> |-> BytesOf(<<>>[i], 0, Size(<<>>[i]))] = <<>>
  OBVIOUS
<1> QED
  BY <1>1, FlattenNothing DEF Spelt

\* The items' bytes, item by item.
Spellings(m) == [i \in DOMAIN m |-> BytesOf(m[i], 0, Size(m[i]))]

LEMMA SpellingsType ==
    ASSUME NEW m \in Seq(Items)
    PROVE  /\ Spellings(m) \in Seq(Seq(Bytes)) /\ Len(Spellings(m)) = Len(m)
           /\ \A i \in 1 .. Len(m) : Spellings(m)[i] = BytesOf(m[i], 0, Size(m[i]))
<1> DEFINE B == Seq(Bytes)
           spell(x) == BytesOf(x, 0, Size(x))
<1>1. \A x \in Items : spell(x) \in B
  BY SizeType, BytesOfAppend
<1>2. Spellings(m) = [i \in 1 .. Len(m) |-> spell(m[i])]
  BY DEF Spellings
<1> HIDE DEF B, spell
<1>3. Spellings(m) \in Seq(B) /\ Len(Spellings(m)) = Len(m)
      /\ \A i \in 1 .. Len(m) : Spellings(m)[i] = spell(m[i])
  BY <1>1, <1>2
<1> QED
  BY <1>3 DEF B, spell

LEMMA SpellingsAppend ==
    ASSUME NEW m \in Seq(Items), NEW it \in Items
    PROVE  /\ BytesOf(it, 0, Size(it)) \in Seq(Bytes)
           /\ Spellings(Append(m, it)) = Append(Spellings(m), BytesOf(it, 0, Size(it)))
<1> DEFINE B == Seq(Bytes)
           e == BytesOf(it, 0, Size(it))
           t == Append(m, it)
           a == Spellings(t)
           b == Append(Spellings(m), e)
<1>1. e \in B
  BY SizeType, BytesOfAppend
<1>2. t \in Seq(Items) /\ Len(t) = Len(m) + 1 /\ t[Len(m) + 1] = it
      /\ \A i \in 1 .. Len(m) : t[i] = m[i]
  OBVIOUS
<1> HIDE DEF t
<1>3. /\ a \in Seq(B) /\ Len(a) = Len(m) + 1
      /\ \A i \in 1 .. Len(m) + 1 : a[i] = BytesOf(t[i], 0, Size(t[i]))
  BY <1>2, SpellingsType
<1>4. /\ Spellings(m) \in Seq(B) /\ Len(Spellings(m)) = Len(m)
      /\ \A i \in 1 .. Len(m) : Spellings(m)[i] = BytesOf(m[i], 0, Size(m[i]))
  BY SpellingsType
<1> HIDE DEF B, e
<1>5. /\ b \in Seq(B) /\ Len(b) = Len(m) + 1 /\ b[Len(m) + 1] = e
      /\ \A i \in 1 .. Len(m) : b[i] = Spellings(m)[i]
  BY <1>1, <1>4
<1> HIDE DEF a, b
<1>6. \A i \in 1 .. Len(m) + 1 : a[i] = b[i]
  <2>1. \A i \in 1 .. Len(m) : a[i] = b[i]
    BY <1>2, <1>3, <1>4, <1>5
  <2>2. a[Len(m) + 1] = b[Len(m) + 1]
    BY <1>2, <1>3, <1>5 DEF e
  <2> QED
    BY <2>1, <2>2
<1>7. a = b
  BY <1>3, <1>5, <1>6, SeqEqual
<1> QED
  BY <1>1, <1>7 DEF a, b, t, e, B

LEMMA SpeltAppend ==
    ASSUME NEW m \in Seq(Items), NEW it \in Items, Spelt(m) \in Seq(Bytes)
    PROVE  /\ Spelt(Append(m, it)) = Spelt(m) \o BytesOf(it, 0, Size(it))
           /\ Spelt(Append(m, it)) \in Seq(Bytes)
<1> DEFINE e == BytesOf(it, 0, Size(it))
           t == Append(m, it)
<1>2. e \in Seq(Bytes) /\ Spellings(t) = Append(Spellings(m), e)
  BY SpellingsAppend
<1>3. Spellings(m) \in Seq(Seq(Bytes))
  BY SpellingsType
<1>4. Spelt(t) = FlattenSeq(Spellings(t)) /\ Spelt(m) = FlattenSeq(Spellings(m))
  BY DEF Spelt, Spellings
<1> HIDE DEF t, e
<1>5. Spelt(t) = IF Spellings(m) = <<>> THEN e ELSE FlattenSeq(Spellings(m)) \o e
  BY <1>2, <1>3, <1>4, FlattenAppend
<1>6. Spelt(t) = Spelt(m) \o e
  BY <1>2, <1>4, <1>5, FlattenNothing, ConcatEmptySeq
<1> QED
  BY <1>2, <1>6, ConcatProperties DEF t, e

LEMMA SpeltType ==
    ASSUME NEW m \in Seq(Items)
    PROVE  \A j \in 0 .. Len(m) : Spelt(UpTo(m, j)) \in Seq(Bytes)
<1> DEFINE S == {j \in Nat : j <= Len(m) => Spelt(UpTo(m, j)) \in Seq(Bytes)}
<1>1. 0 \in S
  <2>1. Spelt(UpTo(m, 0)) \in Seq(Bytes)
    BY UpToEnds, SpeltNothing, NoBytes
  <2> QED
    BY <2>1
<1>2. ASSUME NEW j \in Nat, j \in S PROVE j + 1 \in S
  <2> SUFFICES ASSUME j + 1 <= Len(m) PROVE Spelt(UpTo(m, j + 1)) \in Seq(Bytes)
    OBVIOUS
  <2>1. j < Len(m) /\ Spelt(UpTo(m, j)) \in Seq(Bytes)
    BY <1>2
  <2>2. /\ UpTo(m, j) \in Seq(Items) /\ m[j + 1] \in Items
        /\ UpTo(m, j + 1) = Append(UpTo(m, j), m[j + 1])
    BY <2>1, UpToNext
  <2> QED
    BY <2>1, <2>2, SpeltAppend
<1>3. Nat \subseteq S
  <2> HIDE DEF S
  <2> QED
    BY <1>1, <1>2, Induction
<1> QED
  BY <1>3

LEMMA WholeType ==
    ASSUME NEW m \in Seq(Items)
    PROVE  /\ Spelt(m) \in Seq(Bytes) /\ Len(Spelt(m)) \in Nat
           /\ Offset(m, Len(m)) = Len(Spelt(m)) /\ Offset(m, 0) = 0
<1>1. Spelt(UpTo(m, Len(m))) \in Seq(Bytes)
  BY SpeltType
<1> QED
  BY <1>1, UpToEnds, SpeltNothing DEF Offset

LEMMA OffsetNext ==
    ASSUME NEW m \in Seq(Items), NEW j \in Nat, j < Len(m)
    PROVE  /\ Offset(m, j) \in Nat
           /\ Offset(m, j + 1) = Offset(m, j) + Size(m[j + 1])
           /\ Spelt(UpTo(m, j + 1)) = Spelt(UpTo(m, j)) \o BytesOf(m[j + 1], 0, Size(m[j + 1]))
<1>1. UpTo(m, j) \in Seq(Items) /\ m[j + 1] \in Items /\ Spelt(UpTo(m, j)) \in Seq(Bytes)
  BY UpToNext, SpeltType
<1>2. Spelt(UpTo(m, j + 1)) = Spelt(UpTo(m, j)) \o BytesOf(m[j + 1], 0, Size(m[j + 1]))
  BY <1>1, UpToNext, SpeltAppend
<1> DEFINE e == BytesOf(m[j + 1], 0, Size(m[j + 1]))
           s == Spelt(UpTo(m, j))
<1>3. e \in Seq(Bytes) /\ Len(e) = Size(m[j + 1]) - 0 /\ Size(m[j + 1]) \in Nat
  BY <1>1, SizeType, BytesOfAppend
<1>4. s \in Seq(Bytes)
  BY <1>1
<1> HIDE DEF e, s
<1>5. Len(s \o e) = Len(s) + Len(e) /\ Len(s) \in Nat
  <2>1. e \in Seq(Bytes)
    BY <1>3
  <2>2. Len(s \o e) = Len(s) + Len(e)
    BY <1>4, <2>1, ConcatProperties
  <2>3. Len(s) \in Nat
    BY <1>4, LenProperties
  <2> QED
    BY <2>2, <2>3
<1> QED
  BY <1>2, <1>3, <1>5 DEF Offset, s, e

\* What an item spells stays where it is, and offsets grow.
LEMMA OffsetsGrow ==
    ASSUME NEW m \in Seq(Items), NEW j \in 0 .. Len(m)
    PROVE  \A l \in j .. Len(m) :
              /\ Offset(m, j) <= Offset(m, l)
              /\ \A i \in 1 .. Offset(m, j) : Spelt(UpTo(m, l))[i] = Spelt(UpTo(m, j))[i]
<1> DEFINE Holds(l) == /\ Offset(m, j) <= Offset(m, l)
                       /\ \A i \in 1 .. Offset(m, j) :
                             Spelt(UpTo(m, l))[i] = Spelt(UpTo(m, j))[i]
           S == {d \in Nat : j + d <= Len(m) => Holds(j + d)}
<1>1. \A l \in 0 .. Len(m) : Spelt(UpTo(m, l)) \in Seq(Bytes) /\ Offset(m, l) \in Nat
  BY SpeltType DEF Offset
<1>2. 0 \in S
  BY <1>1
<1>3. ASSUME NEW d \in Nat, d \in S PROVE d + 1 \in S
  <2> SUFFICES ASSUME j + (d + 1) <= Len(m) PROVE Holds(j + (d + 1))
    OBVIOUS
  <2> DEFINE l == j + d
  <2>1. l \in Nat /\ l < Len(m) /\ Holds(l) /\ j + (d + 1) = l + 1 /\ l \in 0 .. Len(m)
    BY <1>3
  <2> DEFINE e == BytesOf(m[l + 1], 0, Size(m[l + 1]))
             s == Spelt(UpTo(m, l))
  <2> HIDE DEF l
  <2>2. /\ Offset(m, l) \in Nat /\ Offset(m, l) = Len(s)
        /\ Offset(m, l + 1) = Offset(m, l) + Size(m[l + 1])
        /\ Spelt(UpTo(m, l + 1)) = s \o e
    BY <2>1, OffsetNext DEF Offset
  <2>3. s \in Seq(Bytes) /\ e \in Seq(Bytes) /\ Size(m[l + 1]) \in Nat
    <3>1. m[l + 1] \in Items
      BY <2>1, UpToNext
    <3>2. Size(m[l + 1]) \in Nat
      BY <3>1, SizeType
    <3>3. e \in Seq(Bytes)
      BY <3>1, <3>2, BytesOfAppend
    <3>4. s \in Seq(Bytes)
      BY <1>1, <2>1
    <3> QED
      BY <3>2, <3>3, <3>4
  <2> HIDE DEF s, e
  <2>4. \A i \in 1 .. Len(s) : (s \o e)[i] = s[i]
    BY <2>3, ConcatProperties
  <2>5. Offset(m, j) \in Nat /\ Offset(m, j) <= Offset(m, l)
        /\ \A i \in 1 .. Offset(m, j) : s[i] = Spelt(UpTo(m, j))[i]
    BY <1>1, <2>1 DEF s
  <2>6. Offset(m, j) <= Offset(m, l + 1)
    BY <2>2, <2>3, <2>5
  <2>7. ASSUME NEW i \in 1 .. Offset(m, j)
        PROVE  Spelt(UpTo(m, l + 1))[i] = Spelt(UpTo(m, j))[i]
    <3>1. i \in 1 .. Len(s)
      BY <2>2, <2>5
    <3> QED
      BY <2>2, <2>4, <2>5, <3>1
  <2>8. Holds(l + 1)
    BY <2>6, <2>7
  <2> QED
    BY <2>1, <2>8
<1>4. Nat \subseteq S
  <2> HIDE DEF S
  <2> QED
    BY <1>2, <1>3, Induction
<1>5. ASSUME NEW l \in j .. Len(m) PROVE Holds(l)
  <2>1. l - j \in S /\ j + (l - j) = l /\ l <= Len(m)
    BY <1>4
  <2> QED
    BY <2>1
<1> QED
  BY <1>5

\* The byte at a place.
LEMMA SpeltAt ==
    ASSUME NEW m \in Seq(Items), NEW j \in Nat, j < Len(m),
           NEW k \in Nat, k < Size(m[j + 1])
    PROVE  /\ Offset(m, j) + k \in Nat /\ Offset(m, j) + k < Len(Spelt(m))
           /\ Spelt(m)[Offset(m, j) + k + 1] = <<m[j + 1], k + 1>>
<1> DEFINE it == m[j + 1]
           s == Spelt(UpTo(m, j))
           e == BytesOf(it, 0, Size(it))
           n == Offset(m, j)
<1>1. it \in Items /\ Size(it) \in Nat /\ s \in Seq(Bytes)
  BY UpToNext, SizeType, SpeltType
<1>2. /\ n \in Nat /\ n = Len(s)
      /\ Offset(m, j + 1) = n + Size(it)
      /\ Spelt(UpTo(m, j + 1)) = s \o e
  BY OffsetNext DEF Offset
<1>3. e \in Seq(Bytes) /\ Len(e) = Size(it) - 0 /\ e[k + 1] = <<it, k + 1>>
  <2>1. e \in Seq(Bytes) /\ Len(e) = Size(it) - 0
    BY <1>1, BytesOfAppend
  <2>2. e[k + 1] = <<it, 0 + (k + 1)>>
    BY <1>1 DEF BytesOf
  <2> QED
    BY <2>1, <2>2
<1> HIDE DEF it, s, e, n
<1>4. (s \o e)[n + k + 1] = e[k + 1]
  <2>1. n + k + 1 \in 1 .. Len(s) + Len(e) /\ ~(n + k + 1 <= Len(s))
        /\ (n + k + 1) - Len(s) = k + 1
    BY <1>1, <1>2, <1>3 DEF it
  <2> HIDE DEF it
  <2> DEFINE i == n + k + 1
  <2>2. i \in 1 .. Len(s) + Len(e) /\ ~(i <= Len(s)) /\ i - Len(s) = k + 1
    BY <2>1
  <2> HIDE DEF i
  <2>3. (s \o e)[i] = e[k + 1]
    BY <1>1, <1>3, <2>2, ConcatProperties
  <2> QED
    BY <2>3 DEF i
<1>5. /\ Offset(m, j + 1) <= Len(Spelt(m))
      /\ \A i \in 1 .. Offset(m, j + 1) : Spelt(m)[i] = Spelt(UpTo(m, j + 1))[i]
  <2>1. j + 1 \in 0 .. Len(m) /\ Len(m) \in (j + 1) .. Len(m)
    OBVIOUS
  <2> QED
    BY <2>1, OffsetsGrow, UpToEnds DEF Offset
<1>6. n + k + 1 \in 1 .. Offset(m, j + 1)
  BY <1>1, <1>2 DEF it
<1>7. Len(Spelt(m)) \in Nat
  BY WholeType
<1>8. Spelt(m)[n + k + 1] = <<it, k + 1>>
  BY <1>2, <1>3, <1>4, <1>5, <1>6
<1>9. n + k \in Nat /\ n + k < Len(Spelt(m))
  BY <1>1, <1>2, <1>5, <1>7 DEF it
<1> QED
  BY <1>8, <1>9 DEF n, it


LEMMA SoFarFields ==
    ASSUME NEW m \in Seq(Items), NEW j \in Nat, j < Len(m)
    PROVE  /\ SoFar(m, j + 1).drawn = Meaning(SoFar(m, j).drawn, m[j + 1])
           /\ SoFar(m, j + 1).out = IF m[j + 1].flag = "COMPLETE"
                                    THEN Append(SoFar(m, j).out, Showable(SoFar(m, j).drawn))
                                    ELSE SoFar(m, j).out
           /\ SoFar(m, j + 1).over = (SoFar(m, j).over \/ m[j + 1].flag = "EXIT")
<1> DEFINE c == SoFar(m, j)
           d == SoFar(m, j + 1)
           it == m[j + 1]
<1>1. d = Compose(c, it)
  BY SoFarNext
<1> HIDE DEF c, d, it
<1>2. /\ d.drawn = Meaning(c.drawn, it)
      /\ d.out = IF it.flag = "COMPLETE" THEN Append(c.out, Showable(c.drawn)) ELSE c.out
      /\ d.over = (c.over \/ it.flag = "EXIT")
  BY <1>1 DEF Compose
<1> QED
  BY <1>2 DEF c, d, it

LEMMA SoFarType ==
    ASSUME NEW m \in Seq(Items)
    PROVE  \A j \in 0 .. Len(m) : SoFar(m, j).drawn \in SentType
<1> DEFINE S == {j \in Nat : j <= Len(m) => SoFar(m, j).drawn \in SentType}
<1>1. 0 \in S
  BY SoFarEnds, NothingSentType DEF NothingYet
<1>2. ASSUME NEW j \in Nat, j \in S PROVE j + 1 \in S
  <2> SUFFICES ASSUME j + 1 <= Len(m) PROVE SoFar(m, j + 1).drawn \in SentType
    OBVIOUS
  <2>1. j < Len(m) /\ SoFar(m, j).drawn \in SentType
    BY <1>2
  <2> QED
    BY <2>1, UpToNext, SoFarFields, MeaningType
<1>3. Nat \subseteq S
  <2> HIDE DEF S
  <2> QED
    BY <1>1, <1>2, Induction
<1> QED
  BY <1>3

\* The frames composed are ones a receiver can show.
ShowableFrames == {Showable(s) : s \in SentType}

LEMMA OutType ==
    ASSUME NEW m \in Seq(Items)
    PROVE  \A j \in 0 .. Len(m) : SoFar(m, j).out \in Seq(ShowableFrames)
<1> DEFINE S == {j \in Nat : j <= Len(m) => SoFar(m, j).out \in Seq(ShowableFrames)}
<1>1. 0 \in S
  <2>1. SoFar(m, 0) = NothingYet /\ NothingYet.out = <<>>
    BY SoFarEnds DEF NothingYet, NoFrames
  <2>2. <<>> \in Seq(ShowableFrames)
    OBVIOUS
  <2> QED
    BY <2>1, <2>2
<1>2. ASSUME NEW j \in Nat, j \in S PROVE j + 1 \in S
  <2> SUFFICES ASSUME j + 1 <= Len(m) PROVE SoFar(m, j + 1).out \in Seq(ShowableFrames)
    OBVIOUS
  <2>1. /\ j < Len(m) /\ SoFar(m, j).out \in Seq(ShowableFrames)
        /\ SoFar(m, j).drawn \in SentType
    BY <1>2, SoFarType
  <2> DEFINE c == SoFar(m, j)
  <2>2. SoFar(m, j + 1).out = IF m[j + 1].flag = "COMPLETE"
                              THEN Append(c.out, Showable(c.drawn)) ELSE c.out
    BY <2>1, SoFarFields
  <2>3. Showable(c.drawn) \in ShowableFrames /\ c.out \in Seq(ShowableFrames)
    BY <2>1 DEF ShowableFrames
  <2> HIDE DEF c
  <2>4. Append(c.out, Showable(c.drawn)) \in Seq(ShowableFrames)
    BY <2>3, AppendProperties
  <2> QED
    BY <2>2, <2>3, <2>4
<1>3. Nat \subseteq S
  <2> HIDE DEF S
  <2> QED
    BY <1>1, <1>2, Induction
<1> QED
  BY <1>3

-----------------------------------------------------------------------------
(* A decoder fed a sequence of items from its beginning: where it stands   *)
(* after j of them and k bytes of the next.                                *)
StandsAt(p, m, j, k) ==
    /\ j \in 0 .. Len(m) /\ k \in Nat
    /\ k = 0 => Between(p)
    /\ k # 0 => j < Len(m) /\ k < Size(m[j + 1]) /\ Inside(p, m[j + 1], k)

LEMMA BetweenIsInside ==
    ASSUME NEW p, Between(p), NEW it \in Items
    PROVE  Inside(p, it, 0)
<1>1. BytesOf(it, 0, 0) = <<>>
  BY DEF BytesOf
<1> QED
  BY <1>1, FrameAssumption DEF Between, Inside

\* The next byte is the one the decoder is waiting for.
LEMMA NextByte ==
    ASSUME NEW m \in Seq(Items), NEW p, NEW j, NEW k, StandsAt(p, m, j, k),
           Offset(m, j) + k < Len(Spelt(m))
    PROVE  /\ j \in Nat /\ j < Len(m) /\ k \in Nat
           /\ m[j + 1] \in Items /\ k < Size(m[j + 1]) /\ Inside(p, m[j + 1], k)
           /\ Spelt(m)[Offset(m, j) + k + 1] = <<m[j + 1], k + 1>>
<1>1. j \in 0 .. Len(m) /\ k \in Nat /\ Len(m) \in Nat
  BY DEF StandsAt
<1>2. j < Len(m)
  <2>1. CASE j = Len(m)
    <3>1. k = 0
      BY <2>1 DEF StandsAt
    <3>2. Offset(m, j) = Len(Spelt(m)) /\ Len(Spelt(m)) \in Nat
      BY <2>1, WholeType
    <3> QED
      BY <3>1, <3>2
  <2> QED
    BY <1>1, <2>1
<1>3. m[j + 1] \in Items /\ Size(m[j + 1]) \in Nat /\ Size(m[j + 1]) > 1
  BY <1>1, <1>2, UpToNext, SizeType
<1>4. k < Size(m[j + 1]) /\ Inside(p, m[j + 1], k)
  <2>1. CASE k = 0
    BY <1>3, <2>1, BetweenIsInside DEF StandsAt
  <2>2. CASE k # 0
    BY <2>2 DEF StandsAt
  <2> QED
    BY <2>1, <2>2
<1> QED
  BY <1>1, <1>2, <1>3, <1>4, SpeltAt

\* It makes the decoder stand one byte further, calls back at the end of a word,
\* and draws at the end of an item.
LEMMA FeedAtPlace ==
    ASSUME NEW m \in Seq(Items), NEW p, ParserOK(p), NEW j, NEW k, StandsAt(p, m, j, k),
           Offset(m, j) + k < Len(Spelt(m)),
           NEW r \in vt_parser_feed(p, Spelt(m)[Offset(m, j) + k + 1])
    PROVE  IF k + 1 = Size(m[j + 1])
           THEN /\ StandsAt(r.parser, m, j + 1, 0)
                /\ Offset(m, j + 1) = Offset(m, j) + k + 1
                /\ r.parser.pic = After(p.pic, m[j + 1])
                /\ r.call = Callback(p.pic, m[j + 1])
           ELSE /\ StandsAt(r.parser, m, j, k + 1)
                /\ r.parser.pic = p.pic
                /\ r.call = NoCall
<1> DEFINE it == m[j + 1]
<1>1. /\ j \in Nat /\ j < Len(m) /\ k \in Nat /\ Len(m) \in Nat
      /\ it \in Items /\ k < Size(it) /\ Inside(p, it, k)
      /\ r \in vt_parser_feed(p, <<it, k + 1>>)
  BY NextByte
<1> HIDE DEF it
<1>2. IF k + 1 = Size(it)
      THEN /\ Between(r.parser)
           /\ r.parser.pic = After(p.pic, it)
           /\ ~IsContainer(it) => r.call = Callback(p.pic, it)
           /\ IsContainer(it) => r.call = NoCall
      ELSE /\ Inside(r.parser, it, k + 1)
           /\ r.parser.pic = p.pic
           /\ r.call = NoCall
  BY <1>1, FeedInStep
<1>3. CASE k + 1 = Size(it)
  <2>1. IsContainer(it) => Callback(p.pic, it) = NoCall
    BY DEF IsContainer, Callback
  <2>2. Offset(m, j + 1) = Offset(m, j) + k + 1
    <3>1. Offset(m, j) \in Nat /\ Offset(m, j + 1) = Offset(m, j) + Size(it)
      BY <1>1, OffsetNext DEF it
    <3> QED
      BY <1>1, <1>3, <3>1
  <2>3. StandsAt(r.parser, m, j + 1, 0)
    BY <1>1, <1>2, <1>3 DEF StandsAt
  <2> QED
    BY <1>2, <1>3, <2>1, <2>2, <2>3 DEF it
<1>4. CASE k + 1 # Size(it)
  <2>1. k + 1 \in Nat /\ k + 1 # 0 /\ k + 1 < Size(it)
    BY <1>1, <1>4, SizeType
  <2>2. StandsAt(r.parser, m, j, k + 1)
    BY <1>1, <1>2, <1>4, <2>1 DEF StandsAt, it
  <2> QED
    BY <1>2, <1>4, <2>2 DEF it
<1> QED
  BY <1>3, <1>4

\* A decoder that was fed all of it stands behind the last item.
LEMMA PlaceEnds ==
    ASSUME NEW m \in Seq(Items), NEW p, NEW j, NEW k, StandsAt(p, m, j, k)
    PROVE  /\ Offset(m, j) + k \in Nat /\ Offset(m, j) + k <= Len(Spelt(m))
           /\ Offset(m, j) + k = Len(Spelt(m)) => j = Len(m) /\ k = 0 /\ Between(p)
           /\ j = Len(m) => k = 0 /\ Offset(m, j) + k = Len(Spelt(m))
<1>1. j \in 0 .. Len(m) /\ k \in Nat /\ Len(m) \in Nat
  BY DEF StandsAt
<1>2. CASE j = Len(m)
  <2>1. k = 0 /\ Between(p)
    BY <1>1, <1>2 DEF StandsAt
  <2>2. Offset(m, j) = Len(Spelt(m)) /\ Len(Spelt(m)) \in Nat
    BY <1>2, WholeType
  <2> QED
    BY <1>2, <2>1, <2>2
<1>3. CASE j # Len(m)
  <2>1. j \in Nat /\ j < Len(m)
    BY <1>1, <1>3
  <2>2. Size(m[j + 1]) \in Nat /\ Size(m[j + 1]) > 1
    BY <2>1, UpToNext, SizeType
  <2>3. k < Size(m[j + 1])
    BY <2>2 DEF StandsAt
  <2>4. Offset(m, j) + k \in Nat /\ Offset(m, j) + k < Len(Spelt(m))
    BY <1>1, <2>1, <2>3, SpeltAt
  <2> QED
    BY <1>3, <2>4
<1> QED
  BY <1>2, <1>3

LEMMA SpeltSomething ==
    ASSUME NEW m \in Seq(Items), m # <<>>
    PROVE  Spelt(m) # <<>> /\ Len(Spelt(m)) > 0
<1>1. 0 < Len(m)
  BY EmptySeq
<1>2. Size(m[0 + 1]) \in Nat /\ Size(m[0 + 1]) > 1
  BY <1>1, UpToNext, SizeType
<1>3. Offset(m, 0) + 0 \in Nat /\ Offset(m, 0) + 0 < Len(Spelt(m))
  BY <1>1, <1>2, SpeltAt
<1>4. Spelt(m) \in Seq(Bytes) /\ Len(Spelt(m)) > 0
  BY <1>3, WholeType
<1> QED
  BY <1>4, EmptySeq

\* The picture under construction stands for what was drawn so far, and what is
\* published is what a receiver can show of it.
LEMMA BlankRepresents == Represents(BlankPicture, NothingSent)
<1>1. Capped(<<>>) = <<>> /\ ~(Len(<<>>) > MAX_PIPELINE)
  BY FrameAssumption DEF Capped
<1> QED
  BY <1>1 DEF Represents, BlankPicture, NothingSent

LEMMA PublishedIsShowable ==
    ASSUME NEW pic, NEW s, Represents(pic, s)
    PROVE  Published(pic) = Showable(s)
  BY DEF Represents, Published, Showable

\* Nothing of a payload is left when none is being gathered.
Tidy(p) == p.ext_remaining = 0 => p.ext_buf = <<>> /\ p.ext_overflow = FALSE

LEMMA DispatchTidy ==
    ASSUME NEW p \in ParserType, NEW q \in dispatch_ext(p)
    PROVE  Tidy(q)
<1>1. PICK g \in Geometries(p.ext_subtype, p.ext_buf) :
        q = [p EXCEPT !.pic = IF p.ext_overflow THEN [@ EXCEPT !.overflow = TRUE]
                                                ELSE add_segments(@, g),
                      !.ext_subtype = NoSubtype, !.ext_buf = <<>>,
                      !.ext_overflow = FALSE]
  BY DEF dispatch_ext
<1> QED
  BY <1>1 DEF ParserType, Tidy

LEMMA FeedTidy ==
    ASSUME NEW p, ParserOK(p), Tidy(p), NEW b, NEW r \in vt_parser_feed(p, b)
    PROVE  Tidy(r.parser)
<1> DEFINE full == Append(p.bytes, b)
           fed  == gather(p, b)
<1>1. p \in ParserType /\ p.ext_remaining \in Nat /\ Len(p.bytes) < WORD_BYTES
  BY DEF ParserOK, ParserType
<1>2. CASE p.ext_remaining > 0
  <2>1. r.parser \in (IF fed.ext_remaining = 0 THEN dispatch_ext(fed) ELSE {fed})
    BY <1>2 DEF vt_parser_feed
  <2>2. CASE fed.ext_remaining = 0
    <3>1. PICK g \in Geometries(fed.ext_subtype, fed.ext_buf) :
            r.parser = [fed EXCEPT !.pic = IF fed.ext_overflow THEN [@ EXCEPT !.overflow = TRUE]
                                                ELSE add_segments(@, g),
                      !.ext_subtype = NoSubtype, !.ext_buf = <<>>,
                      !.ext_overflow = FALSE]
      BY <2>1, <2>2 DEF dispatch_ext
    <3>2. DOMAIN fed = DOMAIN p /\ "ext_buf" \in DOMAIN p /\ "ext_overflow" \in DOMAIN p
      BY <1>1 DEF gather, ParserType
    <3> HIDE DEF fed
    <3> QED
      BY <3>1, <3>2 DEF Tidy
  <2>3. CASE fed.ext_remaining # 0
    BY <2>1, <2>3 DEF Tidy
  <2> QED
    BY <2>2, <2>3
<1>3. CASE ~(p.ext_remaining > 0) /\ Len(full) < WORD_BYTES
  <2>1. r.parser = [p EXCEPT !.bytes = full]
    BY <1>1, <1>3 DEF vt_parser_feed
  <2> QED
    BY <1>1, <2>1 DEF Tidy, ParserType
<1>4. CASE ~(p.ext_remaining > 0) /\ ~(Len(full) < WORD_BYTES)
  <2> DEFINE clear == [p EXCEPT !.bytes = <<>>]
  <2>1. PICK w \in vt_unpack_be(full) : r.parser \in vt_parser_feed_word(clear, w)
    BY <1>1, <1>4 DEF vt_parser_feed
  <2>2. w \in Items
    BY <2>1 DEF vt_unpack_be
  <2>3. clear \in ParserType /\ Tidy(clear) /\ clear.ext_remaining = 0
    BY <1>1, <1>4, NoBytes DEF ParserType, Tidy
  <2> HIDE DEF clear
  <2>4. CASE ~IsContainer(w)
    <3>1. r.parser = [clear EXCEPT !.pic = Draw(@, w),
                                   !.session_over = @ \/ w.flag = "EXIT"]
      BY <2>1, <2>4 DEF vt_parser_feed_word
    <3> QED
      BY <2>3, <3>1 DEF Tidy, ParserType
  <2>5. CASE IsContainer(w)
    <3> DEFINE opened == [clear EXCEPT !.ext_subtype = w.subtype, !.ext_buf = <<>>,
                        !.ext_overflow = w.length > EXT_MAX,
                        !.ext_remaining = w.length]
    <3>1. r.parser \in IF w.length = 0 THEN dispatch_ext(opened) ELSE {opened}
      BY <2>1, <2>5 DEF vt_parser_feed_word
    <3>2. opened \in ParserType /\ opened.ext_remaining = w.length
      <4>1. /\ w.subtype \in STRING /\ w.length \in Nat
            /\ (w.length > EXT_MAX) \in BOOLEAN
        BY <2>2, <2>5, ContainerFields
      <4>2. clear \in ParserType
        BY <2>3
      <4> QED
        BY <4>1, <4>2, NoBytes DEF ParserType
    <3> HIDE DEF opened
    <3>3. CASE w.length = 0
      BY <3>1, <3>2, <3>3, DispatchTidy
    <3>4. CASE w.length # 0
      BY <3>1, <3>2, <3>4 DEF Tidy
    <3> QED
      BY <3>3, <3>4
  <2> QED
    BY <2>4, <2>5
<1> QED
  BY <1>1, <1>2, <1>3, <1>4

\* A decoder at rest is one a resync leaves as it is.
LEMMA ResyncAtRest ==
    ASSUME NEW p, ParserOK(p), Tidy(p), Between(p)
    PROVE  vt_parser_resync(p) = p
  BY DEF ParserOK, ParserType, Tidy, Between, vt_parser_resync

LEMMA ResyncRests ==
    ASSUME NEW p, ParserOK(p)
    PROVE  LET q == vt_parser_resync(p)
           IN  ParserOK(q) /\ Tidy(q) /\ Between(q) /\ q.pic = p.pic
<1> DEFINE q == vt_parser_resync(p)
<1>1. q \in ParserType /\ q.bytes = <<>> /\ q.ext_remaining = 0 /\ q.ext_buf = <<>>
      /\ q.ext_overflow = FALSE /\ q.pic = p.pic
  BY NoBytes DEF ParserOK, ParserType, vt_parser_resync
<1> HIDE DEF q
<1>2. Len(<<>>) = 0 /\ 0 < WORD_BYTES /\ 0 <= EXT_MAX /\ PictureOK(p.pic)
  BY FrameAssumption DEF ParserOK
<1>3. ParserOK(q)
  BY <1>1, <1>2 DEF ParserOK
<1> QED
  BY <1>1, <1>3 DEF Tidy, Between, q

LEMMA InitialParser ==
    /\ ParserOK(vt_parser_init) /\ Tidy(vt_parser_init) /\ Between(vt_parser_init)
    /\ vt_parser_init.pic = BlankPicture
<1> DEFINE q == vt_parser_init
<1>1. q \in ParserType /\ q.bytes = <<>> /\ q.ext_remaining = 0 /\ q.ext_buf = <<>>
      /\ q.ext_overflow = FALSE /\ q.pic = BlankPicture
  BY NoBytes, BlankPictureType DEF vt_parser_init, ParserType, PictureOK
<1> HIDE DEF q
<1>2. Len(<<>>) = 0 /\ 0 < WORD_BYTES /\ 0 <= EXT_MAX
  BY FrameAssumption
<1>3. ParserOK(q)
  BY <1>1, <1>2, BlankPictureType DEF ParserOK
<1> QED
  BY <1>1, <1>3 DEF Tidy, Between, q

-----------------------------------------------------------------------------
(* Bytes on their way: the rest of a sequence, in queues one after the     *)
(* other.                                                                  *)
LEMMA HeadFirst ==
    ASSUME NEW S, NEW s \in Seq(S), s # <<>>
    PROVE  /\ Head(s) \in S /\ Tail(s) \in Seq(S) /\ <<Head(s)>> \in Seq(S)
           /\ Len(Tail(s)) = Len(s) - 1
           /\ s = <<Head(s)>> \o Tail(s)
<1>1. /\ Head(s) \in S /\ Tail(s) \in Seq(S) /\ Len(Tail(s)) = Len(s) - 1
      /\ Head(s) = s[1] /\ Tail(s) = SubSeq(s, 2, Len(s))
  BY HeadTailProperties, TailIsSubSeq
<1>2. 1 \in 1 .. Len(s) /\ Len(s) \in 1 .. Len(s)
  OBVIOUS
<1>3. SubSeq(s, 1, Len(s)) = <<s[1]>> \o SubSeq(s, 1 + 1, Len(s))
  BY <1>2, SubSeqRecursiveFirst
<1>4. SubSeq(s, 1, Len(s)) = s
  BY SubSeqFull
<1> QED
  BY <1>1, <1>3, <1>4

Before(x, s) == <<x>> \o s

LEMMA FirstsEqual ==
    ASSUME NEW S, NEW x \in S, NEW y \in S, NEW s \in Seq(S), NEW t \in Seq(S),
           Before(x, s) = Before(y, t)
    PROVE  x = y /\ s = t
<1>0. <<x>> \o s = <<y>> \o t
  BY DEF Before
<1>1. /\ <<x>> \in Seq(S) /\ <<y>> \in Seq(S) /\ Len(<<x>>) = 1 /\ Len(<<y>>) = 1
      /\ Len(s) \in Nat /\ Len(t) \in Nat
  OBVIOUS
<1>2. x = y
  <2>1. (<<x>> \o s)[1] = x /\ (<<y>> \o t)[1] = y
    BY <1>1
  <2> QED
    BY <1>0, <2>1
<1>3. \A u, v, w \in Seq(S) : u \o v = u \o w => v = w
  BY ConcatSimplifications
<1> QED
  BY <1>0, <1>1, <1>2, <1>3

\* What the queues a, b and c hold is s from its place n on.
Rest(s, n, a, b, c) == a \o b \o c = SubSeq(s, n + 1, Len(s))

\* An element moves from a queue's front to the end of the one before it.
Moves(b, c, d, e) == c # <<>> /\ d = Append(b, Head(c)) /\ e = Tail(c)

LEMMA MoveOne ==
    ASSUME NEW S, NEW a \in Seq(S), NEW b \in Seq(S), NEW c \in Seq(S),
           NEW d, NEW e, Moves(b, c, d, e)
    PROVE  /\ d \in Seq(S) /\ Len(d) = Len(b) + 1
           /\ e \in Seq(S) /\ Len(e) = Len(c) - 1
           /\ \A s, n : Rest(s, n, a, b, c) => Rest(s, n, a, d, e)
<1>0. c # <<>> /\ d = Append(b, Head(c)) /\ e = Tail(c)
  BY DEF Moves
<1> DEFINE x == Head(c)
           q == Tail(c)
<1>1. /\ x \in S /\ q \in Seq(S) /\ <<x>> \in Seq(S) /\ Len(q) = Len(c) - 1
      /\ c = <<x>> \o q
  BY <1>0, HeadFirst
<1> HIDE DEF x, q
<1>2. /\ Append(b, x) \in Seq(S) /\ Len(Append(b, x)) = Len(b) + 1
      /\ Append(b, x) = b \o <<x>>
  BY <1>1, AppendProperties, AppendIsConcat
<1>3. a \o (b \o <<x>>) = (a \o b) \o <<x>>
  BY <1>1, ConcatAssociative
<1>4. a \o b \in Seq(S)
  BY ConcatProperties
<1>5. ((a \o b) \o <<x>>) \o q = (a \o b) \o (<<x>> \o q)
  BY <1>1, <1>4, ConcatAssociative
<1> QED
  <2>1. d = Append(b, x) /\ e = q
    BY <1>0 DEF x, q
  <2>2. a \o d \o e = a \o b \o c
    BY <1>1, <1>2, <1>3, <1>5, <2>1
  <2> QED
    BY <1>1, <1>2, <2>1, <2>2 DEF Rest

\* The first of the first queue is the next of s.
LEMMA TakeOne ==
    ASSUME NEW S, NEW a \in Seq(S), NEW b \in Seq(S), NEW c \in Seq(S), a # <<>>,
           NEW s \in Seq(S), NEW n \in Nat, Rest(s, n, a, b, c)
    PROVE  /\ Tail(a) \in Seq(S) /\ Len(Tail(a)) = Len(a) - 1
           /\ n < Len(s) /\ Head(a) = s[n + 1]
           /\ Rest(s, n + 1, Tail(a), b, c)
<1>0. a \o b \o c = SubSeq(s, n + 1, Len(s))
  BY DEF Rest
<1> DEFINE x == Head(a)
           d == Tail(a)
           w == SubSeq(s, (n + 1) + 1, Len(s))
<1>1. /\ x \in S /\ d \in Seq(S) /\ <<x>> \in Seq(S) /\ Len(d) = Len(a) - 1
      /\ a = <<x>> \o d
  BY HeadFirst
<1> HIDE DEF x, d
<1>2. a \o b = <<x>> \o (d \o b) /\ d \o b \in Seq(S)
  BY <1>1, ConcatAssociative, ConcatProperties
<1> DEFINE e == d \o b
<1>3. e \in Seq(S) /\ a \o b = <<x>> \o e
  BY <1>2
<1> HIDE DEF e
<1> DEFINE v == e \o c
<1>4. (a \o b) \o c = <<x>> \o v /\ v \in Seq(S)
  <2>1. (<<x>> \o e) \o c = <<x>> \o (e \o c)
    BY <1>1, <1>3, ConcatAssociative
  <2>2. e \o c \in Seq(S)
    BY <1>3, ConcatProperties
  <2> QED
    BY <1>3, <2>1, <2>2
<1> HIDE DEF v
<1>5. Len(s) \in Nat /\ \A i \in 1 .. Len(s) : s[i] \in S
  BY LenProperties, ElementOfSeq
<1>6. n < Len(s)
  <2>1. CASE Len(s) < n + 1
    <3>1. SubSeq(s, n + 1, Len(s)) = <<>>
      BY <1>5, <2>1, SubSeqEmpty
    <3>2. <<x>> \o v = <<>>
      BY <1>0, <1>4, <3>1
    <3>3. Len(<<x>> \o v) = 1 + Len(v) /\ Len(v) \in Nat
      BY <1>1, <1>4
    <3> QED
      BY <3>2, <3>3
  <2> QED
    BY <1>5, <2>1
<1>7. SubSeq(s, n + 1, Len(s)) = <<s[n + 1]>> \o w
  <2>1. n + 1 \in 1 .. Len(s) /\ Len(s) \in (n + 1) .. Len(s)
    BY <1>5, <1>6
  <2> QED
    BY <2>1, SubSeqRecursiveFirst
<1>8. s[n + 1] \in S /\ w \in Seq(S)
  <2>1. \A i \in (n + 1) + 1 .. Len(s) : s[i] \in S
    BY <1>5
  <2> QED
    BY <1>5, <1>6, <2>1, SubSeqProperties
<1> DEFINE y == s[n + 1]
<1>9. y \in S /\ w \in Seq(S) /\ Before(x, v) = Before(y, w)
  <2>1. Before(x, v) = Before(y, w)
    BY <1>0, <1>4, <1>7 DEF Before
  <2> QED
    BY <1>8, <2>1
<1> HIDE DEF w, y
<1>10. x = y /\ v = w
  <2>1. x \in S /\ v \in Seq(S)
    BY <1>1, <1>4
  <2> QED
    BY <1>9, <2>1, FirstsEqual
<1> QED
  BY <1>1, <1>6, <1>10 DEF Rest, e, v, w, x, y, d

\* A sequence cut in two.
LEMMA CutInTwo ==
    ASSUME NEW S, NEW s \in Seq(S), NEW n \in 0 .. Len(s)
    PROVE  /\ SubSeq(s, 1, n) \in Seq(S) /\ Len(SubSeq(s, 1, n)) = n
           /\ SubSeq(s, n + 1, Len(s)) \in Seq(S) /\ Len(SubSeq(s, n + 1, Len(s))) = Len(s) - n
           /\ SubSeq(s, 1, n) \o SubSeq(s, n + 1, Len(s)) = s
<1>1. Len(s) \in Nat /\ n \in Nat /\ \A i \in 1 .. Len(s) : s[i] \in S
  BY LenProperties, ElementOfSeq
<1>2. SubSeq(s, 1, n) \in Seq(S) /\ Len(SubSeq(s, 1, n)) = n
  <2>1. \A i \in 1 .. n : s[i] \in S
    BY <1>1
  <2>2. /\ SubSeq(s, 1, n) \in Seq(S)
        /\ Len(SubSeq(s, 1, n)) = IF 1 <= n THEN n - 1 + 1 ELSE 0
    BY <1>1, <2>1, SubSeqProperties
  <2> QED
    BY <1>1, <2>2
<1>3. SubSeq(s, n + 1, Len(s)) \in Seq(S) /\ Len(SubSeq(s, n + 1, Len(s))) = Len(s) - n
  <2>1. \A i \in n + 1 .. Len(s) : s[i] \in S
    BY <1>1
  <2>2. /\ SubSeq(s, n + 1, Len(s)) \in Seq(S)
        /\ Len(SubSeq(s, n + 1, Len(s))) = IF n + 1 <= Len(s) THEN Len(s) - (n + 1) + 1 ELSE 0
    BY <1>1, <2>1, SubSeqProperties
  <2> QED
    BY <1>1, <2>2
<1>4. SubSeq(s, 1, n) \o SubSeq(s, n + 1, Len(s)) = SubSeq(s, 1, Len(s))
  <2>1. 1 \in 1 .. Len(s) + 1 /\ n \in 1 - 1 .. Len(s) /\ Len(s) \in n .. Len(s)
    BY <1>1
  <2> QED
    BY <2>1, ConcatAdjacentSubSeq
<1>5. SubSeq(s, 1, Len(s)) = s
  BY SubSeqFull
<1> QED
  BY <1>2, <1>3, <1>4, <1>5

LEMMA RestLength ==
    ASSUME NEW S, NEW a \in Seq(S), NEW b \in Seq(S), NEW c \in Seq(S),
           NEW s \in Seq(S), NEW n \in 0 .. Len(s), Rest(s, n, a, b, c)
    PROVE  Len(a) + Len(b) + Len(c) = Len(s) - n
<1>1. Len(SubSeq(s, n + 1, Len(s))) = Len(s) - n
  BY CutInTwo
<1>2. a \o b \in Seq(S) /\ Len(a \o b) = Len(a) + Len(b)
  BY ConcatProperties
<1>3. Len((a \o b) \o c) = Len(a \o b) + Len(c)
  BY <1>2, ConcatProperties
<1>4. a \o b \o c = SubSeq(s, n + 1, Len(s))
  BY DEF Rest
<1> QED
  BY <1>1, <1>2, <1>3, <1>4

\* The queues are empty when the decoder was fed it all, and only then.
LEMMA RestOfMessage ==
    ASSUME NEW m \in Seq(Items), NEW p, NEW j, NEW k, StandsAt(p, m, j, k),
           NEW a \in Seq(Bytes), NEW b \in Seq(Bytes), NEW c \in Seq(Bytes),
           Rest(Spelt(m), Offset(m, j) + k, a, b, c)
    PROVE  /\ j = Len(m) <=> a = <<>> /\ b = <<>> /\ c = <<>>
           /\ j = Len(m) => Between(p)
<1> DEFINE n == Offset(m, j) + k
           w == Spelt(m)
<1>1. /\ n \in Nat /\ n <= Len(w)
      /\ n = Len(w) => j = Len(m) /\ k = 0 /\ Between(p)
      /\ j = Len(m) => k = 0 /\ n = Len(w)
  BY PlaceEnds
<1>2. w \in Seq(Bytes) /\ Len(w) \in Nat /\ Rest(w, n, a, b, c)
  BY WholeType
<1> HIDE DEF n, w
<1>3. n \in 0 .. Len(w)
  BY <1>1, <1>2
<1>4. Len(a) + Len(b) + Len(c) = Len(w) - n
  BY <1>2, <1>3, RestLength
<1>5. /\ Len(a) \in Nat /\ Len(b) \in Nat /\ Len(c) \in Nat
      /\ (a = <<>> <=> Len(a) = 0) /\ (b = <<>> <=> Len(b) = 0) /\ (c = <<>> <=> Len(c) = 0)
  BY EmptySeq, LenProperties
<1> QED
  BY <1>1, <1>2, <1>4, <1>5

=============================================================================
