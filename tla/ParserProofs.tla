---------------------------- MODULE ParserProofs ----------------------------
(***************************************************************************)
(* Proofs about Parser, for every word size, pipeline and buffer capacity, *)
(* grid and set of stream items.                                           *)
(***************************************************************************)
EXTENDS Parser, DecoderProofs

(* The inductive invariant: the three invariants together.  WholePicture   *)
(* is kept by a byte only because InStep says which item the byte ends.    *)
IInv == TypeOK /\ InStep /\ WholePicture

LEMMA TransmitType ==
    ASSUME NEW it \in Items, TypeOK, Transmit(it)
    PROVE  /\ tx.sent \in Nat /\ tx.sent < Size(it)
           /\ ~AtBoundary => tx.item = it
           /\ (AtBoundary' <=> tx.sent + 1 = Size(it))
           /\ ~AtBoundary' => tx' = [item |-> it, sent |-> tx.sent + 1]
           /\ AtBoundary' => tx' = Boundary
           /\ ~AtBoundary' => tx'.sent < Size(it)
<1>1. Size(it) \in Nat /\ Size(it) > 1
  BY ContainerFields, FrameAssumption DEF Size
<1>2. tx.sent \in Nat /\ tx.sent < Size(it) /\ (~AtBoundary => tx.item = it)
  <2>1. CASE AtBoundary
    BY <1>1, <2>1 DEF TypeOK, AtBoundary
  <2>2. CASE ~AtBoundary
    BY <2>2 DEF TypeOK, Transmit
  <2> QED
    BY <2>1, <2>2
<1>3. tx' = IF tx.sent + 1 = Size(it) THEN Boundary ELSE [item |-> it, sent |-> tx.sent + 1]
  BY DEF Transmit
<1>4. CASE tx.sent + 1 = Size(it)
  BY <1>2, <1>3, <1>4 DEF AtBoundary, Boundary
<1>5. CASE tx.sent + 1 # Size(it)
  <2>1. tx' = [item |-> it, sent |-> tx.sent + 1]
    BY <1>3, <1>5
  <2>2. tx'.sent = tx.sent + 1
    BY <2>1
  <2>3. ~AtBoundary'
    BY <1>2, <2>2 DEF AtBoundary
  <2>4. tx'.sent < Size(it)
    BY <1>1, <1>2, <1>5, <2>2
  <2>5. (AtBoundary' <=> tx.sent + 1 = Size(it))
    BY <1>5, <2>3
  <2> QED
    BY <1>2, <2>1, <2>3, <2>4, <2>5
<1> QED
  BY <1>4, <1>5

LEMMA TransmitTxType ==
    ASSUME NEW it \in Items, TypeOK, Transmit(it)
    PROVE  IF AtBoundary' THEN tx' = Boundary
           ELSE tx' \in [item : Items, sent : Nat] /\ tx'.sent < Size(tx'.item)
<1>1. CASE AtBoundary'
  BY <1>1, TransmitType
<1>2. CASE ~AtBoundary'
  <2>1. tx' = [item |-> it, sent |-> tx.sent + 1] /\ tx'.sent < Size(it) /\ tx.sent \in Nat
    BY <1>2, TransmitType
  <2> QED
    BY <1>2, <2>1
<1> QED
  BY <1>1, <1>2

\* Before its next byte, the decoder stands where the sender does.
LEMMA InsideNow ==
    ASSUME NEW it \in Items, TypeOK, InStep, aligned, Transmit(it)
    PROVE  Inside(parser, it, tx.sent)
<1>1. CASE AtBoundary
  <2>1. Between(parser) /\ tx.sent = 0
    BY <1>1 DEF InStep, AtBoundary
  <2>2. BytesOf(it, 0, 0) = <<>>
    BY DEF BytesOf
  <2> QED
    BY <2>1, <2>2, FrameAssumption DEF Between, Inside
<1>2. CASE ~AtBoundary
  BY <1>2, TransmitType DEF InStep
<1> QED
  BY <1>1, <1>2

\* A byte that arrives preserves the invariant.
LEMMA FeedInv == IInv /\ Feed => IInv'
<1> SUFFICES ASSUME IInv, Feed
             PROVE  IInv'
  OBVIOUS
<1> USE DEF IInv
<1>1. PICK it \in Items :
         /\ Transmit(it)
         /\ \E r \in vt_parser_feed(parser, <<it, tx.sent + 1>>) :
               parser' = r.parser /\ call' = r.call
         /\ aligned' = aligned
         /\ whole' = (whole \/ (aligned /\ AtBoundary' /\ StartsFrame(it)))
         /\ sent' = IF whole' /\ AtBoundary' THEN Meaning(sent, it) ELSE sent
  BY DEF Feed
<1>2. PICK r \in vt_parser_feed(parser, <<it, tx.sent + 1>>) : parser' = r.parser
  BY <1>1
<1>3. tx.sent \in Nat /\ <<it, tx.sent + 1>> \in Bytes
  BY <1>1, TransmitType DEF Bytes
<1>4. ParserOK(parser)'
  <2>1. ParserOK(parser)
    BY DEF TypeOK
  <2>2. ParserOK(r.parser)
    BY <1>3, <2>1, FeedType
  <2> QED
    BY <1>2, <2>2
<1>5. sent' \in SentType
  BY <1>1, MeaningType DEF TypeOK
<1>6. aligned' \in BOOLEAN /\ whole' \in BOOLEAN /\ (whole' => aligned')
  BY <1>1 DEF TypeOK
<1>7. TypeOK'
  BY <1>1, <1>4, <1>5, <1>6, TransmitTxType DEF TypeOK
<1>8. aligned =>
        IF tx.sent + 1 = Size(it)
        THEN Between(r.parser) /\ r.parser.pic = After(parser.pic, it)
        ELSE Inside(r.parser, it, tx.sent + 1) /\ r.parser.pic = parser.pic
  <2> SUFFICES ASSUME aligned
               PROVE  IF tx.sent + 1 = Size(it)
                      THEN Between(r.parser) /\ r.parser.pic = After(parser.pic, it)
                      ELSE Inside(r.parser, it, tx.sent + 1) /\ r.parser.pic = parser.pic
    OBVIOUS
  <2>1. Inside(parser, it, tx.sent)
    BY <1>1, InsideNow
  <2>2. ParserOK(parser) /\ tx.sent < Size(it)
    BY <1>1, TransmitType DEF TypeOK
  <2> QED
    BY <1>3, <2>1, <2>2, FeedInStep
<1>9. InStep'
  <2>1. CASE AtBoundary'
    <3>1. aligned => Between(r.parser)
      BY <1>1, <1>8, <2>1, TransmitType
    <3>2. aligned' => Between(parser')
      BY <1>1, <1>2, <3>1
    <3> QED
      BY <2>1, <3>2 DEF InStep, Between
  <2>2. CASE ~AtBoundary'
    <3>1. aligned => Inside(r.parser, it, tx.sent + 1)
      BY <1>1, <1>8, <2>2, TransmitType
    <3>2. tx'.item = it /\ tx'.sent = tx.sent + 1
      BY <1>1, <2>2, TransmitType
    <3>3. aligned' => Inside(parser', tx'.item, tx'.sent)
      BY <1>1, <1>2, <3>1, <3>2
    <3> QED
      BY <2>2, <3>3 DEF InStep, Inside
  <2> QED
    BY <2>1, <2>2
<1>10. WholePicture'
  <2> SUFFICES ASSUME whole'
               PROVE  Represents(parser'.pic, sent')
    BY DEF WholePicture, Represents
  <2>1. aligned /\ PictureOK(parser.pic) /\ sent \in SentType
    BY <1>1, <1>6 DEF TypeOK, ParserOK
  <2>2. CASE AtBoundary'
    <3>1. parser'.pic = After(parser.pic, it) /\ sent' = Meaning(sent, it)
      BY <1>1, <1>2, <1>8, <2>1, <2>2, TransmitType
    <3>2. Represents(parser.pic, sent) \/ StartsFrame(it)
      BY <1>1, <2>2 DEF WholePicture
    <3> QED
      BY <2>1, <3>1, <3>2, AfterRepresents
  <2>3. CASE ~AtBoundary'
    <3>1. parser'.pic = parser.pic /\ sent' = sent /\ whole
      BY <1>1, <1>2, <1>8, <2>1, <2>3, TransmitType
    <3> QED
      BY <3>1 DEF WholePicture
  <2> QED
    BY <2>2, <2>3
<1> QED
  BY <1>7, <1>9, <1>10

\* A lost byte preserves it: nothing is promised until the next resync.
LEMMA SlipInv == IInv /\ Slip => IInv'
<1> SUFFICES ASSUME IInv, Slip
             PROVE  IInv'
  OBVIOUS
<1>1. PICK it \in Items : Transmit(it)
  BY DEF Slip
<1>2. /\ aligned' = FALSE /\ whole' = FALSE /\ sent' = NothingSent
      /\ parser' = parser
  BY DEF Slip
<1>3. ParserOK(parser)'
  BY <1>2 DEF IInv, TypeOK
<1>4. TypeOK'
  BY <1>1, <1>2, <1>3, TransmitTxType, NothingSentType DEF IInv, TypeOK
<1> QED
  BY <1>2, <1>4 DEF IInv, InStep, WholePicture

\* A resync preserves it: it clears exactly the registers that may be astray.
LEMMA ResyncInv == IInv /\ Resync => IInv'
<1> SUFFICES ASSUME IInv, Resync
             PROVE  IInv'
  OBVIOUS
<1>1. /\ parser' = vt_parser_resync(parser) /\ tx' = tx
      /\ aligned' = AtBoundary /\ whole' = (whole /\ AtBoundary)
      /\ sent' = IF whole' THEN sent ELSE NothingSent
  BY DEF Resync
<1>2. ParserOK(parser)
  BY DEF IInv, TypeOK
<1>3. /\ parser' \in ParserType /\ parser'.pic = parser.pic
      /\ parser'.bytes = <<>> /\ parser'.ext_remaining = 0 /\ parser'.ext_buf = <<>>
  BY <1>1, <1>2, NoBytes DEF vt_parser_resync, ParserOK, ParserType
<1>4. ParserOK(parser')
  BY <1>2, <1>3, FrameAssumption DEF ParserOK
<1>5. AtBoundary' = AtBoundary
  BY <1>1 DEF AtBoundary
<1>6. TypeOK'
  <2>1. sent' \in SentType
    BY <1>1, NothingSentType DEF IInv, TypeOK
  <2>2. aligned' \in BOOLEAN /\ whole' \in BOOLEAN /\ (whole' => aligned')
    BY <1>1 DEF IInv, TypeOK, AtBoundary
  <2>3. IF AtBoundary' THEN tx' = Boundary
        ELSE tx' \in [item : Items, sent : Nat] /\ tx'.sent < Size(tx'.item)
    BY <1>1, <1>5 DEF IInv, TypeOK
  <2>4. ParserOK(parser)'
    BY <1>4
  <2> QED
    BY <2>1, <2>2, <2>3, <2>4 DEF TypeOK
<1>7. InStep'
  <2>1. Between(parser)'
    BY <1>3 DEF Between
  <2> QED
    BY <1>1, <1>5, <2>1 DEF InStep
<1>8. WholePicture'
  BY <1>1, <1>3 DEF IInv, WholePicture, Represents
<1> QED
  BY <1>6, <1>7, <1>8 DEF IInv

LEMMA InitInv == Init => IInv
<1> SUFFICES ASSUME Init
             PROVE  IInv
  OBVIOUS
<1>1. ParserOK(parser)
  <2>1. vt_parser_init \in ParserType
    BY BlankPictureType, NoBytes DEF vt_parser_init, ParserType, PictureOK
  <2> QED
    BY <2>1, BlankPictureType, FrameAssumption DEF Init, ParserOK, vt_parser_init
<1>2. TypeOK
  BY <1>1, NothingSentType DEF Init, TypeOK, AtBoundary, Boundary
<1>3. InStep
  BY DEF Init, InStep, AtBoundary, Boundary, Between, vt_parser_init
<1>4. WholePicture
  <2>1. Capped(<<>>) = <<>>
    BY FrameAssumption DEF Capped
  <2>2. ~(Len(<<>>) > MAX_PIPELINE)
    BY FrameAssumption
  <2>3. /\ BlankPicture.segments = Capped(NothingSent.strokes)
        /\ BlankPicture.brightness = NothingSent.level
        /\ (IF BlankPicture.have_pos THEN BlankPicture.cur ELSE CENTER) = NothingSent.at
    BY <2>1 DEF BlankPicture, NothingSent
  <2>4. BlankPicture.overflow
            = (Len(NothingSent.strokes) > MAX_PIPELINE \/ NothingSent.skipped)
    BY <2>2 DEF BlankPicture, NothingSent
  <2>5. parser.pic = BlankPicture /\ sent = NothingSent
    BY DEF Init, vt_parser_init
  <2> QED
    BY <2>3, <2>4, <2>5 DEF WholePicture, Represents
<1> QED
  BY <1>2, <1>3, <1>4 DEF IInv

LEMMA NextInv == IInv /\ [Next]_vars => IInv'
<1> SUFFICES ASSUME IInv, [Next]_vars
             PROVE  IInv'
  OBVIOUS
<1>1. CASE Feed
  BY <1>1, FeedInv
<1>2. CASE Slip
  BY <1>2, SlipInv
<1>3. CASE Resync
  BY <1>3, ResyncInv
<1>4. CASE UNCHANGED vars
  BY <1>4 DEF vars, IInv, TypeOK, InStep, WholePicture, AtBoundary
<1> QED
  BY <1>1, <1>2, <1>3, <1>4 DEF Next

LEMMA Invariance == Spec => []IInv
<1> QED
  BY InitInv, NextInv, PTL DEF Spec

-----------------------------------------------------------------------------

\* No byte stream, torn or whole, makes the decoder overrun bytes, ext_buf or
\* segments, or leaves it with a partial word and a payload at once.
THEOREM TypeCorrect == Spec => []TypeOK
<1>1. IInv => TypeOK
  BY DEF IInv
<1> QED
  BY <1>1, Invariance, PTL

\* While no byte is lost since a resync between two items, the decoder stands
\* exactly where the sender does, whatever the sizes of the payloads.
THEOREM StaysInStep == Spec => []InStep
<1>1. IInv => InStep
  BY DEF IInv
<1> QED
  BY <1>1, Invariance, PTL

\* A frame begun in step is decoded to what the sender drew, cut at the
\* pipeline's capacity and flagged exactly when something is missing.
THEOREM DecodesWhatWasDrawn == Spec => []WholePicture
<1>1. IInv => WholePicture
  BY DEF IInv
<1> QED
  BY <1>1, Invariance, PTL

\* ... and on_frame is handed that frame, at its COMPLETE and at no other time.
THEOREM PublishesRight == Spec => PublishesWhatWasSent
<1> DEFINE A == whole /\ whole' /\ "frame" \in Sink =>
                  IF Completes
                  THEN call' = [cb |-> "frame", frame |-> Showable(sent)]
                  ELSE call'.cb # "frame"
<1>1. ASSUME IInv, Next
      PROVE  A
  <2> SUFFICES ASSUME whole, whole', "frame" \in Sink
               PROVE  IF Completes
                      THEN call' = [cb |-> "frame", frame |-> Showable(sent)]
                      ELSE call'.cb # "frame"
    OBVIOUS
  <2>1. CASE Feed
    <3>1. PICK it \in Items :
             /\ Transmit(it)
             /\ \E r \in vt_parser_feed(parser, <<it, tx.sent + 1>>) : call' = r.call
      BY <2>1 DEF Feed
    <3>2. PICK r \in vt_parser_feed(parser, <<it, tx.sent + 1>>) : call' = r.call
      BY <3>1
    <3>3. /\ aligned /\ ParserOK(parser) /\ tx.sent \in Nat /\ tx.sent < Size(it)
          /\ Represents(parser.pic, sent)
      BY <1>1, <3>1, TransmitType DEF IInv, TypeOK, WholePicture
    <3>4. Inside(parser, it, tx.sent)
      BY <1>1, <3>1, <3>3, InsideNow DEF IInv
    <3>5. call' = IF tx.sent + 1 = Size(it) /\ ~IsContainer(it)
                  THEN Callback(parser.pic, it) ELSE NoCall
      BY <3>2, <3>3, <3>4, FeedInStep
    <3>6. Published(parser.pic) = Showable(sent)
      BY <3>3 DEF Published, Represents, Showable
    <3>7. NoCall.cb # "frame"
      BY DEF NoCall
    <3>8. CASE Completes
      <4>1. it.flag = "COMPLETE" /\ tx.sent + 1 = Size(it)
        BY <1>1, <3>1, <3>8, TransmitType DEF Completes, IInv
      <4>2. Callback(parser.pic, it) = [cb |-> "frame", frame |-> Published(parser.pic)]
        BY <4>1 DEF Callback
      <4>3. ~IsContainer(it)
        BY <4>1 DEF IsContainer
      <4> QED
        BY <3>5, <3>6, <3>8, <4>1, <4>2, <4>3
    <3>9. CASE ~Completes
      <4>1. ~(it.flag = "COMPLETE" /\ tx.sent + 1 = Size(it))
        <5>1. CASE AtBoundary
          <6>1. Size(it) > 1 /\ tx.sent = 0
            BY <5>1, ContainerFields, FrameAssumption DEF Size, AtBoundary
          <6> QED
            BY <6>1
        <5>2. CASE ~AtBoundary
          BY <1>1, <3>1, <3>9, <5>2, TransmitType DEF Completes, IInv
        <5> QED
          BY <5>1, <5>2
      <4>2. it.flag # "COMPLETE" => Callback(parser.pic, it).cb # "frame"
        BY DEF Callback, NoCall
      <4> QED
        BY <3>5, <3>7, <3>9, <4>1, <4>2
    <3> QED
      BY <3>8, <3>9
  <2>2. CASE Slip
    BY <2>2 DEF Slip
  <2>3. CASE Resync
    <3>1. tx' = tx /\ call' = NoCall
      BY <2>3 DEF Resync
    <3> QED
      BY <3>1 DEF Completes, AtBoundary, NoCall
  <2> QED
    BY <1>1, <2>1, <2>2, <2>3 DEF Next
<1>2. IInv /\ [Next]_vars => [A]_vars
  BY <1>1
<1> QED
  BY <1>2, Invariance, PTL DEF Spec, PublishesWhatWasSent

=============================================================================
