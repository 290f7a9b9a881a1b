--------------------------- MODULE HostToolProofs ---------------------------
(***************************************************************************)
(* Proofs about HostTool, for every stream a writer may send, every size   *)
(* of the read buffer and every way the reads cut the stream.              *)
(***************************************************************************)
EXTENDS HostTool, DecoderProofs

FrameType == [segments : Seq(Vector), overflow : BOOLEAN]

\* What was not fed yet is the rest of the stream, in the tool's buffer, the
\* kernel and the writer's hands.
Queued == Rest(Spelt(stream), fed, buf, unread, tx)

\* The decoder was fed j items and k bytes of the next, and it and the backend
\* have of them what they compose.
Reached(j, k) ==
    /\ StandsAt(parser, stream, j, k)
    /\ fed = Offset(stream, j) + k
    /\ Represents(parser.pic, SoFar(stream, j).drawn)
    /\ shown = SoFar(stream, j).out
    /\ exit_seen = SoFar(stream, j).over

\* The inductive invariant.
IInv ==
    /\ TypeOK
    /\ ParserOK(parser)
    /\ stream \in Seq(Items) /\ fed \in Nat /\ shown \in Seq(FrameType)
    /\ Queued
    /\ \E j, k : Reached(j, k)

-----------------------------------------------------------------------------
LEMMA PublishedType ==
    ASSUME NEW pic, PictureOK(pic)
    PROVE  Published(pic) \in FrameType
  BY DEF PictureOK, PictureType, Published, FrameType

LEMMA IInvInit == Init => IInv
<1> SUFFICES ASSUME Init PROVE IInv
  OBVIOUS
<1>1. /\ stream \in Seq(Items) /\ fed = 0 /\ tx = Spelt(stream) /\ shown = <<>>
      /\ buf = <<>> /\ unread = <<>> /\ parser = vt_parser_init /\ exit_seen = FALSE
      /\ pc = "test" /\ frames = 0 /\ g_stop = FALSE /\ closed = FALSE
  BY HostToolAssumption DEF Init, NoFrames
<1>2. ParserOK(parser) /\ Between(parser) /\ parser.pic = BlankPicture
  BY <1>1, InitialParser
<1>3. /\ tx \in Seq(Bytes) /\ Len(tx) \in Nat /\ Len(tx) = Len(Spelt(stream))
      /\ Offset(stream, 0) = 0
  BY <1>1, WholeType
<1>4. TypeOK
  <2>1. Len(parser.bytes) < WORD_BYTES /\ Len(parser.ext_buf) <= EXT_MAX
    BY <1>2 DEF ParserOK
  <2>2. fed + Len(buf) + Len(unread) + Len(tx) = Len(Spelt(stream))
    BY <1>1, <1>3, NoBytes
  <2>3. Len(buf) <= BUF_SIZE /\ frames = Len(shown)
    BY <1>1, NoBytes, HostToolAssumption
  <2> QED
    BY <1>1, <1>3, <2>1, <2>2, <2>3, NoBytes DEF TypeOK
<1>5. Queued
  <2>1. <<>> \o <<>> \o tx = tx /\ SubSeq(tx, 0 + 1, Len(tx)) = tx
    BY <1>3, SubSeqFull, ConcatEmptySeq
  <2> QED
    BY <1>1, <2>1 DEF Queued, Rest
<1>6. Reached(0, 0)
  <2>1. SoFar(stream, 0) = NothingYet
    BY <1>1, SoFarEnds
  <2>2. NothingYet.drawn = NothingSent /\ NothingYet.out = <<>> /\ NothingYet.over = FALSE
    BY DEF NothingYet, NoFrames
  <2>3. StandsAt(parser, stream, 0, 0)
    BY <1>1, <1>2 DEF StandsAt
  <2>4. fed = Offset(stream, 0) + 0
    BY <1>1, <1>3
  <2> QED
    BY <1>1, <1>2, <2>1, <2>2, <2>3, <2>4, BlankRepresents DEF Reached
<1>7. shown \in Seq(FrameType)
  BY <1>1
<1> QED
  BY <1>1, <1>2, <1>4, <1>5, <1>6, <1>7 DEF IInv

\* A byte the writer writes only moves; so does what a read takes.
LEMMA WriteInv ==
    ASSUME IInv, Write
    PROVE  IInv'
<1>1. /\ tx # <<>> /\ unread' = Append(unread, Head(tx)) /\ tx' = Tail(tx)
      /\ UNCHANGED <<pc, parser, buf, app, g_stop, closed, stream, eofable, once, fed>>
  BY DEF Write
<1>2. /\ buf \in Seq(Bytes) /\ unread \in Seq(Bytes) /\ tx \in Seq(Bytes)
      /\ Len(buf) \in Nat /\ Len(unread) \in Nat /\ Len(tx) \in Nat
  BY DEF IInv, TypeOK
<1>3. /\ unread' \in Seq(Bytes) /\ Len(unread') = Len(unread) + 1
      /\ tx' \in Seq(Bytes) /\ Len(tx') = Len(tx) - 1
      /\ Rest(Spelt(stream), fed, buf, unread', tx')
  <2>1. Moves(unread, tx, unread', tx')
    BY <1>1 DEF Moves
  <2>2. unread' \in Seq(Bytes) /\ Len(unread') = Len(unread) + 1
    BY <1>2, <2>1, MoveOne
  <2>3. tx' \in Seq(Bytes) /\ Len(tx') = Len(tx) - 1
    BY <1>2, <2>1, MoveOne
  <2>4. Rest(Spelt(stream), fed, buf, unread, tx)
    BY DEF IInv, Queued
  <2>5. Rest(Spelt(stream), fed, buf, unread', tx')
    BY <1>2, <2>1, <2>4, MoveOne
  <2> QED
    BY <2>2, <2>3, <2>5
<1>4. fed + Len(buf) + Len(unread') + Len(tx') = fed + Len(buf) + Len(unread) + Len(tx)
  BY <1>2, <1>3 DEF IInv
<1>5. TypeOK'
  BY <1>1, <1>3, <1>4 DEF IInv, TypeOK, app
<1>6. Queued'
  BY <1>1, <1>3 DEF Queued
<1>7. (\E j, k : Reached(j, k))'
  BY <1>1 DEF IInv, Reached, app
<1> QED
  BY <1>1, <1>5, <1>6, <1>7 DEF IInv, app

LEMMA ReadInv ==
    ASSUME IInv, Read
    PROVE  IInv'
<1> DEFINE n == IF Len(unread) < BUF_SIZE THEN Len(unread) ELSE BUF_SIZE
<1>1. /\ pc = "read" /\ unread # <<>> /\ pc' = "feed"
      /\ buf' = SubSeq(unread, 1, n) /\ unread' = SubSeq(unread, n + 1, Len(unread))
      /\ UNCHANGED <<parser, app, g_stop, writer, fed>>
  BY DEF Read, ReadInto
<1>2. /\ buf = <<>> /\ unread \in Seq(Bytes) /\ tx \in Seq(Bytes)
      /\ Len(unread) \in Nat /\ Len(tx) \in Nat /\ Len(unread) > 0
  BY <1>1 DEF IInv, TypeOK
<1>3. n \in 0 .. Len(unread) /\ n <= BUF_SIZE /\ n > 0 /\ n \in Nat
  BY <1>2, HostToolAssumption
<1> HIDE DEF n
<1>4. /\ buf' \in Seq(Bytes) /\ Len(buf') = n
      /\ unread' \in Seq(Bytes) /\ Len(unread') = Len(unread) - n
      /\ buf' \o unread' = unread
  BY <1>1, <1>2, <1>3, CutInTwo
<1>5. fed + Len(buf') + Len(unread') + Len(tx) = fed + Len(buf) + Len(unread) + Len(tx)
  BY <1>2, <1>3, <1>4 DEF IInv
<1>6. buf' # <<>>
  BY <1>3, <1>4
<1>7. TypeOK'
  BY <1>1, <1>3, <1>4, <1>5, <1>6 DEF IInv, TypeOK, app, writer
<1>8. Queued'
  <2>1. <<>> \o unread = unread
    BY <1>2, ConcatEmptySeq
  <2>2. buf' \o unread' \o tx = buf \o unread \o tx
    BY <1>2, <1>4, <2>1
  <2> QED
    BY <1>1, <2>2 DEF IInv, Queued, Rest, writer
<1>9. (\E j, k : Reached(j, k))'
  BY <1>1 DEF IInv, Reached, app, writer
<1> QED
  BY <1>1, <1>7, <1>8, <1>9 DEF IInv, app, writer

\* A byte fed is the one the stream has next: the decoder takes it where it
\* stands, and the backend is handed what that completes.
LEMMA FeedReaches ==
    ASSUME IInv, Feed
    PROVE  /\ ParserOK(parser)' /\ shown' \in Seq(FrameType) /\ frames' = Len(shown')
           /\ exit_seen' \in BOOLEAN
           /\ (\E j, k : Reached(j, k))'
<1>1. PICK j, k : Reached(j, k)
  BY DEF IInv
<1>2. /\ pc = "feed" /\ buf # <<>> /\ fed' = fed + 1 /\ UNCHANGED stream
      /\ \E r \in vt_parser_feed(parser, Head(buf)) :
            /\ parser' = r.parser
            /\ CASE r.call.cb = "frame" -> app_on_frame(r.call.frame)
                 [] r.call.cb = "exit"  -> app_on_exit
                 [] OTHER               -> UNCHANGED app
  BY DEF Feed, FeedThen, writer
<1>3. PICK r \in vt_parser_feed(parser, Head(buf)) :
        /\ parser' = r.parser
        /\ CASE r.call.cb = "frame" -> app_on_frame(r.call.frame)
             [] r.call.cb = "exit"  -> app_on_exit
             [] OTHER               -> UNCHANGED app
  BY <1>2
<1>4. /\ ParserOK(parser) /\ stream \in Seq(Items) /\ fed \in Nat
      /\ shown \in Seq(FrameType) /\ frames = Len(shown) /\ exit_seen \in BOOLEAN
      /\ buf \in Seq(Bytes) /\ unread \in Seq(Bytes) /\ tx \in Seq(Bytes)
  BY DEF IInv, TypeOK
<1>5. Spelt(stream) \in Seq(Bytes)
  BY <1>4, WholeType
<1>6. fed < Len(Spelt(stream)) /\ Head(buf) = Spelt(stream)[fed + 1] /\ Head(buf) \in Bytes
  <2>1. Rest(Spelt(stream), fed, buf, unread, tx)
    BY DEF IInv, Queued
  <2>2. fed < Len(Spelt(stream)) /\ Head(buf) = Spelt(stream)[fed + 1]
    BY <1>2, <1>4, <1>5, <2>1, TakeOne
  <2> QED
    BY <1>2, <1>4, <2>2, HeadFirst
<1>7. ParserOK(r.parser)
  BY <1>3, <1>4, <1>6, FeedType
<1>8. /\ StandsAt(parser, stream, j, k) /\ fed = Offset(stream, j) + k
      /\ Represents(parser.pic, SoFar(stream, j).drawn)
      /\ shown = SoFar(stream, j).out /\ exit_seen = SoFar(stream, j).over
  BY <1>1 DEF Reached
<1> DEFINE it == stream[j + 1]
<1>9. /\ j \in Nat /\ j < Len(stream) /\ k \in Nat /\ it \in Items
  BY <1>4, <1>6, <1>8, NextByte
<1>10. IF k + 1 = Size(it)
       THEN /\ StandsAt(r.parser, stream, j + 1, 0)
            /\ Offset(stream, j + 1) = Offset(stream, j) + k + 1
            /\ r.parser.pic = After(parser.pic, it)
            /\ r.call = Callback(parser.pic, it)
       ELSE /\ StandsAt(r.parser, stream, j, k + 1)
            /\ r.parser.pic = parser.pic
            /\ r.call = NoCall
  <2>1. Offset(stream, j) + k < Len(Spelt(stream))
        /\ r \in vt_parser_feed(parser, Spelt(stream)[Offset(stream, j) + k + 1])
    BY <1>3, <1>6, <1>8
  <2> QED
    BY <1>4, <1>8, <2>1, FeedAtPlace
<1>11. Offset(stream, j) \in Nat
  BY <1>4, <1>9, OffsetNext
<1>12. CASE k + 1 # Size(it)
  <2>1. r.call.cb = "none"
    BY <1>10, <1>12 DEF NoCall
  <2>2. UNCHANGED app
    BY <1>3, <2>1
  <2>3. fed' = Offset(stream, j) + (k + 1)
    BY <1>2, <1>8, <1>9, <1>11
  <2>4. Reached(j, k + 1)'
    BY <1>2, <1>3, <1>8, <1>10, <1>12, <2>2, <2>3 DEF Reached, app
  <2> QED
    BY <1>3, <1>4, <1>7, <2>2, <2>4 DEF app
<1>13. CASE k + 1 = Size(it)
  <2> DEFINE c == SoFar(stream, j)
             d == SoFar(stream, j + 1)
  <2>1. /\ d.drawn = Meaning(c.drawn, it)
        /\ d.out = IF it.flag = "COMPLETE" THEN Append(c.out, Showable(c.drawn)) ELSE c.out
        /\ d.over = (c.over \/ it.flag = "EXIT")
    BY <1>4, <1>9, SoFarFields
  <2>2. c.drawn \in SentType
    BY <1>4, <1>9, SoFarType
  <2>3. PictureOK(parser.pic)
    BY <1>4 DEF ParserOK
  <2>4. Represents(parser.pic, c.drawn) /\ shown = c.out /\ exit_seen = c.over
    BY <1>8
  <2>5. /\ StandsAt(r.parser, stream, j + 1, 0)
        /\ r.parser.pic = After(parser.pic, it)
        /\ r.call = Callback(parser.pic, it)
        /\ fed' = Offset(stream, j + 1) + 0
    BY <1>2, <1>8, <1>9, <1>10, <1>11, <1>13
  <2> HIDE DEF c, d, it
  <2>6. Represents(r.parser.pic, d.drawn)
    <3>1. Represents(After(parser.pic, it), Meaning(c.drawn, it))
      BY <1>9, <2>2, <2>3, <2>4, AfterRepresents
    <3> QED
      BY <2>1, <2>5, <3>1
  <2>7. /\ shown' = d.out /\ exit_seen' = d.over
        /\ shown' \in Seq(FrameType) /\ frames' = Len(shown') /\ exit_seen' \in BOOLEAN
    <3>1. CASE it.flag = "COMPLETE"
      <4>1. r.call = [cb |-> "frame", frame |-> Published(parser.pic)]
        BY <2>5, <3>1, HostToolAssumption DEF Callback
      <4>2. app_on_frame(Published(parser.pic))
        BY <1>3, <4>1
      <4>3. /\ shown' = Append(shown, Published(parser.pic)) /\ frames' = frames + 1
            /\ exit_seen' = exit_seen
        BY <4>2 DEF app_on_frame
      <4>4. Published(parser.pic) = Showable(c.drawn) /\ Published(parser.pic) \in FrameType
        BY <2>3, <2>4, PublishedIsShowable, PublishedType
      <4>5. shown' = d.out /\ exit_seen' = d.over
        BY <1>4, <2>1, <2>4, <3>1, <4>3, <4>4
      <4>6. shown' \in Seq(FrameType) /\ frames' = Len(shown')
        BY <1>4, <4>3, <4>4
      <4> QED
        BY <1>4, <4>3, <4>5, <4>6
    <3>2. CASE it.flag = "EXIT"
      <4>1. r.call = [cb |-> "exit"]
        BY <2>5, <3>2, HostToolAssumption DEF Callback
      <4>2. exit_seen' = TRUE /\ frames' = frames /\ shown' = shown
        BY <1>3, <4>1 DEF app_on_exit
      <4> QED
        BY <1>4, <2>1, <2>4, <3>2, <4>2
    <3>3. CASE it.flag \notin {"COMPLETE", "EXIT"}
      <4>1. r.call.cb \notin {"frame", "exit"}
        BY <2>5, <3>3 DEF Callback, NoCall
      <4>2. exit_seen' = exit_seen /\ frames' = frames /\ shown' = shown
        BY <1>3, <4>1 DEF app
      <4> QED
        BY <1>4, <2>1, <2>4, <3>3, <4>2
    <3> QED
      BY <3>1, <3>2, <3>3
  <2>8. Reached(j + 1, 0)'
    BY <1>2, <1>3, <2>5, <2>6, <2>7 DEF Reached, d
  <2> QED
    BY <1>3, <1>7, <2>7, <2>8
<1> QED
  BY <1>12, <1>13

LEMMA FeedInv ==
    ASSUME IInv, Feed
    PROVE  IInv'
<1>1. /\ pc = "feed" /\ buf # <<>> /\ buf' = Tail(buf) /\ fed' = fed + 1
      /\ pc' = IF Len(buf) = 1 THEN "refresh" ELSE "feed"
      /\ UNCHANGED <<g_stop, unread, writer>>
  BY DEF Feed, FeedThen
<1>2. /\ ParserOK(parser)' /\ shown' \in Seq(FrameType) /\ frames' = Len(shown')
      /\ exit_seen' \in BOOLEAN
      /\ (\E j, k : Reached(j, k))'
  BY FeedReaches
<1>3. /\ buf \in Seq(Bytes) /\ unread \in Seq(Bytes) /\ tx \in Seq(Bytes)
      /\ Len(buf) \in Nat /\ Len(unread) \in Nat /\ Len(tx) \in Nat
      /\ fed \in Nat /\ stream \in Seq(Items) /\ Len(buf) <= BUF_SIZE
      /\ fed + Len(buf) + Len(unread) + Len(tx) = Len(Spelt(stream))
  BY DEF IInv, TypeOK
<1>4. Spelt(stream) \in Seq(Bytes)
  BY <1>3, WholeType
<1>5. /\ Tail(buf) \in Seq(Bytes) /\ Len(Tail(buf)) = Len(buf) - 1
      /\ Rest(Spelt(stream), fed + 1, Tail(buf), unread, tx)
  <2>1. Rest(Spelt(stream), fed, buf, unread, tx)
    BY DEF IInv, Queued
  <2> QED
    BY <1>1, <1>3, <1>4, <2>1, TakeOne
<1>6. Queued'
  BY <1>1, <1>5 DEF Queued, writer
<1>7. (pc' = "feed" <=> buf' # <<>>) /\ pc' \in {"feed", "refresh"}
  <2>1. buf' # <<>> <=> Len(buf) # 1
    <3>1. buf' \in Seq(Bytes) /\ Len(buf') = Len(buf) - 1
      BY <1>1, <1>5
    <3>2. buf' = <<>> <=> Len(buf') = 0
      BY <3>1, EmptySeq
    <3> QED
      BY <1>3, <3>1, <3>2
  <2> QED
    BY <1>1, <2>1
<1>8. fed' + Len(buf') + Len(unread') + Len(tx') = Len(Spelt(stream'))
  BY <1>1, <1>3, <1>5 DEF writer
<1>9. Len(buf') <= BUF_SIZE
  BY <1>1, <1>3, <1>5, HostToolAssumption
<1>10. TypeOK'
  <2>1. Len(parser'.bytes) < WORD_BYTES /\ Len(parser'.ext_buf) <= EXT_MAX
    BY <1>2 DEF ParserOK
  <2> QED
    BY <1>1, <1>2, <1>5, <1>7, <1>8, <1>9, <2>1 DEF IInv, TypeOK, writer
<1> QED
  BY <1>1, <1>2, <1>3, <1>6, <1>10 DEF IInv, writer

LEMMA IInvStep == IInv /\ [Next]_vars => IInv'
<1> SUFFICES ASSUME IInv, [Next]_vars PROVE IInv'
  OBVIOUS
<1>1. CASE /\ UNCHANGED <<parser, buf, app, unread, tx, stream, fed>>
           /\ pc' \in {"test", "read", "refresh", "stopped"} /\ pc # "feed"
           /\ closed' \in BOOLEAN /\ g_stop' \in BOOLEAN
  <2>1. TypeOK'
    BY <1>1 DEF IInv, TypeOK, app
  <2>2. Queued' /\ (\E j, k : Reached(j, k))'
    BY <1>1 DEF IInv, Queued, Reached, app
  <2> QED
    BY <1>1, <2>1, <2>2 DEF IInv, app
<1>2. CASE /\ UNCHANGED <<parser, buf, app, unread, tx, stream, fed, pc>>
           /\ closed' \in BOOLEAN /\ g_stop' \in BOOLEAN
  <2>1. TypeOK'
    BY <1>2 DEF IInv, TypeOK, app
  <2>2. Queued' /\ (\E j, k : Reached(j, k))'
    BY <1>2 DEF IInv, Queued, Reached, app
  <2> QED
    BY <1>2, <2>1, <2>2 DEF IInv, app
<1>3. closed \in BOOLEAN /\ g_stop \in BOOLEAN
  BY DEF IInv, TypeOK
<1>4. CASE Close \/ on_signal \/ UNCHANGED vars
  BY <1>2, <1>3, <1>4 DEF Close, on_signal, vars, writer
<1>5. CASE Test \/ ReadNothing \/ ReadFails \/ Refresh
  BY <1>1, <1>3, <1>5 DEF Test, TestOf, ReadNothing, ReadFails, Refresh, writer
<1>6. CASE Done
  BY <1>4, <1>6 DEF Done
<1> QED
  BY <1>4, <1>5, <1>6, WriteInv, ReadInv, FeedInv DEF Next, World, Loop

-----------------------------------------------------------------------------
\* The items whose last byte was fed are those before the place reached.
LEMMA CompleteReached ==
    ASSUME NEW j, NEW k, Reached(j, k), stream \in Seq(Items), fed \in Nat
    PROVE  Complete = UpTo(stream, j)
<1>1. /\ j \in 0 .. Len(stream) /\ k \in Nat /\ fed = Offset(stream, j) + k
      /\ j < Len(stream) => k < Size(stream[j + 1])
      /\ j = Len(stream) => k = 0
  <2>1. /\ j \in 0 .. Len(stream) /\ k \in Nat /\ Len(stream) \in Nat
        /\ k # 0 => j < Len(stream) /\ k < Size(stream[j + 1])
    BY DEF Reached, StandsAt
  <2>2. j < Len(stream) => Size(stream[j + 1]) \in Nat /\ Size(stream[j + 1]) > 1
    <3> SUFFICES ASSUME j < Len(stream) PROVE stream[j + 1] \in Items
      BY SizeType
    <3> QED
      BY <2>1, UpToNext
  <2> QED
    BY <2>1, <2>2 DEF Reached
<1>2. \A l \in 0 .. Len(stream) : Offset(stream, l) \in Nat
  BY SpeltType DEF Offset
<1>3. \A l \in 0 .. Len(stream) : Offset(stream, l) <= fed <=> l <= j
  <2> SUFFICES ASSUME NEW l \in 0 .. Len(stream)
               PROVE  Offset(stream, l) <= fed <=> l <= j
    OBVIOUS
  <2>1. CASE l <= j
    <3>1. Offset(stream, l) <= Offset(stream, j)
      <4>1. j \in l .. Len(stream)
        BY <1>1, <2>1
      <4> QED
        BY <4>1, OffsetsGrow
    <3> QED
      BY <1>1, <1>2, <2>1, <3>1
  <2>2. CASE ~(l <= j)
    <3>1. j < Len(stream) /\ j + 1 \in 0 .. Len(stream) /\ l \in (j + 1) .. Len(stream)
      BY <1>1, <2>2
    <3>2. Offset(stream, j + 1) <= Offset(stream, l)
      BY <3>1, OffsetsGrow
    <3>3. Offset(stream, j + 1) = Offset(stream, j) + Size(stream[j + 1])
      BY <1>1, <3>1, OffsetNext
    <3>4. Size(stream[j + 1]) \in Nat
      BY <1>1, <3>1, UpToNext, SizeType
    <3> QED
      BY <1>1, <1>2, <2>2, <3>1, <3>2, <3>3, <3>4
  <2> QED
    BY <2>1, <2>2
<1>4. Ended = 0 .. j
  <2>1. \A l : l \in Ended <=> l \in 0 .. Len(stream) /\ Offset(stream, l) <= fed
    BY DEF Ended, Offset, UpTo
  <2>2. \A l : l \in 0 .. j <=> l \in 0 .. Len(stream) /\ l <= j
    BY <1>1
  <2> QED
    BY <1>3, <2>1, <2>2
<1>5. (CHOOSE l \in Ended : \A i \in Ended : i <= l) = j
  <2>1. j \in Ended /\ \A i \in Ended : i <= j
    BY <1>1, <1>4
  <2>2. \A l \in Ended : (\A i \in Ended : i <= l) => l = j
    BY <1>1, <1>4, <2>1
  <2> QED
    BY <2>1, <2>2
<1> QED
  BY <1>5 DEF Complete, UpTo

LEMMA IInvImplies == IInv => SameHoweverCut
<1> SUFFICES ASSUME IInv PROVE SameHoweverCut
  OBVIOUS
<1>1. PICK j, k : Reached(j, k)
  BY DEF IInv
<1>2. Complete = UpTo(stream, j)
  BY <1>1, CompleteReached DEF IInv
<1> QED
  BY <1>1, <1>2 DEF Reached, SameHoweverCut, SoFar

\* The types, the capacity of the tool's buffer and of the decoder's, and that
\* no byte is lost or made between the writer and the decoder.
THEOREM TypeCorrect == Spec => []TypeOK
<1>1. IInv => TypeOK
  BY DEF IInv
<1> QED
  BY <1>1, IInvInit, IInvStep, PTL DEF Spec

\* However the writer's stream is cut into reads, the backend is handed the
\* frames it composes, whole and in order, each as soon as its last byte was
\* fed, and an EXIT is seen exactly when it was fed.
THEOREM FramesHoweverCut == Spec => []SameHoweverCut
  BY IInvImplies, IInvInit, IInvStep, PTL DEF Spec
=============================================================================
