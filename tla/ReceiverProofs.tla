--------------------------- MODULE ReceiverProofs ---------------------------
(***************************************************************************)
(* Proofs about Receiver, for every window, FIFO and vocabulary of         *)
(* messages.  The first three need nothing of the sender: the types, what  *)
(* the last ready reply tells a negotiated peer, and that a frame sent     *)
(* into a quiet window is held whatever came before.  The last three are   *)
(* about a sender that is Timely: nothing arrives outside the window, the  *)
(* flush discards nothing, and the receiver implements Display.            *)
(***************************************************************************)
EXTENDS Receiver, DecoderProofs

-----------------------------------------------------------------------------
(* The ready reply.                                                        *)
Shown == IF g_have_frame THEN g_draw ELSE Splash

Describes(r, s) ==
    IF s = Splash
    THEN r = [v2 |-> TRUE, vectors |-> 0, overflow |-> FALSE, idle |-> TRUE]
    ELSE r = [v2 |-> TRUE, vectors |-> Len(s.segments), overflow |-> s.overflow, idle |-> FALSE]

\* The reply is composed from the globals, not from the screen: that they agree
\* takes a held frame that cannot be mistaken for none, a count of vectors that
\* is cleared with the frame, and callbacks that come only while the loop
\* receives.
RInv ==
    /\ g_draw # Splash
    /\ ~g_have_frame => g_draw = NoFrame
    /\ pc \in {"flush", "reply"} => screen = Shown
    /\ (pc = "receive" /\ reply.v2) => Describes(reply, screen)

-----------------------------------------------------------------------------
LEMMA NoFrameIsNotSplash == NoFrame # Splash
<1>1. "splash" \in DOMAIN Splash /\ "splash" \notin DOMAIN NoFrame
  BY DEF Splash, NoFrame
<1> QED
  BY <1>1

LEMMA MappedIsNotSplash == \A frame : Mapped(frame) # Splash
<1> SUFFICES ASSUME NEW frame PROVE Mapped(frame) # Splash
  OBVIOUS
<1>1. "splash" \in DOMAIN Splash /\ "splash" \notin DOMAIN Mapped(frame)
  BY DEF Splash, Mapped
<1> QED
  BY <1>1

LEMMA RInvInit == Init => RInv
<1> SUFFICES ASSUME Init PROVE RInv
  OBVIOUS
<1> QED
  BY NoFrameIsNotSplash DEF Init, RInv, Shown

LEMMA RInvStep == RInv /\ [Next]_vars => RInv'
<1> SUFFICES ASSUME RInv, [Next]_vars PROVE RInv'
  OBVIOUS
<1>1. CASE UNCHANGED <<pc, g_draw, g_have_frame, screen, reply>>
  BY <1>1 DEF RInv, Shown, Describes
<1>2. CASE Get
  <2>1. pc = "receive" /\ UNCHANGED <<pc, screen, reply>>
    BY <1>2 DEF Get
  <2>2. PICK r \in vt_parser_feed(parser, Head(ring)) :
           CASE r.call.cb = "frame" -> on_frame(r.call.frame)
             [] r.call.cb = "keepalive" -> on_keepalive
             [] r.call.cb = "query" -> on_query
             [] OTHER -> UNCHANGED <<globals, owed>>
    BY <1>2 DEF Get
  <2>3. \/ \E frame : on_frame(frame)
        \/ UNCHANGED <<g_draw, g_have_frame>>
    BY <2>2 DEF on_keepalive, on_query, globals
  <2>4. CASE \E frame : on_frame(frame)
    <3>1. PICK frame : g_draw' = Mapped(frame) /\ g_have_frame' = TRUE
      BY <2>4 DEF on_frame
    <3> QED
      BY <2>1, <3>1, MappedIsNotSplash DEF RInv, Describes
  <2>5. CASE UNCHANGED <<g_draw, g_have_frame>>
    BY <1>1, <2>1, <2>5
  <2> QED
    BY <2>3, <2>4, <2>5
<1>3. CASE Leave
  <2>1. /\ pc' = "draw"
        /\ \/ g_have_frame' = FALSE /\ g_draw' = NoFrame
           \/ UNCHANGED <<g_draw, g_have_frame>>
    BY <1>3 DEF Leave, LeaveOf
  <2> QED
    BY <2>1, NoFrameIsNotSplash DEF RInv
<1>4. CASE DrawPass
  BY <1>4 DEF DrawPass, RInv, Shown, globals
<1>5. CASE Flush
  BY <1>5 DEF Flush, FlushTo, RInv, Shown, globals
<1>6. CASE Reply
  <2>1. /\ pc = "reply" /\ pc' = "receive" /\ UNCHANGED <<g_draw, g_have_frame, screen>>
        /\ reply' = IF g_peer_v2 THEN Record ELSE SyncByte
    BY <1>6 DEF Reply, ReplyAt
  <2>2. CASE g_peer_v2
    <3>1. reply' = [v2 |-> TRUE, vectors |-> Len(g_draw.segments),
                    overflow |-> g_draw.overflow, idle |-> ~g_have_frame]
      BY <2>1, <2>2 DEF Record
    <3>2. CASE g_have_frame
      <4>1. screen = g_draw /\ screen # Splash
        BY <2>1, <3>2 DEF RInv, Shown
      <4>2. Describes(reply', screen)
        BY <3>1, <3>2, <4>1 DEF Describes
      <4> QED
        BY <2>1, <4>2 DEF RInv
    <3>3. CASE ~g_have_frame
      <4>1. screen = Splash /\ g_draw = NoFrame
        BY <2>1, <3>3 DEF RInv, Shown
      <4>2. Len(NoFrame.segments) = 0 /\ NoFrame.overflow = FALSE
        BY DEF NoFrame
      <4>3. Describes(reply', screen)
        BY <3>1, <3>3, <4>1, <4>2 DEF Describes
      <4> QED
        BY <2>1, <4>3 DEF RInv
    <3> QED
      BY <3>2, <3>3
  <2>3. CASE ~g_peer_v2
    <3>1. ~(reply'.v2)
      BY <2>1, <2>3 DEF SyncByte
    <3> QED
      BY <2>1, <3>1 DEF RInv
  <2> QED
    BY <2>2, <2>3
<1>7. CASE UNCHANGED vars
  BY <1>1, <1>7 DEF vars, board, globals
<1>8. CASE Transmit \/ Byte \/ Silence \/ Poll
  <2>1. UNCHANGED <<pc, g_draw, g_have_frame, screen, reply>>
    BY <1>8 DEF Transmit, Start, Byte, Silence, Tick, Poll, board, globals
  <2> QED
    BY <1>1, <2>1
<1> QED
  BY <1>2, <1>3, <1>4, <1>5, <1>6, <1>7, <1>8 DEF Next, Loop

\* Whatever the sender does, when a negotiated peer has a record in its hands
\* and nothing has come since, the record describes what is on the screen: its
\* vectors, whether it was cut, and whether it is the splash.
THEOREM RepliesDescribeScreen == Spec => []ReplyDescribesScreen
<1>1. RInv => ReplyDescribesScreen
  BY DEF RInv, Describes, ReplyDescribesScreen
<1> QED
  BY <1>1, RInvInit, RInvStep, PTL DEF Spec

-----------------------------------------------------------------------------
(* The types.                                                              *)
TInv ==
    /\ TypeOK
    /\ ParserOK(parser) /\ Tidy(parser)
    /\ tx # <<>> => msg \in Messages

\* The table of pictures holds every frame message.
LEMMA PicturesOfFrames ==
    \A m \in Messages : IsFrame(m) =>
        m \in DOMAIN Picture /\ Picture[m] = Mapped(Last(Composed(m).out))
BY DEF Picture

LEMMA MappedLength ==
    ASSUME NEW pic, PictureOK(pic)
    PROVE  Len(Mapped(Published(pic)).segments) <= MAX_PIPELINE
<1> DEFINE place(x) == vt_map_coord(x, RES_MAX, VECTREX_MIN, VECTREX_MAX)
           at(v) == [from |-> place(v.from), to |-> place(v.to),
                     z |-> v.z \div 2 ^ BRIGHT_SHIFT]
           s == pic.segments
<1>1. s \in Seq(Vector) /\ Len(s) <= MAX_PIPELINE
  BY DEF PictureOK, PictureType
<1>2. Mapped(Published(pic)).segments = [i \in DOMAIN s |-> at(s[i])]
  BY DEF Mapped, Published
<1> HIDE DEF at, s
<1>3. [i \in DOMAIN s |-> at(s[i])] = [i \in 1 .. Len(s) |-> at(s[i])] /\ Len(s) \in Nat
  BY <1>1
<1>4. Len([i \in 1 .. Len(s) |-> at(s[i])]) = Len(s)
  BY <1>3
<1> QED
  BY <1>1, <1>2, <1>3, <1>4

\* What a frame callback is handed.
LEMMA CallPublishes ==
    ASSUME NEW p, NEW b, NEW r \in vt_parser_feed(p, b), r.call.cb = "frame"
    PROVE  r.call.frame = Published(p.pic)
<1>1. r.call = NoCall \/ \E w : r.call = Callback(p.pic, w)
  BY DEF vt_parser_feed
<1>2. r.call # NoCall
  BY DEF NoCall
<1>3. PICK w : r.call = Callback(p.pic, w)
  BY <1>1, <1>2
<1>4. r.call \in {[cb |-> "frame", frame |-> Published(p.pic)], [cb |-> "exit"],
                  [cb |-> "query"], [cb |-> "keepalive"], NoCall}
  BY <1>3 DEF Callback
<1> QED
  BY <1>4 DEF NoCall

LEMMA TInvInit == Init => TInv
<1> SUFFICES ASSUME Init PROVE TInv
  OBVIOUS
<1>1. ParserOK(parser) /\ Tidy(parser)
  BY InitialParser, ResyncRests DEF Init
<1>2. Len(parser.bytes) < WORD_BYTES /\ (parser.ext_remaining > 0 => parser.bytes = <<>>)
  BY <1>1 DEF ParserOK
<1>3. Len(g_draw.segments) <= MAX_PIPELINE
  BY NoBytes, FrameAssumption DEF Init, NoFrame
<1>4. 0 \in 0 .. RX_TIMEOUT /\ 0 \in 0 .. IDLE_TIMEOUT /\ 0 \in 0 .. MAX_CREDITS
      /\ 0 \in 0 .. SLACK + 1 /\ 0 <= FIFO_DEPTH
  BY ReceiverAssumption
<1>5. TypeOK
  BY <1>2, <1>3, <1>4, NoBytes DEF Init, TypeOK
<1> QED
  BY <1>1, <1>5 DEF Init, TInv

LEMMA TickType ==
    ASSUME TInv, Tick
    PROVE  /\ elapsed' \in 0 .. RX_TIMEOUT /\ idle' \in 0 .. IDLE_TIMEOUT
           /\ age' \in 0 .. SLACK + 1 /\ credits' \in 0 .. MAX_CREDITS
           /\ UNCHANGED <<board, msg>>
<1>1. /\ elapsed \in 0 .. RX_TIMEOUT /\ idle \in 0 .. IDLE_TIMEOUT
      /\ age \in 0 .. SLACK + 1 /\ credits \in 0 .. MAX_CREDITS
  BY DEF TInv, TypeOK
<1>2. elapsed' \in 0 .. RX_TIMEOUT
  BY <1>1, ReceiverAssumption DEF Tick, Polled
<1>3. idle' \in 0 .. IDLE_TIMEOUT /\ age' \in 0 .. SLACK + 1
  BY <1>1, ReceiverAssumption DEF Tick, Smaller
<1>4. credits' \in 0 .. MAX_CREDITS
  BY <1>1, ReceiverAssumption DEF Tick
<1> QED
  BY <1>2, <1>3, <1>4 DEF Tick

LEMMA GetType ==
    ASSUME TInv, Get
    PROVE  /\ ring # <<>> /\ Head(ring) \in Bytes
           /\ Tail(ring) \in Seq(Bytes) /\ Len(Tail(ring)) = Len(ring) - 1
           /\ ParserOK(parser)' /\ Tidy(parser)'
           /\ Len(g_draw'.segments) <= MAX_PIPELINE
           /\ g_have_frame' \in BOOLEAN /\ g_activity' \in BOOLEAN /\ g_peer_v2' \in BOOLEAN
           /\ owed' \in {owed, Splash}
<1>1. /\ ring # <<>> /\ ring \in Seq(Bytes) /\ ParserOK(parser) /\ Tidy(parser)
      /\ Len(g_draw.segments) <= MAX_PIPELINE
      /\ g_have_frame \in BOOLEAN /\ g_activity \in BOOLEAN /\ g_peer_v2 \in BOOLEAN
  BY DEF Get, TInv, TypeOK
<1>2. /\ Head(ring) \in Bytes /\ Tail(ring) \in Seq(Bytes) /\ Len(Tail(ring)) = Len(ring) - 1
  BY <1>1, HeadFirst
<1>3. PICK r \in vt_parser_feed(parser, Head(ring)) :
        /\ parser' = r.parser
        /\ CASE r.call.cb = "frame" -> on_frame(r.call.frame)
             [] r.call.cb = "keepalive" -> on_keepalive
             [] r.call.cb = "query" -> on_query
             [] OTHER -> UNCHANGED <<globals, owed>>
  BY DEF Get
<1>4. ParserOK(r.parser) /\ Tidy(r.parser)
  BY <1>1, <1>2, FeedType, FeedTidy
<1>5. /\ Len(g_draw'.segments) <= MAX_PIPELINE
      /\ g_have_frame' \in BOOLEAN /\ g_activity' \in BOOLEAN /\ g_peer_v2' \in BOOLEAN
      /\ owed' \in {owed, Splash}
  <2>1. CASE r.call.cb = "frame"
    <3>1. on_frame(Published(parser.pic))
      BY <1>3, <2>1, CallPublishes
    <3>2. Len(Mapped(Published(parser.pic)).segments) <= MAX_PIPELINE
      BY <1>1, MappedLength DEF ParserOK
    <3> QED
      BY <1>1, <3>1, <3>2 DEF on_frame
  <2>2. CASE r.call.cb # "frame"
    <3>1. on_keepalive \/ on_query \/ UNCHANGED <<globals, owed>>
      BY <1>3, <2>2
    <3> QED
      BY <1>1, <3>1 DEF on_keepalive, on_query, globals
  <2> QED
    BY <2>1, <2>2
<1> QED
  BY <1>1, <1>2, <1>3, <1>4, <1>5

LEMMA TInvStep == TInv /\ [Next]_vars => TInv'
<1> SUFFICES ASSUME TInv, [Next]_vars PROVE TInv'
  OBVIOUS
<1> USE DEF TInv
<1>1. CASE UNCHANGED vars
  BY <1>1 DEF TypeOK, vars, board, globals, sender
<1>2. CASE Transmit
  <2>1. PICK m \in Messages : Start(m)
    BY <1>2 DEF Transmit
  <2>2. m \in Seq(Items) /\ Spelt(m) \in Seq(Bytes)
    BY ReceiverAssumption, WholeType
  <2>3. /\ tx' = Spelt(m) /\ msg' = m /\ credits' = credits - 1 /\ credits > 0
        /\ clean' = (pc = "receive" /\ quiet)
        /\ UNCHANGED <<board, fifo, elapsed, idle, age, quiet, owed>>
    BY <2>1 DEF Start
  <2>4. credits' \in 0 .. MAX_CREDITS /\ clean' \in BOOLEAN
    BY <2>3, ReceiverAssumption DEF TypeOK
  <2> QED
    BY <2>2, <2>3, <2>4 DEF TypeOK, board, globals
<1>3. CASE Byte
  <2>1. /\ tx # <<>> /\ Tick /\ tx' = Tail(tx) /\ quiet' = FALSE
        /\ fifo' = (IF Len(fifo) < FIFO_DEPTH THEN Append(fifo, Head(tx)) ELSE fifo)
        /\ clean' = (clean /\ pc = "receive")
        /\ owed' = IF tx' = <<>> /\ IsFrame(msg) THEN Picture[msg] ELSE owed
    BY <1>3 DEF Byte
  <2>2. /\ elapsed' \in 0 .. RX_TIMEOUT /\ idle' \in 0 .. IDLE_TIMEOUT
        /\ age' \in 0 .. SLACK + 1 /\ credits' \in 0 .. MAX_CREDITS
        /\ UNCHANGED <<board, msg>>
    BY <2>1, TickType
  <2>3. /\ tx \in Seq(Bytes) /\ fifo \in Seq(Bytes) /\ Len(fifo) <= FIFO_DEPTH
        /\ Len(fifo) \in Nat
    BY DEF TypeOK
  <2>4. Head(tx) \in Bytes /\ tx' \in Seq(Bytes)
    BY <2>1, <2>3, HeadFirst
  <2>5. Append(fifo, Head(tx)) \in Seq(Bytes) /\ Len(Append(fifo, Head(tx))) = Len(fifo) + 1
    BY <2>3, <2>4, AppendProperties
  <2>6. fifo' \in Seq(Bytes) /\ Len(fifo') <= FIFO_DEPTH
    BY <2>1, <2>3, <2>5, ReceiverAssumption
  <2>7. owed' \in Frames \union {Splash}
    <3>1. owed \in Frames \union {Splash} /\ msg \in Messages
      BY <2>1 DEF TypeOK
    <3>2. IsFrame(msg) => Picture[msg] \in Frames
      BY <3>1, PicturesOfFrames DEF Frames
    <3> QED
      BY <2>1, <3>1, <3>2
  <2> QED
    BY <2>1, <2>2, <2>4, <2>6, <2>7 DEF TypeOK, board, globals
<1>4. CASE Silence
  <2>1. /\ elapsed' \in 0 .. RX_TIMEOUT /\ idle' \in 0 .. IDLE_TIMEOUT
        /\ age' \in 0 .. SLACK + 1 /\ credits' \in 0 .. MAX_CREDITS
        /\ UNCHANGED <<board, msg>>
    BY <1>4, TickType DEF Silence
  <2>2. UNCHANGED <<tx, fifo, quiet, clean, owed>>
    BY <1>4 DEF Silence
  <2> QED
    BY <2>1, <2>2 DEF TypeOK, board, globals
<1>5. CASE Poll
  BY <1>5, NoBytes, ReceiverAssumption DEF Poll, TypeOK, globals, sender
<1>6. CASE Get
  <2>1. /\ ring' = Tail(ring)
        /\ UNCHANGED <<pc, fifo, elapsed, idle, screen, reply, sender, quiet, clean>>
    BY <1>6 DEF Get
  <2>2. ring' \in Seq(Bytes) /\ Len(ring') <= FIFO_DEPTH
    <3>1. ring \in Seq(Bytes) /\ Len(ring) <= FIFO_DEPTH /\ Len(ring) \in Nat
      BY DEF TypeOK
    <3> QED
      BY <1>6, <2>1, <3>1, GetType, ReceiverAssumption
  <2>3. ParserOK(parser)' /\ Tidy(parser)'
    BY <1>6, GetType
  <2>4. Len(parser'.bytes) < WORD_BYTES /\ (parser'.ext_remaining > 0 => parser'.bytes = <<>>)
    BY <2>3 DEF ParserOK
  <2>5. owed' \in Frames \union {Splash}
    <3>1. owed \in Frames \union {Splash} /\ owed' \in {owed, Splash}
      BY <1>6, GetType DEF TypeOK
    <3> QED
      BY <3>1
  <2>6. /\ Len(g_draw'.segments) <= MAX_PIPELINE
        /\ g_have_frame' \in BOOLEAN /\ g_activity' \in BOOLEAN /\ g_peer_v2' \in BOOLEAN
    BY <1>6, GetType
  <2> QED
    BY <2>1, <2>2, <2>3, <2>4, <2>5, <2>6 DEF TypeOK, sender
<1>7. CASE Leave
  <2>1. /\ pc' = "draw" /\ idle' \in {0, idle}
        /\ \/ g_have_frame' = FALSE /\ g_draw' = NoFrame
           \/ UNCHANGED <<g_draw, g_have_frame>>
        /\ UNCHANGED <<parser, fifo, ring, g_activity, g_peer_v2, elapsed, screen,
                       reply, sender, quiet, clean, owed>>
    BY <1>7 DEF Leave, LeaveOf
  <2>2. Len(g_draw'.segments) <= MAX_PIPELINE /\ g_have_frame' \in BOOLEAN
    <3>1. NoFrame.segments = <<>> /\ Len(<<>>) <= MAX_PIPELINE
      BY NoBytes, FrameAssumption DEF NoFrame
    <3>2. CASE g_have_frame' = FALSE /\ g_draw' = NoFrame
      BY <3>1, <3>2
    <3>3. CASE UNCHANGED <<g_draw, g_have_frame>>
      BY <3>3 DEF TypeOK
    <3> QED
      BY <2>1, <3>2, <3>3
  <2>3. idle' \in 0 .. IDLE_TIMEOUT
    BY <2>1, ReceiverAssumption DEF TypeOK
  <2> QED
    BY <2>1, <2>2, <2>3 DEF TypeOK, sender
<1>8. CASE DrawPass
  BY <1>8 DEF DrawPass, TypeOK, globals, sender
<1>9. CASE Flush
  <2>1. /\ parser' = vt_parser_resync(parser) /\ pc' = "reply" /\ quiet' = TRUE
        /\ fifo' = <<>> /\ ring' = <<>> /\ clean' = (clean /\ tx = <<>>)
        /\ UNCHANGED <<globals, elapsed, idle, screen, reply, sender, owed>>
    BY <1>9 DEF Flush, FlushTo
  <2>2. ParserOK(parser') /\ Tidy(parser')
    BY <2>1, ResyncRests
  <2>3. Len(parser'.bytes) < WORD_BYTES /\ (parser'.ext_remaining > 0 => parser'.bytes = <<>>)
    BY <2>2 DEF ParserOK
  <2>4. <<>> \in Seq(Bytes) /\ Len(<<>>) <= FIFO_DEPTH
    BY NoBytes, ReceiverAssumption
  <2> QED
    BY <2>1, <2>2, <2>3, <2>4 DEF TypeOK, globals, sender
<1>10. CASE Reply
  <2>1. /\ pc' = "receive" /\ elapsed' = 0 /\ g_activity' = FALSE /\ age' = 0
        /\ credits' = IF PROMPT THEN 1 ELSE Smaller(credits + 1, MAX_CREDITS)
        /\ UNCHANGED <<parser, fifo, ring, g_draw, g_have_frame, g_peer_v2, idle,
                       screen, tx, msg, quiet, clean, owed>>
    BY <1>10 DEF Reply, ReplyAt
  <2>2. credits' \in 0 .. MAX_CREDITS /\ 0 \in 0 .. RX_TIMEOUT /\ 0 \in 0 .. SLACK + 1
    BY <2>1, ReceiverAssumption DEF TypeOK, Smaller
  <2> QED
    BY <2>1, <2>2 DEF TypeOK
<1> QED
  BY <1>1, <1>2, <1>3, <1>4, <1>5, <1>6, <1>7, <1>8, <1>9, <1>10 DEF Next, Loop

\* The types: no C array is filled past its end, and no time or count leaves its
\* range.
THEOREM TypeCorrect == Spec => []TypeOK
<1>1. TInv => TypeOK
  BY DEF TInv
<1> QED
  BY <1>1, TInvInit, TInvStep, PTL DEF Spec

-----------------------------------------------------------------------------
(* A message on its way, from the line to the decoder.                     *)
LineEmpty == tx = <<>> /\ fifo = <<>> /\ ring = <<>>

\* The decoder was fed j items of msg and k bytes of the next, and the rest is
\* in the ring, the FIFO and the sender's hands, in that order.
ArrivedTo(j, k) ==
    /\ StandsAt(parser, msg, j, k)
    /\ Rest(Spelt(msg), Offset(msg, j) + k, ring, fifo, tx)

LEMMA ArrivesFromStart ==
    ASSUME NEW m \in Messages, Start(m), Between(parser), fifo = <<>>, ring = <<>>
    PROVE  ArrivedTo(0, 0)'
<1>1. /\ tx' = Spelt(m) /\ msg' = m /\ parser' = parser /\ fifo' = <<>> /\ ring' = <<>>
  BY DEF Start, board
<1>2. m \in Seq(Items) /\ Spelt(m) \in Seq(Bytes) /\ Offset(m, 0) = 0 /\ Len(m) \in Nat
  BY ReceiverAssumption, WholeType
<1>3. Rest(Spelt(m), 0, <<>>, <<>>, Spelt(m))
  <2>1. <<>> \o <<>> \o Spelt(m) = Spelt(m) /\ SubSeq(Spelt(m), 0 + 1, Len(Spelt(m))) = Spelt(m)
    BY <1>2, SubSeqFull, ConcatEmptySeq
  <2> QED
    BY <2>1 DEF Rest
<1>4. StandsAt(parser, m, 0, 0)
  BY <1>2 DEF StandsAt
<1>5. Offset(m, 0) + 0 = 0
  BY <1>2
<1> QED
  BY <1>1, <1>3, <1>4, <1>5 DEF ArrivedTo

\* A byte on the line goes to the FIFO, which is empty then.
LEMMA ArrivesByByte ==
    ASSUME TInv, Byte, pc = "receive", NEW j, NEW k, ArrivedTo(j, k)
    PROVE  /\ ArrivedTo(j, k)'
           /\ fifo' # <<>> /\ Len(fifo') = 1 /\ ring' = <<>> /\ Len(tx') = Len(tx) - 1
           /\ ~g_activity
<1>1. /\ tx # <<>> /\ tx' = Tail(tx)
      /\ fifo' = (IF Len(fifo) < FIFO_DEPTH THEN Append(fifo, Head(tx)) ELSE fifo)
      /\ fifo = <<>> /\ ring = <<>> /\ ~g_activity /\ UNCHANGED <<parser, ring, msg>>
  BY DEF Byte, Tick, Polled, board
<1>2. Len(fifo) < FIFO_DEPTH
  BY <1>1, NoBytes, ReceiverAssumption
<1>3. Moves(fifo, tx, fifo', tx')
  BY <1>1, <1>2 DEF Moves
<1>4. ring \in Seq(Bytes) /\ fifo \in Seq(Bytes) /\ tx \in Seq(Bytes)
  BY DEF TInv, TypeOK
<1>5. /\ fifo' \in Seq(Bytes) /\ Len(fifo') = Len(fifo) + 1 /\ Len(tx') = Len(tx) - 1
  BY <1>3, <1>4, MoveOne
<1>6. Rest(Spelt(msg), Offset(msg, j) + k, ring, fifo', tx')
  <2>1. Rest(Spelt(msg), Offset(msg, j) + k, ring, fifo, tx)
    BY DEF ArrivedTo
  <2> QED
    BY <1>3, <1>4, <2>1, MoveOne
<1>7. ArrivedTo(j, k)'
  BY <1>1, <1>6 DEF ArrivedTo
<1>8. Len(fifo') = 1
  BY <1>1, <1>5, NoBytes
<1>9. fifo' # <<>>
  BY <1>8, NoBytes
<1> QED
  BY <1>1, <1>5, <1>7, <1>8, <1>9

LEMMA ArrivesByPoll ==
    ASSUME TInv, Poll, NEW j, NEW k, ArrivedTo(j, k)
    PROVE  ArrivedTo(j, k)'
<1>1. /\ ring = <<>> /\ ring' = fifo /\ fifo' = <<>> /\ UNCHANGED <<parser, tx, msg>>
  BY DEF Poll, sender
<1>2. fifo \in Seq(Bytes)
  BY DEF TInv, TypeOK
<1>3. <<>> \o fifo = fifo /\ fifo \o <<>> = fifo
  BY <1>2, ConcatEmptySeq
<1>4. Rest(Spelt(msg), Offset(msg, j) + k, fifo, <<>>, tx)
  BY <1>1, <1>3 DEF ArrivedTo, Rest
<1> QED
  BY <1>1, <1>4 DEF ArrivedTo

\* The decoder takes the byte where it stands.
Took(r, j, k) ==
    /\ parser' = r.parser
    /\ CASE r.call.cb = "frame" -> on_frame(r.call.frame)
         [] r.call.cb = "keepalive" -> on_keepalive
         [] r.call.cb = "query" -> on_query
         [] OTHER -> UNCHANGED <<globals, owed>>
    /\ j \in Nat /\ j < Len(msg) /\ k \in Nat /\ msg[j + 1] \in Items
    /\ Offset(msg, j) + k \in Nat /\ Offset(msg, j) + k < Len(Spelt(msg))
    /\ Rest(Spelt(msg), (Offset(msg, j) + k) + 1, ring', fifo', tx')
    /\ IF k + 1 = Size(msg[j + 1])
       THEN /\ ArrivedTo(j + 1, 0)'
            /\ Offset(msg, j + 1) + 0 = (Offset(msg, j) + k) + 1
            /\ parser'.pic = After(parser.pic, msg[j + 1])
            /\ r.call = Callback(parser.pic, msg[j + 1])
       ELSE /\ ArrivedTo(j, k + 1)'
            /\ parser'.pic = parser.pic
            /\ r.call = NoCall

LEMMA ArrivesByGet ==
    ASSUME TInv, Get, msg \in Seq(Items), NEW j, NEW k, ArrivedTo(j, k)
    PROVE  \E r : Took(r, j, k)
<1>1. /\ ring # <<>> /\ ring' = Tail(ring) /\ UNCHANGED <<fifo, tx, msg>>
      /\ \E r \in vt_parser_feed(parser, Head(ring)) :
            /\ parser' = r.parser
            /\ CASE r.call.cb = "frame" -> on_frame(r.call.frame)
                 [] r.call.cb = "keepalive" -> on_keepalive
                 [] r.call.cb = "query" -> on_query
                 [] OTHER -> UNCHANGED <<globals, owed>>
  BY DEF Get, sender
<1>2. PICK r \in vt_parser_feed(parser, Head(ring)) :
        /\ parser' = r.parser
        /\ CASE r.call.cb = "frame" -> on_frame(r.call.frame)
             [] r.call.cb = "keepalive" -> on_keepalive
             [] r.call.cb = "query" -> on_query
             [] OTHER -> UNCHANGED <<globals, owed>>
  BY <1>1
<1>3. ring \in Seq(Bytes) /\ fifo \in Seq(Bytes) /\ tx \in Seq(Bytes) /\ ParserOK(parser)
  BY DEF TInv, TypeOK
<1> DEFINE n == Offset(msg, j) + k
<1>4. StandsAt(parser, msg, j, k) /\ Rest(Spelt(msg), n, ring, fifo, tx)
  BY DEF ArrivedTo
<1>5. Spelt(msg) \in Seq(Bytes) /\ n \in Nat
  BY <1>4, WholeType, PlaceEnds
<1> HIDE DEF n
<1>6. /\ n < Len(Spelt(msg)) /\ Head(ring) = Spelt(msg)[n + 1]
      /\ Rest(Spelt(msg), n + 1, Tail(ring), fifo, tx)
  BY <1>1, <1>3, <1>4, <1>5, TakeOne
<1>7. /\ Offset(msg, j) + k < Len(Spelt(msg))
      /\ r \in vt_parser_feed(parser, Spelt(msg)[Offset(msg, j) + k + 1])
  BY <1>2, <1>6 DEF n
<1>8. j \in Nat /\ j < Len(msg) /\ k \in Nat /\ msg[j + 1] \in Items
  BY <1>4, <1>7, NextByte
<1>9. IF k + 1 = Size(msg[j + 1])
      THEN /\ StandsAt(r.parser, msg, j + 1, 0)
           /\ Offset(msg, j + 1) = Offset(msg, j) + k + 1
           /\ r.parser.pic = After(parser.pic, msg[j + 1])
           /\ r.call = Callback(parser.pic, msg[j + 1])
      ELSE /\ StandsAt(r.parser, msg, j, k + 1)
           /\ r.parser.pic = parser.pic
           /\ r.call = NoCall
  BY <1>3, <1>4, <1>7, FeedAtPlace
<1>10. Rest(Spelt(msg), n + 1, ring', fifo', tx')
  BY <1>1, <1>6
<1>11. Offset(msg, j) \in Nat
  BY <1>8, OffsetNext
<1>12. CASE k + 1 = Size(msg[j + 1])
  <2>1. Offset(msg, j + 1) + 0 = n + 1
    BY <1>5, <1>9, <1>12 DEF n
  <2>2. ArrivedTo(j + 1, 0)'
    BY <1>1, <1>2, <1>9, <1>10, <1>12, <2>1 DEF ArrivedTo
  <2>3. Took(r, j, k)
    BY <1>2, <1>5, <1>7, <1>8, <1>9, <1>10, <1>12, <2>1, <2>2 DEF Took, n
  <2> QED
    BY <2>3
<1>13. CASE k + 1 # Size(msg[j + 1])
  <2>1. Offset(msg, j) + (k + 1) = n + 1
    BY <1>8, <1>11 DEF n
  <2>2. ArrivedTo(j, k + 1)'
    BY <1>1, <1>2, <1>9, <1>10, <1>13, <2>1 DEF ArrivedTo
  <2>3. Took(r, j, k)
    BY <1>2, <1>5, <1>7, <1>8, <1>9, <1>10, <1>13, <2>2 DEF Took, n
  <2> QED
    BY <2>3
<1> QED
  BY <1>12, <1>13

-----------------------------------------------------------------------------
(* A frame sent into a quiet window.                                       *)

\* The window opens on a clean slate.
QInv ==
    /\ quiet => fifo = <<>> /\ ring = <<>> /\ Between(parser)
    /\ pc = "receive" /\ quiet => ~g_activity
    /\ pc = "reply" /\ clean => quiet /\ tx = <<>>

LEMMA QInvInit == Init => QInv
  BY InitialParser, ResyncRests DEF Init, QInv

LEMMA QInvStep == TInv /\ QInv /\ [Next]_vars => QInv'
<1> SUFFICES ASSUME TInv, QInv, [Next]_vars PROVE QInv'
  OBVIOUS
<1>1. CASE UNCHANGED vars
  BY <1>1 DEF QInv, vars, board, globals, sender
<1>2. CASE Transmit
  <2>1. PICK m \in Messages : Start(m)
    BY <1>2 DEF Transmit
  <2>2. clean' = (pc = "receive" /\ quiet)
        /\ UNCHANGED <<pc, parser, ring, g_activity, fifo, quiet>>
    BY <2>1 DEF Start, board, globals
  <2>3. pc' = "reply" => ~clean'
    BY <2>2
  <2> QED
    BY <2>2, <2>3 DEF QInv
<1>3. CASE Byte
  <2>1. quiet' = FALSE /\ pc' = pc /\ clean' = (clean /\ pc = "receive")
    BY <1>3 DEF Byte, Tick, board
  <2> QED
    BY <2>1 DEF QInv
<1>4. CASE Silence
  BY <1>4 DEF Silence, Tick, QInv, board, globals
<1>5. CASE Poll
  BY <1>5 DEF Poll, QInv, globals, sender
<1>6. CASE Get
  <2>1. ~quiet
    BY <1>6 DEF Get, QInv
  <2> QED
    BY <1>6, <2>1 DEF Get, QInv
<1>7. CASE Leave
  BY <1>7 DEF Leave, LeaveOf, QInv
<1>8. CASE DrawPass
  BY <1>8 DEF DrawPass, QInv
<1>9. CASE Flush
  <2>1. Between(parser')
    BY <1>9, ResyncRests DEF Flush, FlushTo, TInv
  <2> QED
    BY <1>9, <2>1 DEF Flush, FlushTo, QInv, sender
<1>10. CASE Reply
  BY <1>10 DEF Reply, ReplyAt, QInv
<1> QED
  BY <1>1, <1>2, <1>3, <1>4, <1>5, <1>6, <1>7, <1>8, <1>9, <1>10 DEF Next, Loop

\* While a message sent into a quiet window comes in, the decoder is in step
\* with it, draws what it means from its FRAME header on, and publishes its
\* picture at its end.
Arriving == pc = "receive" /\ clean /\ (~quiet \/ tx # <<>>)

Held == g_activity /\ g_have_frame /\ g_draw = Picture[msg]

Promised(j) ==
    HasHeader(msg) => /\ j > 0 => Represents(parser.pic, SoFar(msg, j).drawn)
                      /\ j = Len(msg) /\ IsFrame(msg) => Held

AInv ==
    Arriving => /\ msg \in Messages
                /\ Len(ring) + Len(fifo) <= 1
                /\ g_activity => ring = <<>> /\ fifo = <<>>
                /\ \E j, k : ArrivedTo(j, k) /\ Promised(j)

GInv == TInv /\ QInv /\ AInv /\ RecoversAtNextFrame

LEMMA PictureIs ==
    ASSUME NEW m \in Messages, NEW j \in Nat, j + 1 = Len(m), IsFrame(m)
    PROVE  Picture[m] = Mapped(Showable(SoFar(m, j).drawn))
<1> m \in Seq(Items)
  BY ReceiverAssumption
<1> DEFINE c == SoFar(m, j)
<1>1. j < Len(m) /\ j \in 0 .. Len(m) /\ m[j + 1].flag = "COMPLETE"
  BY DEF IsFrame
<1>2. SoFar(m, j + 1).out = Append(c.out, Showable(c.drawn))
  BY <1>1, SoFarFields
<1>3. SoFar(m, j + 1) = Composed(m)
  BY SoFarEnds
<1>4. c.out \in Seq(ShowableFrames) /\ Showable(c.drawn) \in ShowableFrames
  BY <1>1, OutType, SoFarType DEF ShowableFrames
<1> HIDE DEF c
<1>5. Last(Append(c.out, Showable(c.drawn))) = Showable(c.drawn)
  BY <1>4, AppendProperties DEF Last
<1> QED
  BY <1>2, <1>3, <1>5, PicturesOfFrames DEF c

\* What a byte of it makes of the picture, and of the frame held.
LEMMA GetDraws ==
    ASSUME TInv, Get, msg \in Seq(Items), NEW j, NEW k, ArrivedTo(j, k), NEW r, Took(r, j, k),
           k + 1 = Size(msg[j + 1]),
           Represents(parser.pic, SoFar(msg, j).drawn) \/ StartsFrame(msg[j + 1])
    PROVE  Represents(parser'.pic, SoFar(msg, j + 1).drawn)
<1> DEFINE it == msg[j + 1]
           s == SoFar(msg, j).drawn
<1>1. /\ j \in Nat /\ j < Len(msg) /\ it \in Items /\ parser'.pic = After(parser.pic, it)
  BY DEF Took
<1>2. j \in 0 .. Len(msg)
  BY <1>1
<1>3. s \in SentType /\ SoFar(msg, j + 1).drawn = Meaning(s, it) /\ PictureOK(parser.pic)
  BY <1>1, <1>2, SoFarType, SoFarFields DEF TInv, ParserOK
<1>4. Represents(parser.pic, s) \/ StartsFrame(it)
  OBVIOUS
<1> HIDE DEF it, s
<1>5. Represents(After(parser.pic, it), Meaning(s, it))
  BY <1>1, <1>3, <1>4, AfterRepresents
<1> QED
  BY <1>1, <1>3, <1>5

LEMMA GetPublishes ==
    ASSUME TInv, Get, msg \in Messages, NEW j, NEW k, ArrivedTo(j, k), NEW r, Took(r, j, k),
           k + 1 = Size(msg[j + 1]), msg[j + 1].flag = "COMPLETE",
           Represents(parser.pic, SoFar(msg, j).drawn)
    PROVE  /\ on_frame(Showable(SoFar(msg, j).drawn))
           /\ j + 1 = Len(msg) /\ IsFrame(msg) => Held'
<1> msg \in Seq(Items)
  BY ReceiverAssumption
<1>1. r.call = [cb |-> "frame", frame |-> Published(parser.pic)]
  BY ReceiverAssumption DEF Took, Callback
<1>2. on_frame(Published(parser.pic))
  BY <1>1 DEF Took
<1>3. Published(parser.pic) = Showable(SoFar(msg, j).drawn)
  BY PublishedIsShowable
<1>4. on_frame(Showable(SoFar(msg, j).drawn))
  BY <1>2, <1>3
<1>5. ASSUME j + 1 = Len(msg), IsFrame(msg) PROVE Held'
  <2>1. Picture[msg] = Mapped(Showable(SoFar(msg, j).drawn))
    BY <1>5, PictureIs DEF Took
  <2>2. msg' = msg
    BY DEF Get, sender
  <2>3. g_draw' = Picture[msg] /\ g_have_frame' = TRUE /\ g_activity' = TRUE
    BY <1>4, <2>1 DEF on_frame
  <2>4. Picture[msg'] = Picture[msg]
    BY <2>2
  <2> QED
    BY <2>3, <2>4 DEF Held
<1> QED
  BY <1>4, <1>5

LEMMA GetPromised ==
    ASSUME TInv, Get, msg \in Messages, NEW j, NEW k, ArrivedTo(j, k), Promised(j)
    PROVE  \E l, i : ArrivedTo(l, i)' /\ Promised(l)'
<1> msg \in Seq(Items)
  BY ReceiverAssumption
<1>1. PICK r : Took(r, j, k)
  BY ArrivesByGet
<1>2. /\ j \in Nat /\ j < Len(msg) /\ k \in Nat /\ msg[j + 1] \in Items /\ Len(msg) \in Nat
      /\ ~g_activity /\ msg' = msg
  BY <1>1 DEF Took, Get, sender
<1>3. CASE k + 1 # Size(msg[j + 1])
  <2>1. ArrivedTo(j, k + 1)' /\ parser'.pic = parser.pic
    BY <1>1, <1>3 DEF Took
  <2>2. Promised(j)'
    BY <1>2, <2>1 DEF Promised, HasHeader
  <2> QED
    BY <2>1, <2>2
<1>4. CASE k + 1 = Size(msg[j + 1])
  <2>1. ArrivedTo(j + 1, 0)'
    BY <1>1, <1>4 DEF Took
  <2>2. ASSUME HasHeader(msg)
        PROVE  Represents(parser.pic, SoFar(msg, j).drawn) \/ StartsFrame(msg[j + 1])
    <3>1. CASE j = 0
      BY <2>2, <3>1 DEF HasHeader, StartsFrame
    <3>2. CASE j > 0
      BY <2>2, <3>2 DEF Promised
    <3> QED
      BY <1>2, <3>1, <3>2
  <2>3. ASSUME HasHeader(msg)
        PROVE  Represents(parser'.pic, SoFar(msg, j + 1).drawn)
    BY <1>1, <1>4, <2>2, <2>3, GetDraws
  <2>4. ASSUME HasHeader(msg), j + 1 = Len(msg), IsFrame(msg)
        PROVE  Held'
    <3>1. msg[j + 1].flag = "COMPLETE"
      BY <2>4 DEF IsFrame
    <3>2. j > 0
      BY <1>2, <2>4, <3>1 DEF HasHeader
    <3>3. Represents(parser.pic, SoFar(msg, j).drawn)
      BY <2>4, <3>2 DEF Promised
    <3> QED
      BY <1>1, <1>4, <2>4, <3>1, <3>3, GetPublishes
  <2>5. Promised(j + 1)'
    <3>1. HasHeader(msg') = HasHeader(msg) /\ IsFrame(msg') = IsFrame(msg)
          /\ SoFar(msg', j + 1) = SoFar(msg, j + 1) /\ Len(msg') = Len(msg)
      BY <1>2
    <3> QED
      BY <2>3, <2>4, <3>1 DEF Promised
  <2> QED
    BY <2>1, <2>5
<1> QED
  BY <1>3, <1>4

LEMMA AInvStep ==
    ASSUME GInv, [Next]_vars
    PROVE  AInv'
<1> SUFFICES ASSUME Arriving'
             PROVE  /\ msg' \in Messages
                    /\ Len(ring') + Len(fifo') <= 1
                    /\ g_activity' => ring' = <<>> /\ fifo' = <<>>
                    /\ \E j, k : ArrivedTo(j, k)' /\ Promised(j)'
  BY DEF AInv
<1> USE DEF GInv
<1>1. CASE /\ UNCHANGED <<pc, parser, fifo, ring, g_draw, g_have_frame, g_activity,
                          tx, msg, quiet, clean>>
  BY <1>1 DEF AInv, Arriving, ArrivedTo, Promised, Held
<1>2. CASE Transmit
  <2>1. PICK m \in Messages : Start(m)
    BY <1>2 DEF Transmit
  <2>2. /\ clean' = (pc = "receive" /\ quiet) /\ tx' = Spelt(m) /\ msg' = m
        /\ UNCHANGED <<pc, quiet, ring, fifo, g_activity>>
    BY <2>1 DEF Start, board, globals
  <2>3. pc = "receive" /\ quiet /\ tx' # <<>>
    BY <2>2 DEF Arriving
  <2>4. fifo = <<>> /\ ring = <<>> /\ Between(parser) /\ ~g_activity
    BY <2>3 DEF QInv
  <2>5. ArrivedTo(0, 0)'
    BY <2>1, <2>4, ArrivesFromStart
  <2>6. Len(msg') # 0
    <3>1. m # <<>>
      BY <2>2, <2>3, SpeltNothing
    <3>2. m \in Seq(Items)
      BY ReceiverAssumption
    <3> QED
      BY <2>2, <3>1, <3>2, EmptySeq
  <2>7. Promised(0)'
    BY <2>6 DEF Promised
  <2> QED
    BY <2>2, <2>4, <2>5, <2>7, NoBytes
<1>3. CASE Byte
  <2>1. /\ tx # <<>> /\ clean' = (clean /\ pc = "receive")
        /\ UNCHANGED <<pc, parser, ring, g_draw, g_have_frame, g_activity, msg>>
    BY <1>3 DEF Byte, Tick, board, globals
  <2>2. pc = "receive" /\ clean
    BY <2>1 DEF Arriving
  <2>3. PICK j, k : msg \in Messages /\ ArrivedTo(j, k) /\ Promised(j)
    BY <2>1, <2>2 DEF AInv, Arriving
  <2>4. /\ ArrivedTo(j, k)' /\ Len(fifo') = 1 /\ ring' = <<>> /\ ~g_activity
    BY <1>3, <2>2, <2>3, ArrivesByByte
  <2>5. Promised(j)'
    BY <2>1, <2>3 DEF Promised, Held
  <2> QED
    BY <2>1, <2>3, <2>4, <2>5, NoBytes
<1>4. CASE Silence
  BY <1>1, <1>4 DEF Silence, Tick, board, globals
<1>5. CASE Poll
  <2>1. /\ ring = <<>> /\ ring' = fifo /\ fifo' = <<>> /\ ~g_activity
        /\ UNCHANGED <<pc, parser, g_draw, g_have_frame, g_activity, tx, msg, quiet, clean>>
    BY <1>5 DEF Poll, globals, sender
  <2>2. PICK j, k : /\ msg \in Messages /\ Len(ring) + Len(fifo) <= 1
                    /\ ArrivedTo(j, k) /\ Promised(j)
    BY <2>1 DEF AInv, Arriving
  <2>3. ArrivedTo(j, k)'
    BY <1>5, <2>2, ArrivesByPoll
  <2>4. Promised(j)'
    BY <2>1, <2>2 DEF Promised, Held
  <2>5. Len(ring') + Len(fifo') <= 1
    <3>1. Len(fifo) \in Nat /\ Len(ring) = 0
      BY <2>1, NoBytes DEF TInv, TypeOK
    <3> QED
      BY <2>1, <2>2, <3>1, NoBytes
  <2> QED
    BY <2>1, <2>2, <2>3, <2>4, <2>5
<1>6. CASE Get
  <2>1. /\ ring' = Tail(ring) /\ UNCHANGED <<pc, fifo, tx, msg, quiet, clean>>
    BY <1>6 DEF Get, sender
  <2>2. PICK j, k : /\ msg \in Messages /\ Len(ring) + Len(fifo) <= 1
                    /\ ArrivedTo(j, k) /\ Promised(j)
    BY <2>1 DEF AInv, Arriving
  <2>3. \E l, i : ArrivedTo(l, i)' /\ Promised(l)'
    BY <1>6, <2>2, GetPromised, ReceiverAssumption
  <2>4. ring' = <<>> /\ fifo' = <<>>
    <3>1. /\ Len(ring') = Len(ring) - 1 /\ ring' \in Seq(Bytes) /\ fifo \in Seq(Bytes)
          /\ Len(ring) \in Nat /\ Len(fifo) \in Nat /\ Len(ring') \in Nat
      BY <1>6, <2>1, GetType DEF TInv, TypeOK
    <3>2. Len(ring') = 0 /\ Len(fifo) = 0
      BY <2>2, <3>1
    <3> QED
      BY <2>1, <3>1, <3>2, EmptySeq
  <2> QED
    BY <2>1, <2>2, <2>3, <2>4, NoBytes
<1>7. CASE Leave \/ DrawPass \/ Flush
  BY <1>7 DEF Leave, LeaveOf, DrawPass, Flush, FlushTo, Arriving
<1>8. CASE Reply
  BY <1>8 DEF Reply, ReplyAt, QInv, Arriving
<1>9. CASE UNCHANGED vars
  BY <1>1, <1>9 DEF vars, board, globals, sender
<1> QED
  BY <1>2, <1>3, <1>4, <1>5, <1>6, <1>7, <1>8, <1>9 DEF Next, Loop

LEMMA RecoversStep ==
    ASSUME GInv, [Next]_vars
    PROVE  RecoversAtNextFrame'
<1> SUFFICES ASSUME pc' = "draw", clean', ~quiet', tx' = <<>>, fifo' = <<>>,
                    IsFrame(msg'), HasHeader(msg')
             PROVE  g_have_frame' /\ g_draw' = Picture[msg']
  BY DEF RecoversAtNextFrame
<1> USE DEF GInv
<1>1. CASE UNCHANGED <<pc, g_draw, g_have_frame, fifo, tx, msg, quiet, clean>>
  BY <1>1 DEF RecoversAtNextFrame
<1>2. CASE Leave
  <2>1. /\ pc = "receive" /\ (g_activity \/ TimedOut)
        /\ g_activity => UNCHANGED <<g_draw, g_have_frame>>
        /\ UNCHANGED <<parser, fifo, ring, tx, msg, quiet, clean>>
    BY <1>2 DEF Leave, LeaveOf, sender
  <2>2. /\ msg \in Messages /\ (g_activity => ring = <<>>)
        /\ \E j, k : ArrivedTo(j, k) /\ Promised(j)
    BY <2>1 DEF AInv, Arriving
  <2>3. PICK j, k : ArrivedTo(j, k) /\ Promised(j)
    BY <2>2
  <2>4. ring = <<>> /\ fifo = <<>> /\ tx = <<>> /\ msg \in Seq(Items)
    BY <2>1, <2>2, ReceiverAssumption DEF TimedOut
  <2>5. StandsAt(parser, msg, j, k) /\ Rest(Spelt(msg), Offset(msg, j) + k, ring, fifo, tx)
    BY <2>3 DEF ArrivedTo
  <2>6. ring \in Seq(Bytes) /\ fifo \in Seq(Bytes) /\ tx \in Seq(Bytes)
    BY <2>4, NoBytes
  <2>7. j = Len(msg)
    BY <2>4, <2>5, <2>6, RestOfMessage
  <2>8. g_activity /\ g_have_frame /\ g_draw = Picture[msg]
    BY <2>1, <2>3, <2>7 DEF Promised, Held
  <2> QED
    BY <2>1, <2>8
<1>3. CASE Transmit
  <2>1. PICK m \in Messages : Start(m)
    BY <1>3 DEF Transmit
  <2>2. pc' = pc /\ clean' = (pc = "receive" /\ quiet)
    BY <2>1 DEF Start, board
  <2> QED
    BY <2>2
<1>4. CASE Byte
  BY <1>4 DEF Byte, Tick, board
<1>5. CASE Silence
  BY <1>1, <1>5 DEF Silence, Tick, board, globals
<1>6. CASE Poll \/ Get
  BY <1>6 DEF Poll, Get
<1>7. CASE DrawPass \/ Flush \/ Reply
  BY <1>7 DEF DrawPass, Flush, FlushTo, Reply, ReplyAt
<1>8. CASE UNCHANGED vars
  BY <1>1, <1>8 DEF vars, board, globals, sender
<1> QED
  BY <1>2, <1>3, <1>4, <1>5, <1>6, <1>7, <1>8 DEF Next, Loop

LEMMA GInvInit == Init => GInv
<1> SUFFICES ASSUME Init PROVE GInv
  OBVIOUS
<1>1. AInv /\ RecoversAtNextFrame
  BY DEF Init, AInv, Arriving, RecoversAtNextFrame
<1> QED
  BY <1>1, TInvInit, QInvInit DEF GInv

LEMMA GInvStep == GInv /\ [Next]_vars => GInv'
<1> SUFFICES ASSUME GInv, [Next]_vars PROVE GInv'
  OBVIOUS
<1> QED
  BY TInvStep, QInvStep, AInvStep, RecoversStep DEF GInv

\* Whatever came before, torn messages and misread words included, and whatever
\* the sender's timing: a frame that begins with a FRAME header and is sent
\* within one quiet receive phase is held, whole, when the loop goes on to draw.
THEOREM RecoversAtNext == Spec => []RecoversAtNextFrame
<1>1. GInv => RecoversAtNextFrame
  BY DEF GInv
<1> QED
  BY <1>1, GInvInit, GInvStep, PTL DEF Spec

-----------------------------------------------------------------------------
(* A timely sender.                                                        *)

\* Outside the window the line is silent.
Outside ==
    /\ pc # "receive" => LineEmpty /\ credits = 0
    /\ pc = "reply" => quiet

\* In it, a reply not used yet is recent, and a message begun is done in time.
Window ==
    pc = "receive" =>
        /\ age = Smaller(elapsed, SLACK + 1)
        /\ credits <= 1
        /\ credits # 0 => quiet /\ tx = <<>> /\ elapsed <= SLACK
        /\ g_activity => LineEmpty
        /\ ~LineEmpty => clean /\ elapsed + Len(tx) <= SLACK + Len(Spelt(msg))

\* Between messages the decoder is between words and has drawn nothing; in one,
\* it has drawn what was meant so far.
AtRest == LineEmpty => Between(parser) /\ Represents(parser.pic, NothingSent)

UnderWay ==
    ~LineEmpty => \E j, k : ArrivedTo(j, k) /\ Represents(parser.pic, SoFar(msg, j).drawn)

\* A frame is owed from its last byte's leaving the sender to its last byte's
\* reaching the decoder.
Owing == owed = IF ~LineEmpty /\ tx = <<>> /\ IsFrame(msg) THEN Picture[msg] ELSE Splash

Flow == Outside /\ Window /\ AtRest /\ UnderWay /\ Owing

PInv == GInv /\ Flow

LEMMA TimelyMessage ==
    ASSUME Timely, NEW m \in Messages
    PROVE  /\ m \in Seq(Items) /\ m # <<>> /\ Len(m) \in Nat /\ Len(Spelt(m)) \in Nat
           /\ SLACK + Len(Spelt(m)) < RX_TIMEOUT
           /\ SoFar(m, Len(m)).drawn = NothingSent
           /\ \A i \in 1 .. Len(m) - 1 : ~EndsWindow(m[i])
           /\ Spelt(m) # <<>>
<1>1. m \in Seq(Items) /\ m # <<>>
  BY ReceiverAssumption DEF Timely
<1>2. SoFar(m, Len(m)) = Composed(m) /\ Len(Spelt(m)) \in Nat /\ Spelt(m) # <<>>
  BY <1>1, SoFarEnds, WholeType, SpeltSomething
<1> QED
  BY <1>1, <1>2 DEF Timely

LEMMA FlowStart ==
    ASSUME Timely, PInv, NEW m \in Messages, Start(m)
    PROVE  Flow'
<1>1. /\ tx = <<>> /\ credits > 0 /\ tx' = Spelt(m) /\ msg' = m
      /\ credits' = credits - 1 /\ clean' = (pc = "receive" /\ quiet)
      /\ UNCHANGED <<pc, parser, ring, g_activity, fifo, elapsed, age, quiet, owed>>
  BY DEF Start, board, globals
<1>2. pc = "receive" /\ credits # 0
  BY <1>1 DEF PInv, Flow, Outside
<1>3. quiet /\ elapsed <= SLACK /\ age = Smaller(elapsed, SLACK + 1)
  BY <1>2 DEF PInv, Flow, Window
<1>4. fifo = <<>> /\ ring = <<>> /\ Between(parser) /\ ~g_activity
  BY <1>2, <1>3 DEF PInv, GInv, QInv
<1>5. /\ m \in Seq(Items) /\ tx' # <<>> /\ Len(Spelt(m)) \in Nat
  BY <1>1, TimelyMessage
<1>6. ~LineEmpty'
  BY <1>5 DEF LineEmpty
<1>7. Represents(parser.pic, NothingSent) /\ owed = Splash
  BY <1>1, <1>4 DEF PInv, Flow, AtRest, Owing, LineEmpty
<1>8. credits' = 0
  <2>1. credits \in 0 .. MAX_CREDITS
    BY DEF PInv, GInv, TInv, TypeOK
  <2>2. credits <= 1
    BY <1>2 DEF PInv, Flow, Window
  <2> QED
    BY <1>1, <2>1, <2>2
<1>9. Window'
  <2>1. elapsed' + Len(tx') <= SLACK + Len(Spelt(msg'))
    <3>1. elapsed \in Nat
      BY ReceiverAssumption DEF PInv, GInv, TInv, TypeOK
    <3> QED
      BY <1>1, <1>3, <1>5, <3>1, ReceiverAssumption
  <2>2. age' = Smaller(elapsed', SLACK + 1) /\ ~g_activity' /\ clean'
    BY <1>1, <1>2, <1>3, <1>4
  <2> QED
    BY <1>8, <2>1, <2>2 DEF Window
<1>10. UnderWay'
  <2>1. ArrivedTo(0, 0)'
    BY <1>4, ArrivesFromStart
  <2>2. SoFar(m, 0).drawn = NothingSent
    BY <1>5, SoFarEnds DEF NothingYet
  <2>3. Represents(parser'.pic, SoFar(msg', 0).drawn)
    BY <1>1, <1>7, <2>2
  <2> QED
    BY <2>1, <2>3 DEF UnderWay
<1>11. Outside' /\ AtRest' /\ Owing'
  BY <1>1, <1>2, <1>5, <1>6, <1>7 DEF Outside, AtRest, Owing
<1> QED
  BY <1>9, <1>10, <1>11 DEF Flow

LEMMA AgeNext ==
    ASSUME TInv, age = Smaller(elapsed, SLACK + 1)
    PROVE  Smaller(age + 1, SLACK + 1) = Smaller(elapsed + 1, SLACK + 1)
  BY ReceiverAssumption DEF TInv, TypeOK, Smaller

LEMMA FlowByte ==
    ASSUME Timely, PInv, Byte
    PROVE  Flow'
<1>1. /\ tx # <<>> /\ tx' = Tail(tx) /\ Polled
      /\ elapsed' = (IF pc = "receive" THEN elapsed + 1 ELSE elapsed)
      /\ age' = Smaller(age + 1, SLACK + 1)
      /\ credits' = (IF PROMPT /\ age >= SLACK THEN 0 ELSE credits)
      /\ clean' = (clean /\ pc = "receive")
      /\ owed' = (IF tx' = <<>> /\ IsFrame(msg) THEN Picture[msg] ELSE owed)
      /\ UNCHANGED <<pc, parser, ring, g_activity, msg>>
  BY DEF Byte, Tick, board, globals
<1>2. pc = "receive" /\ ~LineEmpty
  BY <1>1 DEF PInv, Flow, Outside, LineEmpty
<1>3. /\ age = Smaller(elapsed, SLACK + 1) /\ credits = 0
      /\ clean /\ elapsed + Len(tx) <= SLACK + Len(Spelt(msg))
  BY <1>1, <1>2 DEF PInv, Flow, Window
<1>4. PICK j, k : ArrivedTo(j, k) /\ Represents(parser.pic, SoFar(msg, j).drawn)
  BY <1>2 DEF PInv, Flow, UnderWay
<1>5. /\ ArrivedTo(j, k)' /\ fifo' # <<>> /\ Len(tx') = Len(tx) - 1 /\ ~g_activity
  BY <1>2, <1>4, ArrivesByByte DEF PInv, GInv
<1>6. ~LineEmpty'
  BY <1>5 DEF LineEmpty
<1>7. UnderWay'
  BY <1>1, <1>4, <1>5 DEF UnderWay
<1>8. elapsed' + Len(tx') <= SLACK + Len(Spelt(msg'))
  <2>1. elapsed \in Nat /\ Len(tx) \in Nat
    BY ReceiverAssumption DEF PInv, GInv, TInv, TypeOK
  <2>2. msg \in Messages
    BY <1>1 DEF PInv, GInv, TInv
  <2>3. Len(Spelt(msg)) \in Nat
    BY <2>2, TimelyMessage
  <2> QED
    BY <1>1, <1>2, <1>3, <1>5, <2>1, <2>3, ReceiverAssumption
<1>9. Window'
  <2>1. age' = Smaller(elapsed', SLACK + 1)
    BY <1>1, <1>2, <1>3, AgeNext DEF PInv, GInv
  <2>2. credits' = 0 /\ ~g_activity' /\ clean'
    BY <1>1, <1>2, <1>3, <1>5
  <2> QED
    BY <1>8, <2>1, <2>2 DEF Window
<1>10. Owing'
  <2>1. owed = Splash
    BY <1>1 DEF PInv, Flow, Owing
  <2>2. owed' = IF tx' = <<>> /\ IsFrame(msg') THEN Picture[msg'] ELSE Splash
    BY <1>1, <2>1
  <2> QED
    BY <1>6, <2>2 DEF Owing
<1>11. Outside' /\ AtRest'
  BY <1>1, <1>2, <1>6 DEF Outside, AtRest
<1> QED
  BY <1>7, <1>9, <1>10, <1>11 DEF Flow

LEMMA FlowSilence ==
    ASSUME Timely, PInv, Silence
    PROVE  Flow'
<1>1. /\ (tx # <<>> => ~PROMPT) /\ Polled
      /\ elapsed' = (IF pc = "receive" THEN elapsed + 1 ELSE elapsed)
      /\ age' = Smaller(age + 1, SLACK + 1)
      /\ credits' = (IF PROMPT /\ age >= SLACK THEN 0 ELSE credits)
      /\ UNCHANGED <<pc, parser, ring, g_activity, tx, msg, fifo, quiet, clean, owed>>
  BY DEF Silence, Tick, board, globals
<1>2. LineEmpty
  <2>1. tx = <<>>
    BY <1>1 DEF Timely
  <2> QED
    BY <1>1, <2>1 DEF Polled, LineEmpty, PInv, Flow, Outside
<1>3. LineEmpty'
  BY <1>1, <1>2 DEF LineEmpty
<1>4. AtRest' /\ UnderWay' /\ Owing'
  BY <1>1, <1>2, <1>3 DEF PInv, Flow, AtRest, UnderWay, Owing
<1>5. Outside'
  <2>1. credits = 0 => credits' = 0
    BY <1>1
  <2> QED
    BY <1>1, <1>3, <2>1 DEF PInv, Flow, Outside
<1>6. Window'
  <2> SUFFICES ASSUME pc = "receive"
               PROVE  /\ age' = Smaller(elapsed', SLACK + 1)
                      /\ credits' # 0 => quiet' /\ tx' = <<>> /\ elapsed' <= SLACK
                      /\ credits' <= 1
    BY <1>1, <1>3 DEF Window
  <2>1. /\ age = Smaller(elapsed, SLACK + 1) /\ credits <= 1
        /\ credits # 0 => quiet /\ tx = <<>> /\ elapsed <= SLACK
    BY DEF PInv, Flow, Window
  <2>2. age' = Smaller(elapsed', SLACK + 1)
    BY <1>1, <2>1, AgeNext DEF PInv, GInv
  <2>3. ASSUME credits' # 0 PROVE quiet' /\ tx' = <<>> /\ elapsed' <= SLACK
    <3>1. credits # 0 /\ ~(age >= SLACK)
      BY <1>1, <2>3 DEF Timely
    <3>2. elapsed \in Nat /\ SLACK \in Nat
      BY ReceiverAssumption DEF PInv, GInv, TInv, TypeOK
    <3>3. elapsed + 1 <= SLACK
      BY <2>1, <3>1, <3>2 DEF Smaller
    <3> QED
      BY <1>1, <2>1, <3>1, <3>3
  <2>4. credits' <= 1
    BY <1>1, <2>1
  <2> QED
    BY <2>2, <2>3, <2>4
<1> QED
  BY <1>4, <1>5, <1>6 DEF Flow

LEMMA FlowPoll ==
    ASSUME Timely, PInv, Poll
    PROVE  Flow'
<1>1. /\ pc = "receive" /\ ring = <<>> /\ fifo # <<>> /\ ring' = fifo /\ fifo' = <<>>
      /\ ~g_activity
      /\ UNCHANGED <<pc, parser, g_activity, elapsed, age, credits, tx, msg, quiet, clean, owed>>
  BY DEF Poll, globals, sender
<1>2. ~LineEmpty /\ ~LineEmpty'
  BY <1>1 DEF LineEmpty
<1>3. PICK j, k : ArrivedTo(j, k) /\ Represents(parser.pic, SoFar(msg, j).drawn)
  BY <1>2 DEF PInv, Flow, UnderWay
<1>4. ArrivedTo(j, k)'
  BY <1>3, ArrivesByPoll DEF PInv, GInv
<1>5. UnderWay'
  BY <1>1, <1>3, <1>4 DEF UnderWay
<1> QED
  BY <1>1, <1>2, <1>5 DEF PInv, Flow, Outside, Window, AtRest, Owing

\* The byte the decoder takes is the only one between it and the sender.
LEMMA FlowGet ==
    ASSUME Timely, PInv, Get
    PROVE  Flow'
<1>1. /\ pc = "receive" /\ ring # <<>> /\ ~g_activity
      /\ UNCHANGED <<pc, fifo, elapsed, tx, msg, credits, age, quiet, clean>>
  BY DEF Get, sender
<1>2. ~LineEmpty /\ ~quiet /\ clean
  BY <1>1 DEF LineEmpty, PInv, GInv, QInv, Flow, Window
<1>3. msg \in Messages /\ Len(ring) + Len(fifo) <= 1
  BY <1>1, <1>2 DEF PInv, GInv, AInv, Arriving
<1>4. /\ msg \in Seq(Items) /\ Len(msg) \in Nat
      /\ SoFar(msg, Len(msg)).drawn = NothingSent
      /\ \A i \in 1 .. Len(msg) - 1 : ~EndsWindow(msg[i])
  BY <1>3, TimelyMessage
<1>5. ring' = <<>> /\ fifo' = <<>> /\ (LineEmpty' <=> tx = <<>>)
  <2>1. /\ Len(ring') = Len(ring) - 1 /\ ring' \in Seq(Bytes) /\ fifo \in Seq(Bytes)
        /\ Len(ring) \in Nat /\ Len(fifo) \in Nat /\ Len(ring') \in Nat
    BY GetType DEF PInv, GInv, TInv, TypeOK, Get
  <2>2. Len(ring') = 0 /\ Len(fifo) = 0
    BY <1>3, <2>1
  <2>3. ring' = <<>> /\ fifo = <<>>
    BY <2>1, <2>2, EmptySeq
  <2> QED
    BY <1>1, <2>3 DEF LineEmpty
<1>6. PICK j, k : ArrivedTo(j, k) /\ Represents(parser.pic, SoFar(msg, j).drawn)
  BY <1>2 DEF PInv, Flow, UnderWay
<1>7. PICK r : Took(r, j, k)
  BY <1>4, <1>6, ArrivesByGet DEF PInv, GInv
<1>8. /\ j \in Nat /\ j < Len(msg) /\ k \in Nat /\ msg[j + 1] \in Items
      /\ CASE r.call.cb = "frame" -> on_frame(r.call.frame)
           [] r.call.cb = "keepalive" -> on_keepalive
           [] r.call.cb = "query" -> on_query
           [] OTHER -> UNCHANGED <<globals, owed>>
  BY <1>7 DEF Took
<1> DEFINE it == msg[j + 1]
<1>9. ring' \in Seq(Bytes) /\ fifo' \in Seq(Bytes) /\ tx' \in Seq(Bytes)
  BY <1>1, <1>5, NoBytes DEF PInv, GInv, TInv, TypeOK
<1>10. CASE k + 1 = Size(it)
  <2>1. ArrivedTo(j + 1, 0)' /\ r.call = Callback(parser.pic, it)
    BY <1>7, <1>10 DEF Took
  <2>2. Represents(parser'.pic, SoFar(msg, j + 1).drawn)
    BY <1>4, <1>6, <1>7, <1>10, GetDraws DEF PInv, GInv
  <2>3. /\ j + 1 = Len(msg) <=> tx = <<>>
        /\ j + 1 = Len(msg) => Between(parser')
    <3>1. /\ StandsAt(parser', msg, j + 1, 0)
          /\ Rest(Spelt(msg), Offset(msg, j + 1) + 0, ring', fifo', tx')
      BY <1>1, <2>1 DEF ArrivedTo
    <3> QED
      BY <1>1, <1>4, <1>5, <1>9, <3>1, RestOfMessage
  <2>4. it.flag # "COMPLETE" => owed' = owed
    <3> SUFFICES ASSUME it.flag # "COMPLETE" PROVE owed' = owed
      OBVIOUS
    <3>1. r.call.cb # "frame"
      BY <2>1 DEF Callback, NoCall
    <3>2. on_keepalive \/ on_query \/ UNCHANGED <<globals, owed>>
      BY <1>8, <3>1
    <3> QED
      BY <3>2 DEF on_keepalive, on_query
  <2>5. ~EndsWindow(it) => g_activity' = g_activity
    <3> SUFFICES ASSUME ~EndsWindow(it) PROVE g_activity' = g_activity
      OBVIOUS
    <3>1. r.call.cb \notin {"frame", "keepalive"}
      BY <2>1 DEF Callback, NoCall, EndsWindow
    <3>2. on_query \/ UNCHANGED <<globals, owed>>
      BY <1>8, <3>1
    <3> QED
      BY <3>2 DEF on_query, globals
  <2>6. CASE tx = <<>>
    <3>1. j + 1 = Len(msg) /\ LineEmpty' /\ Between(parser')
      BY <1>5, <2>3, <2>6
    <3>2. Represents(parser'.pic, NothingSent)
      BY <1>4, <2>2, <3>1
    <3>3. owed' = Splash
      <4>1. CASE it.flag = "COMPLETE"
        <5>1. on_frame(Showable(SoFar(msg, j).drawn))
          BY <1>3, <1>4, <1>6, <1>7, <1>10, <4>1, GetPublishes DEF PInv, GInv
        <5> QED
          BY <5>1 DEF on_frame
      <4>2. CASE it.flag # "COMPLETE"
        <5>1. ~IsFrame(msg)
          BY <3>1, <4>2 DEF IsFrame
        <5>2. owed = Splash
          BY <5>1 DEF PInv, Flow, Owing
        <5> QED
          BY <2>4, <4>2, <5>2
      <4> QED
        BY <4>1, <4>2
    <3>4. Window' /\ Outside'
      BY <1>1, <3>1 DEF PInv, Flow, Window, Outside
    <3>5. AtRest' /\ UnderWay' /\ Owing'
      BY <3>1, <3>2, <3>3 DEF AtRest, UnderWay, Owing
    <3> QED
      BY <3>4, <3>5 DEF Flow
  <2>7. CASE tx # <<>>
    <3>1. ~LineEmpty' /\ j + 1 # Len(msg)
      BY <1>5, <2>3, <2>7
    <3>2. ~EndsWindow(it)
      BY <1>4, <1>8, <3>1
    <3>3. ~g_activity' /\ owed' = Splash
      <4>1. owed = Splash
        BY <2>7 DEF PInv, Flow, Owing
      <4> QED
        BY <1>1, <2>4, <2>5, <3>2, <4>1 DEF EndsWindow
    <3>4. Window' /\ Outside'
      BY <1>1, <1>2, <3>1, <3>3 DEF PInv, Flow, Window, Outside
    <3>5. UnderWay'
      BY <1>1, <2>1, <2>2 DEF UnderWay
    <3>6. AtRest' /\ Owing'
      BY <1>1, <2>7, <3>1, <3>3 DEF AtRest, Owing
    <3> QED
      BY <3>4, <3>5, <3>6 DEF Flow
  <2> QED
    BY <2>6, <2>7
<1>11. CASE k + 1 # Size(it)
  <2>1. ArrivedTo(j, k + 1)' /\ parser'.pic = parser.pic /\ r.call = NoCall
    BY <1>7, <1>11 DEF Took
  <2>2. tx # <<>>
    <3>1. /\ StandsAt(parser', msg, j, k + 1)
          /\ Rest(Spelt(msg), Offset(msg, j) + (k + 1), ring', fifo', tx')
      BY <1>1, <2>1 DEF ArrivedTo
    <3>2. j = Len(msg) <=> ring' = <<>> /\ fifo' = <<>> /\ tx' = <<>>
      BY <1>4, <1>9, <3>1, RestOfMessage
    <3> QED
      BY <1>1, <1>4, <1>5, <1>8, <3>2
  <2>3. ~g_activity' /\ owed' = Splash /\ ~LineEmpty'
    <3>1. UNCHANGED <<globals, owed>>
      BY <1>8, <2>1 DEF NoCall
    <3>2. owed = Splash
      BY <2>2 DEF PInv, Flow, Owing
    <3> QED
      BY <1>1, <1>5, <2>2, <3>1, <3>2 DEF globals
  <2>4. Window' /\ Outside'
    BY <1>1, <1>2, <2>3 DEF PInv, Flow, Window, Outside
  <2>5. UnderWay'
    BY <1>1, <1>6, <2>1 DEF UnderWay
  <2>6. AtRest' /\ Owing'
    BY <1>1, <2>2, <2>3 DEF AtRest, Owing
  <2> QED
    BY <2>4, <2>5, <2>6 DEF Flow
<1> QED
  BY <1>10, <1>11

\* The window closes on a silent line.
LEMMA LeavesEmpty ==
    ASSUME Timely, PInv, pc = "receive", g_activity \/ TimedOut
    PROVE  LineEmpty /\ credits = 0
<1>1. /\ credits # 0 => quiet /\ elapsed <= SLACK
      /\ g_activity => LineEmpty
      /\ ~LineEmpty => clean /\ elapsed + Len(tx) <= SLACK + Len(Spelt(msg))
  BY DEF PInv, Flow, Window
<1>2. /\ elapsed \in Nat /\ Len(tx) \in Nat /\ SLACK \in Nat /\ RX_TIMEOUT \in Nat
      /\ SLACK < RX_TIMEOUT
  BY ReceiverAssumption DEF PInv, GInv, TInv, TypeOK, Timely
<1>3. CASE g_activity
  BY <1>1, <1>3 DEF PInv, GInv, QInv
<1>4. CASE ~g_activity
  <2>1. elapsed >= RX_TIMEOUT
    BY <1>4 DEF TimedOut
  <2>2. LineEmpty
    <3>1. SUFFICES ASSUME ~LineEmpty PROVE FALSE
      OBVIOUS
    <3>2. quiet => tx # <<>>
      BY <3>1 DEF LineEmpty, PInv, GInv, QInv
    <3>3. msg \in Messages
      BY <1>1, <3>1, <3>2 DEF PInv, GInv, AInv, Arriving
    <3>4. SLACK + Len(Spelt(msg)) < RX_TIMEOUT /\ Len(Spelt(msg)) \in Nat
      BY <3>3, TimelyMessage
    <3> QED
      BY <1>1, <1>2, <2>1, <3>1, <3>4
  <2> QED
    BY <1>1, <1>2, <2>1, <2>2
<1> QED
  BY <1>3, <1>4

\* At the flush, the decoder is as a resync would leave it.
LEMMA FlushIdle ==
    ASSUME PInv, Flush
    PROVE  UNCHANGED <<fifo, ring, parser>>
<1>1. LineEmpty /\ fifo' = <<>> /\ ring' = <<>> /\ parser' = vt_parser_resync(parser)
  BY DEF Flush, FlushTo, PInv, Flow, Outside
<1>2. Between(parser) /\ ParserOK(parser) /\ Tidy(parser)
  BY <1>1 DEF PInv, Flow, AtRest, GInv, TInv
<1>3. vt_parser_resync(parser) = parser
  BY <1>2, ResyncAtRest
<1> QED
  BY <1>1, <1>3 DEF LineEmpty

LEMMA FlowStep ==
    ASSUME Timely, PInv, [Next]_vars
    PROVE  Flow'
<1>1. CASE UNCHANGED vars
  <2>1. UNCHANGED <<pc, parser, fifo, ring, g_activity, elapsed, tx, msg, credits, age,
                    quiet, clean, owed>>
    BY <1>1 DEF vars, board, globals, sender
  <2> QED
    BY <2>1 DEF PInv, Flow, Outside, Window, AtRest, UnderWay, Owing, LineEmpty, ArrivedTo
<1>2. CASE Leave
  <2>1. /\ pc = "receive" /\ (g_activity \/ TimedOut) /\ pc' = "draw"
        /\ UNCHANGED <<parser, fifo, ring, tx, msg, credits, owed>>
    BY <1>2 DEF Leave, LeaveOf, sender
  <2>2. LineEmpty /\ credits = 0
    BY <2>1, LeavesEmpty
  <2> QED
    BY <2>1, <2>2 DEF PInv, Flow, Outside, Window, AtRest, UnderWay, Owing, LineEmpty
<1>3. CASE DrawPass
  <2>1. /\ pc = "draw" /\ pc' = "flush"
        /\ UNCHANGED <<parser, fifo, ring, tx, msg, credits, owed>>
    BY <1>3 DEF DrawPass, sender
  <2> QED
    BY <2>1 DEF PInv, Flow, Outside, Window, AtRest, UnderWay, Owing, LineEmpty
<1>4. CASE Flush
  <2>1. /\ pc = "flush" /\ pc' = "reply" /\ quiet' = TRUE /\ UNCHANGED <<tx, msg, credits, owed>>
    BY <1>4 DEF Flush, FlushTo, sender
  <2>2. UNCHANGED <<fifo, ring, parser>>
    BY <1>4, FlushIdle
  <2> QED
    BY <2>1, <2>2 DEF PInv, Flow, Outside, Window, AtRest, UnderWay, Owing, LineEmpty
<1>5. CASE Reply
  <2>1. /\ pc = "reply" /\ pc' = "receive" /\ elapsed' = 0 /\ age' = 0 /\ g_activity' = FALSE
        /\ credits' = IF PROMPT THEN 1 ELSE Smaller(credits + 1, MAX_CREDITS)
        /\ UNCHANGED <<parser, fifo, ring, tx, msg, quiet, clean, owed>>
    BY <1>5 DEF Reply, ReplyAt
  <2>2. LineEmpty /\ quiet /\ credits' = 1
    BY <2>1 DEF PInv, Flow, Outside, Timely
  <2>3. LineEmpty'
    BY <2>1, <2>2 DEF LineEmpty
  <2>4. Window'
    BY <2>1, <2>2, <2>3, ReceiverAssumption DEF Window, LineEmpty, Smaller
  <2> QED
    BY <2>1, <2>2, <2>3, <2>4 DEF PInv, Flow, Outside, AtRest, UnderWay, Owing
<1> QED
  BY <1>1, <1>2, <1>3, <1>4, <1>5, FlowStart, FlowByte, FlowSilence, FlowPoll, FlowGet
  DEF Next, Loop, Transmit

LEMMA PInvInit == Init => PInv
<1> SUFFICES ASSUME Init PROVE PInv
  OBVIOUS
<1>1. LineEmpty /\ quiet /\ credits = 0 /\ owed = Splash /\ pc = "reply"
  BY DEF Init, LineEmpty
<1>2. Between(parser) /\ parser.pic = BlankPicture
  BY InitialParser, ResyncRests DEF Init
<1> QED
  BY <1>1, <1>2, GInvInit, BlankRepresents
  DEF PInv, Flow, Outside, Window, AtRest, UnderWay, Owing

LEMMA PInvStep ==
    ASSUME Timely
    PROVE  PInv /\ [Next]_vars => PInv'
<1> SUFFICES ASSUME PInv, [Next]_vars PROVE PInv'
  OBVIOUS
<1> QED
  BY GInvStep, FlowStep DEF PInv

\* From a timely sender nothing arrives while the loop draws, flushes and
\* replies: the ready reply closes the window on a silent line.
THEOREM NothingArrives == Timely => (Spec => []NothingArrivesWhileDrawing)
<1> SUFFICES ASSUME Timely PROVE Spec => []NothingArrivesWhileDrawing
  OBVIOUS
<1>1. PInv => NothingArrivesWhileDrawing
  BY DEF PInv, Flow, Outside, LineEmpty, NothingArrivesWhileDrawing
<1>2. PInv /\ [Next]_vars => PInv'
  BY PInvStep
<1> QED
  BY <1>1, <1>2, PInvInit, PTL DEF Spec

\* So the flush and the resync before each ready reply find nothing to discard.
THEOREM NothingToDiscard == Timely => (Spec => FlushDiscardsNothing)
<1> SUFFICES ASSUME Timely PROVE Spec => FlushDiscardsNothing
  OBVIOUS
<1>1. PInv /\ [Next]_vars => [pc = "flush" /\ pc' = "reply" => UNCHANGED <<fifo, ring, parser>>]_vars
  <2> SUFFICES ASSUME PInv, Next, pc = "flush", pc' = "reply"
               PROVE  UNCHANGED <<fifo, ring, parser>>
    OBVIOUS
  <2>1. Flush
    BY DEF Next, Loop, Transmit, Start, Byte, Silence, Tick, Poll, Get, Leave, LeaveOf,
           DrawPass, Reply, ReplyAt, board
  <2> QED
    BY <2>1, FlushIdle
<1>2. PInv /\ [Next]_vars => PInv'
  BY PInvStep
<1> QED
  BY <1>1, <1>2, PInvInit, PTL DEF Spec, FlushDiscardsNothing

-----------------------------------------------------------------------------
(* The receiver implements Display: every step is one of Display's, or     *)
(* none.                                                                   *)
LEMMA HeldIsShown == (IF g_have_frame THEN g_draw ELSE Splash) = Shown
  BY DEF Shown

\* The frame taken up is the one owed.
LEMMA GetTakesUp ==
    ASSUME Timely, PInv, RInv, Get
    PROVE  \/ owed # Splash /\ Shown' = owed /\ owed' = Splash /\ screen' = screen
           \/ UNCHANGED <<owed, Shown, screen>>
<1>1. /\ ring # <<>> /\ ~g_activity /\ pc = "receive" /\ UNCHANGED <<tx, fifo, msg, screen>>
      /\ ring' = Tail(ring)
  BY DEF Get, sender
<1>2. ~LineEmpty /\ ~quiet /\ clean
  BY <1>1 DEF LineEmpty, PInv, GInv, QInv, Flow, Window
<1>3. msg \in Messages /\ Len(ring) + Len(fifo) <= 1
  BY <1>1, <1>2 DEF PInv, GInv, AInv, Arriving
<1>4. /\ msg \in Seq(Items) /\ Len(msg) \in Nat
      /\ \A i \in 1 .. Len(msg) - 1 : ~EndsWindow(msg[i])
  BY <1>3, TimelyMessage
<1>5. ring' = <<>> /\ fifo' = <<>>
  <2>1. /\ Len(ring') = Len(ring) - 1 /\ ring' \in Seq(Bytes) /\ fifo \in Seq(Bytes)
        /\ Len(ring) \in Nat /\ Len(fifo) \in Nat /\ Len(ring') \in Nat
    BY <1>1, GetType DEF PInv, GInv, TInv, TypeOK
  <2>2. Len(ring') = 0 /\ Len(fifo) = 0
    BY <1>3, <2>1
  <2> QED
    BY <1>1, <2>1, <2>2, EmptySeq
<1>6. PICK j, k : ArrivedTo(j, k) /\ Represents(parser.pic, SoFar(msg, j).drawn)
  BY <1>2 DEF PInv, Flow, UnderWay
<1>7. PICK r : Took(r, j, k)
  BY <1>4, <1>6, ArrivesByGet DEF PInv, GInv
<1>8. /\ j \in Nat /\ j < Len(msg)
      /\ CASE r.call.cb = "frame" -> on_frame(r.call.frame)
           [] r.call.cb = "keepalive" -> on_keepalive
           [] r.call.cb = "query" -> on_query
           [] OTHER -> UNCHANGED <<globals, owed>>
  BY <1>7 DEF Took
<1>9. CASE r.call.cb # "frame"
  <2>1. on_keepalive \/ on_query \/ UNCHANGED <<globals, owed>>
    BY <1>8, <1>9
  <2>2. UNCHANGED <<g_draw, g_have_frame, owed>>
    BY <2>1 DEF on_keepalive, on_query, globals
  <2> QED
    BY <1>1, <2>2 DEF Shown
<1>10. CASE r.call.cb = "frame"
  <2>1. /\ k + 1 = Size(msg[j + 1]) /\ r.call = Callback(parser.pic, msg[j + 1])
        /\ ArrivedTo(j + 1, 0)'
    BY <1>7, <1>10 DEF Took, NoCall
  <2>2. msg[j + 1].flag = "COMPLETE"
    BY <1>10, <2>1 DEF Callback, NoCall
  <2>3. j + 1 = Len(msg)
    BY <1>4, <1>8, <2>2 DEF EndsWindow
  <2>4. tx = <<>>
    <3>1. /\ StandsAt(parser', msg, j + 1, 0)
          /\ Rest(Spelt(msg), Offset(msg, j + 1) + 0, ring', fifo', tx')
      BY <1>1, <2>1 DEF ArrivedTo
    <3>2. ring' \in Seq(Bytes) /\ fifo' \in Seq(Bytes) /\ tx' \in Seq(Bytes)
      BY <1>1, <1>5, NoBytes DEF PInv, GInv, TInv, TypeOK
    <3> QED
      BY <1>1, <1>4, <2>3, <3>1, <3>2, RestOfMessage
  <2>5. IsFrame(msg) /\ owed = Picture[msg]
    BY <1>2, <2>2, <2>3, <2>4 DEF PInv, Flow, Owing, IsFrame
  <2>6. on_frame(Showable(SoFar(msg, j).drawn))
    BY <1>3, <1>4, <1>6, <1>7, <2>1, <2>2, GetPublishes DEF PInv, GInv
  <2>7. Picture[msg] = Mapped(Showable(SoFar(msg, j).drawn))
    BY <1>3, <1>4, <1>8, <2>3, <2>5, PictureIs
  <2>8. g_draw' = owed /\ g_have_frame' = TRUE /\ owed' = Splash /\ owed # Splash
    BY <2>5, <2>6, <2>7, MappedIsNotSplash DEF on_frame
  <2> QED
    BY <1>1, <2>8 DEF Shown
<1> QED
  BY <1>9, <1>10

LEMMA DisplayStep ==
    ASSUME Timely, PInv, RInv, Next
    PROVE  [Shows!DisplayNext]_(Shows!displayVars)
<1> USE HeldIsShown
<1>1. SUFFICES \/ owed = Splash /\ owed' \in Frames /\ UNCHANGED <<Shown, screen>>
               \/ owed # Splash /\ Shown' = owed /\ owed' = Splash /\ UNCHANGED screen
               \/ Shown # Splash /\ Shown' = Splash /\ UNCHANGED <<owed, screen>>
               \/ screen' = Shown /\ UNCHANGED <<owed, Shown>>
               \/ UNCHANGED <<owed, Shown, screen>>
  BY DEF Shows!DisplayNext, Shows!Submit, Shows!Accept, Shows!Expire, Shows!Refresh,
         Shows!displayVars, Shown
<1>2. CASE UNCHANGED <<owed, g_have_frame, g_draw, screen>>
  BY <1>2 DEF Shown
<1>3. CASE Byte
  <2>1. /\ tx # <<>> /\ UNCHANGED <<g_have_frame, g_draw, screen, msg>>
        /\ owed' = IF tx' = <<>> /\ IsFrame(msg) THEN Picture[msg] ELSE owed
    BY <1>3 DEF Byte, Tick, board, globals
  <2>2. owed = Splash /\ msg \in Messages
    BY <2>1 DEF PInv, GInv, TInv, Flow, Owing
  <2>3. CASE tx' = <<>> /\ IsFrame(msg)
    BY <2>1, <2>2, <2>3, PicturesOfFrames DEF Frames, Shown
  <2>4. CASE ~(tx' = <<>> /\ IsFrame(msg))
    BY <2>1, <2>4 DEF Shown
  <2> QED
    BY <2>3, <2>4
<1>4. CASE Get
  BY <1>4, GetTakesUp
<1>5. CASE Leave
  <2>1. /\ \/ g_have_frame /\ g_have_frame' = FALSE
           \/ UNCHANGED <<g_draw, g_have_frame>>
        /\ UNCHANGED <<screen, owed>>
    BY <1>5 DEF Leave, LeaveOf
  <2> QED
    BY <2>1 DEF Shown, RInv
<1>6. CASE DrawPass
  BY <1>6 DEF DrawPass, globals, Shown
<1>7. CASE Transmit \/ Silence \/ Poll \/ Flush \/ Reply
  BY <1>2, <1>7 DEF Transmit, Start, Silence, Tick, Poll, Flush, FlushTo, Reply, ReplyAt,
                    board, globals
<1> QED
  BY <1>3, <1>4, <1>5, <1>6, <1>7 DEF Next, Loop

\* To a timely sender the receiver is a Display: it takes up every frame handed
\* over, whole, before the next one, and shows the last taken up or the splash.
THEOREM Displays == Timely => (Spec => ImplementsDisplay)
<1> SUFFICES ASSUME Timely PROVE Spec => ImplementsDisplay
  OBVIOUS
<1>1. Init => Shows!DisplayInit
  BY DEF Init, Shows!DisplayInit
<1>2. PInv /\ RInv /\ [Next]_vars => [Shows!DisplayNext]_(Shows!displayVars)
  <2> SUFFICES ASSUME PInv, RInv, [Next]_vars
               PROVE  [Shows!DisplayNext]_(Shows!displayVars)
    OBVIOUS
  <2>1. CASE UNCHANGED vars
    BY <2>1 DEF vars, board, globals, Shows!displayVars
  <2> QED
    BY <2>1, DisplayStep
<1>3. PInv /\ [Next]_vars => PInv'
  BY PInvStep
<1> QED
  BY <1>1, <1>2, <1>3, PInvInit, RInvInit, RInvStep, PTL
  DEF Spec, ImplementsDisplay, Shows!DisplaySpec
=============================================================================
