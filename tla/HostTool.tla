------------------------------ MODULE HostTool ------------------------------
(***************************************************************************)
(* The host tool of src/vekterm.c: its read loop, with the decoder of      *)
(* Frame inside it, a writer at the other end of a serial port or a pipe,  *)
(* and signals.  A file replay is a pipe that is full and closed at once.  *)
(* Unlike the receiver it never flushes or resyncs: it decodes all it is   *)
(* given, in chunks of whatever sizes read() returns.                      *)
(*                                                                         *)
(* The stub backend keeps a copy of the frame and prints it: `shown' is    *)
(* what it was handed.  Options, messages and the answer to a HELLO, which *)
(* changes nothing in the tool, are left out.                              *)
(***************************************************************************)
EXTENDS Drawing

CONSTANTS
    BUF_SIZE,      \* bytes main's buf holds
    Streams        \* what a writer may send: sequences of items

VARIABLES
    pc,            \* "test" the loop's condition, "read", "feed", "refresh", "stopped"
    parser,
    buf,           \* the bytes of the last read not fed yet
    once,          \* --once
    eofable,       \* the source is a pipe or a file, whose end read() reports
    frames, exit_seen, g_stop,
    unread,        \* bytes in the kernel
    tx,            \* bytes the writer has not written yet
    closed,        \* the writer closed its end
    stream,        \* ghost: all it means to write
    fed,           \* ghost: how many bytes the decoder was fed
    shown          \* ghost: the frames the backend was handed

app == <<frames, exit_seen, shown>>
writer == <<tx, closed, stream, eofable, once>>
vars == <<pc, parser, buf, app, g_stop, unread, writer, fed>>

\* The tool sets every callback of its sink.
ASSUME HostToolAssumption ==
    /\ BUF_SIZE \in Nat \ {0} /\ Streams \subseteq Seq(Items)
    /\ {"frame", "exit"} \subseteq Sink

-----------------------------------------------------------------------------
(* The world.                                                              *)
Write == /\ tx # <<>> /\ ~closed
         /\ unread' = Append(unread, Head(tx))
         /\ tx' = Tail(tx)
         /\ UNCHANGED <<pc, parser, buf, app, g_stop, closed, stream, eofable, once, fed>>

\* Closing a pipe is the end of it; a serial port just falls silent.
Close == /\ ~closed
         /\ closed' = TRUE
         /\ UNCHANGED <<pc, parser, buf, app, g_stop, unread, tx, stream, eofable, once, fed>>

on_signal == /\ ~g_stop
             /\ g_stop' = TRUE
             /\ UNCHANGED <<pc, parser, buf, app, unread, writer, fed>>

-----------------------------------------------------------------------------
(* The loop.                                                               *)
TestOf(over) ==
    /\ pc = "test"
    /\ pc' = IF over THEN "stopped" ELSE "read"
    /\ UNCHANGED <<parser, buf, app, g_stop, unread, writer, fed>>

TestExitOnly == TestOf(exit_seen)    \* mutant of Test: does not look at g_stop
Test == TestOf(g_stop \/ exit_seen)

\* read() with something to return, and room for so many bytes.
ReadInto(room) ==
    /\ pc = "read" /\ unread # <<>>
    /\ LET n == IF Len(unread) < room THEN Len(unread) ELSE room
       IN  /\ buf' = SubSeq(unread, 1, n)
           /\ unread' = SubSeq(unread, n + 1, Len(unread))
    /\ pc' = "feed"
    /\ UNCHANGED <<parser, app, g_stop, writer, fed>>

ReadOneMore == ReadInto(BUF_SIZE + 1)    \* mutant of Read
Read == ReadInto(BUF_SIZE)

\* The end of a pipe ends the loop, an idle port does not: it was opened
\* non-blocking.  A read of an open and empty pipe blocks, and signal()
\* restarts it after the handler ran.
ReadNothing ==
    /\ pc = "read" /\ unread = <<>>
    /\ eofable => closed
    /\ pc' = IF eofable THEN "stopped" ELSE "refresh"
    /\ UNCHANGED <<parser, buf, app, g_stop, unread, writer, fed>>

\* Any other error ends the loop; a port that is unplugged reports one.
ReadFails ==
    /\ pc = "read" /\ ~eofable /\ closed
    /\ pc' = "stopped"
    /\ UNCHANGED <<parser, buf, app, g_stop, unread, writer, fed>>

app_on_frame(frame) ==
    /\ shown' = Append(shown, frame)
    /\ frames' = frames + 1
    /\ UNCHANGED exit_seen

app_on_exit == exit_seen' = TRUE /\ UNCHANGED <<frames, shown>>

\* vt_parser_feed, a byte of the chunk at a time; the keepalive prints.  After
\* the last byte the decoder is left as it is, or resynced.
FeedThen(resync) ==
    /\ pc = "feed" /\ buf # <<>>
    /\ \E r \in vt_parser_feed(parser, Head(buf)) :
          /\ parser' = IF resync /\ Len(buf) = 1 THEN vt_parser_resync(r.parser) ELSE r.parser
          /\ CASE r.call.cb = "frame" -> app_on_frame(r.call.frame)
               [] r.call.cb = "exit"  -> app_on_exit
               [] OTHER               -> UNCHANGED app
    /\ buf' = Tail(buf)
    /\ fed' = fed + 1
    /\ pc' = IF Len(buf) = 1 THEN "refresh" ELSE "feed"
    /\ UNCHANGED <<g_stop, unread, writer>>

FeedFresh == FeedThen(TRUE)    \* mutant of Feed: every read starts a new word
Feed == FeedThen(FALSE)

\* The stub has nothing to refresh; --once may end the loop here.
Refresh ==
    /\ pc = "refresh"
    /\ pc' = IF once /\ frames > 0 THEN "stopped" ELSE "test"
    /\ UNCHANGED <<parser, buf, app, g_stop, unread, writer, fed>>

Done == pc = "stopped" /\ UNCHANGED vars

Init ==
    /\ pc = "test"
    /\ parser = vt_parser_init
    /\ buf = <<>> /\ unread = <<>>
    /\ frames = 0 /\ exit_seen = FALSE /\ shown = NoFrames
    /\ g_stop = FALSE
    /\ eofable \in BOOLEAN /\ once \in BOOLEAN
    /\ stream \in Streams
    /\ tx = Spelt(stream) /\ closed = FALSE
    /\ fed = 0

World == Write \/ Close \/ on_signal
Loop == Test \/ Read \/ ReadNothing \/ ReadFails \/ Feed \/ Refresh
Next == World \/ Loop \/ Done

Spec == Init /\ [][Next]_vars

\* The tool is scheduled; nothing is assumed of the writer.
FairSpec == Spec /\ WF_vars(Loop)

-----------------------------------------------------------------------------
TypeOK ==
    /\ pc \in {"test", "read", "feed", "refresh", "stopped"}
    /\ Len(parser.bytes) < WORD_BYTES /\ Len(parser.ext_buf) <= EXT_MAX
    /\ buf \in Seq(Bytes) /\ Len(buf) <= BUF_SIZE
    /\ pc = "feed" <=> buf # <<>>
    /\ frames = Len(shown)
    /\ exit_seen \in BOOLEAN /\ g_stop \in BOOLEAN /\ closed \in BOOLEAN
    /\ unread \in Seq(Bytes) /\ tx \in Seq(Bytes)
    /\ fed + Len(buf) + Len(unread) + Len(tx) = Len(Spelt(stream))

\* What the items whose last byte was fed compose, whatever the reads were.
Ended == {k \in 0 .. Len(stream) : Len(Spelt(SubSeq(stream, 1, k))) <= fed}
Complete == SubSeq(stream, 1, CHOOSE k \in Ended : \A j \in Ended : j <= k)

\* However the stream is cut into reads, in the middle of words and payloads
\* included, the backend is handed the frames it was composed of, in order and
\* as soon as their last byte is fed, and an EXIT is seen when it is there.
SameHoweverCut == shown = Composed(Complete).out /\ exit_seen = Composed(Complete).over

\* An EXIT ends the tool, so does the end of a pipe, a signal when the source
\* is a port, and under --once a frame.
Over == exit_seen \/ (once /\ frames > 0) \/ (IF eofable THEN closed ELSE g_stop)
EndsWhenOver == Over ~> pc = "stopped"
=============================================================================
