# vekterm in TLA+

vekterm turns a PiTrex (a Raspberry Pi Zero on a Vectrex) into a vector display: a sender
transmits frames over a serial line in the USB-DVG protocol, with vekterm's own extensions, and
the receiver decodes them and draws the last one for as long as the sender is alive.

This directory has TLA+ models of the receiver, of the calculations and the drawing it rests on and of
the programs beside it, the TLC configurations that check them on small instances, and TLAPS proofs of
the properties that matter most for every instance. Source lines
below are those of `src/` in the repository.

- [Parts](#parts), what each keeps, does and must not get wrong
- [Modules](#modules) and how they correspond to the code
- [Runs](#runs), their bounds, and what they show
- [Fairness](#fairness)
- [Proofs](#proofs)
- [Disagreements](#where-the-code-and-its-comments-disagree) between the code and its comments
- [Not modelled](#what-is-not-modelled), and the [plan](#plan)

## Parts

| part | code | state | operations | modelled in |
|---|---|---|---|---|
| receive path | `uart_rx.c` | ring, head, tail, overrun counter | poll, flush, get, interrupt handler, init | `UartRx`, `ByteQueue` |
| frame decoder | `frame.c` | `vt_parser`: bytes of a word, EXT payload being gathered, frame, beam, colour | init, feed a byte, resync; calls back on a frame, an exit, a query, a keepalive | `Frame`, `Parser` |
| EXT expanders | `frame.c:110-236` | none | HEIGHTFIELD and POLYLINE payloads to vectors | `ExtDecode` |
| wire codec | `protocol.c` | none | words to bytes and back, the descriptor's limits, coordinate map | `Codec`, `Protocol`, `CoordSweep` |
| main loop | `vekterm_baremetal.c:154-204, 286-293, 348-454` | frame held, activity, inactivity clock | receive until something comes or the window closes, draw, flush and resync, reply | `Receiver`, `Display` |
| session | `vekterm_baremetal.c:192-204, 298-346, 423-430` | timer, last activity, buttons seen, line rate, negotiated reply format | hold or drop the frame, cycle the rate, choose the reply | `Session` |
| splash | `vekterm_baremetal.c:205-283` | one line buffer | compose the build and the rate, draw texts | `SplashText`, `Splash` |
| font | `font.c` | the pen, while it draws | strokes of a string; fixes libpitrex's scale meanwhile | `StrokeFont`, `DrawPath` |
| host tool | `vekterm.c`, `serial.c`, `backend_stub.c` | frames counted, exit seen | read, feed, refresh; signals | `HostTool` |
| driver library | `third_party/libpitrex/` | scale, caches of VIA registers, pipeline, timers | draws, buttons, mini-UART registers | `DrawPath` (the direct draw path), partly |
| emulator | `tools/emu/` | VIA and integrators, captured segments, three processes | take register writes, draw lines, run vekterm against a sender and render | `Via`, `DrawPath`, `Raster`, `EmuE2E` |

**How they interact.** Bytes arrive in the mini-UART's hardware FIFO (8 deep). The main loop polls
it into the ring of `uart_rx.c`, and in a `VT_UART_IRQ` build an interrupt handler does so as well.
The loop takes bytes from the ring one by one and feeds them to the decoder, which calls back into
the main loop's globals when a word completes: `on_frame` overwrites the list of vectors to draw,
`on_keepalive` renews it, `on_query` answers a probe and changes the reply format for good. When a
frame or a keepalive came, or the window of 50 ms closed, the loop draws, flushes the receive path,
resyncs the decoder and sends "ready". The sender sends one frame per "ready". There is no other
acknowledgement and no checksum.

Drawing is calls of libpitrex, vector by vector, and of `vt_draw_string`, which makes such calls for the
strokes of a text and changes one of the library's globals around them. The library writes VIA
registers, and leaves out those it believes unchanged. The emulator draws a frame or a splash in this way and puts a model of the VIA in the
hardware's place and compares what it lights with what was asked for; its end-to-end tool runs the whole
receiver in a thread, a sender as a child process and a PTY between them.

**What is hard.**

- *Timing instead of locking.* While the loop draws, nobody polls, and the FIFO is shorter than a
  frame. The design rests on the sender's being silent then. What if it answers late, or its
  frame is longer than the window?
- *Framing by counting.* Words and payloads are told apart by counters only. A lost byte shifts
  every word after it; the flush and the resync are what brings the two ends together again.
- *Two ends waiting for each other*: the sender for "ready", the receiver for a frame.
- *State that outlives its reason*: a held frame whose sender has gone, the negotiated reply
  format, the buttons last seen, a timestamp of a timer that wraps every 71 minutes.
- *An interrupt between any two accesses* of the ring's indices, in the build that has it.
- *Limits*: the vectors of a frame, the bytes of a payload, the ring, the FIFO, the splash's line.
- *Caches of hardware state*: a register write left out because of a belief that no longer holds shows
  as a crooked or dark vector several calls later.
- *Integer edges*: fields that share a word, rounding that must mirror, signed steps off the screen.

**What makes each part correct.**

- Receive path: it is a queue. Bytes come out in order, once each; one is refused only when the
  ring is full; a flush throws the oldest away and nothing else.
- Decoder: it stays in step with the sender whatever the stream's payloads, gets back in step
  after a resync, and publishes exactly the sender's frame, cut and flagged at its limit.
- Main loop: the handshake keeps the line quiet while it draws, so that it discards nothing; every
  frame is shown, whole, and in turn; after any disturbance the next good frame is shown right;
  it never hangs; it does not show a stale image.
- Session: a frame is held exactly while its sender is alive; one press, one step.
- Codec: what is decoded is what was meant; a damaged word is one command and no mixture; coordinates are
  rounded to nearest, ends exact, and an axis flip mirrors.
- Expanders: a whole payload becomes its sender's shape, a short one nothing.
- Font and splash: texts fit, say the right thing, are drawn as their glyphs.
- Draw path: each vector is one line of its brightness, length and direction; drift is bounded.
- End-to-end tool: what it renders is the last picture received, whole, and nothing before it.

## Modules

### `Frame`, `Drawing`, `Parser`: the decoder

`Frame` is `frame.c` as operators on a `vt_parser` value, one per C function and under its name:
`vt_parser_feed` of a byte gives the parsers it may leave and the callback it made. *Data
abstraction*: a byte is `<<item, i>>`, the i-th byte of a stream item, an item being a command word
or an EXT header with its payload. `WORD_BYTES` bytes of one word in order are that word; any other
group is a misread word, and may be any item of the instance. In the same way a payload that is not
one item's own may expand to nothing or to any geometry of its subtype. One coordinate stands for x and
y. `Drawing` is what a sender *means* by its items, with no limits, as the repository's tests expect
it; it is the reference the decoder is compared with, and it has neither bytes nor
registers. `Spelt` are the bytes of a sequence of items, `Composed` the frames it completes, and `Represents` is when a
decoder's picture is the sender's.

`Parser` composes the two over a line that can lose a byte, with a resync at any moment. Its
ghosts `aligned` and `whole` say whether bytes were lost since the last resync between two items,
and whether the sender has begun a frame since.

### `Protocol`, `Receiver`, `Display`: a pass of the main loop

`Receiver` has the main loop at the granularity of its phases (`pc`: receive, draw, flush, reply)
and of single bytes in the receive phase, the decoder of `Frame` inside it, and a sender at the other
end. `Poll`, `Get`, `Leave`, `DrawPass`, `Flush` and `Reply` are the statements of the loop in order.
Time is counted in byte times: in each, the sender sends a byte or is silent. A sender uses one ready
reply per message; with `PROMPT` it starts within `SLACK` byte times of the reply or not at all, and sends without
pauses; without it, it may wait, pause in a message, and save up replies. `Display` is the
abstract promise: a frame handed over is taken up before the next one, the screen shows a whole
frame, the latest taken up, or the splash. `Receiver` implements it when the sender is `Timely`: prompt, with
messages that fit in the window, leave no frame half drawn and end it with their last item only. `Picture` is what a message
shows, after `Drawing`.

### `Session`: hours instead of bytes

The same loop with a wait that simply ends with a frame, a keepalive or nothing, and with what `Receiver`
leaves out: the 32-bit timer and its wrap, the buttons and the baud cycler, the negotiated reply, and
senders that are unplugged and replaced. `since`, `image` and `fresh` are ghosts that
keep the true time, and the true presses.

### `UartRx`, `ByteQueue`: the receive path

The ring at the granularity of the main loop's memory accesses. `Interrupt` is the handler, between
any two of them while the interrupts are on. `pc` names the next access: `uart_rx_flush` reads the
head (`FlushHead`) and later writes the tail (`FlushTail`); `uart_rx_get` tests, reads and moves on.
`ByteQueue` is a bounded queue with five atomic operations, and `UartRx` implements it with
`Content`, the ring from tail to head, as its queue.

### `HostTool`: the tool on an ordinary computer

The read loop of `vekterm.c`, with the decoder of `Frame` in it and no flush and no resync. A writer's
bytes reach the kernel one by one, the loop reads what is there up to `BUF_SIZE`, and a signal may come
at any moment. `eofable` and `once` are chosen at the start. `Composed` is the reference: the frames of the
items whose last byte was fed, from `Drawing`.

### `Codec`, `Protocol`, `CoordSweep`: the wire

`Codec` has every encoder and decoder of `protocol.c` over fields counted in values, not bits: a shift is a
product, a mask a remainder, so that nothing is said of 32 bits in particular. A sender encodes any
command or noise replaces the four bytes; the receiver decodes, and answers a HELLO. `Meant` is what the
arguments say, each cut to its field. `CoordSweep` maps one device coordinate after the other with
`Protocol`'s `vt_map_coord`, off the grid on both sides, onto ranges that run either way.

### `ExtDecode`: the expanders

`dispatch_heightfield` and `dispatch_polyline`, one `Cell` or `Point` after the other, with the length checks, serpentine order, blanks,
signed steps and clamping. The loop's variables between two of them are the values of a recursive function (`Scan`, `Follow`). The
payload is what a sender encodes a shape as (a grid or a path), cut short or with bytes to spare;
`Meaning` says in terms of the shape, not of the payload, which vectors it is.

### `StrokeFont`, `SplashText`, `Splash`: texts

`StrokeFont` is `vt_draw_string` point by point, and what a text should look like glyph by glyph (`StrokesOf`). `SplashText` is the
composition of the splash's two variable lines in their buffer, character by character. `Splash` composes them: a line is drawn
before the next overwrites the buffer.

### `Via`, `DrawPath`, `Raster`: from a vector to pixels

`Via` is the emulator's VIA and integrators, one operator per register write. `DrawPath` is libpitrex's direct
draw path over it with its caches (`portA`, `ysh`, `zsh`, `lastScale`), as `emu_main.c` calls it: a run starts with `v_init`, whose last
register writes are those of `v_readButtons`, draws the vectors of a frame (`Draw`) or the strings of a splash (`StartString`, `Stroke`,
`EndString`), and ends with `Flush`. A string sets `currentScale` and leaves `lastScale` alone, which is how a ramp could run for a count
that T1 still has from before. `Positioned` subtracts scales as unsigned numbers (`UINT`; `MAX_USED_STRENGTH` is an `unsigned int`): when the
move needs a larger scale than the one in force, the difference wraps and the beam is brought to the centre first. That is what protects a splash.
Its strings start away from the centre and from where the beam was left (`SplashAssumption`), so the move to a string's first stroke takes a larger
scale than the string's, starts at the centre and loads all of T1. In `draw_splash` (`emu_main.c:163-175`) the strings' scales are
5, 6 and 13, the move from the centre to any of them takes 75 or more and the move from the line above 27 or more: glyphs are 0 to 8 units
high and lines at least 26 of the positions' 128 apart, whatever the texts are. `Straight` fails on splashes without the assumption, for instance
when a string starts where the one before it ended.
`Raster` is the emulator's `draw_line`, one pixel per step.

### `EmuE2E`: the end-to-end tool

vekterm's thread by its phases (receive, wait for the recalibration and play the picture queued before, draw, flush, reply), the sender,
which may fail at any point, and the tool: wait for the child, clear the capture, sleep, render. The sender is
external: modelled from what the tool and the PTY give it.

### `Calculations`

Three calculations and the expanders share no state; `Calculations` puts `Codec`, `CoordSweep`, `Raster` and `ExtDecode` side by side, and a
behaviour is about one of them.

The `MC` modules only define the instances' items, messages and tables. Operators marked *mutant* in
a comment are deliberate mistakes that each property must notice; no specification uses them.

## Runs

`tlc -config <cfg> <module>` in this directory. `expect` and the properties are in `PROJECT.json`.

| run | module, cfg | states | what it shows |
|---|---|---|---|
| parser | `MCParser` | 516,000 | `InStep`, `WholePicture`, `PublishesWhatWasSent`: the decoder agrees with the sender wherever the sender's stream is intact, over-long, truncated and unknown payloads and overflowing frames included |
| prompt | `MCReceiver`, `MCPrompt` | 8,800 | with a prompt sender nothing arrives while the loop draws, nothing is discarded, every frame is shown, the v2 record describes the screen, and `Display` is implemented |
| any_sender | `MCReceiver`, `MCHoarding` | 133,500 | with a sender that pauses and hoards replies: recovery at the next good frame, the loop never hangs, silence ends in the splash |
| session | `MCSession` | 466,000 | `HeldWhileAlive` across wraps of the timer, `OnePressOneStep` |
| next_sender | `MCSession`, `MCNextSender` | violation | a v1 sender gets the last sender's v2 replies |
| host_tool | `MCHostTool` | 17,900 | what is shown does not depend on how the stream is cut into reads; the tool ends when its session is over |
| uart_rx | `MCUartRx` | 398,000 | `InOrder` and `IsAQueue` with the interrupt anywhere |
| calculations | `MCCalculations` | 251,000 | commands arrive as meant and damaged words are one command (`ArrivesAsMeant`, `TakenForOneCommand`); `vt_map_coord` is nearest and monotone; `draw_line` stays on its line and gets to its only exit; payloads become their shapes (`TracesTheShape`) |
| splash | `MCSplash` | 873,000 | composed lines fit and say what was meant; every text is drawn as its glyphs' strokes, zeroed once per glyph |
| draw_path | `MCDrawPath` | 23,000 | through the library's caches every vector of a frame and every stroke of a splash is one line of its brightness, length and direction, and drift is bounded |
| emu_e2e | `MCEmuE2E` | 5,300 | nothing older than the picture being drawn at the clear is rendered, the last one received is whole, and the tool ends |

**Bounds, and why they are enough.**

- *Words of two bytes* instead of four: one byte lost makes every later word a mixture of two, which
  is the case that matters; the mixture's meaning is arbitrary at any width.
- *Two vectors to a frame* and up to three strokes sent (`MAX_STROKES`), so that a frame fits, fills
  up exactly and overflows, by a word or in the middle of a payload. *Payloads* of zero to three bytes against a
  buffer of two. Coordinates on the grid 0..1 and off it on both sides. `Receiver` has one
  vector to a frame and one message that overflows.
- *FIFO of two bytes* in `Receiver`: less than a frame, as on the board.
- *Windows*: `RX_TIMEOUT` is 8 byte times in `prompt`, where the longest message is 6 bytes and starts
  at most one late, and 7 where the sender's timing is free. `IDLE_TIMEOUT` is longer than
  the window, as it is in the code, so that it expires after several passes.
- *Ready replies* are saved up to two (`MAX_CREDITS`): the second is what lets a sender send while
  the loop draws.
- *Timer*: it wraps at 12 ticks, with a timeout of 5 and passes of 1 to 3, so every alignment of the
  timeout and the wrap occurs. Two buttons, for a press while the other is held.
- *Ring* of four bytes, FIFO of two, eight arrivals: the ring fills, wraps twice, overflows and is
  flushed at each of its positions.

- *Reads* of up to three bytes of streams of two-byte words and two- and three-byte payloads, so every word and payload is cut
  everywhere; one stream has a frame in a payload, the other an EXIT and a frame after it.

- *Words* in `calculations`: bytes of 4 bits, words of 16 with a 3-bit flag as in the code, coordinates of 6 bits; arguments at and
  around each field's limits; every word there is, as noise. *Coordinates*: a grid of 16 points onto ranges narrower, wider,
  beside zero and reversed. *Lines*: every direction, both axes the longer, points and ties included. *Shapes*: every pattern of blanks in grids of up to
  3 by 2, plain and serpentine; paths of up to two steps, narrow and wide, open and closed, with and without their own
  brightness; on the screen and off it on every side; payloads short by 10 and by 1, exact, and one over. The code treats
  every cell and step alike but the first of a row, the last point and an odd row, which all occur.
- *Splash*: a buffer of six, builds that fit, fill it and overflow it in the first or the second append, rates of one to three digits, texts
  of up to three characters over glyphs with pen lifts at every place, with one point and with none.
- *Drawing*: bytes of 16 values, frames of four vectors that begin where the last ended, near it and far away; splashes of two and
  three strings with up to three strokes, one of them empty; a zero is forced after two draws. A stale cache takes two calls to set up and one to show.
- *End to end*: three frames of three segments, and three passes in the tool's sleep: one to play what was queued, one to draw
  what is held, one begun before the clear.

Deadlock is checked in every run but three: the receiver never stops, in `UartRx` the loop may go on polling when no more bytes
arrive, and the host tool's end is a step of its own (`Done`). The tool of `emu_e2e` exits, a sweep of `calculations` has an
end, and so has a run of `draw_path` (`Flush`).

## Fairness

- `Receiver!FairSpec`: `WF(Loop)`, because the main loop is a single thread that never blocks (each
  wait in it has a timeout); `WF(Byte \/ Silence)`, because time passes. Nothing is assumed of the
  sender: it may be silent for ever. Time passes in the receive phase only when the loop has nothing left to poll (`Polled`):
  the processor takes microseconds for a byte, the line at least 5.
- `Session!FairSpec`: `WF(Receive \/ Show)`, the same loop.
- `EmuE2E!EmuSpec`: weak fairness of vekterm's thread, of the tool, and of the sender as long as it does not fail: three scheduled
  processes. That the sender ever fails is not assumed.
- `Raster` in `Calculations!CalcSpec`: `WF(Step \/ Finish)`, a sequential loop runs.
- `HostTool!FairSpec`: `WF(Loop)`, the tool is scheduled. A blocked read is a disabled loop, which is what it is.
- The other modules are checked for safety only.

`AlwaysReadyAgain`, `SilenceEndsInSplash`, `EveryFrameShown`, `EndsWhenOver`, `LineEnds` and `Renders` are the liveness properties; TLC
checks them on the instances above and nothing about liveness is proved.

## Proofs

`tlapm <module>` in this directory. All constants are arbitrary within the named assumptions in the modules
(`FrameAssumption`, `ItemsAssumption`, `StrokesAssumption`, `ReceiverAssumption`, `HostToolAssumption`, `SessionAssumption`,
`BaudAssumption`, `UartAssumption`, `LayoutAssumption`, `CommandsAssumption`, `NoiseAssumption`, `SweepAssumption`, `RasterAssumption`,
`EmuAssumption`, `ViaAssumption`, `DrawAssumption`, `ScaleAssumption`, `TextAssumption`, `FontAssumption`, `SplashAssumption`,
`ExtAssumption`); TLC evaluates each on its instances.

**`DecoderProofs`** has the lemmas about `Frame` and `Drawing` that every module with a decoder inside needs: `Capped` of a
concatenation, a byte in step (`FeedInStep`), an item's effect on the picture (`AfterRepresents`), and what a sequence of items
spells and composes. The last are inductions over the sequence. The library's induction theorems take an operator as a parameter,
which the provers cannot instantiate; `Induction` takes a *set* of numbers in its place and follows from there being a least one
outside it. So what a fold computes is followed along the prefixes (`SoFar`), and it is the set of lengths at which a claim holds that is
shown to be everything.

**`ParserProofs`**: `TypeCorrect`, `StaysInStep`, `DecodesWhatWasDrawn`, `PublishesRight`. The invariant is
`TypeOK /\ InStep /\ WholePicture`, for every word size, cap, payload buffer, vocabulary of items and
set of callbacks. `InStep` has to describe the registers *inside* an item too (how many bytes of
which word or payload were gathered, or only drained): publishing right at the end of an item depends on every byte
before it.

**`HostToolProofs`**: `TypeCorrect`, `FramesHoweverCut`. The tool's buffer, the kernel's and what the writer still has are one
sequence, the rest of the stream after the bytes fed (`Queued`). Each byte fed takes the decoder from `Reached(j, k)`, j items and k
bytes of the next, to the next such pair; how many bytes came in one read does not occur in it.

**`ReceiverProofs`**, of any sender:

- `RepliesDescribeScreen`. The reply counts the vectors of the frame held *when it is sent*, the screen shows the one held *when it
  was drawn*, and `RInv` says why these are the same one: between the draw and the reply nothing changes the held frame, without one
  the count is zero, and a held frame cannot be taken for the splash. While the loop receives, the held frame and the screen may
  differ; what stays true is the reply sent last.
- `TypeCorrect` for the registers, queues and clocks.
- `RecoversAtNext`: a message with a FRAME header that is sent into a quiet receive phase is held, whole, when the loop goes on to
  draw, whatever the decoder had in it before. `AInv` follows the message from its first byte: the decoder is in step with it because
  the resync came before, and the header discards what was drawn before.

**`ReceiverProofs`**, of a `Timely` sender: `NothingArrives`, `NothingToDiscard`, `Displays`. `Timely` is the rule the flow control is
made for: one message per ready reply, started within `SLACK` of it and sent without pauses, that fits in the window. `Window` adds up
the time: what is left of a message and what has elapsed are together less than the window, so that the window cannot close on it.
`AtRest` and `UnderWay` say what the decoder has drawn meanwhile, and `Owing` which frame `Display` has been handed and not yet taken
up. Each step of the receiver is then a step of `Display` or a stutter. `Timely` is a hypothesis of the theorems and an assumption of
TLC's prompt instance (`PromptIsTimely`), so it is one that senders meet.

**`SessionProofs`**: `SessionTypes`, `HeldExactlyWhileAlive`, `OneStepPerPress`. The invariant adds to
`HeldWhileAlive` that the unsigned difference of the timer is the true time while a frame is held (`ClockRight`)
and that a button that is down and was not seen yet was pressed since the last step (`PressRight`). The assumption is that the
timeout and one pass of the loop together fit in the timer's range, 30 s and milliseconds against 71 minutes; when no frame is
held nothing is claimed, and the timer may wrap any number of times.

Of the splash, in the same C file: `LinesFit`, `LinesSayTheText`, for every build and buffer and every rate that fits in
`append_u32`'s `tmp` (`TextAssumption`: ten digits hold any 32-bit number, and they and the unit, nine characters, fit in
the line's 40). `append_u32` never looks at the room, which its caller guarantees, so the proof bounds how many digits it produces.
`TextInv` does it with the numbers the division leaves one after the other (`Quotients`): each is ten times the next and a digit, so
one that is not zero after `TMP` digits comes from a number above all nines (`DividedAway`). The same numbers, read backwards, are the
values of the digits as they stand in the line (`DigitsSayIt`), which makes the line the rate in decimal.

And of the font, which draws the splash: `TextsAreAsWritten`, `GlyphsAreZeroed`, for every table of glyphs, text, place and size. The
invariant `FontInv` names the glyph k and the point j that the loop has come to. The strokes so far are those of the glyphs
before k and then of k up to j (`Through`, `UpTo`); the pen is up exactly when j is a lift or nothing was visited yet; and
the zero is still due exactly when k is one to be zeroed and nothing of it was drawn (`Penned`). The last is what makes it one
zero per glyph: `glyph_zero` is a flag of the past, and the invariant says of which. `FontAssumption` is the type of the generated table. The
property is stated for any `VT_FONT_ZERO_EVERY`, which the code leaves to the build, 0 included.

**`UartRxProofs`**: `UartTypes`, `RingIsAQueue`, the refinement of `ByteQueue`, and `BytesInOrder`, for every size of
the ring and the FIFO. The invariant `InHand` is what the main loop may rely on between two accesses
although the handler moves the head: the byte it is about to take is still in its place, and the head it read for
the flush is still in the ring. Two lemmas on windows of the ring carry the refinement: storing behind a window
appends to it (`WindowStore`), moving its start drops a prefix (`WindowDrop`). For the order the invariant `Ordered` looks at the
bytes on their way as one sequence: those in the ring, then those in the FIFO, each later than the one before it, all
later than the last one handed out and none later than the last one that arrived. Refused and flushed bytes only leave gaps in it.
`RXBUF_SIZE` may be any number above 1 there; that it is a power of two is only how the C code writes the remainder.

**`CodecProofs`**: `EveryCommandArrives`, `EveryWordIsOneCommand`, `ProberKnowsLimits`, for any layout in which the fields of a word
lie side by side (`LayoutAssumption`). The lemmas under them are about numbers: a product and a remainder below the factor are divided
again into just these (`DivMod`), and dividing twice is dividing by the product (`DivDiv`). From these, four bytes and a word determine
one another (`PackUnpack`, `Unpacks`), and each kind of word gives its fields back. Of the coordinate map: `EndsAreExact`, `IsNearest`,
`IsMonotone`, `IsMirrored`, for every resolution and output range. C divides towards zero, so each direction of the range is a case of
its own, with the division bounded from both sides.

Of the expanders: `ShapesAreTraced`, for every path that its fields can hold, every grid that they can and whose bytes a 32-bit number can count, and any width of a byte from eight
values on (three flags). `ExtAssumption` says what a sender's shape is: numbers that fit in their fields, as many
intensities as cells or none, and steps that fit in a signed byte unless they are wide. The proof has three parts. *Reading*: what
is packed at an offset is read back there, and a header's flags and numbers with it (`GridHeadRead`, `PathHeadRead`); a payload with
bytes to spare has the shape's bytes in their places (`Held`), so it reads the same. *Places*: cell `c` of row `r` is the cell number `r * cols + c`,
which division by `cols` takes apart again (`CellIndex`), and step `i` of a path starts `stride` bytes after step `i - 1`
(`Blocks`), so that each `Cell` and `Point` of the code reads the shape's own (`CellRead`, `PointRead`). *Tracing*: after k cells of a
scan line the code has added the vectors of the line's first k cells, its pen is on the last one, and `have` says whether that one is lit
(`InLine`); each new row starts from nothing (`LineTraced`, `GridTraced`). A short payload is refused by the length
check, since what the check computes is the length of the shape's own encoding, which does not wrap (`NotWrapped`). `ExtInvariant` is the state invariant under it.

**`EmulatorProofs`**, three components:

- `Raster`: `StaysOnTheLine`, `StaysWithinTheLine`, `EveryStepMoves`, for every line. The invariant is what `err` means: after `a`
  steps along x and `b` along y it is the difference of the extents less the distance from the line, and the two tests keep that
  within half the longer extent.
- `EmuE2E`: `RendersNothingOlder`, `RendersLastWhole`, for any number of frames and segments and a sleep of three passes or more. The
  invariant `Settled` says what each reply since the clear settles: after the first the next flush leaves nothing to come,
  after the second the picture held is the one being played, after the third it has been played. Two passes are not
  enough, which `EmuAssumption` therefore rules out.
- `DrawPath`: `EachVectorOneLine`, `LinesAreStraight`, `DriftStaysBounded`, for any frame and any splash within `SplashAssumption`. `PathInv` says
  what the library may believe between two calls: a cache that does not have the "illegal value" of the start has what the register has (`Caches`), the
  multiplexer is off, so that port A is the x rate, and the beam rests with nothing armed (`LibInv`). In a frame T1 has the low byte of the current
  scale (`Timed`). After a string has set its scale it need not, but then the next stroke's move is one that starts `Anew` at a larger scale
  (`Sure`); the unsigned difference of the scales is above the limit (`Jumps`). `SplashInv` carries the assumption along: the strings to come are
  away from where the beam is, and from the ends of the strokes still to draw. For the drift `LibInv` adds that the library believes itself at the
  centre or at a vector's end; a ramp adds less than its ticks, which is what a rate cut to a whole number loses. `ScaleAssumption` is what
  `MAX_SCALE` means: no vector and no move between two needs more ticks, and these fit in T1 and, with the limit, in an `unsigned int`.

**Only model-checked**: liveness, which with fairness and `ENABLED` is beyond the installed provers. Every invariant and every
action property of the passing runs is the conclusion of a theorem; those of the prompt receiver have `Timely` as a hypothesis, as
their run has it as an assumption.

## Where the code and its comments disagree

With a run:

1. `vekterm_baremetal.c:119-120` says that an un-negotiated v1 peer keeps getting the sync byte. The
   negotiation is never forgotten, so it holds until the first HELLO since power-on (`next_sender`).

Without one, because the arithmetic or the code says it all:

2. `vekterm_baremetal.c:105-107` says that one frame per sync keeps the line quiet while the loop
   draws. It does when the sender also answers within the window (run `prompt`); a sender that answers late does
   not break the rule as it is stated, and does break the silence. The receiver recovers at the next frame (`any_sender`).
3. `uart_rx.h:28-30` says that at the flush nothing valid is in flight. A frame that takes longer than
   `VT_RX_TIMEOUT_US` to transmit is: the window is not renewed by arriving bytes (with `RX_TIMEOUT = 7` or less in `MCPrompt.cfg` the sender is no longer `Timely`, which TLC reports of the assumption `PromptIsTimely`). At
   1.28 Mbaud 50 ms are 6,400 bytes, or 1,600 words, so frames of that size exist in principle.
4. `vekterm_baremetal.c:97-98` calls all the rates of the table exact; 921600 is 2.1% fast and 115200 0.3%.
5. `PROTOCOL.md:51` says of EXIT "Session over"; the host tool still shows the frames that follow it in the same read.
   The receiver ignores EXIT altogether.
6. The end-to-end tool clears its capture and renders whatever is drawn next. When the sender fails before its first frame,
   that is vekterm's splash, rendered as if it were the sender's picture.
7. `vekterm_baremetal.c:226-227` says that the font has lower case; `font.c:125-126` folds it to capitals.

## What is not modelled

- The receiver: `draw_us`, a measurement; `VT_RX_SPINS`, which ends the wait when the timer itself is dead; the fixed texts of the splash.
- The decoder: `total_length`, `monochrome` and the lifetime counters, which nothing in the receiver reads.
- The codec: the descriptor's constant bytes, and `vt_scale_color`, which no program calls.
- The expanders: `ExtDecode` computes a HEIGHTFIELD's `need` modulo 2^32, as `frame.c:138` does, but payloads are those of shapes a sender
  has, cut or extended, and `ExtAssumption` admits the shapes whose count does not wrap. Of other headers `TracesTheShape` says nothing.
- The host tool: options, the self test, messages, termios settings, the answer to a HELLO, a terminal as standard input.
- libpitrex, which is vendored, but for the draw path the emulator uses and the mini-UART's divisor: the display pipeline, calibration,
  sound, storage.
- The emulator: options, files, the fit of the picture to the image (floating point), the frame generator. `EmuE2E` assumes that the 30 s of
  inactivity do not pass in a run, that the sleep of 200 ms outlasts three passes of at most 50 ms each, and that a frame comes through the PTY
  in one piece. The sender is a program of the user's, so its model is external.
- Build, deployment, tests, the font generator and its table: no state of the running system.
- Compiler and bus reordering in `uart_rx.c`: the indices and the ring are `volatile`, and the
  handler runs on the same core.

## Plan

Done, in this order: `Frame`, `Drawing`, `Parser` and proofs; `Protocol`, `Receiver`, `Display`; `Session` and
proofs; `UartRx`, `ByteQueue` and proofs; `HostTool`; `Codec`, `CoordSweep`, `Raster` and proofs; `ExtDecode`; `StrokeFont`,
`SplashText`, `Splash`; `Via`, `DrawPath`; `EmuE2E`; the proofs of the order of bytes and of the replies; those of `Receiver` with a
timely sender up to the refinement of `Display`, of `HostTool`, of `EmuE2E`, of `DrawPath` and of `SplashText`; those of the expanders
and of the font.

Next, in order of what they would add:

1. A composition of `UartRx` and the receive phase of `Receiver`, to replace the ring there by `ByteQueue`.
