------------------------------- MODULE Codec -------------------------------
(***************************************************************************)
(* The wire format of src/protocol.c: command words of four bytes, whose   *)
(* top three bits say what the rest means.  A sender encodes and packs, a  *)
(* receiver unpacks and decodes.  Field widths are the numbers of values a *)
(* field has, so a shift is a product or a quotient and a mask a           *)
(* remainder; fields that are ORed together do not overlap, which is what  *)
(* the layout's assumption and the masks say, and a sum is then an OR.     *)
(***************************************************************************)
EXTENDS Integers

CONSTANTS
    BYTE,                     \* values of a byte
    COORD,                    \* VT_COORD_MASK + 1
    SUBTYPES,                 \* VT_EXT_SUBTYPE_MASK + 1
    HELLO, KEEPALIVE,         \* VT_CMD_HELLO, VT_CMD_KEEPALIVE
    MAX_PIPELINE, EXT_MAX,    \* the limits a HELLO is answered with
    Commands,                 \* what senders encode, with their C arguments
    NoisyBytes                \* bytes a damaged word may have

BLANK   == COORD * COORD         \* 1 << VT_BLANK_SHIFT, VT_COMPLETE_MONOCHROME
FLAG    == 2 * BLANK             \* 1 << VT_FLAG_SHIFT, VT_PAYLOAD_MASK + 1
LENGTHS == BYTE * BYTE * BYTE    \* 1 << VT_EXT_SUBTYPE_SHIFT, VT_EXT_LENGTH_MASK + 1

COMPLETE == 0
RGB == 1
XY == 2
QUALITY == 3
FRAME == 4
CMD == 5
EXT == 6
EXIT == 7

UInt8 == 0 .. BYTE - 1
UInt16 == 0 .. BYTE * BYTE - 1
UInt32 == 0 .. BYTE * LENGTHS - 1

Arguments ==
    [flag : {RGB}, r : UInt8, g : UInt8, b : UInt8]
    \union [flag : {XY}, x : UInt16, y : UInt16, blank : BOOLEAN]
    \union [flag : {FRAME, QUALITY}, value : UInt32]
    \union [flag : {COMPLETE}, monochrome : BOOLEAN]
    \union [flag : {EXT}, subtype : UInt8, length : UInt32]
    \union [flag : {CMD}, cmd : {HELLO, KEEPALIVE}]
    \union [flag : {EXIT}]

ASSUME LayoutAssumption ==
    /\ BYTE \in Nat \ {0} /\ COORD \in Nat \ {0} /\ SUBTYPES \in Nat \ {0}
    /\ 8 * FLAG = BYTE * LENGTHS
    /\ SUBTYPES * LENGTHS = FLAG
    /\ HELLO \in UInt8 /\ KEEPALIVE \in UInt8 /\ HELLO # KEEPALIVE
    /\ MAX_PIPELINE \in UInt16 /\ EXT_MAX \in UInt16

ASSUME CommandsAssumption == \A c \in Commands : c \in Arguments

ASSUME NoiseAssumption == NoisyBytes \subseteq UInt8

-----------------------------------------------------------------------------
vt_pack_le(w) == \* mutant of vt_pack_be: two bytes change places
    <<w \div LENGTHS, (w \div BYTE) % BYTE, (w \div (BYTE * BYTE)) % BYTE, w % BYTE>>

vt_pack_be(w) == <<w \div LENGTHS, (w \div (BYTE * BYTE)) % BYTE, (w \div BYTE) % BYTE, w % BYTE>>

vt_unpack_be(b) == b[1] * LENGTHS + b[2] * (BYTE * BYTE) + b[3] * BYTE + b[4]

vt_encode_rgb(r, g, b) == RGB * FLAG + r * (BYTE * BYTE) + g * BYTE + b

vt_encode_xy(x, y, blank) ==
    XY * FLAG + (IF blank THEN BLANK ELSE 0) + (x % COORD) * COORD + (y % COORD)

vt_encode_frame(vector_length) == FRAME * FLAG + (vector_length % FLAG)
vt_encode_quality(value) == QUALITY * FLAG + (value % FLAG)
vt_encode_complete(monochrome) == COMPLETE * FLAG + (IF monochrome THEN BLANK ELSE 0)
vt_encode_exit == EXIT * FLAG
vt_encode_ext(subtype, length) == EXT * FLAG + (subtype % SUBTYPES) * LENGTHS + (length % LENGTHS)
vt_encode_keepalive == CMD * FLAG + KEEPALIVE

\* The HELLO probe has no encoder here: senders compose it (tests/test_ext.c).
Probe == CMD * FLAG + HELLO

Word(c) ==
    CASE c.flag = RGB      -> vt_encode_rgb(c.r, c.g, c.b)
      [] c.flag = XY       -> vt_encode_xy(c.x, c.y, c.blank)
      [] c.flag = FRAME    -> vt_encode_frame(c.value)
      [] c.flag = QUALITY  -> vt_encode_quality(c.value)
      [] c.flag = COMPLETE -> vt_encode_complete(c.monochrome)
      [] c.flag = EXT      -> vt_encode_ext(c.subtype, c.length)
      [] c.flag = CMD      -> IF c.cmd = HELLO THEN Probe ELSE vt_encode_keepalive
      [] c.flag = EXIT     -> vt_encode_exit

vt_word_flag(w) == (w \div FLAG) % 8

\* A field that only words of one kind have; memset cleared it for the others.
OnlyIf(is, value) == IF is THEN value ELSE 0

vt_decode_word_leaky(w) == \* mutant of vt_decode_word: no cases, and FRAME's payload is not masked
    [flag |-> vt_word_flag(w),
     r |-> (w \div (BYTE * BYTE)) % BYTE, g |-> (w \div BYTE) % BYTE, b |-> w % BYTE,
     x |-> (w \div COORD) % COORD, y |-> w % COORD,
     blank |-> (w \div BLANK) % 2 = 1, monochrome |-> (w \div BLANK) % 2 = 1, value |-> w]

vt_decode_word(w) ==
    LET f == vt_word_flag(w)
    IN  [flag |-> f,
         r |-> OnlyIf(f = RGB, (w \div (BYTE * BYTE)) % BYTE),
         g |-> OnlyIf(f = RGB, (w \div BYTE) % BYTE),
         b |-> OnlyIf(f = RGB, w % BYTE),
         x |-> OnlyIf(f = XY, (w \div COORD) % COORD),
         y |-> OnlyIf(f = XY, w % COORD),
         blank |-> f = XY /\ (w \div BLANK) % 2 = 1,
         value |-> OnlyIf(f = FRAME \/ f = QUALITY, w % FLAG),
         monochrome |-> f = COMPLETE /\ (w \div BLANK) % 2 = 1]

vt_ext_subtype(w) == (w \div LENGTHS) % SUBTYPES
vt_ext_length(w) == w % LENGTHS
vt_is_hello(w) == vt_word_flag(w) = CMD /\ w % BYTE = HELLO
vt_is_keepalive(w) == vt_word_flag(w) = CMD /\ w % BYTE = KEEPALIVE

\* What vt_parser_feed_word learns from a word.
Learned(w) ==
    LET f == vt_word_flag(w)
    IN  [cmd |-> vt_decode_word(w),
         subtype |-> OnlyIf(f = EXT, vt_ext_subtype(w)),
         length |-> OnlyIf(f = EXT, vt_ext_length(w)),
         hello |-> vt_is_hello(w), keepalive |-> vt_is_keepalive(w)]

\* The descriptor's two 16-bit limits, as the bytes it has them in.
vt_encode_hello_descriptor ==
    <<MAX_PIPELINE \div BYTE, MAX_PIPELINE % BYTE, EXT_MAX \div BYTE, EXT_MAX % BYTE>>

-----------------------------------------------------------------------------
VARIABLES sent,     \* the command on the wire, or Damage
          wire,     \* its four bytes
          got,      \* what the receiver learned from them
          limits    \* what the sender knows of the receiver's limits

vars == <<sent, wire, got, limits>>

Damage == [damage |-> TRUE]
Nothing == [nothing |-> TRUE]
Unknown == [pipeline |-> 0, payload |-> 0]

Init == sent = Nothing /\ wire = <<>> /\ got = Nothing /\ limits = Unknown

Send ==
    /\ sent = Nothing
    /\ \E c \in Commands : sent' = c /\ wire' = vt_pack_be(Word(c))
    /\ UNCHANGED <<got, limits>>

\* Four bytes that no encoder need have produced: noise, or words cut askew.
Disturb ==
    /\ sent = Nothing
    /\ sent' = Damage
    /\ wire' \in [1 .. 4 -> NoisyBytes]
    /\ UNCHANGED <<got, limits>>

\* The receiver takes the word, and answers a HELLO with its descriptor.
Receive ==
    /\ wire # <<>>
    /\ got' = Learned(vt_unpack_be(wire))
    /\ wire' = <<>>
    /\ limits' = IF got'.hello
                 THEN LET d == vt_encode_hello_descriptor
                      IN  [pipeline |-> d[1] * BYTE + d[2], payload |-> d[3] * BYTE + d[4]]
                 ELSE limits
    /\ UNCHANGED sent

\* It has acted on the word; the next one may follow.
Settle ==
    /\ got # Nothing
    /\ sent' = Nothing /\ got' = Nothing
    /\ UNCHANGED <<wire, limits>>

Next == Send \/ Disturb \/ Receive \/ Settle

Spec == Init /\ [][Next]_vars

-----------------------------------------------------------------------------
\* The command a sender meant, each argument cut to its field and nothing else
\* in it (tests/test_protocol.c:66-71 and 116-143).
Fields(c) ==
    LET f == c.flag
    IN  [flag |-> f,
         r |-> OnlyIf(f = RGB, c.r), g |-> OnlyIf(f = RGB, c.g), b |-> OnlyIf(f = RGB, c.b),
         x |-> OnlyIf(f = XY, c.x % COORD), y |-> OnlyIf(f = XY, c.y % COORD),
         blank |-> f = XY /\ c.blank,
         value |-> OnlyIf(f = FRAME \/ f = QUALITY, c.value % FLAG),
         monochrome |-> f = COMPLETE /\ c.monochrome]

Meant(c) ==
    LET f == c.flag
    IN  [cmd |-> Fields(c),
         subtype |-> OnlyIf(f = EXT, c.subtype % SUBTYPES),
         length |-> OnlyIf(f = EXT, c.length % LENGTHS),
         hello |-> f = CMD /\ c.cmd = HELLO, keepalive |-> f = CMD /\ c.cmd = KEEPALIVE]

\* Whatever the arguments, a receiver learns the command the sender meant: no
\* field spills into another or into the flag, and none is left over.
ArrivesAsMeant == (got # Nothing /\ sent # Damage) => got = Meant(sent)

\* The arguments that would have been meant by what was learned.
CommandOf(l) ==
    CASE l.cmd.flag = EXT -> [flag |-> EXT, subtype |-> l.subtype, length |-> l.length]
      [] l.cmd.flag = CMD -> [flag |-> CMD, cmd |-> IF l.hello THEN HELLO
                                                    ELSE IF l.keepalive THEN KEEPALIVE
                                                    ELSE BYTE]
      [] OTHER -> l.cmd

\* A damaged word, too, is taken for one command and no more: whatever its
\* bits, the fields are in their range, those of other commands are clear, and
\* it is never both a probe and a keepalive.
TakenForOneCommand == got # Nothing => got = Meant(CommandOf(got))

\* A sender that has probed knows the receiver's limits exactly, and an EXT
\* length within them is one the length field can hold.
LimitsKnown ==
    limits # Unknown => /\ limits = [pipeline |-> MAX_PIPELINE, payload |-> EXT_MAX]
                        /\ vt_ext_length(vt_encode_ext(1, limits.payload)) = limits.payload
=============================================================================
