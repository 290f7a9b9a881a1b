------------------------------- MODULE Parser -------------------------------
(***************************************************************************)
(* The decoder of src/frame.c fed one byte at a time by a sender that      *)
(* transmits whole items over a line that may lose a byte, and resynced at *)
(* any moment by its owner.  `sent' is what the sender has drawn since it  *)
(* last began a frame, computed from the meaning PROTOCOL.md section 3     *)
(* gives the items and not from the decoder; the properties compare the    *)
(* decoder with it.                                                        *)
(***************************************************************************)
EXTENDS Drawing

CONSTANTS MAX_STROKES   \* bound on the vectors a sender puts in one frame

VARIABLES
    parser,    \* the vt_parser
    call,      \* the callback the last step made
    tx,        \* the item being transmitted and how many of its bytes left
    aligned,   \* ghost: since the last resync no byte of the stream was lost
    whole,     \* ghost: ... and the sender began its frame since then
    sent       \* ghost: the sender's own picture of its frame

vars == <<parser, call, tx, aligned, whole, sent>>

NoItem == [flag |-> "none"]
Boundary == [item |-> NoItem, sent |-> 0]    \* the sender is between two items
AtBoundary == tx.sent = 0

ASSUME StrokesAssumption == MAX_STROKES \in Nat

-----------------------------------------------------------------------------
\* The bound: a sender stops before a frame grows past MAX_STROKES.
Offers == {it \in Items :
              Len(Meaning(sent, it).strokes) <= MAX_STROKES}

-----------------------------------------------------------------------------
Init ==
    /\ parser = vt_parser_init
    /\ call = NoCall
    /\ tx = Boundary
    /\ aligned = TRUE
    /\ whole = TRUE
    /\ sent = NothingSent

\* The next byte leaves the sender.
Transmit(it) ==
    /\ IF AtBoundary THEN it \in Offers ELSE it = tx.item
    /\ tx' = IF tx.sent + 1 = Size(it) THEN Boundary
             ELSE [item |-> it, sent |-> tx.sent + 1]

\* ... and reaches the decoder.
Feed ==
    \E it \in Items :
        /\ Transmit(it)
        /\ \E r \in vt_parser_feed(parser, <<it, tx.sent + 1>>) :
              /\ parser' = r.parser
              /\ call' = r.call
        /\ UNCHANGED aligned
        /\ whole' = (whole \/ (aligned /\ AtBoundary' /\ StartsFrame(it)))
        /\ sent' = IF whole' /\ AtBoundary' THEN Meaning(sent, it) ELSE sent

\* ... or is lost on the line.
Slip ==
    \E it \in Items :
        /\ Transmit(it)
        /\ aligned' = FALSE
        /\ whole' = FALSE
        /\ sent' = NothingSent
        /\ call' = NoCall
        /\ UNCHANGED parser

\* The owner resyncs; only between two items does that realign the decoder.
Resync ==
    /\ parser' = vt_parser_resync(parser)
    /\ call' = NoCall
    /\ aligned' = AtBoundary
    /\ whole' = (whole /\ AtBoundary)
    /\ sent' = IF whole' THEN sent ELSE NothingSent
    /\ UNCHANGED tx

Next == Feed \/ Slip \/ Resync

Spec == Init /\ [][Next]_vars

-----------------------------------------------------------------------------
\* The types, with those bounds (frame.c:350, the invariant its comment states).
TypeOK ==
    /\ ParserOK(parser)
    /\ IF AtBoundary THEN tx = Boundary
       ELSE tx \in [item : Items, sent : Nat] /\ tx.sent < Size(tx.item)
    /\ aligned \in BOOLEAN /\ whole \in BOOLEAN /\ (whole => aligned)
    /\ sent \in SentType

\* While no byte is lost the decoder knows exactly where in which item the
\* sender is: a payload too long for ext_buf is still drained to its last byte
\* (frame.c:337), and a resync between two items realigns whatever came before.
InStep ==
    aligned => IF AtBoundary THEN Between(parser)
               ELSE Inside(parser, tx.item, tx.sent)

\* Once the sender has begun a frame in step, the frame under construction is
\* what it drew since (PROTOCOL.md section 3).
WholePicture == whole => Represents(parser.pic, sent)

\* From then on every COMPLETE, and nothing else, hands on_frame that picture.
Completes == ~AtBoundary /\ AtBoundary' /\ tx.item.flag = "COMPLETE"

PublishesWhatWasSent ==
    [][whole /\ whole' /\ "frame" \in Sink =>
         IF Completes
         THEN call' = [cb |-> "frame", frame |-> Showable(sent)]
         ELSE call'.cb # "frame"]_vars
=============================================================================
