----------------------------- MODULE MCHostTool -----------------------------
(* The instances TLC checks HostTool on: two-byte words, reads of up to    *)
(* three bytes, and streams whose words and payloads the reads cut.        *)
EXTENDS HostTool

MCMinPayload == [poly |-> 1]
MCSink == {"frame", "exit", "query", "keepalive"}

Word(f) == [flag |-> f]
Lit(x) == [flag |-> "XY", blank |-> FALSE, x |-> x]
Poly == [flag |-> "EXT", subtype |-> "poly", length |-> 2,
         geom |-> <<[from |-> 0, to |-> 1, z |-> 1]>>]
TooLong == [flag |-> "EXT", subtype |-> "poly", length |-> 3, geom |-> <<>>]

MCStreams ==
    {<<Lit(0), Word("COMPLETE"), Word("FRAME"), Poly, Lit(1), Word("COMPLETE")>>,
     <<TooLong, Word("COMPLETE"), Lit(1), Word("EXIT"), Word("COMPLETE")>>}
MCItems == UNION {ToSet(s) : s \in MCStreams}
=============================================================================
