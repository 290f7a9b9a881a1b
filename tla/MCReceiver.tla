----------------------------- MODULE MCReceiver -----------------------------
(* The instances TLC checks Receiver on: two-byte words, one vector to a   *)
(* frame, a frame with a FRAME header, one without that overflows, a       *)
(* keepalive and the HELLO probe.                                          *)
EXTENDS Receiver

MCVectrexMin == -2
MCMinPayload == [poly |-> 1]
MCSink == {"frame", "exit", "query", "keepalive"}

Word(f) == [flag |-> f]
Lit(x) == [flag |-> "XY", blank |-> FALSE, x |-> x]
Cmd(c) == [flag |-> "CMD", cmd |-> c]

WithHeader == <<Word("FRAME"), Lit(0), Word("COMPLETE")>>
Headerless == <<Lit(2), Lit(0), Word("COMPLETE")>>
Keepalive  == <<Cmd("keepalive")>>
Hello      == <<Cmd("hello")>>

MCMessages == {WithHeader, Headerless, Keepalive, Hello}
MCItems == UNION {ToSet(m) : m \in MCMessages}

\* A smaller vocabulary, for senders whose timing is free.
MCFewMessages == {WithHeader}
MCFewItems == UNION {ToSet(m) : m \in MCFewMessages}

\* The prompt sender is one the theorems about the quiet line are about.
ASSUME PromptIsTimely == PROMPT => Timely
=============================================================================
