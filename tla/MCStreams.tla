----------------------------- MODULE MCStreams -----------------------------
(***************************************************************************)
(* Streams for TLC: node 1 has dialed node 2.  The frames that travel on   *)
(* the streams are checked here as well, over all short texts.             *)
(***************************************************************************)
EXTENDS Streams, Framing

OneDialsTwo == {<<1, 2>>}

BothWays == {<<1, 2>>, <<2, 1>>}
AlsoItself == {<<1, 2>>, <<1, 1>>}

(* Texts up to one element past what a length field holds, of bytes that   *)
(* can be taken for a length or a frame type.                              *)
TextsTo(n) == UNION {[1..i -> {1, 3}] : i \in 0..n}
Names  == TextsTo(2)
Texts  == TextsTo(ShortLimit)
Frames ==
    [type : {DATA}, payload : TextsTo(LongLimit)]
        \cup [type : {REQUEST}, id : Names, payload : TextsTo(LongLimit)]
        \cup [type : {RESPONSE}, id : {<<3>>, <<1, 3>>}, error : Texts, payload : Names]
Few == {[type |-> DATA, payload |-> <<>>], [type |-> DATA, payload |-> <<3, 1>>],
        [type |-> REQUEST, id |-> <<1>>, payload |-> <<3, 1>>],
        [type |-> RESPONSE, id |-> <<3>>, error |-> <<>>, payload |-> <<1>>],
        [type |-> RESPONSE, id |-> <<3>>, error |-> <<1, 3>>, payload |-> <<>>]}
Inits == [node : Names, app : {<<>>, <<3, 1>>}, name : {<<1>>, <<3, 3>>}]

(* The codec has no state: one state of the run is enough to check it.     *)
Start == \A c \in Calls : call[c].pc = "idle"

(* Every frame whose texts fit their length fields is read back as it was  *)
(* written and leaves the stream at the next frame; one that does not fit, *)
(* such as a response with an error text of 65536 bytes, is not.           *)
FramesInStep ==
    Start => \A f \in Frames, g \in Few : InStep(f, <<>>) /\ InStep(f, Encode(g))

(* A connection that breaks in the middle of a frame hands on no part of   *)
(* it to an application.                                                   *)
FramesNotTorn == Start => \A f \in Frames : NotTorn(f)

(* A new stream is registered under the node, application and name it was  *)
(* opened with, and the frames that follow arrive in the order written.    *)
FramesInOrder == Start => \A init \in Inits : \A f, g \in Few : InOrder(init, f, g)
=============================================================================
