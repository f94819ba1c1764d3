------------------------------ MODULE Framing ------------------------------
(***************************************************************************)
(* The frames on a QUIC stream, as src/internal/nodosum/quic.go writes and *)
(* reads them, and the loop of conn.go that hands them on.                 *)
(*                                                                         *)
(* A stream is a sequence of numbers: a byte of a text, a frame type, or a *)
(* length, which is one element here whatever its width.  The width is     *)
(* kept where it matters: a length is written modulo the limit of its      *)
(* field, as uint16(len(...)) and uint32(len(...)) do.                     *)
(***************************************************************************)
EXTENDS Integers, Sequences

CONSTANTS
    ShortLimit,   \* 2^16: the lengths of names, correlation ids and errors
    LongLimit     \* 2^32: the length of a payload

ASSUME FramingAssumption ==
    ShortLimit \in Nat \ {0} /\ LongLimit \in Nat \ {0}

Text == Seq(Nat)

STREAM_INIT == 1
DATA        == 2
REQUEST     == 3
RESPONSE    == 4

InitFrame     == [node : Text, app : Text, name : Text]
DataFrame     == [type : {DATA}, payload : Text]
RequestFrame  == [type : {REQUEST}, id : Text, payload : Text]
ResponseFrame == [type : {RESPONSE}, id : Text, error : Text, payload : Text]

AnyFrame == DataFrame \cup RequestFrame \cup ResponseFrame

-----------------------------------------------------------------------------
(* Encoding.                                                               *)
Field(text, limit) == <<Len(text) % limit>> \o text

Short(text) == Field(text, ShortLimit)
Long(text)  == Field(text, LongLimit)

(* Mutant of EncodeStreamInit: the application comes last.                 *)
EncodeStreamInitSwapped(f) == <<STREAM_INIT>> \o Short(f.node) \o Short(f.name) \o Short(f.app)

EncodeStreamInit(f)    == <<STREAM_INIT>> \o Short(f.node) \o Short(f.app) \o Short(f.name)
EncodeDataFrame(f)     == <<DATA>> \o Long(f.payload)
EncodeRequestFrame(f)  == <<REQUEST>> \o Short(f.id) \o Long(f.payload)
EncodeResponseFrame(f) == <<RESPONSE>> \o Short(f.id) \o Short(f.error) \o Long(f.payload)

Encode(f) ==
    CASE f.type = DATA     -> EncodeDataFrame(f)
      [] f.type = REQUEST  -> EncodeRequestFrame(f)
      [] f.type = RESPONSE -> EncodeResponseFrame(f)

-----------------------------------------------------------------------------
(* Reading.  A reader takes a length and as many elements as it says; when *)
(* the stream ends before that, it has consumed what there was and fails.  *)
Failed == [ok |-> FALSE, text |-> <<>>, rest |-> <<>>]

(* Mutant of ReadField: Read, which may return less, instead of ReadFull.  *)
ReadFieldPartly(in) ==
    IF in = <<>> THEN [ok |-> FALSE, text |-> <<>>, rest |-> <<>>]
    ELSE LET end == IF Head(in) > Len(in) - 1 THEN Len(in) ELSE Head(in) + 1
         IN  [ok |-> TRUE, text |-> SubSeq(in, 2, end), rest |-> SubSeq(in, end + 1, Len(in))]

ReadField(in) ==
    IF in = <<>> \/ Head(in) > Len(in) - 1 THEN Failed
    ELSE [ok   |-> TRUE,
          text |-> SubSeq(in, 2, Head(in) + 1),
          rest |-> SubSeq(in, Head(in) + 2, Len(in))]

(* readFrame copies the fields it has read, lengths included, to a body of *)
(* their own.                                                              *)
Raw(text) == <<Len(text)>> \o text

Unread == [ok |-> FALSE, type |-> 0, body |-> <<>>, rest |-> <<>>]

ReadData(in) ==
    LET p == ReadField(in)
    IN  IF ~p.ok THEN Unread
        ELSE [ok |-> TRUE, type |-> DATA, body |-> p.text, rest |-> p.rest]

ReadRequest(in) ==
    LET id == ReadField(in)
        p  == ReadField(id.rest)
    IN  IF ~p.ok THEN Unread
        ELSE [ok |-> TRUE, type |-> REQUEST, body |-> Raw(id.text) \o Raw(p.text),
              rest |-> p.rest]

ReadResponse(in) ==
    LET id == ReadField(in)
        e  == ReadField(id.rest)
        p  == ReadField(e.rest)
    IN  IF ~p.ok THEN Unread
        ELSE [ok |-> TRUE, type |-> RESPONSE,
              body |-> Raw(id.text) \o Raw(e.text) \o Raw(p.text), rest |-> p.rest]

(* The type, then the body; a type that readFrame does not know, or an     *)
(* init frame, has none.                                                   *)
ReadFrame(in) ==
    IF in = <<>> THEN Unread
    ELSE CASE Head(in) = DATA     -> ReadData(Tail(in))
           [] Head(in) = REQUEST  -> ReadRequest(Tail(in))
           [] Head(in) = RESPONSE -> ReadResponse(Tail(in))
           [] OTHER -> [ok |-> TRUE, type |-> Head(in), body |-> <<>>, rest |-> Tail(in)]

-----------------------------------------------------------------------------
(* The handlers decode the body, and drop one that ends too early.         *)
DecodeRequestFrame(body) ==
    LET id == ReadField(body)
        p  == ReadField(id.rest)
    IN  IF p.ok THEN <<[type |-> REQUEST, id |-> id.text, payload |-> p.text]>> ELSE <<>>

(* Mutant of DecodeResponseFrame: the offset is not moved past the error.  *)
DecodeResponseKeepsOffset(body) ==
    LET id == ReadField(body)
        e  == ReadField(id.rest)
    IN  IF e.ok THEN <<[type |-> RESPONSE, id |-> id.text, error |-> e.text,
                        payload |-> e.text]>> ELSE <<>>

DecodeResponseFrame(body) ==
    LET id == ReadField(body)
        e  == ReadField(id.rest)
        p  == ReadField(e.rest)
    IN  IF p.ok THEN <<[type |-> RESPONSE, id |-> id.text, error |-> e.text,
                        payload |-> p.text]>> ELSE <<>>

(* What streamReadLoop hands on of what readFrame gave it: unknown types   *)
(* and frames that were cut short are only logged.                         *)
Handed(r) ==
    IF ~r.ok THEN <<>>
    ELSE CASE r.type = DATA     -> <<[type |-> DATA, payload |-> r.body]>>
           [] r.type = REQUEST  -> DecodeRequestFrame(r.body)
           [] r.type = RESPONSE -> DecodeResponseFrame(r.body)
           [] OTHER -> <<>>

(* streamReadLoop on a stream that ends after the elements of in: every    *)
(* turn takes at least one of them, and the last turn finds the end.       *)
StreamReadLoop(in) ==
    LET turn[n \in 0..Len(in)] ==
            IF n = 0 THEN [rest |-> in, handed |-> <<>>]
            ELSE LET before == turn[n - 1]
                     r == ReadFrame(before.rest)
                 IN  [rest |-> r.rest, handed |-> before.handed \o Handed(r)]
    IN  turn[Len(in)].handed

(* handleStream: the init frame names the stream, and what follows it is   *)
(* for the loop.  A stream that begins otherwise is not registered.        *)
Accepted(in) ==
    LET node == ReadField(Tail(in))
        app  == ReadField(node.rest)
        name == ReadField(app.rest)
    IN  IF in = <<>> \/ Head(in) # STREAM_INIT \/ ~name.ok THEN <<>>
        ELSE <<[init   |-> [node |-> node.text, app |-> app.text, name |-> name.text],
                handed |-> StreamReadLoop(name.rest)]>>

-----------------------------------------------------------------------------
(* A frame whose texts have lengths that their fields can hold.            *)
ShortFits(text) == Len(text) < ShortLimit

Fits(f) ==
    /\ Len(f.payload) < LongLimit
    /\ f.type \in {REQUEST, RESPONSE} => ShortFits(f.id)
    /\ f.type = RESPONSE => ShortFits(f.error)

(* readFrame takes exactly one frame off a stream, whatever follows it, and *)
(* the handler gets the frame that was written: exactly when it fits.      *)
InStep(f, following) ==
    LET r == ReadFrame(Encode(f) \o following)
    IN  (Handed(r) = <<f>> /\ r.rest = following) <=> Fits(f)

(* Of a stream that breaks inside a frame, no part of it is handed on.     *)
NotTorn(f) ==
    Fits(f) => \A k \in 0..(Len(Encode(f)) - 1) : StreamReadLoop(SubSeq(Encode(f), 1, k)) = <<>>

(* An accepted stream is registered under the names it was opened with,    *)
(* and its loop hands on what was written after them, in order.            *)
InOrder(init, f, g) ==
    Fits(f) /\ Fits(g) /\ ShortFits(init.node) /\ ShortFits(init.app) /\ ShortFits(init.name)
        => Accepted(EncodeStreamInit(init) \o Encode(f) \o Encode(g))
               = <<[init |-> init, handed |-> <<f, g>>]>>
=============================================================================
