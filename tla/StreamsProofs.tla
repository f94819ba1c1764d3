--------------------------- MODULE StreamsProofs ---------------------------
(***************************************************************************)
(* The codec of Framing, for texts of every length and every width of the  *)
(* length fields, with the loop that reads a stream of frames; and the     *)
(* streams that the frames travel on, for any nodes, calls and faults.     *)
(***************************************************************************)
EXTENDS MCStreams, SequenceTheorems, WellFoundedInduction, TLAPS

(* A list of elements in front of a stream can be taken off again.         *)
LEMMA TakeOff ==
    ASSUME NEW t \in Text, NEW u \in Text
    PROVE  /\ t \o u \in Text
           /\ Len(t \o u) = Len(t) + Len(u)
           /\ SubSeq(t \o u, 1, Len(t)) = t
           /\ SubSeq(t \o u, Len(t) + 1, Len(t) + Len(u)) = u
<1>1. t \o u \in Text /\ Len(t \o u) = Len(t) + Len(u)
  BY ConcatProperties DEF Text
<1>2. \A i \in 1..(Len(t) + Len(u)) :
         (t \o u)[i] = IF i <= Len(t) THEN t[i] ELSE u[i - Len(t)]
  BY ConcatProperties DEF Text
<1>3. Len(t) \in Nat /\ Len(u) \in Nat
  BY LenProperties DEF Text
<1>4. \A i \in 1..Len(t) : t[i] \in Nat
  BY ElementOfSeq DEF Text
<1>5. \A i \in 1..Len(u) : u[i] \in Nat
  BY ElementOfSeq DEF Text
<1>6. SubSeq(t \o u, 1, Len(t)) = t
  <2> DEFINE v == SubSeq(t \o u, 1, Len(t))
  <2>1. \A i \in 1..Len(t) : (t \o u)[i] \in Nat
    BY <1>2, <1>3, <1>4
  <2>2. /\ v \in Seq(Nat)
        /\ Len(v) = IF 1 <= Len(t) THEN Len(t) - 1 + 1 ELSE 0
        /\ \A i \in 1..(Len(t) - 1 + 1) : v[i] = (t \o u)[1 + i - 1]
    BY <1>3, <2>1, SubSeqProperties
  <2> HIDE DEF v
  <2>3. Len(v) = Len(t)
    BY <2>2, <1>3
  <2>4. \A i \in 1..Len(v) : v[i] = t[i]
    BY <2>2, <2>3, <1>2, <1>3
  <2>5. v = t
    BY <2>2, <2>3, <2>4, SeqEqual DEF Text
  <2> QED BY <2>5 DEF v
<1>7. SubSeq(t \o u, Len(t) + 1, Len(t) + Len(u)) = u
  <2> DEFINE m == Len(t) + 1
             n == Len(t) + Len(u)
             v == SubSeq(t \o u, m, n)
  <2>0. m \in Int /\ n \in Int
    BY <1>3
  <2>1. \A i \in m..n : (t \o u)[i] \in Nat
    BY <1>2, <1>3, <1>5
  <2>2. /\ v \in Seq(Nat)
        /\ Len(v) = IF m <= n THEN n - m + 1 ELSE 0
        /\ \A i \in 1..(n - m + 1) : v[i] = (t \o u)[m + i - 1]
    BY <2>0, <2>1, SubSeqProperties
  <2> HIDE DEF v
  <2>3. Len(v) = Len(u)
    BY <2>2, <1>3
  <2>4. \A i \in 1..Len(v) : v[i] = u[i]
    <3> SUFFICES ASSUME NEW i \in 1..Len(u) PROVE v[i] = u[i]
      BY <2>3
    <3>1. v[i] = (t \o u)[Len(t) + i]
      <4>1. i \in 1..(n - m + 1) /\ m + i - 1 = Len(t) + i
        BY <1>3
      <4> QED BY <2>2, <4>1
    <3>2. Len(t) + i \in 1..(Len(t) + Len(u)) /\ ~(Len(t) + i <= Len(t))
      BY <1>3
    <3>3. Len(t) + i - Len(t) = i
      BY <1>3
    <3> QED BY <3>1, <3>2, <3>3, <1>2
  <2>5. v = u
    BY <2>2, <2>3, <2>4, SeqEqual DEF Text
  <2> QED BY <2>5 DEF v
<1> QED BY <1>1, <1>6, <1>7

(* Texts are joined in any order.                                          *)
LEMMA Assoc ==
    ASSUME NEW s \in Text, NEW t \in Text, NEW u \in Text
    PROVE  (s \o t) \o u = s \o (t \o u)
  BY ConcatAssociative, SMTT(60) DEF Text

(* The head and the tail of a stream that begins with a number.            *)
LEMMA OneElement ==
    ASSUME NEW n \in Nat, NEW u \in Text
    PROVE  /\ <<n>> \o u \in Text
           /\ <<n>> \o u # <<>>
           /\ Len(<<n>> \o u) = Len(u) + 1
           /\ Head(<<n>> \o u) = n
           /\ Tail(<<n>> \o u) = u
<1> DEFINE s == <<n>> \o u
<1>1. <<n>> \in Text /\ Len(<<n>>) = 1 /\ <<n>>[1] = n
  BY DEF Text
<1>2. s \in Text /\ Len(s) = 1 + Len(u)
  BY <1>1, TakeOff
<1>3. Len(u) \in Nat
  BY LenProperties DEF Text
<1>4. s # <<>>
  BY <1>2, <1>3, EmptySeq
<1>5. s[1] = n
  BY <1>1, <1>3, ConcatProperties DEF Text
<1>6. Tail(s) = SubSeq(s, 2, 1 + Len(u))
  BY <1>2, <1>4, TailIsSubSeq DEF Text
<1>7. SubSeq(s, 2, 1 + Len(u)) = u
  BY <1>1, TakeOff
<1>8. Len(s) = Len(u) + 1 /\ Tail(s) = u
  BY <1>2, <1>3, <1>6, <1>7
<1> HIDE DEF s
<1>9. Head(s) = n
  BY <1>2, <1>4, <1>5 DEF Text
<1> QED BY <1>2, <1>4, <1>8, <1>9, Zenon DEF s

(* readField: what it returns of a length and the elements after it.       *)
LEMMA ReadFieldTakes ==
    ASSUME NEW t \in Text, NEW u \in Text
    PROVE  ReadField(<<Len(t)>> \o (t \o u)) = [ok |-> TRUE, text |-> t, rest |-> u]
<1> DEFINE s == <<Len(t)>> \o (t \o u)
           h == <<Len(t)>> \o t
<1>1. Len(t) \in Nat /\ Len(u) \in Nat
  BY LenProperties DEF Text
<1>2. t \o u \in Text /\ Len(t \o u) = Len(t) + Len(u)
  BY TakeOff
<1>3. s # <<>> /\ Len(s) = Len(t) + Len(u) + 1 /\ Head(s) = Len(t) /\ Tail(s) = t \o u
  BY <1>1, <1>2, OneElement
<1>4. <<Len(t)>> \in Text
  BY <1>1 DEF Text
<1>5. s = h \o u
  <2> DEFINE x == <<Len(t)>>
  <2>1. x \in Text
    BY <1>4
  <2> HIDE DEF x
  <2>2. (x \o t) \o u = x \o (t \o u)
    BY <2>1, Assoc
  <2> QED BY <2>2, Zenon DEF x
<1>6. h \in Text /\ Len(h) = Len(t) + 1
  BY <1>1, OneElement
<1>7. SubSeq(s, Len(t) + 2, Len(s)) = u
  <2>1. SubSeq(h \o u, Len(h) + 1, Len(h) + Len(u)) = u
    BY <1>6, TakeOff
  <2>2. Len(h) + 1 = Len(t) + 2 /\ Len(h) + Len(u) = Len(s)
    BY <1>1, <1>3, <1>6
  <2> QED BY <2>1, <2>2, <1>5
<1>8. SubSeq(s, 2, Len(t) + 1) = t
  <2>1. SubSeq(h \o u, 1, Len(h)) = h
    BY <1>6, TakeOff
  <2>2. SubSeq(h, 2, 1 + Len(t)) = t
    <3>1. Len(<<Len(t)>>) = 1
      OBVIOUS
    <3> QED BY <1>4, <3>1, TakeOff
  <2>3. CASE Len(t) = 0
    <3>1. t = <<>>
      BY <2>3, EmptySeq DEF Text
    <3>2. SubSeq(s, 2, Len(t) + 1) = <<>>
      BY <2>3, SubSeqEmpty
    <3> QED BY <3>1, <3>2
  <2>4. CASE Len(t) # 0
    <3>1. 2 \in 1..Len(h) /\ Len(t) + 1 \in 1..Len(h)
      BY <2>4, <1>1, <1>6
    <3>2. SubSeq(h \o u, 2, Len(t) + 1) = SubSeq(h, 2, Len(t) + 1)
      BY <3>1, <1>6, SubSeqOfConcat1 DEF Text
    <3>3. Len(t) + 1 = 1 + Len(t)
      BY <1>1
    <3> QED BY <3>2, <3>3, <2>2, <1>5
  <2> QED BY <2>3, <2>4
<1>9. ~(s = <<>> \/ Head(s) > Len(s) - 1)
  BY <1>1, <1>3
<1>10. ReadField(s) = [ok |-> TRUE, text |-> SubSeq(s, 2, Head(s) + 1),
                       rest |-> SubSeq(s, Head(s) + 2, Len(s))]
  BY <1>9 DEF ReadField
<1> QED BY <1>3, <1>7, <1>8, <1>10

(* The texts a length field holds, and those it does not: what follows the *)
(* header is then taken for the text.                                      *)
LEMMA ReadFieldFits ==
    ASSUME NEW t \in Text, NEW u \in Text, NEW limit \in Nat \ {0}, Len(t) < limit
    PROVE  ReadField(Field(t, limit) \o u) = [ok |-> TRUE, text |-> t, rest |-> u]
<1>1. Len(t) \in Nat
  BY LenProperties DEF Text
<1>2. Len(t) % limit = Len(t)
  BY <1>1
<1>3. (<<Len(t)>> \o t) \o u = <<Len(t)>> \o (t \o u)
  <2>1. <<Len(t)>> \in Seq(Nat)
    BY <1>1
  <2> QED BY <2>1, ConcatAssociative DEF Text
<1> QED BY <1>2, <1>3, ReadFieldTakes DEF Field

(* A text too long for its length field is not what readField returns.     *)
LEMMA ReadFieldShorter ==
    ASSUME NEW t \in Text, NEW u \in Text, NEW limit \in Nat \ {0}, ~(Len(t) < limit)
    PROVE  ReadField(Field(t, limit) \o u).text # t
<1> DEFINE n == Len(t) % limit
           s == Field(t, limit) \o u
<1>1. Len(t) \in Nat
  BY LenProperties DEF Text
<1>2. n \in Nat /\ n < limit
  BY <1>1
<1>3. s = <<n>> \o (t \o u)
  <2>1. <<n>> \in Text
    BY <1>2 DEF Text
  <2>2. Field(t, limit) = <<n>> \o t
    BY DEF Field
  <2> HIDE DEF n
  <2>3. (<<n>> \o t) \o u = <<n>> \o (t \o u)
    BY <2>1, Assoc
  <2> QED BY <2>2, <2>3
<1>4. t \o u \in Text
  BY TakeOff
<1>5. s \in Text /\ Head(s) = n /\ Len(s) = Len(t \o u) + 1
  BY <1>2, <1>3, <1>4, OneElement
<1>6. Len(t) # 0 /\ t # <<>>
  BY <1>1
<1> HIDE DEF s, n
<1>7. CASE s = <<>> \/ Head(s) > Len(s) - 1
  <2>1. ReadField(s).text = <<>>
    BY <1>7 DEF ReadField, Failed
  <2> QED BY <2>1, <1>6 DEF s
<1>8. CASE ~(s = <<>> \/ Head(s) > Len(s) - 1)
  <2>1. ReadField(s).text = SubSeq(s, 2, n + 1)
    BY <1>8, <1>5 DEF ReadField
  <2>2. \A i \in 2..(n + 1) : s[i] \in Nat
    <3>1. Len(s) \in Nat
      BY <1>5, LenProperties DEF Text
    <3>2. \A i \in 2..(n + 1) : i \in 1..Len(s)
      BY <1>8, <1>5, <1>2, <3>1
    <3> QED BY <3>2, <1>5, ElementOfSeq DEF Text
  <2>3. Len(SubSeq(s, 2, n + 1)) = n
    <3> DEFINE e == n + 1
    <3>1. e \in Int /\ \A i \in 2..e : s[i] \in Nat
      BY <1>2, <2>2
    <3> HIDE DEF e
    <3>2. Len(SubSeq(s, 2, e)) = IF 2 <= e THEN e - 2 + 1 ELSE 0
      BY <3>1, SubSeqProperties
    <3>3. (IF 2 <= e THEN e - 2 + 1 ELSE 0) = n
      BY <1>2 DEF e
    <3>4. Len(SubSeq(s, 2, e)) = n
      BY <3>2, <3>3
    <3> QED BY <3>4, Zenon DEF e
  <2> QED BY <2>1, <2>3, <1>2, <1>1 DEF s
<1> QED BY <1>7, <1>8

(* A body is decoded to the texts it was made of.                          *)
LEMMA ReadRaw ==
    ASSUME NEW t \in Text, NEW u \in Text
    PROVE  /\ Raw(t) \in Text
           /\ ReadField(Raw(t) \o u) = [ok |-> TRUE, text |-> t, rest |-> u]
           /\ ReadField(Raw(t)) = [ok |-> TRUE, text |-> t, rest |-> <<>>]
<1>1. Len(t) \in Nat
  BY LenProperties DEF Text
<1>2. <<Len(t)>> \in Seq(Nat) /\ <<>> \in Text
  BY <1>1 DEF Text
<1>3. Raw(t) \in Text
  BY <1>1, OneElement DEF Raw
<1>4. Raw(t) \o u = <<Len(t)>> \o (t \o u)
  BY <1>2, ConcatAssociative DEF Raw, Text
<1>5. Raw(t) = <<Len(t)>> \o (t \o <<>>)
  BY ConcatEmptySeq DEF Raw, Text
<1> QED BY <1>2, <1>3, <1>4, <1>5, ReadFieldTakes

(* A field that is read is a text, and so is what is left of the stream.   *)
LEMMA ReadFieldType ==
    ASSUME NEW in \in Text
    PROVE  /\ ReadField(in).ok \in BOOLEAN
           /\ ReadField(in).text \in Text
           /\ ReadField(in).rest \in Text
<1>1. CASE in = <<>> \/ Head(in) > Len(in) - 1
  <2>1. ReadField(in) = [ok |-> FALSE, text |-> <<>>, rest |-> <<>>]
    BY <1>1 DEF ReadField, Failed
  <2>2. <<>> \in Text
    BY DEF Text
  <2> QED BY <2>1, <2>2
<1>2. CASE ~(in = <<>> \/ Head(in) > Len(in) - 1)
  <2> DEFINE h == Head(in)
             one == 2
             two == h + 2
             end == h + 1
             last == Len(in)
  <2>1. h \in Nat /\ last \in Nat /\ h <= last - 1
    BY <1>2, HeadTailProperties, LenProperties DEF Text
  <2>2. \A i \in 1..Len(in) : in[i] \in Nat
    BY ElementOfSeq DEF Text
  <2>3. /\ one \in Int /\ two \in Int /\ end \in Int /\ last \in Int
        /\ \A i \in one..end : i \in 1..Len(in)
        /\ \A i \in two..last : i \in 1..Len(in)
    BY <2>1
  <2>4. ReadField(in) = [ok |-> TRUE, text |-> SubSeq(in, one, end), rest |-> SubSeq(in, two, last)]
    BY <1>2 DEF ReadField
  <2> HIDE DEF one, two, end, last
  <2>5. \A i \in one..end : in[i] \in Nat
    BY <2>2, <2>3
  <2>6. \A i \in two..last : in[i] \in Nat
    BY <2>2, <2>3
  <2>7. SubSeq(in, one, end) \in Seq(Nat)
    BY <2>3, <2>5, SubSeqProperties
  <2>8. SubSeq(in, two, last) \in Seq(Nat)
    BY <2>3, <2>6, SubSeqProperties
  <2> QED BY <2>4, <2>7, <2>8 DEF Text
<1> QED BY <1>1, <1>2

(* What the handler of a request or a response sees of a stream: the texts *)
(* that were read, if none of them was cut short.                          *)
LEMMA HandedRequest ==
    ASSUME NEW in \in Text, NEW i, NEW p,
           i = ReadField(in), p = ReadField(i.rest)
    PROVE  /\ p.ok => /\ Handed(ReadRequest(in))
                             = <<[type |-> REQUEST, id |-> i.text, payload |-> p.text]>>
                      /\ ReadRequest(in).rest = p.rest
           /\ ~p.ok => Handed(ReadRequest(in)) = <<>>
<1>1. i.text \in Text /\ p.text \in Text
  BY ReadFieldType
<1>2. CASE p.ok
  <2> DEFINE body == Raw(i.text) \o Raw(p.text)
  <2>1. ReadRequest(in) = [ok |-> TRUE, type |-> REQUEST, body |-> body, rest |-> p.rest]
    BY <1>2 DEF ReadRequest
  <2>2. ReadField(body) = [ok |-> TRUE, text |-> i.text, rest |-> Raw(p.text)]
    BY <1>1, ReadRaw
  <2>3. ReadField(Raw(p.text)) = [ok |-> TRUE, text |-> p.text, rest |-> <<>>]
    BY <1>1, ReadRaw
  <2> HIDE DEF body
  <2>4. DecodeRequestFrame(body) = <<[type |-> REQUEST, id |-> i.text, payload |-> p.text]>>
    BY <2>2, <2>3 DEF DecodeRequestFrame
  <2>5. Handed(ReadRequest(in)) = DecodeRequestFrame(body)
    BY <2>1 DEF Handed, DATA, REQUEST, RESPONSE
  <2> QED BY <1>2, <2>1, <2>4, <2>5
<1>3. CASE ~p.ok
  <2>1. ReadRequest(in) = Unread
    BY <1>3 DEF ReadRequest
  <2> QED BY <1>3, <2>1 DEF Handed, Unread
<1> QED BY <1>2, <1>3

(* The same of a response, with its three texts.                           *)
LEMMA HandedResponse ==
    ASSUME NEW in \in Text, NEW i, NEW e, NEW p,
           i = ReadField(in), e = ReadField(i.rest), p = ReadField(e.rest)
    PROVE  /\ p.ok => /\ Handed(ReadResponse(in))
                             = <<[type |-> RESPONSE, id |-> i.text, error |-> e.text,
                                  payload |-> p.text]>>
                      /\ ReadResponse(in).rest = p.rest
           /\ ~p.ok => Handed(ReadResponse(in)) = <<>>
<1>1. i.text \in Text /\ i.rest \in Text
  BY ReadFieldType
<1>2. e.text \in Text /\ e.rest \in Text
  BY <1>1, ReadFieldType
<1>3. p.text \in Text
  BY <1>2, ReadFieldType
<1>4. CASE p.ok
  <2> DEFINE ri == Raw(i.text)
             re == Raw(e.text)
             rp == Raw(p.text)
             body == ri \o re \o rp
  <2>1. ReadResponse(in) = [ok |-> TRUE, type |-> RESPONSE, body |-> body, rest |-> p.rest]
    BY <1>4 DEF ReadResponse
  <2>2. ri \in Text /\ re \in Text /\ rp \in Text
    BY <1>1, <1>2, <1>3, ReadRaw
  <2>3. re \o rp \in Text
    BY <2>2, TakeOff
  <2>4. ReadField(ri \o (re \o rp)) = [ok |-> TRUE, text |-> i.text, rest |-> re \o rp]
    BY <1>1, <2>3, ReadRaw
  <2>5. ReadField(re \o rp) = [ok |-> TRUE, text |-> e.text, rest |-> rp]
    BY <1>2, <2>2, ReadRaw
  <2>6. ReadField(rp) = [ok |-> TRUE, text |-> p.text, rest |-> <<>>]
    BY <1>3, ReadRaw
  <2> HIDE DEF ri, re, rp
  <2>7. body = ri \o (re \o rp)
    BY <2>2, Assoc
  <2>8. ReadField(body) = [ok |-> TRUE, text |-> i.text, rest |-> re \o rp]
    BY <2>4, <2>7
  <2> HIDE DEF body
  <2>9. DecodeResponseFrame(body) = <<[type |-> RESPONSE, id |-> i.text, error |-> e.text,
                                       payload |-> p.text]>>
    BY <2>5, <2>6, <2>8 DEF DecodeResponseFrame
  <2>10. Handed(ReadResponse(in)) = DecodeResponseFrame(body)
    BY <2>1 DEF Handed, DATA, REQUEST, RESPONSE
  <2> QED BY <1>4, <2>1, <2>9, <2>10
<1>5. CASE ~p.ok
  <2>1. ReadResponse(in) = Unread
    BY <1>5 DEF ReadResponse
  <2> QED BY <1>5, <2>1 DEF Handed, Unread
<1> QED BY <1>4, <1>5

-----------------------------------------------------------------------------
(* A frame is its type and its fields, and then what follows it.           *)
LEMMA FieldIsText ==
    ASSUME NEW t \in Text, NEW limit \in Nat \ {0}
    PROVE  Field(t, limit) \in Text
<1>1. Len(t) \in Nat
  BY LenProperties DEF Text
<1>2. Len(t) % limit \in Nat
  BY <1>1
<1> QED BY <1>2, OneElement DEF Field

(* readFrame goes by the type in front.                                    *)
LEMMA ReadsByType ==
    ASSUME NEW u \in Text
    PROVE  /\ ReadFrame(<<DATA>> \o u) = ReadData(u)
           /\ ReadFrame(<<REQUEST>> \o u) = ReadRequest(u)
           /\ ReadFrame(<<RESPONSE>> \o u) = ReadResponse(u)
<1>1. DATA \in Nat /\ REQUEST \in Nat /\ RESPONSE \in Nat
  BY DEF DATA, REQUEST, RESPONSE
<1>2. DATA # REQUEST /\ DATA # RESPONSE /\ REQUEST # RESPONSE
  BY DEF DATA, REQUEST, RESPONSE
<1>3. ReadFrame(<<DATA>> \o u) = ReadData(u)
  <2> DEFINE s == <<DATA>> \o u
  <2>1. s # <<>> /\ Head(s) = DATA /\ Tail(s) = u
    BY <1>1, OneElement
  <2> HIDE DEF s
  <2>2. ReadFrame(s) = ReadData(u)
    BY <2>1, <1>2 DEF ReadFrame
  <2> QED BY <2>2 DEF s
<1>4. ReadFrame(<<REQUEST>> \o u) = ReadRequest(u)
  <2> DEFINE s == <<REQUEST>> \o u
  <2>1. s # <<>> /\ Head(s) = REQUEST /\ Tail(s) = u
    BY <1>1, OneElement
  <2> HIDE DEF s
  <2>2. ReadFrame(s) = ReadRequest(u)
    BY <2>1, <1>2 DEF ReadFrame
  <2> QED BY <2>2 DEF s
<1>5. ReadFrame(<<RESPONSE>> \o u) = ReadResponse(u)
  <2> DEFINE s == <<RESPONSE>> \o u
  <2>1. s # <<>> /\ Head(s) = RESPONSE /\ Tail(s) = u
    BY <1>1, OneElement
  <2> HIDE DEF s
  <2>2. ReadFrame(s) = ReadResponse(u)
    BY <2>1, <1>2 DEF ReadFrame
  <2> QED BY <2>2 DEF s
<1> QED BY <1>3, <1>4, <1>5

(* What readFrame starts from, of the frames of each type.                 *)
LEMMA EncodedData ==
    ASSUME NEW f \in DataFrame, NEW u \in Text
    PROVE  ReadFrame(Encode(f) \o u) = ReadData(Long(f.payload) \o u)
<1>1. f.payload \in Text /\ f.type = DATA
  BY DEF DataFrame
<1>2. Long(f.payload) \in Text
  BY <1>1, FieldIsText, FramingAssumption DEF Long
<1>3. Long(f.payload) \o u \in Text
  BY <1>2, TakeOff
<1>4. <<DATA>> \in Text
  BY DEF Text, DATA
<1>5. Encode(f) = <<DATA>> \o Long(f.payload)
  BY <1>1 DEF Encode, EncodeDataFrame, DATA, REQUEST, RESPONSE
<1>6. Encode(f) \o u = <<DATA>> \o (Long(f.payload) \o u)
  <2>1. (<<DATA>> \o Long(f.payload)) \o u = <<DATA>> \o (Long(f.payload) \o u)
    BY <1>2, <1>4, Assoc, SMTT(60)
  <2> QED BY <1>5, <2>1, Zenon
<1>7. ReadFrame(<<DATA>> \o (Long(f.payload) \o u)) = ReadData(Long(f.payload) \o u)
  BY <1>3, ReadsByType
<1> QED BY <1>6, <1>7

(* The same of a request.                                                  *)
LEMMA EncodedRequest ==
    ASSUME NEW f \in RequestFrame, NEW u \in Text
    PROVE  /\ Long(f.payload) \o u \in Text
           /\ ReadFrame(Encode(f) \o u) = ReadRequest(Short(f.id) \o (Long(f.payload) \o u))
<1> DEFINE x == <<REQUEST>>
           i == Short(f.id)
           p == Long(f.payload)
<1>1. f.id \in Text /\ f.payload \in Text /\ f.type = REQUEST
  BY DEF RequestFrame
<1>2. i \in Text /\ p \in Text
  BY <1>1, FieldIsText, FramingAssumption DEF Short, Long
<1>3. x \in Text
  BY DEF Text, REQUEST
<1>4. Encode(f) = (x \o i) \o p
  BY <1>1 DEF Encode, EncodeRequestFrame, REQUEST, DATA, RESPONSE
<1> HIDE DEF x, i, p
<1>5. p \o u \in Text /\ i \o (p \o u) \in Text /\ x \o i \in Text
  BY <1>2, <1>3, TakeOff
<1>6. Encode(f) \o u = (x \o i) \o (p \o u)
  <2>1. PICK y \in Text : y = x \o i
    BY <1>5
  <2>2. (y \o p) \o u = y \o (p \o u)
    BY <1>2, Assoc, SMTT(60)
  <2> QED BY <1>4, <2>1, <2>2, Zenon
<1>7. Encode(f) \o u = x \o (i \o (p \o u))
  <2>1. PICK y \in Text : y = p \o u
    BY <1>5
  <2>2. (x \o i) \o y = x \o (i \o y)
    BY <1>2, <1>3, Assoc, SMTT(60)
  <2> QED BY <1>6, <2>1, <2>2, Zenon
<1>8. ReadFrame(x \o (i \o (p \o u))) = ReadRequest(i \o (p \o u))
  BY <1>5, ReadsByType DEF x
<1> QED BY <1>5, <1>7, <1>8 DEF i, p

(* The same of a response.                                                 *)
LEMMA EncodedResponse ==
    ASSUME NEW f \in ResponseFrame, NEW u \in Text
    PROVE  /\ Long(f.payload) \o u \in Text
           /\ Short(f.error) \o (Long(f.payload) \o u) \in Text
           /\ ReadFrame(Encode(f) \o u)
                  = ReadResponse(Short(f.id) \o (Short(f.error) \o (Long(f.payload) \o u)))
<1> DEFINE x == <<RESPONSE>>
           i == Short(f.id)
           e == Short(f.error)
           p == Long(f.payload)
<1>1. f.id \in Text /\ f.error \in Text /\ f.payload \in Text /\ f.type = RESPONSE
  BY DEF ResponseFrame
<1>2. i \in Text /\ e \in Text /\ p \in Text
  BY <1>1, FieldIsText, FramingAssumption DEF Short, Long
<1>3. x \in Text
  BY DEF Text, RESPONSE
<1>4. Encode(f) = ((x \o i) \o e) \o p
  BY <1>1 DEF Encode, EncodeResponseFrame, REQUEST, DATA, RESPONSE
<1> HIDE DEF x, i, e, p
<1>5. p \o u \in Text /\ x \o i \in Text
  BY <1>2, <1>3, TakeOff
<1>6. e \o (p \o u) \in Text /\ (x \o i) \o e \in Text
  BY <1>2, <1>5, TakeOff
<1>7. i \o (e \o (p \o u)) \in Text
  BY <1>2, <1>6, TakeOff
<1>8. Encode(f) \o u = ((x \o i) \o e) \o (p \o u)
  <2>1. PICK y \in Text : y = (x \o i) \o e
    BY <1>6
  <2>2. (y \o p) \o u = y \o (p \o u)
    BY <1>2, Assoc, SMTT(60)
  <2> QED BY <1>4, <2>1, <2>2, Zenon
<1>9. Encode(f) \o u = (x \o i) \o (e \o (p \o u))
  <2>1. PICK y \in Text : y = x \o i
    BY <1>5
  <2>2. PICK z \in Text : z = p \o u
    BY <1>5
  <2>3. (y \o e) \o z = y \o (e \o z)
    BY <1>2, Assoc, SMTT(60)
  <2> QED BY <1>8, <2>1, <2>2, <2>3, Zenon
<1>10. Encode(f) \o u = x \o (i \o (e \o (p \o u)))
  <2>1. PICK y \in Text : y = e \o (p \o u)
    BY <1>6
  <2>2. (x \o i) \o y = x \o (i \o y)
    BY <1>2, <1>3, Assoc, SMTT(60)
  <2> QED BY <1>9, <2>1, <2>2, Zenon
<1>11. ReadFrame(x \o (i \o (e \o (p \o u)))) = ReadResponse(i \o (e \o (p \o u)))
  BY <1>7, ReadsByType DEF x
<1> QED BY <1>5, <1>6, <1>10, <1>11 DEF i, e, p

-----------------------------------------------------------------------------
(* InStep, by the type of the frame.                                       *)
LEMMA DataInStep ==
    ASSUME NEW f \in DataFrame, NEW u \in Text
    PROVE  InStep(f, u)
<1> DEFINE in == Long(f.payload) \o u
<1>1. f.payload \in Text /\ f.type = DATA /\ f = [type |-> DATA, payload |-> f.payload]
  BY DEF DataFrame
<1>2. ReadFrame(Encode(f) \o u) = ReadData(in)
  BY EncodedData
<1>3. ASSUME Fits(f)
      PROVE  Handed(ReadData(in)) = <<f>> /\ ReadData(in).rest = u
  <2>1. Len(f.payload) < LongLimit
    BY <1>3 DEF Fits
  <2>2. ReadField(in) = [ok |-> TRUE, text |-> f.payload, rest |-> u]
    BY <1>1, <2>1, ReadFieldFits, FramingAssumption DEF Long
  <2> HIDE DEF in
  <2>3. ReadData(in) = [ok |-> TRUE, type |-> DATA, body |-> f.payload, rest |-> u]
    BY <2>2 DEF ReadData
  <2> QED BY <1>1, <2>3 DEF Handed, DATA, REQUEST, RESPONSE
<1>4. ASSUME ~Fits(f)
      PROVE  Handed(ReadData(in)) # <<f>>
  <2>1. ~(Len(f.payload) < LongLimit)
    BY <1>1, <1>4 DEF Fits, DATA, REQUEST, RESPONSE
  <2>2. ReadField(in).text # f.payload
    BY <1>1, <2>1, ReadFieldShorter, FramingAssumption DEF Long
  <2> HIDE DEF in
  <2>3. CASE ReadField(in).ok
    <3>1. Handed(ReadData(in)) = <<[type |-> DATA, payload |-> ReadField(in).text]>>
      BY <2>3 DEF ReadData, Handed, DATA, REQUEST, RESPONSE
    <3> QED BY <1>1, <2>2, <3>1
  <2>4. CASE ~ReadField(in).ok
    <3>1. Handed(ReadData(in)) = <<>>
      BY <2>4 DEF ReadData, Handed, Unread
    <3> QED BY <3>1
  <2> QED BY <2>3, <2>4
<1> QED BY <1>2, <1>3, <1>4 DEF InStep

(* A request, whose handler decodes it again.                              *)
LEMMA RequestInStep ==
    ASSUME NEW f \in RequestFrame, NEW u \in Text
    PROVE  InStep(f, u)
<1> DEFINE after == Long(f.payload) \o u
           in == Short(f.id) \o after
           i == ReadField(in)
           p == ReadField(i.rest)
<1>1. /\ f.id \in Text /\ f.payload \in Text /\ f.type = REQUEST
      /\ f = [type |-> REQUEST, id |-> f.id, payload |-> f.payload]
  BY DEF RequestFrame
<1>2. after \in Text /\ ReadFrame(Encode(f) \o u) = ReadRequest(in)
  BY EncodedRequest
<1>3. in \in Text
  BY <1>1, <1>2, FieldIsText, TakeOff, FramingAssumption DEF Short
<1>4. Fits(f) <=> Len(f.id) < ShortLimit /\ Len(f.payload) < LongLimit
  BY <1>1 DEF Fits, ShortFits, REQUEST, RESPONSE
<1>5. Len(f.id) < ShortLimit => i = [ok |-> TRUE, text |-> f.id, rest |-> after]
  BY <1>1, <1>2, ReadFieldFits, FramingAssumption DEF Short
<1>6. ~(Len(f.id) < ShortLimit) => i.text # f.id
  BY <1>1, <1>2, ReadFieldShorter, FramingAssumption DEF Short
<1>7. Len(f.payload) < LongLimit
         => ReadField(after) = [ok |-> TRUE, text |-> f.payload, rest |-> u]
  BY <1>1, ReadFieldFits, FramingAssumption DEF Long
<1>8. ~(Len(f.payload) < LongLimit) => ReadField(after).text # f.payload
  BY <1>1, ReadFieldShorter, FramingAssumption DEF Long
<1> HIDE DEF after, in
<1>9. /\ p.ok => /\ Handed(ReadRequest(in))
                       = <<[type |-> REQUEST, id |-> i.text, payload |-> p.text]>>
                 /\ ReadRequest(in).rest = p.rest
      /\ ~p.ok => Handed(ReadRequest(in)) = <<>>
  BY <1>3, HandedRequest
<1> HIDE DEF i
<1>10. ASSUME Fits(f)
       PROVE  Handed(ReadRequest(in)) = <<f>> /\ ReadRequest(in).rest = u
  <2>0. i.text = f.id /\ i.rest = after
    BY <1>4, <1>5, <1>10
  <2>1. i.text = f.id /\ p = [ok |-> TRUE, text |-> f.payload, rest |-> u]
    BY <1>4, <1>7, <1>10, <2>0
  <2> HIDE DEF p
  <2>2. p.ok /\ p.text = f.payload /\ p.rest = u
    BY <2>1
  <2> QED BY <1>1, <1>9, <2>1, <2>2
<1>11. ASSUME ~Fits(f)
       PROVE  Handed(ReadRequest(in)) # <<f>>
  <2>1. i.text # f.id \/ p.text # f.payload
    BY <1>4, <1>5, <1>6, <1>8, <1>11
  <2> HIDE DEF p
  <2>2. CASE p.ok
    BY <1>1, <1>9, <2>1, <2>2
  <2>3. CASE ~p.ok
    BY <1>9, <2>3
  <2> QED BY <2>2, <2>3
<1> QED BY <1>2, <1>10, <1>11 DEF InStep

(* A response, whose error text is the one with a short field.             *)
LEMMA ResponseInStep ==
    ASSUME NEW f \in ResponseFrame, NEW u \in Text
    PROVE  InStep(f, u)
<1> DEFINE last == Long(f.payload) \o u
           after == Short(f.error) \o last
           in == Short(f.id) \o after
           i == ReadField(in)
           e == ReadField(i.rest)
           p == ReadField(e.rest)
<1>1. /\ f.id \in Text /\ f.error \in Text /\ f.payload \in Text /\ f.type = RESPONSE
      /\ f = [type |-> RESPONSE, id |-> f.id, error |-> f.error, payload |-> f.payload]
  BY DEF ResponseFrame
<1>2. last \in Text /\ after \in Text /\ ReadFrame(Encode(f) \o u) = ReadResponse(in)
  BY EncodedResponse
<1>3. in \in Text
  BY <1>1, <1>2, FieldIsText, TakeOff, FramingAssumption DEF Short
<1>4. Fits(f) <=> /\ Len(f.id) < ShortLimit /\ Len(f.error) < ShortLimit
                  /\ Len(f.payload) < LongLimit
  BY <1>1 DEF Fits, ShortFits, REQUEST, RESPONSE
<1>5. Len(f.id) < ShortLimit => i = [ok |-> TRUE, text |-> f.id, rest |-> after]
  BY <1>1, <1>2, ReadFieldFits, FramingAssumption DEF Short
<1>6. ~(Len(f.id) < ShortLimit) => i.text # f.id
  BY <1>1, <1>2, ReadFieldShorter, FramingAssumption DEF Short
<1>7. Len(f.error) < ShortLimit
         => ReadField(after) = [ok |-> TRUE, text |-> f.error, rest |-> last]
  BY <1>1, <1>2, ReadFieldFits, FramingAssumption DEF Short
<1>8. ~(Len(f.error) < ShortLimit) => ReadField(after).text # f.error
  BY <1>1, <1>2, ReadFieldShorter, FramingAssumption DEF Short
<1>9. Len(f.payload) < LongLimit
         => ReadField(last) = [ok |-> TRUE, text |-> f.payload, rest |-> u]
  BY <1>1, ReadFieldFits, FramingAssumption DEF Long
<1>10. ~(Len(f.payload) < LongLimit) => ReadField(last).text # f.payload
  BY <1>1, ReadFieldShorter, FramingAssumption DEF Long
<1> HIDE DEF last, after, in
<1>11. /\ p.ok => /\ Handed(ReadResponse(in))
                        = <<[type |-> RESPONSE, id |-> i.text, error |-> e.text,
                             payload |-> p.text]>>
                  /\ ReadResponse(in).rest = p.rest
       /\ ~p.ok => Handed(ReadResponse(in)) = <<>>
  BY <1>3, HandedResponse
<1> HIDE DEF i
<1>12. ASSUME Fits(f)
       PROVE  Handed(ReadResponse(in)) = <<f>> /\ ReadResponse(in).rest = u
  <2>0. i.text = f.id /\ i.rest = after
    BY <1>4, <1>5, <1>12
  <2>1. i.text = f.id /\ e = [ok |-> TRUE, text |-> f.error, rest |-> last]
    BY <1>4, <1>7, <1>12, <2>0
  <2> HIDE DEF e
  <2>2. e.text = f.error /\ p = [ok |-> TRUE, text |-> f.payload, rest |-> u]
    BY <1>4, <1>9, <1>12, <2>1
  <2> HIDE DEF p
  <2>3. p.ok /\ p.text = f.payload /\ p.rest = u
    BY <2>2
  <2> QED BY <1>1, <1>11, <2>1, <2>2, <2>3
<1>13. ASSUME ~Fits(f)
       PROVE  Handed(ReadResponse(in)) # <<f>>
  <2>1. i.text # f.id \/ e.text # f.error \/ p.text # f.payload
    BY <1>4, <1>5, <1>6, <1>7, <1>8, <1>10, <1>13
  <2> HIDE DEF e, p
  <2>2. CASE p.ok
    BY <1>1, <1>11, <2>1, <2>2
  <2>3. CASE ~p.ok
    BY <1>11, <2>3
  <2> QED BY <2>2, <2>3
<1> QED BY <1>2, <1>12, <1>13 DEF InStep

(* A frame is read back as it was written, and leaves the stream where the *)
(* next one begins, exactly when its texts fit their length fields.        *)
THEOREM FrameInStep ==
    \A f \in AnyFrame : \A following \in Text : InStep(f, following)
BY DataInStep, RequestInStep, ResponseInStep DEF AnyFrame

(* A stream whose names fit is registered under the names it was opened    *)
(* with, and its read loop starts at the first frame after them.           *)
THEOREM AcceptedAsOpened ==
    ASSUME NEW init \in InitFrame, NEW in \in Text,
           ShortFits(init.node), ShortFits(init.app), ShortFits(init.name)
    PROVE  Accepted(EncodeStreamInit(init) \o in)
               = <<[init |-> init, handed |-> StreamReadLoop(in)]>>
<1> DEFINE n == Short(init.node)
           a == Short(init.app)
           m == Short(init.name)
           w3 == m \o in
           w2 == a \o w3
           w1 == n \o w2
           s == EncodeStreamInit(init) \o in
<1>1. /\ init.node \in Text /\ init.app \in Text /\ init.name \in Text
      /\ init = [node |-> init.node, app |-> init.app, name |-> init.name]
  BY DEF InitFrame
<1>2. n \in Text /\ a \in Text /\ m \in Text
  BY <1>1, FieldIsText, FramingAssumption DEF Short
<1>3. <<STREAM_INIT>> \in Text /\ STREAM_INIT \in Nat
  BY DEF Text, STREAM_INIT
<1>4. EncodeStreamInit(init) = ((<<STREAM_INIT>> \o n) \o a) \o m
  BY DEF EncodeStreamInit
<1>5. ReadField(w3) = [ok |-> TRUE, text |-> init.name, rest |-> in]
  BY <1>1, ReadFieldFits, FramingAssumption DEF Short, ShortFits
<1>6. w3 \in Text /\ <<STREAM_INIT>> \o n \in Text
  BY <1>2, <1>3, TakeOff
<1>7. ReadField(w2) = [ok |-> TRUE, text |-> init.app, rest |-> w3]
  BY <1>1, <1>6, ReadFieldFits, FramingAssumption DEF Short, ShortFits
<1>8. w2 \in Text /\ (<<STREAM_INIT>> \o n) \o a \in Text
  BY <1>2, <1>6, TakeOff
<1>9. ReadField(w1) = [ok |-> TRUE, text |-> init.node, rest |-> w2]
  BY <1>1, <1>8, ReadFieldFits, FramingAssumption DEF Short, ShortFits
<1>10. w1 \in Text
  BY <1>2, <1>8, TakeOff
<1> HIDE DEF n, a, m
<1>11. s = ((<<STREAM_INIT>> \o n) \o a) \o w3
  <2> DEFINE x == (<<STREAM_INIT>> \o n) \o a
  <2>1. x \in Text /\ EncodeStreamInit(init) = x \o m
    BY <1>4, <1>8
  <2> HIDE DEF x
  <2>2. (x \o m) \o in = x \o (m \o in)
    BY <1>2, <2>1, Assoc, SMTT(60)
  <2>3. s = x \o w3
    BY <2>1, <2>2
  <2> QED BY <2>3 DEF x
<1>12. s = (<<STREAM_INIT>> \o n) \o w2
  <2> DEFINE x == <<STREAM_INIT>> \o n
  <2>1. x \in Text /\ s = (x \o a) \o w3
    BY <1>6, <1>11
  <2> HIDE DEF x, s, w3
  <2>2. (x \o a) \o w3 = x \o (a \o w3)
    BY <1>2, <1>6, <2>1, Assoc, SMTT(60)
  <2>3. s = x \o w2
    BY <2>1, <2>2
  <2> QED BY <2>3 DEF x
<1>13. s = <<STREAM_INIT>> \o w1
  <2> DEFINE x == <<STREAM_INIT>>
  <2>1. x \in Text /\ s = (x \o n) \o w2
    BY <1>3, <1>12
  <2> HIDE DEF x, s, w2
  <2>2. (x \o n) \o w2 = x \o (n \o w2)
    BY <1>2, <1>8, <2>1, Assoc, SMTT(60)
  <2>3. s = x \o w1
    BY <2>1, <2>2
  <2> QED BY <2>3 DEF x
<1> HIDE DEF s, w1, w2, w3
<1>14. s # <<>> /\ Head(s) = STREAM_INIT /\ Tail(s) = w1
  BY <1>3, <1>10, <1>13, OneElement
<1>15. Accepted(s) = <<[init   |-> [node |-> init.node, app |-> init.app, name |-> init.name],
                        handed |-> StreamReadLoop(in)]>>
  <2> DEFINE rn == ReadField(Tail(s))
             ra == ReadField(rn.rest)
             rm == ReadField(ra.rest)
  <2>1. rn.text = init.node /\ rn.rest = w2
    <3>1. rn = [ok |-> TRUE, text |-> init.node, rest |-> w2]
      BY <1>9, <1>14, Zenon
    <3> HIDE DEF rn
    <3> QED BY <3>1
  <2>2. ra.text = init.app /\ ra.rest = w3
    BY <1>7, <2>1
  <2>3. rm.ok = TRUE /\ rm.text = init.name /\ rm.rest = in
    BY <1>5, <2>2
  <2>4. Accepted(s) = IF s = <<>> \/ Head(s) # STREAM_INIT \/ ~rm.ok THEN <<>>
                      ELSE <<[init   |-> [node |-> rn.text, app |-> ra.text, name |-> rm.text],
                              handed |-> StreamReadLoop(rm.rest)]>>
    BY Zenon DEF Accepted
  <2> HIDE DEF rn, ra, rm
  <2>5. ~(s = <<>> \/ Head(s) # STREAM_INIT \/ ~rm.ok)
    BY <1>14, <2>3
  <2> QED BY <2>1, <2>2, <2>3, <2>4, <2>5
<1> QED BY <1>1, <1>15 DEF s

-----------------------------------------------------------------------------
(* The streams that the frames travel on.                                  *)

(* A call that is changed in its step stays a call.                        *)
LEMMA CallChange ==
    ASSUME TypeOK, NEW c \in Calls, NEW d \in Call, call' = [call EXCEPT ![c] = d]
    PROVE  /\ call' \in [Calls -> Call]
           /\ call'[c] = d
           /\ \A e \in Calls \ {c} : call'[e] = call[e]
BY DEF TypeOK

(* ... and one that only goes on keeps its nodes and its stream.           *)
LEMMA GotoCall ==
    ASSUME TypeOK, NEW c \in Calls, NEW pc \in Pc, Goto(c, pc)
    PROVE  /\ call' \in [Calls -> Call]
           /\ call'[c].pc = pc
           /\ \A e \in Calls : /\ call'[e].at = call[e].at /\ call'[e].to = call[e].to
                               /\ call'[e].stream = call[e].stream
                               /\ e # c => call'[e].pc = call[e].pc
<1> DEFINE d == [call[c] EXCEPT !.pc = pc]
<1>1. call[c] \in Call
  BY DEF TypeOK
<1>2. /\ d \in Call /\ d.pc = pc
      /\ d.at = call[c].at /\ d.to = call[c].to /\ d.stream = call[c].stream
  BY <1>1 DEF Call
<1>3. call' = [call EXCEPT ![c] = d]
  BY DEF Goto
<1> HIDE DEF d
<1>4. /\ call' \in [Calls -> Call]
      /\ call'[c] = d
      /\ \A e \in Calls \ {c} : call'[e] = call[e]
  BY <1>2, <1>3, CallChange
<1> QED BY <1>2, <1>4

(* ... as does one that takes a stream.                                    *)
LEMMA StreamTaken ==
    ASSUME TypeOK, NEW c \in Calls, NEW pc \in Pc, NEW s \in Calls \cup {Nil},
           call' = [call EXCEPT ![c].pc = pc, ![c].stream = s]
    PROVE  /\ call' \in [Calls -> Call]
           /\ call'[c].pc = pc /\ call'[c].stream = s
           /\ \A e \in Calls : /\ call'[e].at = call[e].at /\ call'[e].to = call[e].to
                               /\ e # c => call'[e] = call[e]
<1> DEFINE d == [[call[c] EXCEPT !.pc = pc] EXCEPT !.stream = s]
<1>1. call[c] \in Call
  BY DEF TypeOK
<1>2. /\ d \in Call /\ d.pc = pc /\ d.stream = s
      /\ d.at = call[c].at /\ d.to = call[c].to
  BY <1>1 DEF Call
<1>3. call' = [call EXCEPT ![c] = d]
  BY DEF TypeOK
<1> HIDE DEF d
<1>4. /\ call' \in [Calls -> Call]
      /\ call'[c] = d
      /\ \A e \in Calls \ {c} : call'[e] = call[e]
  BY <1>2, <1>3, CallChange
<1> QED BY <1>2, <1>4

(* Reading takes the first frame off a queue, and whatever is added to     *)
(* another is a frame.                                                     *)
LEMMA DequeueType ==
    ASSUME TypeOK, NEW s \in Calls, NEW n \in Nodes, queue[s][n] # <<>>
    PROVE  /\ Dequeue(s, n) \in [Calls -> [Nodes -> Seq(Frame)]]
           /\ Head(queue[s][n]) \in Frame
<1>1. queue \in [Calls -> [Nodes -> Seq(Frame)]] /\ queue[s][n] \in Seq(Frame)
  BY DEF TypeOK
<1>2. Tail(queue[s][n]) \in Seq(Frame) /\ Head(queue[s][n]) \in Frame
  BY <1>1, HeadTailProperties
<1>3. [queue[s] EXCEPT ![n] = Tail(queue[s][n])] \in [Nodes -> Seq(Frame)]
  BY <1>1, <1>2
<1>4. Dequeue(s, n) = [queue EXCEPT ![s] = [queue[s] EXCEPT ![n] = Tail(queue[s][n])]]
  BY DEF Dequeue
<1> QED BY <1>1, <1>2, <1>3, <1>4

(* A frame added to a queue leaves queues of frames.                       *)
LEMMA EnqueueType ==
    ASSUME NEW q \in [Calls -> [Nodes -> Seq(Frame)]], NEW s \in Calls, NEW n, NEW frame \in Frame
    PROVE  [q EXCEPT ![s][n] = Append(@, frame)] \in [Calls -> [Nodes -> Seq(Frame)]]
<1>1. CASE n \in Nodes
  <2>1. Append(q[s][n], frame) \in Seq(Frame)
    BY <1>1, AppendProperties
  <2>2. [q[s] EXCEPT ![n] = Append(q[s][n], frame)] \in [Nodes -> Seq(Frame)]
    BY <2>1
  <2> QED BY <2>2
<1>2. CASE n \notin Nodes
  <2>1. [q[s] EXCEPT ![n] = Append(q[s][n], frame)] = q[s]
    BY <1>2
  <2> QED BY <2>1
<1> QED BY <1>1, <1>2

(* The two conjuncts of TypeOK that relate the parts of a call.            *)
CallsOK ==
    \A c \in Calls : /\ call[c].pc # "idle" => {call[c].at, call[c].to} \subseteq Nodes
                     /\ call[c].pc \in Sending => call[c].stream \in Calls

(* What the types say of each call alone.                                  *)
LEMMA CallsOKFromType == TypeOK => CallsOK
BY DEF TypeOK, CallsOK

(* A step that leaves the calls alone, or moves one on that has its nodes. *)
LEMMA CallGoesOn ==
    ASSUME TypeOK, NEW c \in Calls, NEW pc \in Pc, Goto(c, pc), call[c].pc # "idle",
           pc \in Sending => call[c].pc \in Sending
    PROVE  call' \in [Calls -> Call] /\ CallsOK'
<1>1. CallsOK
  BY CallsOKFromType
<1>2. /\ call' \in [Calls -> Call] /\ call'[c].pc = pc
      /\ \A e \in Calls : /\ call'[e].at = call[e].at /\ call'[e].to = call[e].to
                          /\ call'[e].stream = call[e].stream
                          /\ e # c => call'[e].pc = call[e].pc
  BY GotoCall
<1> QED BY <1>1, <1>2 DEF CallsOK

(* The rest of TypeOK.                                                     *)
RestOK ==
    /\ up \subseteq Dials
    /\ conns \in [Nodes -> SUBSET Nodes]
    /\ connsLock \in [Nodes -> {"free", "leaked", "shut"}]
    /\ streams \in [Nodes -> [Nodes -> Calls \cup {Nil}]]
    /\ streamsLock \in [Nodes -> {"free", "held"}]
    /\ loop \in [Calls -> [Nodes -> {"none", "accepted", "reading", "exiting", "done"}]]
    /\ closed \in [Calls -> SUBSET Nodes]
    /\ queue \in [Calls -> [Nodes -> Seq(Frame)]]
    /\ handled \subseteq Calls
    /\ leaving \in [Nodes -> [pc : {"no", "streams", "conns", "done"}, peer : Nodes \cup {Nil}]]

(* The types are those of the calls and those of the rest.                 *)
LEMMA TypeSplit == TypeOK <=> call \in [Calls -> Call] /\ CallsOK /\ RestOK
BY DEF TypeOK, CallsOK, RestOK

(* The steps of a call of Request and of its goroutines.                   *)
LEMMA CallStepType ==
    ASSUME TypeOK, NEW c \in Calls, CallStep(c)
    PROVE  TypeOK'
<1>1. call \in [Calls -> Call] /\ CallsOK /\ RestOK
  BY TypeSplit
<1>2. call[c] \in Call
  BY <1>1
<1>3. CASE Lookup(c)
  <2> DEFINE s == streams[call[c].at][call[c].to]
  <2>1. call[c].pc = "lookup" /\ {call[c].at, call[c].to} \subseteq Nodes
    BY <1>1, <1>3 DEF Lookup, CallsOK
  <2>2. RestOK'
    BY <1>1, <1>3 DEF Lookup, RestOK, locks, ends
  <2>3. CASE s # Nil /\ call' = [call EXCEPT ![c].pc = "write", ![c].stream = s]
    <3>1. s \in Calls
      BY <1>1, <2>1, <2>3 DEF RestOK
    <3>2. /\ call' \in [Calls -> Call]
          /\ call'[c].pc = "write" /\ call'[c].stream = s
          /\ \A e \in Calls : /\ call'[e].at = call[e].at /\ call'[e].to = call[e].to
                              /\ e # c => call'[e] = call[e]
      BY <2>3, <3>1, StreamTaken DEF Pc
    <3>3. CallsOK'
      BY <1>1, <2>1, <3>1, <3>2 DEF CallsOK
    <3> QED BY <2>2, <3>2, <3>3 DEF TypeOK, CallsOK, RestOK
  <2>4. CASE Goto(c, "connLookup")
    <3>1. call' \in [Calls -> Call] /\ CallsOK'
      BY <2>1, <2>4, CallGoesOn DEF Pc, Sending
    <3> QED BY <2>2, <3>1 DEF TypeOK, CallsOK, RestOK
  <2> QED BY <1>3, <2>3, <2>4 DEF Lookup
<1>4. CASE ConnLookup(c)
  <2>1. call[c].pc = "connLookup" /\ (Goto(c, "open") \/ Goto(c, "fail"))
    BY <1>4 DEF ConnLookup
  <2>2. call' \in [Calls -> Call] /\ CallsOK'
    BY <2>1, CallGoesOn DEF Pc, Sending
  <2>3. RestOK'
    BY <1>1, <1>4 DEF ConnLookup, RestOK, ends
  <2> QED BY <2>2, <2>3 DEF TypeOK, CallsOK, RestOK
<1>5. CASE OpenStream(c)
  <2>1. call[c].pc = "open" /\ {call[c].at, call[c].to} \subseteq Nodes
    BY <1>1, <1>5 DEF OpenStream, CallsOK
  <2>2. RestOK'
    BY <1>1, <1>5 DEF OpenStream, RestOK, locks, ends
  <2>3. CASE call' = [call EXCEPT ![c].pc = "enter", ![c].stream = c]
    <3>1. /\ call' \in [Calls -> Call]
          /\ call'[c].pc = "enter" /\ call'[c].stream = c
          /\ \A e \in Calls : /\ call'[e].at = call[e].at /\ call'[e].to = call[e].to
                              /\ e # c => call'[e] = call[e]
      BY <2>3, StreamTaken DEF Pc
    <3>2. CallsOK'
      BY <1>1, <2>1, <3>1 DEF CallsOK
    <3> QED BY <2>2, <3>1, <3>2 DEF TypeOK, CallsOK, RestOK
  <2>4. CASE Goto(c, "fail")
    <3>1. call' \in [Calls -> Call] /\ CallsOK'
      BY <2>1, <2>4, CallGoesOn DEF Pc, Sending
    <3> QED BY <2>2, <3>1 DEF TypeOK, CallsOK, RestOK
  <2> QED BY <1>5, <2>3, <2>4 DEF OpenStream
<1>6. CASE Enter(c)
  <2>1. call[c].pc = "enter" /\ Goto(c, "write")
    BY <1>6 DEF Enter
  <2>2. call' \in [Calls -> Call] /\ CallsOK'
    BY <2>1, CallGoesOn DEF Pc, Sending
  <2>3. call[c].at \in Nodes /\ call[c].to \in Nodes
    BY <1>1, <2>1 DEF CallsOK
  <2>4. RestOK'
    BY <1>1, <1>6, <2>3 DEF Enter, RestOK, locks, ends
  <2> QED BY <2>2, <2>4 DEF TypeOK, CallsOK, RestOK
<1>7. CASE Write(c)
  <2>1. call[c].pc = "write" /\ (Goto(c, "wait") \/ Goto(c, "fail"))
    BY <1>7 DEF Write
  <2>2. call' \in [Calls -> Call] /\ CallsOK'
    BY <2>1, CallGoesOn DEF Pc, Sending
  <2>3. [type |-> "request", call |-> c] \in Frame
    BY DEF Frame
  <2>4. call[c].stream \in Calls \cup {Nil}
    BY <1>2 DEF Call
  <2>5. queue' \in [Calls -> [Nodes -> Seq(Frame)]]
    <3>1. CASE UNCHANGED queue
      BY <1>1, <3>1 DEF RestOK
    <3>2. CASE \E n : queue' = [queue EXCEPT ![call[c].stream][n] = Append(@, [type |-> "request", call |-> c])]
      <4>1. PICK n : queue' = [queue EXCEPT ![call[c].stream][n] = Append(@, [type |-> "request", call |-> c])]
        BY <3>2
      <4>2. CASE call[c].stream \in Calls
        BY <1>1, <2>3, <4>1, <4>2, EnqueueType DEF RestOK
      <4>3. CASE call[c].stream \notin Calls
        BY <1>1, <4>1, <4>3 DEF RestOK
      <4> QED BY <4>2, <4>3
    <3> QED BY <1>7, <3>1, <3>2 DEF Write
  <2>6. RestOK'
    BY <1>1, <1>7, <2>5 DEF Write, RestOK, locks
  <2> QED BY <2>2, <2>6 DEF TypeOK, CallsOK, RestOK
<1>8. CASE Return(c)
  <2>1. call[c].pc # "idle" /\ (Goto(c, "ok") \/ Goto(c, "late"))
    BY <1>8 DEF Return
  <2>2. call' \in [Calls -> Call] /\ CallsOK'
    BY <2>1, CallGoesOn DEF Pc, Sending
  <2>3. RestOK'
    BY <1>1, <1>8 DEF Return, RestOK, locks, ends
  <2> QED BY <2>2, <2>3 DEF TypeOK, CallsOK, RestOK
<1> QED BY <1>3, <1>4, <1>5, <1>6, <1>7, <1>8 DEF CallStep

(* The steps of a read loop.                                               *)
LEMMA LoopStepType ==
    ASSUME TypeOK, NEW s \in Calls, NEW n \in Nodes, LoopStep(s, n)
    PROVE  TypeOK'
<1>1. call \in [Calls -> Call] /\ CallsOK /\ RestOK
  BY TypeSplit
<1>2. CASE HandleRequest(s, n)
  <2> DEFINE frame == Head(queue[s][n])
             reply == [type |-> "response", call |-> frame.call]
  <2>1. frame \in Frame /\ Dequeue(s, n) \in [Calls -> [Nodes -> Seq(Frame)]]
    BY <1>2, DequeueType DEF HandleRequest, CanRead
  <2>2. reply \in Frame /\ frame.call \in Calls
    BY <2>1 DEF Frame
  <2>3. \/ queue' = [Dequeue(s, n) EXCEPT ![s][Other(s, n)] = Append(@, reply)]
        \/ queue' = Dequeue(s, n)
    BY <1>2 DEF HandleRequest
  <2> DEFINE q == Dequeue(s, n)
  <2>a. q \in [Calls -> [Nodes -> Seq(Frame)]] /\ reply \in Frame
    BY <2>1, <2>2
  <2> HIDE DEF reply, q
  <2>b. [q EXCEPT ![s][Other(s, n)] = Append(@, reply)] \in [Calls -> [Nodes -> Seq(Frame)]]
    BY <2>a, EnqueueType
  <2>4. queue' \in [Calls -> [Nodes -> Seq(Frame)]]
    BY <2>1, <2>3, <2>b DEF q
  <2>5. RestOK'
    BY <1>1, <1>2, <2>2, <2>4 DEF HandleRequest, RestOK, locks
  <2>6. call' = call
    BY <1>2 DEF HandleRequest
  <2> QED BY <1>1, <2>5, <2>6 DEF TypeOK, CallsOK, RestOK
<1>3. CASE HandleResponse(s, n)
  <2> DEFINE frame == Head(queue[s][n])
  <2>1. frame \in Frame /\ Dequeue(s, n) \in [Calls -> [Nodes -> Seq(Frame)]]
    BY <1>3, DequeueType DEF HandleResponse, CanRead
  <2>2. frame.call \in Calls
    BY <2>1 DEF Frame
  <2>3. RestOK'
    BY <1>1, <1>3, <2>1 DEF HandleResponse, RestOK, locks
  <2>4. CASE call[frame.call].pc = "wait"
    <3>1. Goto(frame.call, "answered")
      BY <1>3, <2>4 DEF HandleResponse, Goto
    <3>2. call' \in [Calls -> Call] /\ CallsOK'
      BY <2>2, <2>4, <3>1, CallGoesOn DEF Pc, Sending
    <3> QED BY <2>3, <3>2 DEF TypeOK, CallsOK, RestOK
  <2>5. CASE call[frame.call].pc # "wait"
    <3>1. call' = call
      BY <1>3, <2>5 DEF HandleResponse
    <3> QED BY <1>1, <2>3, <3>1 DEF TypeOK, CallsOK, RestOK
  <2> QED BY <2>4, <2>5
<1>4. CASE ReadEnds(s, n) \/ LoopDone(s, n)
  <2>1. call' = call
    BY <1>4 DEF ReadEnds, LoopDone, ends
  <2>2. RestOK'
    <3>1. CASE ReadEnds(s, n)
      BY <1>1, <3>1 DEF ReadEnds, RestOK, locks
    <3>2. CASE LoopDone(s, n)
      BY <1>1, <3>2 DEF LoopDone, RestOK, ends
    <3> QED BY <1>4, <3>1, <3>2
  <2> QED BY <1>1, <2>1, <2>2 DEF TypeOK, CallsOK, RestOK
<1> QED BY <1>2, <1>3, <1>4 DEF LoopStep

(* Accepting and closing streams, leaving, and losing connections.         *)
LEMMA OtherStepType ==
    ASSUME TypeOK,
           \/ \E s \in Calls : AcceptStep(s)
           \/ \E n \in Nodes : CloseStep(n) \/ \E m \in Nodes : NotifyLeave(n, m)
           \/ \E d \in Dials : ConnLost(d)
           \/ UNCHANGED vars
    PROVE  TypeOK'
<1>1. call \in [Calls -> Call] /\ CallsOK /\ RestOK
  BY TypeSplit
<1>2. call' = call
  BY DEF AcceptStep, AcceptStream, HandleStream, CloseStep, CloseStreams, CloseConn,
         WriterWaits, HandlerEnds, NotifyLeave, ConnLost, vars, ends, locks
<1>3. ASSUME NEW s \in Calls, AcceptStep(s) PROVE RestOK'
  <2>1. CASE AcceptStream(s)
    BY <1>1, <2>1 DEF AcceptStream, RestOK, locks, ends
  <2>2. CASE HandleStream(s)
    BY <1>1, <2>2 DEF HandleStream, RestOK, locks, ends
  <2> QED BY <1>3, <2>1, <2>2 DEF AcceptStep
<1>4. ASSUME NEW n \in Nodes, CloseStep(n) PROVE RestOK'
  <2>1. leaving[n] \in [pc : {"no", "streams", "conns", "done"}, peer : Nodes \cup {Nil}]
    BY <1>1 DEF RestOK
  <2>2. CASE CloseStreams(n)
    <3>1. leaving' \in [Nodes -> [pc : {"no", "streams", "conns", "done"}, peer : Nodes \cup {Nil}]]
      BY <1>1, <2>1, <2>2 DEF CloseStreams, RestOK
    <3>2. streams' \in [Nodes -> [Nodes -> Calls \cup {Nil}]]
      BY <1>1, <2>2 DEF CloseStreams, RestOK
    <3>3. closed' \in [Calls -> SUBSET Nodes]
      BY <1>1, <2>2 DEF CloseStreams, RestOK
    <3> QED BY <1>1, <2>2, <3>1, <3>2, <3>3 DEF CloseStreams, RestOK, locks
  <2>3. CASE CloseConn(n)
    <3>1. leaving' \in [Nodes -> [pc : {"no", "streams", "conns", "done"}, peer : Nodes \cup {Nil}]]
      BY <1>1, <2>1, <2>3 DEF CloseConn, RestOK
    <3> QED BY <1>1, <2>3, <3>1 DEF CloseConn, RestOK, locks, ends
  <2>4. CASE WriterWaits(n) \/ \E m \in Nodes : HandlerEnds(n, m)
    <3>1. CASE WriterWaits(n)
      BY <1>1, <3>1 DEF WriterWaits, RestOK, ends
    <3>2. ASSUME NEW m \in Nodes, HandlerEnds(n, m) PROVE RestOK'
      BY <1>1, <3>2 DEF HandlerEnds, RestOK, locks, ends
    <3> QED BY <2>4, <3>1, <3>2
  <2> QED BY <1>4, <2>2, <2>3, <2>4 DEF CloseStep
<1>5. ASSUME NEW n \in Nodes, NEW m \in Nodes, NotifyLeave(n, m) PROVE RestOK'
  BY <1>1, <1>5 DEF NotifyLeave, RestOK, locks, ends
<1>6. ASSUME NEW d \in Dials, ConnLost(d) PROVE RestOK'
  BY <1>1, <1>6 DEF ConnLost, RestOK, locks, ends
<1>7. ASSUME UNCHANGED vars PROVE RestOK'
  <2>1. /\ UNCHANGED <<up, conns, streams, loop, leaving>>
        /\ UNCHANGED <<connsLock, streamsLock>> /\ UNCHANGED <<closed, queue, handled>>
    BY <1>7 DEF vars, locks, ends
  <2> QED BY <1>1, <2>1 DEF RestOK
<1>8. RestOK'
  <2>1. CASE \E s \in Calls : AcceptStep(s)
    BY <1>3, <2>1
  <2>2. CASE \E n \in Nodes : CloseStep(n) \/ \E m \in Nodes : NotifyLeave(n, m)
    BY <1>4, <1>5, <2>2
  <2>3. CASE \E d \in Dials : ConnLost(d)
    BY <1>6, <2>3
  <2> QED BY <1>7, <2>1, <2>2, <2>3
<1> QED BY <1>1, <1>2, <1>8 DEF TypeOK, CallsOK, RestOK

(* Every variable keeps its type; a call under way has its two nodes, and  *)
(* one that sends has a stream.                                            *)
THEOREM StreamsTypeCorrect == Spec => []TypeOK
<1>1. Init => TypeOK
  <2>1. Init => call \in [Calls -> Call] /\ CallsOK
    BY DEF Init, Call, Pc, CallsOK, Sending
  <2>2. Init => RestOK
    BY DEF Init, RestOK
  <2> QED BY <2>1, <2>2 DEF TypeOK, CallsOK, RestOK
<1>2. ASSUME TypeOK, NEW c \in Calls, NEW n \in Nodes, NEW m \in Nodes, Request(c, n, m) PROVE TypeOK'
  <2> DEFINE d == [pc |-> "lookup", at |-> n, to |-> m, stream |-> Nil]
  <2>1. d \in Call /\ call' = [call EXCEPT ![c] = d]
    BY <1>2 DEF Request, Call, Pc
  <2>2. d.pc = "lookup" /\ d.at = n /\ d.to = m
    OBVIOUS
  <2> HIDE DEF d
  <2>3. /\ call' \in [Calls -> Call] /\ call'[c] = d
        /\ \A e \in Calls \ {c} : call'[e] = call[e]
    BY <1>2, <2>1, CallChange
  <2>4. CallsOK'
    BY <1>2, <2>2, <2>3, CallsOKFromType DEF CallsOK, Sending
  <2>5. RestOK'
    BY <1>2, TypeSplit DEF Request, RestOK, locks, ends
  <2> QED BY <2>3, <2>4, <2>5 DEF TypeOK, CallsOK, RestOK
<1>3. TypeOK /\ [Next]_vars => TypeOK'
  BY <1>2, CallStepType, LoopStepType, OtherStepType DEF Next
<1> QED BY <1>1, <1>3, PTL DEF Spec

-----------------------------------------------------------------------------
(* The inductive invariant behind EntryIsRead and Addressed: a call that   *)
(* was not made has no node; a call enters the stream it has opened and    *)
(* writes on one between its own two nodes; a frame is on such a stream.   *)
NotMade == \A c \in Calls : call[c].pc = "idle" => call[c].at = Nil

OwnStream ==
    \A c \in Calls : /\ call[c].pc = "enter" => call[c].stream = c
                     /\ call[c].pc = "write" => Ends(call[c].stream) = {call[c].at, call[c].to}

Belongs(frame, s, n) ==
    /\ Ends(s) = {call[frame.call].at, call[frame.call].to} /\ Ends(s) \subseteq Nodes
    /\ IF frame.type = "request" THEN call[frame.call].to = n
       ELSE call[frame.call].at = n /\ frame.call \in handled

Carried == \A s \in Calls, n \in Nodes : \A i \in DOMAIN queue[s][n] : Belongs(queue[s][n][i], s, n)

AnsweredHandled == \A c \in Calls : call[c].pc \in {"answered", "ok"} => c \in handled

StreamsInv == NotMade /\ OwnStream /\ Carried /\ AnsweredHandled /\ EntryIsRead

(* A call that was made keeps its nodes, and a handled one stays handled.  *)
Kept ==
    /\ \A c \in Calls : call[c].at # Nil => call'[c].at = call[c].at /\ call'[c].to = call[c].to
    /\ handled \subseteq handled'

(* A stream keeps its two ends once its call has been made.                *)
LEMMA KeepsEnds ==
    ASSUME NEW s \in Calls, Kept, Nil \notin Ends(s)
    PROVE  /\ Ends(s)' = Ends(s)
           /\ \A n : Other(s, n)' = Other(s, n)
BY DEF Kept, Ends, Opener, Target, Other

(* A frame that belongs where it waits goes on belonging there.            *)
LEMMA KeepsBelonging ==
    ASSUME NEW s \in Calls, NEW n \in Nodes, NEW frame \in Frame, Kept, Belongs(frame, s, n)
    PROVE  Belongs(frame, s, n)'
<1>1. frame.call \in Calls
  BY DEF Frame
<1>2. Nil \notin Nodes
  BY StreamsAssumption
<1>3. /\ Ends(s) = {call[frame.call].at, call[frame.call].to} /\ Ends(s) \subseteq Nodes
  BY DEF Belongs
<1>4. call[frame.call].at # Nil /\ Nil \notin Ends(s)
  BY <1>2, <1>3
<1>5. /\ call'[frame.call].at = call[frame.call].at /\ call'[frame.call].to = call[frame.call].to
  BY <1>1, <1>4 DEF Kept
<1>6. Ends(s)' = Ends(s) /\ handled \subseteq handled'
  BY <1>4, KeepsEnds DEF Kept
<1> QED BY <1>3, <1>5, <1>6 DEF Belongs

(* The frames of a queue whose first has been taken off, or to which one   *)
(* was added.                                                              *)
LEMMA InTail ==
    ASSUME NEW S, NEW q \in Seq(S), q # <<>>
    PROVE  \A i \in DOMAIN Tail(q) : \E j \in DOMAIN q : Tail(q)[i] = q[j]
BY HeadTailProperties

(* What is in a sequence with one element more.                            *)
LEMMA InAppend ==
    ASSUME NEW S, NEW q \in Seq(S), NEW x \in S
    PROVE  \A i \in DOMAIN Append(q, x) : Append(q, x)[i] = x \/ \E j \in DOMAIN q : Append(q, x)[i] = q[j]
BY AppendProperties

(* What can be said of a step of the queues that keeps them right: every   *)
(* frame was there before, or belongs where it was put.                    *)
OnlyBelonging ==
    \A s \in Calls, n \in Nodes : \A i \in DOMAIN queue'[s][n] :
        \/ \E j \in DOMAIN queue[s][n] : queue'[s][n][i] = queue[s][n][j]
        \/ Belongs(queue[s][n][i], s, n)'

(* Frames belong where they wait after a step that only adds such.         *)
LEMMA CarriedStep ==
    ASSUME TypeOK, Carried, Kept, OnlyBelonging
    PROVE  Carried'
<1> SUFFICES ASSUME NEW s \in Calls, NEW n \in Nodes, NEW i \in DOMAIN queue'[s][n]
             PROVE  Belongs(queue[s][n][i], s, n)'
  BY DEF Carried
<1>1. CASE \E j \in DOMAIN queue[s][n] : queue'[s][n][i] = queue[s][n][j]
  <2>1. PICK j \in DOMAIN queue[s][n] : queue'[s][n][i] = queue[s][n][j]
    BY <1>1
  <2>2. queue[s][n] \in Seq(Frame)
    BY DEF TypeOK
  <2>3. queue[s][n][j] \in Frame
    BY <2>1, <2>2, ElementOfSeq, LenProperties
  <2>4. PICK frame \in Frame : frame = queue[s][n][j]
    BY <2>3
  <2>5. Belongs(frame, s, n)
    BY <2>1, <2>4 DEF Carried
  <2>6. Belongs(frame, s, n)'
    BY <2>5, KeepsBelonging
  <2> QED BY <2>1, <2>4, <2>6 DEF Belongs
<1> QED BY <1>1 DEF OnlyBelonging

(* What a step that adds nothing to a queue but what belongs there, and    *)
(* forgets neither a call's nodes nor what was handled, leaves as it was.  *)
LEMMA QueuesStay ==
    ASSUME queue' = queue
    PROVE  OnlyBelonging
BY DEF OnlyBelonging

(* Steps that leave the calls alone.                                       *)
LEMMA CallsStay ==
    ASSUME call' = call, handled \subseteq handled'
    PROVE  Kept
BY DEF Kept

(* A call that writes keeps a stream between its own two nodes.            *)
LEMMA WriterKeeps ==
    ASSUME TypeOK, OwnStream, Kept, NEW e \in Calls, call[e].pc = "write",
           call'[e].stream = call[e].stream
    PROVE  (Ends(call[e].stream) = {call[e].at, call[e].to})'
<1>1. call[e].stream \in Calls /\ {call[e].at, call[e].to} \subseteq Nodes
  BY DEF TypeOK, Sending
<1>2. PICK s \in Calls : s = call[e].stream
  BY <1>1
<1>3. Ends(s) = {call[e].at, call[e].to} /\ Nil \notin Nodes
  BY <1>2, StreamsAssumption DEF OwnStream
<1>4. Nil \notin Ends(s)
  BY <1>1, <1>3
<1>5. Ends(s)' = Ends(s)
  BY <1>4, KeepsEnds
<1>6. call'[e].at = call[e].at /\ call'[e].to = call[e].to
  BY <1>1, <1>3 DEF Kept
<1> QED BY <1>2, <1>3, <1>5, <1>6 DEF Ends, Opener, Target

(* A call that goes on to no writing.                                      *)
LEMMA OwnStreamStep ==
    ASSUME TypeOK, OwnStream, Kept, NEW c \in Calls,
           \A e \in Calls \ {c} : call'[e] = call[e],
           call'[c].pc = "enter" => call'[c].stream = c,
           call'[c].pc = "write" => (Ends(call[c].stream) = {call[c].at, call[c].to})'
    PROVE  OwnStream'
<1> SUFFICES ASSUME NEW e \in Calls
             PROVE  /\ call'[e].pc = "enter" => call'[e].stream = e
                    /\ call'[e].pc = "write" => (Ends(call[e].stream) = {call[e].at, call[e].to})'
  BY DEF OwnStream
<1>1. CASE e = c
  BY <1>1
<1>2. CASE e # c
  <2>1. call'[e] = call[e]
    BY <1>2
  <2>2. CASE call[e].pc = "write"
    BY <2>1, <2>2, WriterKeeps
  <2> QED BY <2>1, <2>2 DEF OwnStream
<1> QED BY <1>1, <1>2

(* Steps that bring no call to entering or writing a stream.               *)
LEMMA OwnStreamStays ==
    ASSUME TypeOK, OwnStream, Kept, \A e \in Calls : call'[e].pc \in {"enter", "write"} => call'[e] = call[e]
    PROVE  OwnStream'
<1> SUFFICES ASSUME NEW e \in Calls
             PROVE  /\ call'[e].pc = "enter" => call'[e].stream = e
                    /\ call'[e].pc = "write" => (Ends(call[e].stream) = {call[e].at, call[e].to})'
  BY DEF OwnStream
<1>1. CASE call'[e].pc = "write"
  <2>1. call'[e] = call[e]
    BY <1>1
  <2> QED BY <1>1, <2>1, WriterKeeps
<1> QED BY <1>1 DEF OwnStream

(* An entry of a stream map that a step leaves, with its loop.             *)
EntryRead(n, m) ==
    streams[n][m] # Nil => /\ Ends(streams[n][m]) = {n, m}
                           /\ loop[streams[n][m]][n] \in {"reading", "exiting"}

(* An entry of the stream map that a step leaves alone.                    *)
LEMMA EntryStays ==
    ASSUME TypeOK, EntryIsRead, Kept, NEW n \in Nodes, NEW m \in Nodes,
           streams'[n][m] = streams[n][m],
           loop[streams[n][m]][n] \in {"reading", "exiting"}
               => loop'[streams[n][m]][n] \in {"reading", "exiting"}
    PROVE  EntryRead(n, m)'
<1> SUFFICES ASSUME streams[n][m] # Nil
             PROVE  (/\ Ends(streams[n][m]) = {n, m}
                     /\ loop[streams[n][m]][n] \in {"reading", "exiting"})'
  BY DEF EntryRead
<1>1. streams[n][m] \in Calls
  BY DEF TypeOK
<1>2. PICK s \in Calls : s = streams[n][m]
  BY <1>1
<1>3. Ends(s) = {n, m} /\ loop[s][n] \in {"reading", "exiting"} /\ Nil \notin Nodes
  BY <1>2, StreamsAssumption DEF EntryIsRead
<1>4. Ends(s)' = Ends(s)
  BY <1>3, KeepsEnds
<1> QED BY <1>2, <1>3, <1>4 DEF Ends, Opener, Target

(* Steps that leave the stream maps alone and end no read loop.            *)
LEMMA EntriesStay ==
    ASSUME TypeOK, EntryIsRead, Kept, streams' = streams,
           \A s \in Calls, n \in Nodes : loop[s][n] \in {"reading", "exiting"}
                                            => loop'[s][n] \in {"reading", "exiting"}
    PROVE  EntryIsRead'
<1>1. ASSUME NEW n \in Nodes, NEW m \in Nodes PROVE EntryRead(n, m)'
  <2>1. CASE streams[n][m] = Nil
    BY <2>1 DEF EntryRead
  <2>2. CASE streams[n][m] # Nil
    <3>1. streams[n][m] \in Calls
      BY <2>2 DEF TypeOK
    <3>2. loop[streams[n][m]][n] \in {"reading", "exiting"}
               => loop'[streams[n][m]][n] \in {"reading", "exiting"}
      BY <3>1
    <3> QED BY <3>2, EntryStays
  <2> QED BY <2>1, <2>2
<1> QED BY <1>1 DEF EntryIsRead, EntryRead

(* A node has one other node to send to on a stream between two.           *)
LEMMA OtherEnd ==
    ASSUME NEW s, NEW n, NEW m, Ends(s) = {n, m}
    PROVE  Other(s, n) = m /\ Other(s, m) = n
BY DEF Ends, Other

(* A call of Request, step by step.                                        *)
LEMMA LookupKeeps ==
    ASSUME TypeOK, StreamsInv, NEW c \in Calls, Lookup(c)
    PROVE  StreamsInv'
<1> DEFINE s == streams[call[c].at][call[c].to]
<1>1. call[c].pc = "lookup" /\ {call[c].at, call[c].to} \subseteq Nodes
  BY DEF Lookup, TypeOK
<1>2. queue' = queue /\ handled' = handled /\ streams' = streams /\ loop' = loop
  BY DEF Lookup, ends
<1>3. /\ call' \in [Calls -> Call]
      /\ call'[c].pc = "write" \/ call'[c].pc = "connLookup"
      /\ call'[c].pc = "write" => s # Nil /\ call'[c].stream = s
      /\ \A e \in Calls : /\ call'[e].at = call[e].at /\ call'[e].to = call[e].to
                          /\ e # c => call'[e] = call[e]
  <2>1. CASE s # Nil /\ call' = [call EXCEPT ![c].pc = "write", ![c].stream = s]
    <3>1. s \in Calls \cup {Nil}
      BY <1>1 DEF TypeOK
    <3> HIDE DEF s
    <3>2. /\ call' \in [Calls -> Call]
          /\ call'[c].pc = "write" /\ call'[c].stream = s
          /\ \A e \in Calls : /\ call'[e].at = call[e].at /\ call'[e].to = call[e].to
                              /\ e # c => call'[e] = call[e]
      BY <2>1, <3>1, StreamTaken DEF Pc
    <3> QED BY <2>1, <3>2
  <2>2. CASE Goto(c, "connLookup")
    <3>1. /\ call' \in [Calls -> Call] /\ call'[c].pc = "connLookup"
          /\ \A e \in Calls : call'[e].at = call[e].at /\ call'[e].to = call[e].to
      BY <2>2, GotoCall DEF Pc
    <3>2. \A e \in Calls : e # c => call'[e] = call[e]
      BY <2>2 DEF Goto, TypeOK
    <3> QED BY <3>1, <3>2
  <2> QED BY <2>1, <2>2 DEF Lookup
<1>4. Kept
  BY <1>2, <1>3 DEF Kept
<1>5. OwnStream'
  <2>1. call'[c].pc = "write" => (Ends(call[c].stream) = {call[c].at, call[c].to})'
    <3>1. SUFFICES ASSUME call'[c].pc = "write"
                   PROVE  (Ends(call[c].stream) = {call[c].at, call[c].to})'
      OBVIOUS
    <3>2. s # Nil /\ call'[c].stream = s
      BY <1>3, <3>1
    <3>3. s \in Calls
      BY <1>1, <3>2 DEF TypeOK
    <3>4. Ends(s) = {call[c].at, call[c].to}
      BY <1>1, <3>2 DEF StreamsInv, EntryIsRead
    <3>5. PICK t \in Calls : t = s
      BY <3>3
    <3>6. Ends(t) = {call[c].at, call[c].to} /\ Nil \notin Ends(t)
      BY <1>1, <3>4, <3>5, StreamsAssumption
    <3>7. Ends(t)' = Ends(t)
      BY <1>4, <3>6, KeepsEnds
    <3> QED BY <1>3, <3>2, <3>5, <3>6, <3>7 DEF Ends, Opener, Target
  <2> QED BY <1>3, <1>4, <2>1, OwnStreamStep DEF StreamsInv
<1>6. NotMade'
  BY <1>3 DEF StreamsInv, NotMade
<1>7. AnsweredHandled'
  BY <1>2, <1>3 DEF StreamsInv, AnsweredHandled
<1>8. EntryIsRead'
  BY <1>2, <1>4, EntriesStay DEF StreamsInv
<1>9. Carried'
  BY <1>2, <1>4, QueuesStay, CarriedStep DEF StreamsInv
<1> QED BY <1>5, <1>6, <1>7, <1>8, <1>9 DEF StreamsInv

(* The steps that go on to no stream and put no frame on one.              *)
LEMMA GoesOnKeeps ==
    ASSUME TypeOK, StreamsInv, NEW c \in Calls,
           NEW pc \in {"connLookup", "open", "wait", "ok", "fail", "late"},
           Goto(c, pc), queue' = queue, handled' = handled, streams' = streams, loop' = loop,
           pc = "ok" => call[c].pc = "answered"
    PROVE  StreamsInv'
<1>1. pc \in Pc /\ pc \notin {"idle", "enter", "write", "answered"}
  BY DEF Pc
<1>2. /\ call' \in [Calls -> Call] /\ call'[c].pc = pc
      /\ \A e \in Calls : call'[e].at = call[e].at /\ call'[e].to = call[e].to
  BY <1>1, GotoCall
<1>3. \A e \in Calls : e # c => call'[e] = call[e]
  BY DEF Goto, TypeOK
<1>4. Kept
  BY <1>2 DEF Kept
<1>5. OwnStream'
  BY <1>1, <1>2, <1>3, <1>4, OwnStreamStep DEF StreamsInv
<1>6. NotMade'
  BY <1>1, <1>2, <1>3 DEF StreamsInv, NotMade
<1>7. AnsweredHandled'
  BY <1>1, <1>2, <1>3 DEF StreamsInv, AnsweredHandled
<1>8. EntryIsRead'
  BY <1>4, EntriesStay DEF StreamsInv
<1>9. Carried'
  BY <1>4, QueuesStay, CarriedStep DEF StreamsInv
<1> QED BY <1>5, <1>6, <1>7, <1>8, <1>9 DEF StreamsInv

(* Opening a stream: the call enters the one it has opened.                *)
LEMMA OpenStreamKeeps ==
    ASSUME TypeOK, StreamsInv, NEW c \in Calls, OpenStream(c)
    PROVE  StreamsInv'
<1>1. call[c].pc = "open"
  BY DEF OpenStream
<1>2. queue' = queue /\ handled' = handled /\ streams' = streams /\ loop' = loop
  BY DEF OpenStream, ends
<1>3. CASE call' = [call EXCEPT ![c].pc = "enter", ![c].stream = c]
  <2>1. /\ call'[c].pc = "enter" /\ call'[c].stream = c
        /\ \A e \in Calls : /\ call'[e].at = call[e].at /\ call'[e].to = call[e].to
                            /\ e # c => call'[e] = call[e]
    BY <1>3, StreamTaken DEF Pc
  <2>2. Kept
    BY <1>2, <2>1 DEF Kept
  <2>3. OwnStream'
    BY <2>1, <2>2, OwnStreamStep DEF StreamsInv
  <2>4. NotMade' /\ AnsweredHandled'
    BY <1>2, <2>1 DEF StreamsInv, NotMade, AnsweredHandled
  <2>5. EntryIsRead'
    BY <1>2, <2>2, EntriesStay DEF StreamsInv
  <2>6. Carried'
    BY <1>2, <2>2, QueuesStay, CarriedStep DEF StreamsInv
  <2> QED BY <2>3, <2>4, <2>5, <2>6 DEF StreamsInv
<1>4. CASE Goto(c, "fail")
  BY <1>2, <1>4, GoesOnKeeps
<1> QED BY <1>3, <1>4 DEF OpenStream

(* The stream that is entered in the map is the call's own.                *)
LEMMA EnterKeeps ==
    ASSUME TypeOK, StreamsInv, NEW c \in Calls, Enter(c)
    PROVE  StreamsInv'
<1>1. call[c].pc = "enter" /\ call[c].stream = c /\ {call[c].at, call[c].to} \subseteq Nodes
  BY DEF Enter, StreamsInv, OwnStream, TypeOK
<1>2. queue' = queue /\ handled' = handled /\ Goto(c, "write")
  BY DEF Enter, ends
<1>3. /\ call'[c].pc = "write"
      /\ \A e \in Calls : /\ call'[e].at = call[e].at /\ call'[e].to = call[e].to
                          /\ call'[e].stream = call[e].stream
  BY <1>2, GotoCall DEF Pc
<1>4. \A e \in Calls : e # c => call'[e] = call[e]
  BY <1>2 DEF Goto, TypeOK
<1>5. Kept
  BY <1>2, <1>3 DEF Kept
<1>6. OwnStream'
  <2>1. (Ends(call[c].stream) = {call[c].at, call[c].to})'
    BY <1>1, <1>3 DEF Ends, Opener, Target
  <2> QED BY <1>3, <1>4, <1>5, <2>1, OwnStreamStep DEF StreamsInv
<1>7. NotMade' /\ AnsweredHandled'
  BY <1>2, <1>3, <1>4 DEF StreamsInv, NotMade, AnsweredHandled
<1>8. Carried'
  BY <1>2, <1>5, QueuesStay, CarriedStep DEF StreamsInv
<1>9. EntryIsRead'
  <2>1. ASSUME NEW n \in Nodes, NEW m \in Nodes PROVE EntryRead(n, m)'
    <3>1. streams \in [Nodes -> [Nodes -> Calls \cup {Nil}]]
          /\ loop \in [Calls -> [Nodes -> {"none", "accepted", "reading", "exiting", "done"}]]
      BY DEF TypeOK
    <3>2. /\ streams' = [streams EXCEPT ![call[c].at][call[c].to] = c]
          /\ loop' = [loop EXCEPT ![c][call[c].at] = "reading"]
      BY DEF Enter
    <3>3. CASE n = call[c].at /\ m = call[c].to
      <4>1. streams'[n][m] = c /\ loop'[c][n] = "reading"
        BY <3>1, <3>2, <3>3
      <4>2. Ends(c)' = {n, m}
        BY <1>3, <3>3 DEF Ends, Opener, Target
      <4> QED BY <4>1, <4>2 DEF EntryRead, Ends, Opener, Target
    <3>4. CASE ~(n = call[c].at /\ m = call[c].to)
      <4>1. streams'[n][m] = streams[n][m]
        BY <3>1, <3>2, <3>4
      <4>2. \A s \in Calls : loop[s][n] \in {"reading", "exiting"} => loop'[s][n] \in {"reading", "exiting"}
        BY <3>1, <3>2
      <4>3. CASE streams[n][m] = Nil
        BY <4>1, <4>3 DEF EntryRead
      <4>4. CASE streams[n][m] \in Calls
        BY <1>5, <4>1, <4>2, <4>4, EntryStays DEF StreamsInv
      <4> QED BY <3>1, <4>3, <4>4
    <3> QED BY <3>3, <3>4
  <2> QED BY <2>1 DEF EntryIsRead, EntryRead
<1> QED BY <1>6, <1>7, <1>8, <1>9 DEF StreamsInv

(* What reading leaves, and what writing adds, on the streams.             *)
OnlyOld(q) ==
    \A s \in Calls, n \in Nodes : \A i \in DOMAIN q[s][n] :
        \E j \in DOMAIN queue[s][n] : q[s][n][i] = queue[s][n][j]

(* Taking a frame from a queue adds none.                                  *)
LEMMA DequeueOld ==
    ASSUME TypeOK, NEW s \in Calls, NEW n \in Nodes, queue[s][n] # <<>>
    PROVE  OnlyOld(Dequeue(s, n))
<1> SUFFICES ASSUME NEW t \in Calls, NEW m \in Nodes, NEW i \in DOMAIN Dequeue(s, n)[t][m]
             PROVE  \E j \in DOMAIN queue[t][m] : Dequeue(s, n)[t][m][i] = queue[t][m][j]
  BY DEF OnlyOld
<1>1. queue \in [Calls -> [Nodes -> Seq(Frame)]] /\ queue[s][n] \in Seq(Frame)
  BY DEF TypeOK
<1>2. CASE t = s /\ m = n
  <2>1. Dequeue(s, n)[t][m] = Tail(queue[s][n])
    BY <1>1, <1>2 DEF Dequeue
  <2> QED BY <1>1, <1>2, <2>1, InTail
<1>3. CASE ~(t = s /\ m = n)
  <2>1. Dequeue(s, n)[t][m] = queue[t][m]
    BY <1>1, <1>3 DEF Dequeue
  <2> QED BY <2>1
<1> QED BY <1>2, <1>3

(* A frame that belongs at the end of a queue may be put there.            *)
LEMMA AddedBelongs ==
    ASSUME NEW q \in [Calls -> [Nodes -> Seq(Frame)]], OnlyOld(q),
           NEW s \in Calls, NEW n \in Nodes, NEW frame \in Frame, Belongs(frame, s, n)',
           queue' = [q EXCEPT ![s][n] = Append(@, frame)]
    PROVE  OnlyBelonging
<1> SUFFICES ASSUME NEW t \in Calls, NEW m \in Nodes, NEW i \in DOMAIN queue'[t][m]
             PROVE  \/ \E j \in DOMAIN queue[t][m] : queue'[t][m][i] = queue[t][m][j]
                    \/ Belongs(queue[t][m][i], t, m)'
  BY DEF OnlyBelonging
<1>1. CASE t = s /\ m = n
  <2>1. queue'[t][m] = Append(q[s][n], frame) /\ q[s][n] \in Seq(Frame)
    BY <1>1
  <2>2. queue'[t][m][i] = frame \/ \E j \in DOMAIN q[s][n] : queue'[t][m][i] = q[s][n][j]
    BY <2>1, InAppend
  <2>3. CASE queue'[t][m][i] = frame
    BY <1>1, <2>3 DEF Belongs, Ends, Opener, Target
  <2>4. CASE \E j \in DOMAIN q[s][n] : queue'[t][m][i] = q[s][n][j]
    BY <1>1, <2>4 DEF OnlyOld
  <2> QED BY <2>2, <2>3, <2>4
<1>2. CASE ~(t = s /\ m = n)
  <2>1. queue'[t][m] = q[t][m]
    BY <1>2
  <2>2. i \in DOMAIN q[t][m]
    BY <2>1
  <2>3. \E j \in DOMAIN queue[t][m] : q[t][m][i] = queue[t][m][j]
    BY <2>2 DEF OnlyOld
  <2> QED BY <2>1, <2>3
<1> QED BY <1>1, <1>2

(* Writing the request: it goes to the target, over the call's stream.     *)
LEMMA WriteKeeps ==
    ASSUME TypeOK, StreamsInv, NEW c \in Calls, Write(c)
    PROVE  StreamsInv'
<1> DEFINE n == call[c].at
           s == call[c].stream
           frame == [type |-> "request", call |-> c]
<1>1. call[c].pc = "write" /\ {n, call[c].to} \subseteq Nodes /\ s \in Calls
  BY DEF Write, TypeOK, Sending
<1>2. handled' = handled /\ streams' = streams /\ loop' = loop
  BY DEF Write
<1>3. CASE queue' = queue /\ Goto(c, "fail")
  BY <1>2, <1>3, GoesOnKeeps
<1>4. CASE queue' = [queue EXCEPT ![s][Other(s, n)] = Append(@, frame)] /\ Goto(c, "wait")
  <2>1. /\ call'[c].pc = "wait"
        /\ \A e \in Calls : call'[e].at = call[e].at /\ call'[e].to = call[e].to
    BY <1>4, GotoCall DEF Pc
  <2>2. \A e \in Calls : e # c => call'[e] = call[e]
    BY <1>4 DEF Goto, TypeOK
  <2>3. Kept
    BY <1>2, <2>1 DEF Kept
  <2>4. OwnStream'
    BY <2>1, <2>2, <2>3, OwnStreamStep DEF StreamsInv
  <2>5. NotMade' /\ AnsweredHandled'
    BY <1>2, <2>1, <2>2 DEF StreamsInv, NotMade, AnsweredHandled
  <2>6. EntryIsRead'
    BY <1>2, <2>3, EntriesStay DEF StreamsInv
  <2>7. Ends(s) = {n, call[c].to}
    BY <1>1 DEF StreamsInv, OwnStream
  <2>8. Other(s, n) = call[c].to
    BY <2>7, OtherEnd
  <2>9. frame \in Frame /\ frame.type = "request" /\ frame.call = c
    BY DEF Frame
  <2>10. PICK t \in Calls : t = s
    BY <1>1
  <2>11. Ends(t)' = {n, call[c].to}
    BY <2>1, <2>7, <2>10 DEF Ends, Opener, Target
  <2>12. PICK f \in Frame : f = frame
    BY <2>9
  <2>13. PICK m \in Nodes : m = call[c].to
    BY <1>1
  <2>14. Belongs(f, t, m)'
    <3>1. f.type = "request" /\ f.call = c
      BY <2>9, <2>12
    <3>2. call'[c].at = n /\ call'[c].to = m
      BY <2>1, <2>13
    <3> QED BY <1>1, <2>11, <2>13, <3>1, <3>2 DEF Belongs
  <2>15. queue \in [Calls -> [Nodes -> Seq(Frame)]] /\ OnlyOld(queue)
    BY DEF TypeOK, OnlyOld
  <2>16. queue' = [queue EXCEPT ![t][m] = Append(@, f)]
    BY <1>4, <2>8, <2>10, <2>12, <2>13
  <2>17. OnlyBelonging
    BY <2>14, <2>15, <2>16, AddedBelongs
  <2>18. Carried'
    BY <2>3, <2>17, CarriedStep DEF StreamsInv
  <2> QED BY <2>4, <2>5, <2>6, <2>18 DEF StreamsInv
<1> QED BY <1>3, <1>4 DEF Write

(* Every step of a call keeps the invariant.                               *)
LEMMA CallStepKeeps ==
    ASSUME TypeOK, StreamsInv, NEW c \in Calls, CallStep(c)
    PROVE  StreamsInv'
<1>1. CASE ConnLookup(c)
  <2>1. queue' = queue /\ handled' = handled /\ streams' = streams /\ loop' = loop
    BY <1>1 DEF ConnLookup, ends
  <2> QED BY <1>1, <2>1, GoesOnKeeps DEF ConnLookup
<1>2. CASE Return(c)
  <2>1. queue' = queue /\ handled' = handled /\ streams' = streams /\ loop' = loop
    BY <1>2 DEF Return, ends
  <2> QED BY <1>2, <2>1, GoesOnKeeps DEF Return
<1> QED BY <1>1, <1>2, LookupKeeps, OpenStreamKeeps, EnterKeeps, WriteKeeps DEF CallStep

(* The read loops.  The handler answers on the stream the request came on, *)
(* whose other end is the node that asks.                                  *)
LEMMA HandleRequestKeeps ==
    ASSUME TypeOK, StreamsInv, NEW s \in Calls, NEW n \in Nodes, HandleRequest(s, n)
    PROVE  StreamsInv'
<1>1. queue[s][n] # <<>> /\ queue \in [Calls -> [Nodes -> Seq(Frame)]]
  BY DEF HandleRequest, CanRead, TypeOK
<1>2. PICK frame \in Frame : frame = Head(queue[s][n])
  BY <1>1, DequeueType
<1>3. PICK reply \in Frame : reply = [type |-> "response", call |-> frame.call]
  BY <1>2 DEF Frame
<1>4. frame.type = "request" /\ frame.call \in Calls /\ reply.type = "response" /\ reply.call = frame.call
  BY <1>2, <1>3 DEF HandleRequest, Frame
<1>5. Belongs(frame, s, n)
  <2>1. queue[s][n] \in Seq(Frame)
    BY <1>1
  <2>2. 1 \in DOMAIN queue[s][n] /\ queue[s][n][1] = frame
    BY <1>1, <1>2, <2>1
  <2> QED BY <2>2 DEF StreamsInv, Carried
<1>6. /\ Ends(s) = {call[frame.call].at, call[frame.call].to} /\ Ends(s) \subseteq Nodes
      /\ call[frame.call].to = n
  BY <1>4, <1>5 DEF Belongs
<1>7. call' = call /\ handled' = handled \cup {frame.call} /\ streams' = streams /\ loop' = loop
  BY <1>2 DEF HandleRequest
<1>8. Kept
  BY <1>7, CallsStay
<1>9. OwnStream' /\ NotMade' /\ AnsweredHandled'
  <2>1. OwnStream'
    BY <1>7, <1>8, OwnStreamStays DEF StreamsInv
  <2> QED BY <1>7, <2>1 DEF StreamsInv, NotMade, AnsweredHandled
<1>10. EntryIsRead'
  BY <1>7, <1>8, EntriesStay DEF StreamsInv
<1>11. OnlyBelonging
  <2>1. PICK q \in [Calls -> [Nodes -> Seq(Frame)]] : q = Dequeue(s, n)
    BY <1>1, DequeueType
  <2>2. OnlyOld(q)
    BY <1>1, <2>1, DequeueOld
  <2>3. CASE queue' = q
    BY <2>2, <2>3 DEF OnlyBelonging, OnlyOld
  <2>4. CASE queue' = [q EXCEPT ![s][Other(s, n)] = Append(@, reply)]
    <3>1. Other(s, n) = call[frame.call].at
      BY <1>6, OtherEnd
    <3>2. PICK m \in Nodes : m = Other(s, n)
      BY <1>6, <3>1
    <3>3. Belongs(reply, s, m)'
      <4>1. Ends(s)' = Ends(s)
        BY <1>7 DEF Ends, Opener, Target
      <4> QED BY <1>4, <1>6, <1>7, <3>1, <3>2, <4>1 DEF Belongs
    <3>4. queue' = [q EXCEPT ![s][m] = Append(@, reply)]
      BY <2>4, <3>2
    <3> QED BY <2>2, <3>3, <3>4, AddedBelongs
  <2>5. queue' = q \/ queue' = [q EXCEPT ![s][Other(s, n)] = Append(@, reply)]
    BY <1>2, <1>3, <2>1 DEF HandleRequest
  <2> QED BY <2>3, <2>4, <2>5
<1>12. Carried'
  BY <1>8, <1>11, CarriedStep DEF StreamsInv
<1> QED BY <1>9, <1>10, <1>12 DEF StreamsInv

(* A call is only answered once it is handled.                             *)
LEMMA HandleResponseKeeps ==
    ASSUME TypeOK, StreamsInv, NEW s \in Calls, NEW n \in Nodes, HandleResponse(s, n)
    PROVE  StreamsInv'
<1>1. queue[s][n] # <<>> /\ queue \in [Calls -> [Nodes -> Seq(Frame)]]
  BY DEF HandleResponse, CanRead, TypeOK
<1>2. PICK frame \in Frame : frame = Head(queue[s][n])
  BY <1>1, DequeueType
<1>3. frame.type = "response" /\ frame.call \in Calls
  BY <1>2 DEF HandleResponse, Frame
<1>4. Belongs(frame, s, n)
  <2>1. queue[s][n] \in Seq(Frame)
    BY <1>1
  <2>2. 1 \in DOMAIN queue[s][n] /\ queue[s][n][1] = frame
    BY <1>1, <1>2, <2>1
  <2> QED BY <2>2 DEF StreamsInv, Carried
<1>5. frame.call \in handled
  BY <1>3, <1>4 DEF Belongs
<1>6. handled' = handled /\ streams' = streams /\ loop' = loop /\ queue' = Dequeue(s, n)
  BY DEF HandleResponse
<1>7. /\ \A e \in Calls : call'[e].at = call[e].at /\ call'[e].to = call[e].to
      /\ \A e \in Calls : \/ call'[e] = call[e]
                          \/ e = frame.call /\ call'[e].pc = "answered"
  <2>1. CASE call[frame.call].pc = "wait"
    <3>1. Goto(frame.call, "answered")
      BY <1>2, <2>1 DEF HandleResponse, Goto
    <3>2. /\ call'[frame.call].pc = "answered"
          /\ \A e \in Calls : call'[e].at = call[e].at /\ call'[e].to = call[e].to
      BY <1>3, <3>1, GotoCall DEF Pc
    <3>3. \A e \in Calls : e # frame.call => call'[e] = call[e]
      BY <3>1 DEF Goto, TypeOK
    <3> QED BY <3>2, <3>3
  <2>2. CASE call[frame.call].pc # "wait"
    <3>1. call' = call
      BY <1>2, <2>2 DEF HandleResponse
    <3> QED BY <3>1
  <2> QED BY <2>1, <2>2
<1>8. Kept
  BY <1>6, <1>7 DEF Kept
<1>9. OwnStream' /\ NotMade' /\ AnsweredHandled'
  <2>1. OwnStream'
    BY <1>7, <1>8, OwnStreamStays DEF StreamsInv
  <2>2. NotMade'
    BY <1>7 DEF StreamsInv, NotMade
  <2>3. AnsweredHandled'
    BY <1>5, <1>6, <1>7 DEF StreamsInv, AnsweredHandled
  <2> QED BY <2>1, <2>2, <2>3
<1>10. EntryIsRead'
  BY <1>6, <1>8, EntriesStay DEF StreamsInv
<1>11. OnlyBelonging
  BY <1>1, <1>6, DequeueOld DEF OnlyBelonging, OnlyOld
<1>12. Carried'
  BY <1>8, <1>11, CarriedStep DEF StreamsInv
<1> QED BY <1>9, <1>10, <1>12 DEF StreamsInv

(* The steps that leave the calls and the frames alone, and only entries   *)
(* whose loop goes on reading, or has to remove them, in the maps.         *)
LEMMA EntriesKeep ==
    ASSUME TypeOK, StreamsInv, call' = call, queue' = queue, handled' = handled,
           \A n, m \in Nodes : EntryRead(n, m)'
    PROVE  StreamsInv'
<1>1. Kept
  BY CallsStay
<1>2. OwnStream'
  BY <1>1, OwnStreamStays DEF StreamsInv
<1>3. NotMade' /\ AnsweredHandled'
  BY DEF StreamsInv, NotMade, AnsweredHandled
<1>4. Carried'
  BY <1>1, QueuesStay, CarriedStep DEF StreamsInv
<1>5. EntryIsRead'
  BY DEF EntryIsRead, EntryRead
<1> QED BY <1>2, <1>3, <1>4, <1>5 DEF StreamsInv

(* In such a step an entry that is not touched stays one that is read.     *)
LEMMA EntryKept ==
    ASSUME TypeOK, StreamsInv, call' = call, handled' = handled, NEW n \in Nodes, NEW m \in Nodes,
           streams'[n][m] \in {streams[n][m], Nil},
           streams[n][m] \in Calls /\ loop[streams[n][m]][n] \in {"reading", "exiting"}
               => streams'[n][m] = Nil \/ loop'[streams[n][m]][n] \in {"reading", "exiting"}
    PROVE  EntryRead(n, m)'
<1>1. CASE streams'[n][m] = Nil
  BY <1>1 DEF EntryRead
<1>2. CASE streams'[n][m] # Nil
  <2>1. streams'[n][m] = streams[n][m] /\ streams[n][m] \in Calls
    BY <1>2 DEF TypeOK
  <2>2. Kept
    BY CallsStay
  <2> QED BY <1>2, <2>1, <2>2, EntryStays DEF StreamsInv
<1> QED BY <1>1, <1>2

(* A loop that ends removes the entry of its own stream, if no other has   *)
(* taken its place: a stream has one key at a node.                        *)
LEMMA LoopEndKeeps ==
    ASSUME TypeOK, StreamsInv, NEW s \in Calls, NEW n \in Nodes, ReadEnds(s, n) \/ LoopDone(s, n)
    PROVE  StreamsInv'
<1>1. call' = call /\ queue' = queue /\ handled' = handled
  BY DEF ReadEnds, LoopDone, ends
<1>2. /\ loop \in [Calls -> [Nodes -> {"none", "accepted", "reading", "exiting", "done"}]]
      /\ streams \in [Nodes -> [Nodes -> Calls \cup {Nil}]]
  BY DEF TypeOK
<1>3. ASSUME NEW k \in Nodes, NEW m \in Nodes PROVE EntryRead(k, m)'
  <2>1. CASE ReadEnds(s, n)
    <3>1. streams' = streams /\ loop' = [loop EXCEPT ![s][n] = "exiting"]
      BY <2>1 DEF ReadEnds
    <3>2. streams[k][m] \in Calls /\ loop[streams[k][m]][k] \in {"reading", "exiting"}
             => loop'[streams[k][m]][k] \in {"reading", "exiting"}
      BY <1>2, <3>1
    <3> QED BY <1>1, <3>1, <3>2, EntryKept
  <2>2. CASE LoopDone(s, n)
    <3>1. /\ streams' = [streams EXCEPT ![n][Other(s, n)] = Nil]
          /\ loop' = [loop EXCEPT ![s][n] = "done"]
      BY <2>2 DEF LoopDone
    <3>2. streams'[k][m] \in {streams[k][m], Nil}
      BY <1>2, <3>1
    <3>3. CASE k = n /\ streams[k][m] = s
      <4>1. Ends(s) = {n, m}
        BY <3>3, StreamsAssumption DEF StreamsInv, EntryIsRead
      <4>2. Other(s, n) = m
        BY <4>1 DEF Ends, Other
      <4>3. streams'[k][m] = Nil
        BY <1>2, <3>1, <3>3, <4>2
      <4> QED BY <1>1, <3>2, <4>3, EntryKept
    <3>4. CASE ~(k = n /\ streams[k][m] = s)
      <4>1. streams[k][m] \in Calls => loop'[streams[k][m]][k] = loop[streams[k][m]][k]
        BY <1>2, <3>1, <3>4
      <4> QED BY <1>1, <3>2, <4>1, EntryKept
    <3> QED BY <3>3, <3>4
  <2> QED BY <2>1, <2>2
<1> QED BY <1>1, <1>3, EntriesKeep

(* Every step of a read loop keeps it.                                     *)
LEMMA LoopStepKeeps ==
    ASSUME TypeOK, StreamsInv, NEW s \in Calls, NEW n \in Nodes, LoopStep(s, n)
    PROVE  StreamsInv'
BY HandleRequestKeeps, HandleResponseKeeps, LoopEndKeeps DEF LoopStep

(* An accepted stream is entered with its loop, at the node it goes to.    *)
LEMMA AcceptStepKeeps ==
    ASSUME TypeOK, StreamsInv, NEW s \in Calls, AcceptStep(s)
    PROVE  StreamsInv'
<1>1. call' = call /\ queue' = queue /\ handled' = handled
  BY DEF AcceptStep, AcceptStream, HandleStream, ends
<1>2. /\ loop \in [Calls -> [Nodes -> {"none", "accepted", "reading", "exiting", "done"}]]
      /\ streams \in [Nodes -> [Nodes -> Calls \cup {Nil}]]
  BY DEF TypeOK
<1>3. ASSUME NEW k \in Nodes, NEW m \in Nodes PROVE EntryRead(k, m)'
  <2>1. CASE AcceptStream(s)
    <3>1. /\ streams' = streams /\ loop' = [loop EXCEPT ![s][Target(s)] = "accepted"]
          /\ loop[s][Target(s)] = "none"
      BY <2>1 DEF AcceptStream
    <3>2. streams[k][m] \in Calls /\ loop[streams[k][m]][k] \in {"reading", "exiting"}
             => loop'[streams[k][m]][k] \in {"reading", "exiting"}
      BY <1>2, <3>1
    <3> QED BY <1>1, <3>1, <3>2, EntryKept
  <2>2. CASE HandleStream(s)
    <3>1. /\ streams' = [streams EXCEPT ![Target(s)][Opener(s)] = s]
          /\ loop' = [loop EXCEPT ![s][Target(s)] = "reading"]
      BY <2>2 DEF HandleStream
    <3>2. CASE k = Target(s) /\ m = Opener(s)
      <4>1. streams'[k][m] = s /\ loop'[s][k] = "reading"
        BY <1>2, <3>1, <3>2
      <4>2. Ends(s)' = {k, m}
        BY <1>1, <3>2 DEF Ends, Opener, Target
      <4> QED BY <4>1, <4>2 DEF EntryRead, Ends, Opener, Target
    <3>3. CASE ~(k = Target(s) /\ m = Opener(s))
      <4>1. streams'[k][m] = streams[k][m]
        BY <1>2, <3>1, <3>3
      <4>2. streams[k][m] \in Calls /\ loop[streams[k][m]][k] \in {"reading", "exiting"}
               => loop'[streams[k][m]][k] \in {"reading", "exiting"}
        BY <1>2, <3>1
      <4> QED BY <1>1, <4>1, <4>2, EntryKept
    <3> QED BY <3>2, <3>3
  <2> QED BY <2>1, <2>2 DEF AcceptStep
<1> QED BY <1>1, <1>3, EntriesKeep

(* Closing the streams to a node forgets the entry; the other steps of a   *)
(* node, or of the network, touch none.                                    *)
LEMMA OtherStepKeeps ==
    ASSUME TypeOK, StreamsInv,
           \/ \E n \in Nodes : CloseStep(n) \/ \E m \in Nodes : NotifyLeave(n, m)
           \/ \E d \in Dials : ConnLost(d)
           \/ UNCHANGED vars
    PROVE  StreamsInv'
<1>1. call' = call /\ queue' = queue /\ handled' = handled /\ loop' = loop
  BY DEF CloseStep, CloseStreams, CloseConn, WriterWaits, HandlerEnds, NotifyLeave, ConnLost,
         vars, ends
<1>2. ASSUME NEW k \in Nodes, NEW m \in Nodes PROVE streams'[k][m] \in {streams[k][m], Nil}
  <2>1. streams \in [Nodes -> [Nodes -> Calls \cup {Nil}]]
    BY DEF TypeOK
  <2>2. streams' = streams \/ \E n \in Nodes : CloseStreams(n)
    BY DEF CloseStep, CloseConn, WriterWaits, HandlerEnds, NotifyLeave, ConnLost, vars
  <2>3. ASSUME NEW n \in Nodes, CloseStreams(n) PROVE streams'[k][m] \in {streams[k][m], Nil}
    BY <2>1, <2>3 DEF CloseStreams
  <2> QED BY <2>2, <2>3
<1>3. \A n, m \in Nodes : EntryRead(n, m)'
  BY <1>1, <1>2, EntryKept
<1> QED BY <1>1, <1>3, EntriesKeep

(* A call that is made had no node, and is on no stream yet.               *)
LEMMA RequestKeeps ==
    ASSUME TypeOK, StreamsInv, NEW c \in Calls, NEW n \in Nodes, NEW m \in Nodes, Request(c, n, m)
    PROVE  StreamsInv'
<1>1. queue' = queue /\ handled' = handled /\ streams' = streams /\ loop' = loop
  BY DEF Request, ends
<1>2. /\ \A e \in Calls : e # c => call'[e] = call[e]
      /\ call'[c].pc = "lookup" /\ call[c].pc = "idle"
  BY DEF Request, TypeOK
<1>3. Kept
  BY <1>1, <1>2 DEF Kept, StreamsInv, NotMade
<1>4. OwnStream'
  BY <1>2, <1>3, OwnStreamStays DEF StreamsInv
<1>5. NotMade' /\ AnsweredHandled'
  BY <1>1, <1>2 DEF StreamsInv, NotMade, AnsweredHandled
<1>6. EntryIsRead'
  BY <1>1, <1>3, EntriesStay DEF StreamsInv
<1>7. Carried'
  BY <1>1, <1>3, QueuesStay, CarriedStep DEF StreamsInv
<1> QED BY <1>4, <1>5, <1>6, <1>7 DEF StreamsInv

(* It holds when nothing has happened.                                     *)
LEMMA StreamsInvInit == Init => StreamsInv
<1> SUFFICES ASSUME Init PROVE StreamsInv
  OBVIOUS
<1>1. NotMade /\ OwnStream /\ AnsweredHandled
  BY DEF Init, NotMade, OwnStream, AnsweredHandled
<1>2. Carried
  BY DEF Init, Carried
<1>3. EntryIsRead
  BY DEF Init, EntryIsRead
<1> QED BY <1>1, <1>2, <1>3 DEF StreamsInv

(* Every step keeps it.                                                    *)
LEMMA StreamsInvStep == TypeOK /\ StreamsInv /\ [Next]_vars => StreamsInv'
BY CallStepKeeps, LoopStepKeeps, AcceptStepKeeps, OtherStepKeeps, RequestKeeps DEF Next

(* The invariants of the streams, for any nodes, calls and faults.         *)
THEOREM StreamsInvariant == Spec => []StreamsInv
<1>1. Init => StreamsInv
  BY StreamsInvInit
<1>2. TypeOK /\ StreamsInv /\ [Next]_vars => StreamsInv'
  BY StreamsInvStep
<1> QED BY <1>1, <1>2, StreamsTypeCorrect, PTL DEF Spec

(* The stream that a node's map offers goes to the node it is asked for,   *)
(* and its loop still reads, or is about to remove the entry.              *)
THEOREM StreamsEntryIsRead == Spec => []EntryIsRead
<1>1. StreamsInv => EntryIsRead
  BY DEF StreamsInv
<1> QED BY <1>1, StreamsInvariant, PTL

(* Every request on a stream is on its way to the node it was made to, and *)
(* every answer comes from that node's handler and goes to the node that   *)
(* asked.                                                                  *)
THEOREM FramesAddressed == Spec => []Addressed
<1>1. StreamsInv => Addressed
  <2> SUFFICES ASSUME StreamsInv PROVE Addressed
    OBVIOUS
  <2>1. Carried /\ AnsweredHandled
    BY DEF StreamsInv
  <2> QED BY <2>1 DEF Carried, AnsweredHandled, Belongs, Addressed
<1> QED BY <1>1, StreamsInvariant, PTL

-----------------------------------------------------------------------------
(* Induction over the natural numbers, for a set of them.                  *)
LEMMA NatSetInduction ==
    ASSUME NEW S, 0 \in S, \A n \in Nat : n \in S => n + 1 \in S
    PROVE  Nat \subseteq S
<1> SUFFICES ASSUME Nat \ S # {} PROVE FALSE
  OBVIOUS
<1> DEFINE less == OpToRel(<, Nat)
<1>1. IsWellFoundedOn(less, Nat)
  BY NatLessThanWellFounded, Zenon
<1>2. \A x, y \in Nat : y < x => <<y, x>> \in less
  BY DEF OpToRel
<1> HIDE DEF less
<1>3. PICK x \in Nat \ S : \A y \in Nat \ S : ~(<<y, x>> \in less)
  BY <1>1, WFMin
<1>4. x - 1 \in Nat /\ x - 1 < x /\ x - 1 + 1 = x
  BY <1>3
<1>5. x - 1 \in S
  BY <1>2, <1>3, <1>4
<1> QED BY <1>3, <1>4, <1>5

(* The turns of streamReadLoop, as a function of their number.             *)
TurnAfter(before) ==
    LET r == ReadFrame(before.rest)
    IN  [rest |-> r.rest, handed |-> before.handed \o Handed(r)]

IsLoop(t, in, m) ==
    t = [n \in 0..m |-> IF n = 0 THEN [rest |-> in, handed |-> <<>>] ELSE TurnAfter(t[n - 1])]

(* The loop starts with the whole stream and nothing handed on.            *)
LEMMA LoopFirst ==
    ASSUME NEW t, NEW in, NEW m \in Nat, IsLoop(t, in, m)
    PROVE  t[0] = [rest |-> in, handed |-> <<>>]
BY DEF IsLoop

(* What one turn of the loop makes of the turn before.                     *)
LEMMA LoopNext ==
    ASSUME NEW t, NEW in, NEW m \in Nat, IsLoop(t, in, m), NEW k \in Nat, k + 1 <= m
    PROVE  t[k + 1] = TurnAfter(t[k])
<1> DEFINE g == [n \in 0..m |-> IF n = 0 THEN [rest |-> in, handed |-> <<>>] ELSE TurnAfter(t[n - 1])]
<1>1. t = g
  BY DEF IsLoop
<1>2. k + 1 \in 0..m /\ k + 1 # 0 /\ k + 1 - 1 = k
  OBVIOUS
<1>3. g[k + 1] = TurnAfter(t[k + 1 - 1])
  BY <1>2
<1> QED BY <1>1, <1>2, <1>3

(* There is such a function: the recursion defines one.                    *)
LEMMA LoopRuns ==
    ASSUME NEW in, NEW m \in Nat
    PROVE  \E t : IsLoop(t, in, m)
<1> DEFINE S == {k \in Nat : \E t : IsLoop(t, in, k)}
<1>1. 0 \in S
  <2> DEFINE t == [n \in 0..0 |-> [rest |-> in, handed |-> <<>>]]
  <2>1. IsLoop(t, in, 0)
    <3>1. \A n \in 0..0 : n = 0
      OBVIOUS
    <3> QED BY <3>1 DEF IsLoop
  <2> QED BY <2>1
<1>2. \A k \in Nat : k \in S => k + 1 \in S
  <2> SUFFICES ASSUME NEW k \in Nat, NEW t, IsLoop(t, in, k)
               PROVE  \E u : IsLoop(u, in, k + 1)
    OBVIOUS
  <2> DEFINE u == [n \in 0..(k + 1) |-> IF n = k + 1 THEN TurnAfter(t[k]) ELSE t[n]]
             g == [n \in 0..(k + 1) |-> IF n = 0 THEN [rest |-> in, handed |-> <<>>]
                                        ELSE TurnAfter(u[n - 1])]
  <2>1. ASSUME NEW n \in 0..(k + 1) PROVE u[n] = g[n]
    <3>1. CASE n = 0
      BY <3>1, LoopFirst
    <3>2. CASE n # 0 /\ n # k + 1
      <4>1. n - 1 \in Nat /\ n - 1 + 1 = n /\ n <= k /\ n - 1 \in 0..(k + 1) /\ n - 1 # k + 1
        BY <3>2
      <4>2. u[n - 1] = t[n - 1] /\ u[n] = t[n]
        BY <3>2, <4>1
      <4>3. t[n] = TurnAfter(t[n - 1])
        <5>1. PICK j \in Nat : j = n - 1
          BY <4>1
        <5>2. j + 1 <= k /\ j + 1 = n
          BY <4>1, <5>1
        <5>3. t[j + 1] = TurnAfter(t[j])
          BY <5>2, LoopNext
        <5> QED BY <5>1, <5>2, <5>3
      <4>4. g[n] = TurnAfter(u[n - 1])
        BY <3>2
      <4> QED BY <4>2, <4>3, <4>4
    <3>3. CASE n = k + 1
      <4>1. n - 1 = k /\ k \in 0..(k + 1) /\ k # k + 1 /\ n # 0
        BY <3>3
      <4>2. u[n] = TurnAfter(t[k]) /\ u[n - 1] = t[k]
        BY <3>3, <4>1
      <4>3. g[n] = TurnAfter(u[n - 1])
        BY <4>1
      <4> QED BY <4>2, <4>3
    <3> QED BY <3>1, <3>2, <3>3
  <2>2. u = g
    <3> HIDE DEF g
    <3>1. DOMAIN g = 0..(k + 1) /\ g = [n \in 0..(k + 1) |-> g[n]]
      BY DEF g
    <3>2. u = [n \in 0..(k + 1) |-> u[n]]
      OBVIOUS
    <3> HIDE DEF u
    <3> QED BY <2>1, <3>1, <3>2
  <2>3. IsLoop(u, in, k + 1)
    <3> HIDE DEF u
    <3> QED BY <2>2 DEF IsLoop
  <2> QED BY <2>3
<1> HIDE DEF S
<1>3. Nat \subseteq S
  BY <1>1, <1>2, NatSetInduction
<1> QED BY <1>3 DEF S

(* What streamReadLoop hands on is what its last turn has.                 *)
LEMMA LoopHands ==
    ASSUME NEW in \in Text
    PROVE  \E t : IsLoop(t, in, Len(in)) /\ StreamReadLoop(in) = t[Len(in)].handed
<1> DEFINE c == CHOOSE t : IsLoop(t, in, Len(in))
<1>1. Len(in) \in Nat
  BY LenProperties DEF Text
<1>2. IsLoop(c, in, Len(in))
  BY <1>1, LoopRuns
<1>3. StreamReadLoop(in) = c[Len(in)].handed
  BY DEF StreamReadLoop, IsLoop, TurnAfter
<1> QED BY <1>2, <1>3

(* Reading a field takes elements off a stream, and puts none back.        *)
LEMMA ReadFieldShrinks ==
    ASSUME NEW in \in Text
    PROVE  Len(ReadField(in).rest) <= Len(in)
<1>0. Len(in) \in Nat
  BY LenProperties DEF Text
<1>1. CASE in = <<>> \/ Head(in) > Len(in) - 1
  <2>1. ReadField(in) = [ok |-> FALSE, text |-> <<>>, rest |-> <<>>]
    BY <1>1 DEF ReadField, Failed
  <2>2. ReadField(in).rest = <<>> /\ Len(<<>>) = 0
    BY <2>1, EmptySeq
  <2> QED BY <1>0, <2>2
<1>2. CASE ~(in = <<>> \/ Head(in) > Len(in) - 1)
  <2> DEFINE two == Head(in) + 2
             last == Len(in)
  <2>1. Head(in) \in Nat
    BY <1>2, HeadTailProperties DEF Text
  <2>2. \A i \in two..last : in[i] \in Nat
    BY <1>0, <2>1, ElementOfSeq DEF Text
  <2>3. ReadField(in).rest = SubSeq(in, two, last)
    BY <1>2 DEF ReadField
  <2>4. two \in Int /\ last \in Int
    BY <1>0, <2>1
  <2> HIDE DEF two, last
  <2>5. Len(SubSeq(in, two, last)) = IF two <= last THEN last - two + 1 ELSE 0
    BY <2>2, <2>4, SubSeqProperties
  <2>6. two \in Nat /\ 2 <= two /\ last = Len(in)
    BY <2>1 DEF two, last
  <2> QED BY <1>0, <2>3, <2>5, <2>6
<1> QED BY <1>1, <1>2

(* Every turn hands on frames, at most one, and takes the type at least.   *)
LEMMA ReadFrameType ==
    ASSUME NEW in \in Text
    PROVE  /\ ReadFrame(in).rest \in Text
           /\ Handed(ReadFrame(in)) \in Seq(AnyFrame)
           /\ in # <<>> => Len(ReadFrame(in).rest) < Len(in)
           /\ in = <<>> => ReadFrame(in).rest = <<>> /\ Handed(ReadFrame(in)) = <<>>
<1> DEFINE r == ReadFrame(in)
<1>0. <<>> \in Text /\ <<>> \in Seq(AnyFrame) /\ Len(<<>>) = 0
  BY EmptySeq DEF Text
<1>u. Unread.rest = <<>> /\ Handed(Unread) = <<>>
  BY DEF Unread, Handed
<1>1. CASE in = <<>>
  <2>1. r = Unread
    BY <1>1 DEF ReadFrame
  <2> QED BY <1>0, <1>u, <1>1, <2>1
<1>2. CASE in # <<>>
  <2> DEFINE u == Tail(in)
             i == ReadField(u)
             e == ReadField(i.rest)
             p == ReadField(e.rest)
  <2>1. u \in Text /\ Len(u) = Len(in) - 1 /\ Len(in) \in Nat /\ Len(in) # 0 /\ Head(in) \in Nat
    BY <1>2, HeadTailProperties, LenProperties, EmptySeq DEF Text
  <2>2. i.text \in Text /\ i.rest \in Text /\ Len(i.rest) <= Len(u)
    BY <2>1, ReadFieldType, ReadFieldShrinks
  <2>3. e.text \in Text /\ e.rest \in Text /\ Len(e.rest) <= Len(i.rest)
    BY <2>2, ReadFieldType, ReadFieldShrinks
  <2>4. p.text \in Text /\ p.rest \in Text /\ Len(p.rest) <= Len(e.rest)
    BY <2>3, ReadFieldType, ReadFieldShrinks
  <2>5. /\ Len(i.rest) \in Nat /\ Len(e.rest) \in Nat /\ Len(p.rest) \in Nat /\ Len(u) \in Nat
    BY <2>1, <2>2, <2>3, <2>4, LenProperties DEF Text
  <2>6. Len(i.rest) < Len(in) /\ Len(e.rest) < Len(in) /\ Len(p.rest) < Len(in) /\ 0 < Len(in)
        /\ Len(u) < Len(in)
    BY <2>1, <2>2, <2>3, <2>4, <2>5
  <2>7. /\ Head(in) = DATA => r = ReadData(u)
        /\ Head(in) = REQUEST => r = ReadRequest(u)
        /\ Head(in) = RESPONSE => r = ReadResponse(u)
        /\ Head(in) \notin {DATA, REQUEST, RESPONSE}
             => r = [ok |-> TRUE, type |-> Head(in), body |-> <<>>, rest |-> u]
    BY <1>2 DEF ReadFrame, DATA, REQUEST, RESPONSE
  <2> HIDE DEF r, u
  <2>8. CASE Head(in) = DATA
    <3>1. CASE i.ok
      <4>1. r = [ok |-> TRUE, type |-> DATA, body |-> i.text, rest |-> i.rest]
        BY <2>7, <2>8, <3>1 DEF ReadData
      <4>2. Handed(r) = <<[type |-> DATA, payload |-> i.text]>> /\ r.rest = i.rest
        BY <4>1 DEF Handed, DATA, REQUEST, RESPONSE
      <4>3. [type |-> DATA, payload |-> i.text] \in AnyFrame
        BY <2>2 DEF AnyFrame, DataFrame
      <4> QED BY <1>2, <2>2, <2>6, <4>2, <4>3 DEF r
    <3>2. CASE ~i.ok
      <4>1. r = Unread
        BY <2>7, <2>8, <3>2 DEF ReadData
      <4> QED BY <1>0, <1>u, <1>2, <2>6, <4>1 DEF r
    <3> QED BY <3>1, <3>2
  <2>9. CASE Head(in) = REQUEST
    <3>1. CASE e.ok
      <4>1. /\ Handed(ReadRequest(u)) = <<[type |-> REQUEST, id |-> i.text, payload |-> e.text]>>
            /\ ReadRequest(u).rest = e.rest
        BY <2>1, <3>1, HandedRequest
      <4>2. [type |-> REQUEST, id |-> i.text, payload |-> e.text] \in AnyFrame
        BY <2>2, <2>3 DEF AnyFrame, RequestFrame
      <4>3. Handed(r) = <<[type |-> REQUEST, id |-> i.text, payload |-> e.text]>>
            /\ r.rest = e.rest
        BY <2>7, <2>9, <4>1
      <4> QED BY <1>2, <2>3, <2>6, <4>2, <4>3 DEF r
    <3>2. CASE ~e.ok
      <4>1. r = Unread
        BY <2>7, <2>9, <3>2 DEF ReadRequest
      <4> QED BY <1>0, <1>u, <1>2, <2>6, <4>1 DEF r
    <3> QED BY <3>1, <3>2
  <2>10. CASE Head(in) = RESPONSE
    <3>1. CASE p.ok
      <4>1. /\ Handed(ReadResponse(u)) = <<[type |-> RESPONSE, id |-> i.text, error |-> e.text,
                                             payload |-> p.text]>>
            /\ ReadResponse(u).rest = p.rest
        BY <2>1, <3>1, HandedResponse
      <4>2. [type |-> RESPONSE, id |-> i.text, error |-> e.text, payload |-> p.text] \in AnyFrame
        BY <2>2, <2>3, <2>4 DEF AnyFrame, ResponseFrame
      <4>3. Handed(r) = <<[type |-> RESPONSE, id |-> i.text, error |-> e.text, payload |-> p.text]>>
            /\ r.rest = p.rest
        BY <2>7, <2>10, <4>1
      <4> QED BY <1>2, <2>4, <2>6, <4>2, <4>3 DEF r
    <3>2. CASE ~p.ok
      <4>1. r = Unread
        BY <2>7, <2>10, <3>2 DEF ReadResponse
      <4> QED BY <1>0, <1>u, <1>2, <2>6, <4>1 DEF r
    <3> QED BY <3>1, <3>2
  <2>11. CASE Head(in) \notin {DATA, REQUEST, RESPONSE}
    <3>1. r = [ok |-> TRUE, type |-> Head(in), body |-> <<>>, rest |-> u]
      BY <2>7, <2>11
    <3>2. Handed(r) = <<>> /\ r.rest = u
      BY <2>11, <3>1 DEF Handed, DATA, REQUEST, RESPONSE
    <3> QED BY <1>0, <1>2, <2>1, <2>6, <3>2 DEF r
  <2> QED BY <2>8, <2>9, <2>10, <2>11
<1> QED BY <1>1, <1>2

(* Each turn leaves less of the stream, until nothing is left.             *)
LEMMA LoopTyped ==
    ASSUME NEW in \in Text, NEW m \in Nat, NEW t, IsLoop(t, in, m)
    PROVE  \A k \in 0..m : /\ t[k].rest \in Text /\ t[k].handed \in Seq(AnyFrame)
                           /\ t[k].rest = <<>> \/ Len(t[k].rest) + k <= Len(in)
<1> DEFINE P(k) == /\ t[k].rest \in Text /\ t[k].handed \in Seq(AnyFrame)
                   /\ t[k].rest = <<>> \/ Len(t[k].rest) + k <= Len(in)
           S == {k \in Nat : k <= m => P(k)}
<1>1. 0 \in S
  <2>1. t[0] = [rest |-> in, handed |-> <<>>]
    BY LoopFirst
  <2>2. t[0].rest = in /\ t[0].handed = <<>>
    BY <2>1
  <2>3. Len(in) \in Nat /\ <<>> \in Seq(AnyFrame)
    BY LenProperties, EmptySeq DEF Text
  <2>4. P(0)
    BY <2>2, <2>3
  <2> QED BY <2>4
<1>2. \A k \in Nat : k \in S => k + 1 \in S
  <2> SUFFICES ASSUME NEW k \in Nat, k + 1 <= m, P(k) PROVE P(k + 1)
    <3> HIDE DEF P
    <3>1. \A k \in Nat : k + 1 <= m => k <= m /\ k + 1 \in Nat
      OBVIOUS
    <3> QED BY <3>1
  <2> DEFINE b == t[k].rest
             r == ReadFrame(b)
  <2>1. t[k + 1] = [rest |-> r.rest, handed |-> t[k].handed \o Handed(r)]
    BY LoopNext DEF TurnAfter
  <2>2. t[k + 1].rest = r.rest /\ t[k + 1].handed = t[k].handed \o Handed(r)
    <3> HIDE DEF r
    <3> QED BY <2>1
  <2>3. b \in Text /\ t[k].handed \in Seq(AnyFrame) /\ (b = <<>> \/ Len(b) + k <= Len(in))
    OBVIOUS
  <2> HIDE DEF b
  <2>4. /\ r.rest \in Text /\ Handed(r) \in Seq(AnyFrame)
        /\ b # <<>> => Len(r.rest) < Len(b)
        /\ b = <<>> => r.rest = <<>>
    BY <2>3, ReadFrameType
  <2> HIDE DEF r
  <2>5. t[k].handed \o Handed(r) \in Seq(AnyFrame)
    BY <2>3, <2>4, ConcatProperties
  <2>6. Len(r.rest) \in Nat /\ Len(b) \in Nat /\ Len(in) \in Nat
    BY <2>3, <2>4, LenProperties DEF Text
  <2>7. r.rest = <<>> \/ Len(r.rest) + (k + 1) <= Len(in)
    <3>1. CASE b = <<>>
      BY <2>4, <3>1
    <3>2. CASE b # <<>>
      <4>1. Len(r.rest) < Len(b) /\ Len(b) + k <= Len(in)
        BY <2>3, <2>4, <3>2
      <4>2. PICK x, y, z \in Nat : x = Len(r.rest) /\ y = Len(b) /\ z = Len(in)
        BY <2>6
      <4>3. x < y /\ y + k <= z => x + (k + 1) <= z
        OBVIOUS
      <4> QED BY <4>1, <4>2, <4>3
    <3> QED BY <3>1, <3>2
  <2> QED BY <2>2, <2>4, <2>5, <2>7
<1> HIDE DEF S
<1>3. Nat \subseteq S
  BY <1>1, <1>2, NatSetInduction
<1> QED BY <1>3 DEF S

(* Once the stream is at its end, the turns that are left hand on nothing. *)
LEMMA LoopIdle ==
    ASSUME NEW in \in Text, NEW m \in Nat, NEW t, IsLoop(t, in, m), NEW j \in 0..m, t[j].rest = <<>>
    PROVE  t[m].handed = t[j].handed
<1> DEFINE S == {k \in Nat : j + k <= m => t[j + k].rest = <<>> /\ t[j + k].handed = t[j].handed}
<1>1. 0 \in S
  <2>1. j + 0 = j
    OBVIOUS
  <2> QED BY <2>1
<1>2. \A k \in Nat : k \in S => k + 1 \in S
  <2> SUFFICES ASSUME NEW k \in Nat, j + (k + 1) <= m, k \in S
               PROVE  t[j + (k + 1)].rest = <<>> /\ t[j + (k + 1)].handed = t[j].handed
    OBVIOUS
  <2>1. PICK n \in Nat : n = j + k
    OBVIOUS
  <2>2. n + 1 = j + (k + 1) /\ n + 1 <= m /\ n \in 0..m /\ j + k <= m
    BY <2>1
  <2>3. t[n].rest = <<>> /\ t[n].handed = t[j].handed
    BY <2>1, <2>2
  <2>4. t[n + 1] = TurnAfter(t[n])
    BY <2>2, LoopNext
  <2> DEFINE r == ReadFrame(<<>>)
  <2>5. r.rest = <<>> /\ Handed(r) = <<>>
    BY ReadFrameType, EmptySeq DEF Text
  <2> HIDE DEF r
  <2>6. TurnAfter(t[n]) = [rest |-> r.rest, handed |-> t[n].handed \o Handed(r)]
    BY <2>3 DEF TurnAfter, r
  <2>7. t[n].handed \in Seq(AnyFrame)
    BY <2>2, LoopTyped
  <2>8. t[n].handed \o <<>> = t[n].handed
    BY <2>7, ConcatEmptySeq
  <2> QED BY <2>2, <2>3, <2>4, <2>5, <2>6, <2>8
<1> HIDE DEF S
<1>3. Nat \subseteq S
  BY <1>1, <1>2, NatSetInduction
<1>4. m - j \in Nat /\ j + (m - j) = m
  OBVIOUS
<1> QED BY <1>3, <1>4 DEF S

(* A frame is written as a type and fields.                                *)
LEMMA EncodeType ==
    ASSUME NEW f \in AnyFrame
    PROVE  Encode(f) \in Text
<1>0. <<DATA>> \in Text /\ <<REQUEST>> \in Text /\ <<RESPONSE>> \in Text
  BY DEF Text, DATA, REQUEST, RESPONSE
<1>1. CASE f \in DataFrame
  <2>1. f.payload \in Text /\ f.type = DATA
    BY <1>1 DEF DataFrame
  <2>2. Long(f.payload) \in Text
    BY <2>1, FieldIsText, FramingAssumption DEF Long
  <2>3. Encode(f) = <<DATA>> \o Long(f.payload)
    BY <2>1 DEF Encode, EncodeDataFrame, DATA, REQUEST, RESPONSE
  <2> DEFINE s == <<DATA>>
             p == Long(f.payload)
  <2>4. s \in Text /\ p \in Text /\ Encode(f) = s \o p
    BY <1>0, <2>2, <2>3
  <2> HIDE DEF s, p
  <2> QED BY <2>4, TakeOff, SMTT(60)
<1>2. CASE f \in RequestFrame
  <2>1. f.id \in Text /\ f.payload \in Text /\ f.type = REQUEST
    BY <1>2 DEF RequestFrame
  <2>2. Long(f.payload) \in Text /\ Short(f.id) \in Text
    BY <2>1, FieldIsText, FramingAssumption DEF Long, Short
  <2>3. Encode(f) = (<<REQUEST>> \o Short(f.id)) \o Long(f.payload)
    BY <2>1 DEF Encode, EncodeRequestFrame, DATA, REQUEST, RESPONSE
  <2>4. <<REQUEST>> \o Short(f.id) \in Text
    BY <1>0, <2>2, TakeOff
  <2> DEFINE s == <<REQUEST>> \o Short(f.id)
             p == Long(f.payload)
  <2>5. s \in Text /\ p \in Text /\ Encode(f) = s \o p
    BY <2>2, <2>3, <2>4
  <2> HIDE DEF s, p
  <2> QED BY <2>5, TakeOff, SMTT(60)
<1>3. CASE f \in ResponseFrame
  <2>1. f.id \in Text /\ f.error \in Text /\ f.payload \in Text /\ f.type = RESPONSE
    BY <1>3 DEF ResponseFrame
  <2>2. Long(f.payload) \in Text /\ Short(f.id) \in Text /\ Short(f.error) \in Text
    BY <2>1, FieldIsText, FramingAssumption DEF Long, Short
  <2>3. Encode(f) = ((<<RESPONSE>> \o Short(f.id)) \o Short(f.error)) \o Long(f.payload)
    BY <2>1 DEF Encode, EncodeResponseFrame, DATA, REQUEST, RESPONSE
  <2>4. <<RESPONSE>> \o Short(f.id) \in Text
    BY <1>0, <2>2, TakeOff
  <2>5. (<<RESPONSE>> \o Short(f.id)) \o Short(f.error) \in Text
    BY <2>2, <2>4, TakeOff
  <2> DEFINE s == (<<RESPONSE>> \o Short(f.id)) \o Short(f.error)
             p == Long(f.payload)
  <2>6. s \in Text /\ p \in Text /\ Encode(f) = s \o p
    BY <2>2, <2>3, <2>5
  <2> HIDE DEF s, p
  <2> QED BY <2>6, TakeOff, SMTT(60)
<1> QED BY <1>1, <1>2, <1>3 DEF AnyFrame

(* A frame that fits is read back whole, and what follows it stays.        *)
LEMMA FrameRead ==
    ASSUME NEW f \in AnyFrame, Fits(f), NEW u \in Text
    PROVE  /\ Encode(f) \o u \in Text
           /\ Handed(ReadFrame(Encode(f) \o u)) = <<f>>
           /\ ReadFrame(Encode(f) \o u).rest = u
           /\ Len(u) < Len(Encode(f) \o u)
<1> DEFINE in == Encode(f) \o u
           r == ReadFrame(in)
<1>1. in \in Text
  BY EncodeType, TakeOff
<1>2. Handed(r) = <<f>> /\ r.rest = u
  BY FrameInStep DEF InStep
<1> HIDE DEF in
<1>3. in # <<>>
  BY <1>1, <1>2, ReadFrameType
<1>4. Len(u) < Len(in)
  BY <1>1, <1>2, <1>3, ReadFrameType
<1> HIDE DEF r
<1> QED BY <1>1, <1>2, <1>4 DEF r, in

(* The loop hands on the first frame of a stream, and then what it would   *)
(* of the rest of the stream: by induction on the turns.                   *)
THEOREM LoopTakesFrame ==
    ASSUME NEW f \in AnyFrame, Fits(f), NEW u \in Text
    PROVE  StreamReadLoop(Encode(f) \o u) = <<f>> \o StreamReadLoop(u)
<1> DEFINE in == Encode(f) \o u
           m == Len(in)
           l == Len(u)
<1>1. in \in Text /\ Handed(ReadFrame(in)) = <<f>> /\ ReadFrame(in).rest = u /\ l < m
  BY FrameRead
<1>2. PICK t : IsLoop(t, in, m) /\ StreamReadLoop(in) = t[m].handed
  BY <1>1, LoopHands
<1>3. PICK s : IsLoop(s, u, l) /\ StreamReadLoop(u) = s[l].handed
  BY LoopHands
<1>4. m \in Nat /\ l \in Nat
  BY <1>1, LenProperties DEF Text
<1>5. <<f>> \in Seq(AnyFrame) /\ <<f>> \o <<>> = <<f>> /\ <<>> \o <<f>> = <<f>>
  <2>1. <<f>> \in Seq(AnyFrame)
    OBVIOUS
  <2> HIDE DEF in
  <2> QED BY <2>1, ConcatEmptySeq
<1> HIDE DEF in, m, l
<1> DEFINE S == {k \in Nat : k <= l => /\ t[k + 1].rest = s[k].rest
                                       /\ t[k + 1].handed = <<f>> \o s[k].handed}
<1>6. 0 \in S
  <2>1. t[0] = [rest |-> in, handed |-> <<>>]
    BY <1>2, <1>4, LoopFirst
  <2>2. s[0] = [rest |-> u, handed |-> <<>>]
    BY <1>3, <1>4, LoopFirst
  <2>3. t[0 + 1] = TurnAfter(t[0])
    <3>1. 0 + 1 <= m
      BY <1>1, <1>4
    <3> QED BY <1>2, <1>4, <3>1, LoopNext
  <2>4. t[0].rest = in /\ t[0].handed = <<>> /\ s[0].rest = u /\ s[0].handed = <<>>
    BY <2>1, <2>2
  <2>5. TurnAfter(t[0]) = [rest |-> u, handed |-> <<>> \o <<f>>]
    BY <1>1, <2>4 DEF TurnAfter
  <2>6. t[0 + 1].rest = u /\ t[0 + 1].handed = <<f>>
    BY <1>5, <2>3, <2>5
  <2> QED BY <1>5, <2>4, <2>6
<1>7. \A k \in Nat : k \in S => k + 1 \in S
  <2> SUFFICES ASSUME NEW k \in Nat, k + 1 <= l, k \in S
               PROVE  /\ t[(k + 1) + 1].rest = s[k + 1].rest
                      /\ t[(k + 1) + 1].handed = <<f>> \o s[k + 1].handed
    <3>1. \A k \in Nat : k + 1 \in Nat
      OBVIOUS
    <3> QED BY <3>1, Zenon
  <2>1. k <= l /\ k + 1 \in Nat /\ (k + 1) + 1 <= m /\ k \in 0..l
    BY <1>1, <1>4
  <2>2. t[k + 1].rest = s[k].rest /\ t[k + 1].handed = <<f>> \o s[k].handed
    BY <2>1
  <2>3. s[k + 1] = TurnAfter(s[k])
    BY <1>3, <1>4, LoopNext
  <2>4. t[(k + 1) + 1] = TurnAfter(t[k + 1])
    BY <1>2, <1>4, <2>1, LoopNext
  <2>5. s[k].rest \in Text /\ s[k].handed \in Seq(AnyFrame)
    BY <1>3, <1>4, <2>1, LoopTyped
  <2> DEFINE r == ReadFrame(s[k].rest)
  <2>6. Handed(r) \in Seq(AnyFrame)
    BY <2>5, ReadFrameType
  <2>7. s[k + 1] = [rest |-> r.rest, handed |-> s[k].handed \o Handed(r)]
    BY <2>3 DEF TurnAfter
  <2>8. t[(k + 1) + 1] = [rest |-> r.rest, handed |-> (<<f>> \o s[k].handed) \o Handed(r)]
    BY <2>2, <2>4 DEF TurnAfter
  <2> HIDE DEF r
  <2>9. (<<f>> \o s[k].handed) \o Handed(r) = <<f>> \o (s[k].handed \o Handed(r))
    <3>1. PICK x \in Seq(AnyFrame) : x = <<f>>
      BY <1>5
    <3>2. PICK y \in Seq(AnyFrame) : y = s[k].handed
      BY <2>5
    <3>3. PICK z \in Seq(AnyFrame) : z = Handed(r)
      BY <2>6
    <3>4. (x \o y) \o z = x \o (y \o z)
      BY ConcatAssociative
    <3> QED BY <3>1, <3>2, <3>3, <3>4
  <2>10. s[k + 1].rest = r.rest /\ s[k + 1].handed = s[k].handed \o Handed(r)
    BY <2>7
  <2>11. t[(k + 1) + 1].rest = r.rest /\ t[(k + 1) + 1].handed = (<<f>> \o s[k].handed) \o Handed(r)
    BY <2>8
  <2> QED BY <2>9, <2>10, <2>11, Zenon
<1> HIDE DEF S
<1>8. Nat \subseteq S
  BY <1>6, <1>7, NatSetInduction
<1>9. t[l + 1].rest = s[l].rest /\ t[l + 1].handed = <<f>> \o s[l].handed
  BY <1>4, <1>8 DEF S
<1>10. s[l].rest = <<>>
  <2>1. l \in 0..l
    BY <1>4
  <2>2. s[l].rest = <<>> \/ Len(s[l].rest) + l <= Len(u)
    BY <1>3, <1>4, <2>1, LoopTyped
  <2>3. s[l].rest \in Text
    BY <1>3, <1>4, <2>1, LoopTyped
  <2>4. s[l].rest # <<>> => Len(s[l].rest) \in Nat \ {0}
    BY <2>3, EmptySeq DEF Text
  <2>5. l = Len(u)
    BY DEF l
  <2> QED BY <1>4, <2>2, <2>4, <2>5
<1>11. t[m].handed = t[l + 1].handed
  <2>1. l + 1 \in 0..m
    BY <1>1, <1>4
  <2>2. t[l + 1].rest = <<>>
    BY <1>9, <1>10
  <2>3. PICK j \in 0..m : j = l + 1
    BY <2>1
  <2> QED BY <1>1, <1>2, <1>4, <2>2, <2>3, LoopIdle
<1> QED BY <1>2, <1>3, <1>9, <1>11 DEF in

(* Nothing is handed on of an empty stream.                                *)
LEMMA LoopOfNothing == StreamReadLoop(<<>>) = <<>>
<1>1. <<>> \in Text /\ Len(<<>>) = 0
  BY EmptySeq DEF Text
<1>2. PICK t : IsLoop(t, <<>>, 0) /\ StreamReadLoop(<<>>) = t[0].handed
  BY <1>1, LoopHands
<1>3. t[0] = [rest |-> <<>>, handed |-> <<>>]
  BY <1>2, LoopFirst
<1> QED BY <1>2, <1>3

(* The beginning of a stream that is cut after its first part.             *)
LEMMA PrefixOfConcat ==
    ASSUME NEW v \in Text, NEW u \in Text, NEW j \in Nat, Len(v) <= j, j <= Len(v) + Len(u)
    PROVE  /\ SubSeq(v \o u, 1, j) = v \o SubSeq(u, 1, j - Len(v))
           /\ SubSeq(u, 1, j - Len(v)) \in Text
<1> DEFINE w == v \o u
           n == j - Len(v)
           one == 1
           p == SubSeq(u, one, n)
           s == SubSeq(w, one, j)
<1>1. Len(v) \in Nat /\ Len(u) \in Nat
  BY LenProperties DEF Text
<1>2. n \in Nat /\ n <= Len(u) /\ j = Len(v) + n
  BY <1>1
<1>3. /\ w \in Text /\ Len(w) = Len(v) + Len(u)
      /\ \A i \in 1..(Len(v) + Len(u)) : w[i] = IF i <= Len(v) THEN v[i] ELSE u[i - Len(v)]
  BY ConcatProperties DEF Text
<1> HIDE DEF w, n
<1>4. /\ p \in Text /\ Len(p) = n /\ \A i \in 1..n : p[i] = u[i]
  <2>1. \A i \in one..n : u[i] \in Nat
    BY <1>1, <1>2, ElementOfSeq DEF Text
  <2>2. one \in Int /\ n \in Int
    BY <1>2
  <2> HIDE DEF one
  <2>3. /\ p \in Seq(Nat) /\ Len(p) = IF one <= n THEN n - one + 1 ELSE 0
        /\ \A i \in 1..(n - one + 1) : p[i] = u[one + i - 1]
    BY <2>1, <2>2, SubSeqProperties
  <2> HIDE DEF p
  <2>4. one = 1
    BY DEF one
  <2> QED BY <1>2, <2>3, <2>4 DEF Text
<1>5. /\ s \in Text /\ Len(s) = j /\ \A i \in 1..j : s[i] = w[i]
  <2>1. \A i \in one..j : w[i] \in Nat
    BY <1>1, <1>2, <1>3, ElementOfSeq DEF Text
  <2>2. one \in Int /\ j \in Int
    BY <1>2
  <2> HIDE DEF one
  <2>3. /\ s \in Seq(Nat) /\ Len(s) = IF one <= j THEN j - one + 1 ELSE 0
        /\ \A i \in 1..(j - one + 1) : s[i] = w[one + i - 1]
    BY <2>1, <2>2, SubSeqProperties
  <2> HIDE DEF s
  <2>4. one = 1
    BY DEF one
  <2> QED BY <1>2, <2>3, <2>4 DEF Text
<1> HIDE DEF p, s
<1>6. /\ v \o p \in Text /\ Len(v \o p) = j
      /\ \A i \in 1..j : (v \o p)[i] = IF i <= Len(v) THEN v[i] ELSE p[i - Len(v)]
  BY <1>2, <1>4, ConcatProperties DEF Text
<1>7. \A i \in 1..j : s[i] = (v \o p)[i]
  <2> SUFFICES ASSUME NEW i \in 1..j PROVE s[i] = (v \o p)[i]
    OBVIOUS
  <2>1. i \in 1..(Len(v) + Len(u)) /\ (~(i <= Len(v)) => i - Len(v) \in 1..n)
    BY <1>1, <1>2
  <2> QED BY <1>3, <1>4, <1>5, <1>6, <2>1
<1>8. s = v \o p
  BY <1>5, <1>6, <1>7, SeqEqual DEF Text
<1> QED BY <1>4, <1>8 DEF p, s, w, n

(* A field that is cut: its text is not read; one that is not is, with the *)
(* cut behind it.                                                          *)
LEMMA CutField ==
    ASSUME NEW t \in Text, NEW u \in Text, NEW limit \in Nat \ {0}, Len(t) < limit,
           NEW j \in Nat, j <= Len(t) + 1 + Len(u)
    PROVE  /\ Len(Field(t, limit) \o u) = Len(t) + 1 + Len(u)
           /\ j <= Len(t) => ReadField(SubSeq(Field(t, limit) \o u, 1, j)) = Failed
           /\ Len(t) < j => /\ j - (Len(t) + 1) \in Nat
                            /\ ReadField(SubSeq(Field(t, limit) \o u, 1, j))
                                   = [ok |-> TRUE, text |-> t, rest |-> SubSeq(u, 1, j - (Len(t) + 1))]
<1> DEFINE v == Field(t, limit)
           w == v \o u
           in == SubSeq(w, 1, j)
<1>1. Len(t) \in Nat /\ Len(u) \in Nat
  BY LenProperties DEF Text
<1>2. v = <<Len(t)>> \o t
  <2>1. Len(t) % limit = Len(t)
    BY <1>1
  <2> QED BY <2>1 DEF Field
<1>3. v \in Text /\ Len(v) = Len(t) + 1
  BY <1>1, <1>2, OneElement
<1>4. w \in Text /\ Len(w) = Len(t) + 1 + Len(u)
  BY <1>3, TakeOff
<1>5. w[1] = Len(t)
  <2>1. w[1] = v[1]
    BY <1>1, <1>3, ConcatProperties DEF Text
  <2>2. v[1] = Len(t)
    <3>1. <<Len(t)>> \in Text /\ Len(<<Len(t)>>) = 1 /\ <<Len(t)>>[1] = Len(t)
      BY <1>1 DEF Text
    <3> QED BY <1>1, <1>2, <3>1, ConcatProperties DEF Text
  <2> QED BY <2>1, <2>2
<1>6. ASSUME j <= Len(t) PROVE ReadField(in) = Failed
  <2>1. CASE j = 0
    <3>1. in = <<>>
      BY <2>1, SubSeqEmpty
    <3> QED BY <3>1 DEF ReadField
  <2>2. CASE j # 0
    <3> HIDE DEF w
    <3>1. 1 \in 1..Len(w) /\ j \in 1..Len(w)
      BY <1>1, <1>4, <1>6, <2>2
    <3>2. Head(in) = w[1]
      BY <1>4, <3>1, HeadTailOfSubSeq DEF Text
    <3>3. Len(in) = j
      <4> DEFINE one == 1
                 cut == SubSeq(w, one, j)
      <4>1. \A i \in one..j : w[i] \in Nat
        <5>1. \A i \in one..j : i \in 1..Len(w)
          BY <3>1
        <5>2. \A i \in 1..Len(w) : w[i] \in Nat
          BY <1>4, ElementOfSeq, Zenon DEF Text
        <5> QED BY <5>1, <5>2, Zenon
      <4>2. one \in Int /\ j \in Int
        OBVIOUS
      <4> HIDE DEF one
      <4>3. Len(cut) = IF one <= j THEN j - one + 1 ELSE 0
        BY <4>1, <4>2, SubSeqProperties
      <4>4. Len(cut) = j
        <5> HIDE DEF cut
        <5> QED BY <2>2, <4>3 DEF one
      <4> QED BY <4>4 DEF one
    <3> HIDE DEF in
    <3>4. Head(in) > Len(in) - 1
      BY <1>1, <1>5, <1>6, <3>2, <3>3
    <3> QED BY <3>4 DEF ReadField
  <2> QED BY <2>1, <2>2
<1>7. ASSUME Len(t) < j
      PROVE  /\ j - (Len(t) + 1) \in Nat
             /\ ReadField(in) = [ok |-> TRUE, text |-> t, rest |-> SubSeq(u, 1, j - (Len(t) + 1))]
  <2>1. j - (Len(t) + 1) \in Nat /\ Len(v) <= j /\ j <= Len(v) + Len(u)
    BY <1>1, <1>3, <1>7
  <2> DEFINE p == SubSeq(u, 1, j - Len(v))
  <2> HIDE DEF v
  <2>2. in = v \o p /\ p \in Text
    BY <1>3, <2>1, PrefixOfConcat
  <2> HIDE DEF p
  <2>3. ReadField(v \o p) = [ok |-> TRUE, text |-> t, rest |-> p]
    BY <2>2, ReadFieldFits DEF v
  <2>4. p = SubSeq(u, 1, j - (Len(t) + 1))
    BY <1>3 DEF p
  <2> QED BY <2>1, <2>2, <2>3, <2>4
<1> QED BY <1>4, <1>6, <1>7

(* The last field of a frame, when it is cut, and one that has nothing in  *)
(* front of it.                                                            *)
LEMMA CutLast ==
    ASSUME NEW t \in Text, NEW limit \in Nat \ {0}, Len(t) < limit, NEW j \in Nat,
           j < Len(Field(t, limit))
    PROVE  ~ReadField(SubSeq(Field(t, limit), 1, j)).ok
<1>1. Field(t, limit) \in Text /\ Len(t) \in Nat
  BY FieldIsText, LenProperties DEF Text
<1>2. Field(t, limit) \o <<>> = Field(t, limit) /\ <<>> \in Text /\ Len(<<>>) = 0
  BY <1>1, ConcatEmptySeq, EmptySeq DEF Text
<1>3. j <= Len(t) + 1 + Len(<<>>) /\ Len(Field(t, limit)) = Len(t) + 1
  <2>1. Len(Field(t, limit) \o <<>>) = Len(t) + 1 + Len(<<>>)
    <3>1. 0 \in Nat /\ 0 <= Len(t) + 1 + Len(<<>>)
      BY <1>1, <1>2
    <3> QED BY <1>2, <3>1, CutField
  <2> QED BY <1>1, <1>2, <2>1
<1>4. j <= Len(t)
  BY <1>1, <1>3
<1>5. ReadField(SubSeq(Field(t, limit) \o <<>>, 1, j)) = Failed
  <2>1. PICK e \in Text : e = <<>>
    BY <1>2
  <2>2. j <= Len(t) + 1 + Len(e)
    BY <1>3, <2>1
  <2>3. ReadField(SubSeq(Field(t, limit) \o e, 1, j)) = Failed
    BY <1>4, <2>2, CutField
  <2> QED BY <2>1, <2>3
<1> QED BY <1>2, <1>5 DEF Failed

(* A field with more behind it: what is left is nothing, or the other      *)
(* fields, which are cut in turn.                                          *)
LEMMA CutFirst ==
    ASSUME NEW t \in Text, NEW u \in Text, NEW limit \in Nat \ {0}, Len(t) < limit,
           NEW j \in Nat, j < Len(Field(t, limit) \o u),
           NEW r, r = ReadField(SubSeq(Field(t, limit) \o u, 1, j))
    PROVE  r.rest = <<>> \/ \E h \in Nat : h < Len(u) /\ r.rest = SubSeq(u, 1, h)
<1>1. Len(t) \in Nat /\ Len(u) \in Nat
  BY LenProperties DEF Text
<1>2. Len(Field(t, limit) \o u) = Len(t) + 1 + Len(u)
  <2>1. 0 \in Nat /\ 0 <= Len(t) + 1 + Len(u)
    BY <1>1
  <2> QED BY <2>1, CutField
<1>3. j <= Len(t) + 1 + Len(u)
  BY <1>1, <1>2
<1>4. CASE j <= Len(t)
  <2>1. r = Failed
    BY <1>3, <1>4, CutField
  <2> QED BY <2>1 DEF Failed
<1>5. CASE Len(t) < j
  <2>1. PICK h : h = j - (Len(t) + 1)
    OBVIOUS
  <2>2. h \in Nat /\ r = [ok |-> TRUE, text |-> t, rest |-> SubSeq(u, 1, h)]
    BY <1>3, <1>5, <2>1, CutField
  <2>3. h < Len(u)
    BY <1>1, <1>2, <2>1
  <2>4. r.rest = SubSeq(u, 1, h)
    BY <2>2
  <2> QED BY <2>2, <2>3, <2>4
<1> QED BY <1>1, <1>4, <1>5

(* The same for a field with a length of two bytes.                        *)
LEMMA CutShort ==
    ASSUME NEW t \in Text, NEW u \in Text, Len(t) < ShortLimit,
           NEW j \in Nat, j < Len(Short(t) \o u)
    PROVE  LET r == ReadField(SubSeq(Short(t) \o u, 1, j))
           IN  r.rest = <<>> \/ \E h \in Nat : h < Len(u) /\ r.rest = SubSeq(u, 1, h)
BY CutFirst, FramingAssumption DEF Short

(* Nothing is read from a stream that has ended.                           *)
LEMMA NothingRead == ReadField(<<>>) = Failed /\ Failed.rest = <<>> /\ ~Failed.ok
BY DEF ReadField, Failed

(* What is read of the fields of a request, or of a response, that are cut *)
(* somewhere.                                                              *)
LEMMA CutTwo ==
    ASSUME NEW s \in Text, NEW t \in Text, Len(s) < ShortLimit, Len(t) < LongLimit,
           NEW j \in Nat, j < Len(Short(s) \o Long(t)),
           NEW i, i = ReadField(SubSeq(Short(s) \o Long(t), 1, j))
    PROVE  ~ReadField(i.rest).ok
<1>1. Long(t) \in Text
  BY FieldIsText, FramingAssumption DEF Long
<1>2. i.rest = <<>> \/ \E h \in Nat : h < Len(Long(t)) /\ i.rest = SubSeq(Long(t), 1, h)
  BY <1>1, CutShort
<1>3. ASSUME NEW h \in Nat, h < Len(Long(t)), i.rest = SubSeq(Long(t), 1, h)
      PROVE  ~ReadField(i.rest).ok
  BY <1>3, CutLast, FramingAssumption DEF Long
<1> QED BY <1>2, <1>3, NothingRead

(* Of three fields that are cut, the last cannot be read.                  *)
LEMMA CutThree ==
    ASSUME NEW s \in Text, NEW e \in Text, NEW t \in Text,
           Len(s) < ShortLimit, Len(e) < ShortLimit, Len(t) < LongLimit,
           NEW u \in Text, u = Short(e) \o Long(t),
           NEW j \in Nat, j < Len(Short(s) \o u),
           NEW i, i = ReadField(SubSeq(Short(s) \o u, 1, j))
    PROVE  ~ReadField(ReadField(i.rest).rest).ok
<1>1. i.rest = <<>> \/ \E h \in Nat : h < Len(u) /\ i.rest = SubSeq(u, 1, h)
  <2>1. LET r == ReadField(SubSeq(Short(s) \o u, 1, j))
        IN  r.rest = <<>> \/ \E h \in Nat : h < Len(u) /\ r.rest = SubSeq(u, 1, h)
    BY CutShort, Zenon
  <2> QED BY <2>1
<1>2. ASSUME NEW h \in Nat, h < Len(u), i.rest = SubSeq(u, 1, h)
      PROVE  ~ReadField(ReadField(i.rest).rest).ok
  <2>1. PICK k : k = ReadField(i.rest)
    OBVIOUS
  <2>2. ~ReadField(k.rest).ok
    BY <1>2, <2>1, CutTwo
  <2> QED BY <2>1, <2>2
<1>3. CASE i.rest = <<>>
  BY <1>3, NothingRead
<1> QED BY <1>1, <1>2, <1>3

(* A frame that is cut after its type is not read.                         *)
LEMMA CutFrame ==
    ASSUME NEW f \in AnyFrame, Fits(f), NEW k \in Nat, 0 < k, k < Len(Encode(f))
    PROVE  ReadFrame(SubSeq(Encode(f), 1, k)) = Unread
<1>0. DATA \in Nat /\ REQUEST \in Nat /\ RESPONSE \in Nat
  BY DEF DATA, REQUEST, RESPONSE
<1>1. ASSUME NEW type \in Nat, NEW body \in Text, Encode(f) = <<type>> \o body
      PROVE  /\ k - 1 \in Nat /\ k - 1 < Len(body) /\ SubSeq(body, 1, k - 1) \in Text
             /\ SubSeq(Encode(f), 1, k) = <<type>> \o SubSeq(body, 1, k - 1)
  <2>1. Len(Encode(f)) = Len(body) + 1 /\ Len(body) \in Nat
    BY <1>1, OneElement, LenProperties DEF Text
  <2>2. <<type>> \in Text /\ Len(<<type>>) = 1
    BY DEF Text
  <2>3. k - 1 \in Nat /\ k - 1 < Len(body) /\ 1 <= k /\ k <= 1 + Len(body)
    BY <2>1
  <2>4. /\ SubSeq(<<type>> \o body, 1, k) = <<type>> \o SubSeq(body, 1, k - 1)
        /\ SubSeq(body, 1, k - 1) \in Text
    BY <2>2, <2>3, PrefixOfConcat
  <2> QED BY <1>1, <2>3, <2>4
<1>2. CASE f \in DataFrame
  <2> DEFINE body == Long(f.payload)
             cut == SubSeq(body, 1, k - 1)
  <2>1. f.payload \in Text /\ f.type = DATA
    BY <1>2 DEF DataFrame
  <2>2. body \in Text /\ Len(f.payload) < LongLimit
    BY <2>1, FieldIsText, FramingAssumption DEF Long, Fits
  <2>3. Encode(f) = <<DATA>> \o body
    BY <2>1 DEF Encode, EncodeDataFrame, DATA, REQUEST, RESPONSE
  <2>4. /\ k - 1 \in Nat /\ k - 1 < Len(body) /\ cut \in Text
        /\ SubSeq(Encode(f), 1, k) = <<DATA>> \o cut
    BY <1>0, <1>1, <2>2, <2>3
  <2>5. ~ReadField(cut).ok
    BY <2>1, <2>2, <2>4, CutLast, FramingAssumption DEF Long
  <2> HIDE DEF cut
  <2>6. ReadData(cut) = Unread
    BY <2>5 DEF ReadData
  <2>7. ReadFrame(<<DATA>> \o cut) = ReadData(cut)
    BY <2>4, ReadsByType
  <2> QED BY <2>4, <2>6, <2>7
<1>3. CASE f \in RequestFrame
  <2> DEFINE i == Short(f.id)
             p == Long(f.payload)
             body == i \o p
             cut == SubSeq(body, 1, k - 1)
             ri == ReadField(cut)
  <2>1. f.id \in Text /\ f.payload \in Text /\ f.type = REQUEST
    BY <1>3 DEF RequestFrame
  <2>2. /\ i \in Text /\ p \in Text
        /\ Len(f.id) < ShortLimit /\ Len(f.payload) < LongLimit
    BY <2>1, FieldIsText, FramingAssumption DEF Long, Short, Fits, ShortFits
  <2>3. body \in Text
    BY <2>2, TakeOff
  <2>4. Encode(f) = <<REQUEST>> \o body
    <3>1. Encode(f) = (<<REQUEST>> \o i) \o p
      BY <2>1 DEF Encode, EncodeRequestFrame, DATA, REQUEST, RESPONSE
    <3>2. <<REQUEST>> \in Text
      BY <1>0 DEF Text
    <3> HIDE DEF i, p
    <3> QED BY <2>2, <3>1, <3>2, Assoc, SMTT(60)
  <2>5. /\ k - 1 \in Nat /\ k - 1 < Len(body) /\ cut \in Text
        /\ SubSeq(Encode(f), 1, k) = <<REQUEST>> \o cut
    BY <1>0, <1>1, <2>3, <2>4
  <2>6. ~ReadField(ri.rest).ok
    BY <2>1, <2>2, <2>5, CutTwo
  <2> HIDE DEF cut
  <2>7. ReadRequest(cut) = Unread
    BY <2>6 DEF ReadRequest
  <2>8. ReadFrame(<<REQUEST>> \o cut) = ReadRequest(cut)
    BY <2>5, ReadsByType
  <2> QED BY <2>5, <2>7, <2>8
<1>4. CASE f \in ResponseFrame
  <2> DEFINE i == Short(f.id)
             e == Short(f.error)
             p == Long(f.payload)
             last == e \o p
             body == i \o last
             cut == SubSeq(body, 1, k - 1)
             ri == ReadField(cut)
             re == ReadField(ri.rest)
  <2>1. f.id \in Text /\ f.error \in Text /\ f.payload \in Text /\ f.type = RESPONSE
    BY <1>4 DEF ResponseFrame
  <2>2. /\ i \in Text /\ e \in Text /\ p \in Text
        /\ Len(f.id) < ShortLimit /\ Len(f.error) < ShortLimit /\ Len(f.payload) < LongLimit
    BY <2>1, FieldIsText, FramingAssumption DEF Long, Short, Fits, ShortFits
  <2>3. last \in Text
    BY <2>2, TakeOff
  <2>3a. body \in Text
    BY <2>2, <2>3, TakeOff
  <2>4. Encode(f) = <<RESPONSE>> \o body
    <3>1. Encode(f) = ((<<RESPONSE>> \o i) \o e) \o p
      BY <2>1 DEF Encode, EncodeResponseFrame, DATA, REQUEST, RESPONSE
    <3>2. <<RESPONSE>> \in Text
      BY <1>0 DEF Text
    <3> HIDE DEF i, e, p
    <3>3. <<RESPONSE>> \o i \in Text
      BY <2>2, <3>2, TakeOff
    <3>4. ((<<RESPONSE>> \o i) \o e) \o p = (<<RESPONSE>> \o i) \o (e \o p)
      BY <2>2, <3>3, Assoc, SMTT(60)
    <3>5. (<<RESPONSE>> \o i) \o (e \o p) = <<RESPONSE>> \o (i \o (e \o p))
      BY <2>2, <2>3, <3>2, Assoc, SMTT(60)
    <3> QED BY <3>1, <3>4, <3>5, Zenon
  <2>5. /\ k - 1 \in Nat /\ k - 1 < Len(body) /\ cut \in Text
        /\ SubSeq(Encode(f), 1, k) = <<RESPONSE>> \o cut
    BY <1>0, <1>1, <2>3a, <2>4
  <2>6. ~ReadField(re.rest).ok
    BY <2>1, <2>2, <2>3, <2>5, CutThree
  <2> HIDE DEF cut
  <2>7. ReadResponse(cut) = Unread
    BY <2>6 DEF ReadResponse
  <2>8. ReadFrame(<<RESPONSE>> \o cut) = ReadResponse(cut)
    BY <2>5, ReadsByType
  <2> QED BY <2>5, <2>7, <2>8
<1> QED BY <1>2, <1>3, <1>4 DEF AnyFrame

(* Of a stream that breaks inside a frame, wherever that is, nothing is    *)
(* handed on.                                                              *)
THEOREM NothingTorn == \A f \in AnyFrame : NotTorn(f)
<1> SUFFICES ASSUME NEW f \in AnyFrame, Fits(f), NEW k \in 0..(Len(Encode(f)) - 1)
             PROVE  StreamReadLoop(SubSeq(Encode(f), 1, k)) = <<>>
  BY DEF NotTorn
<1>1. Encode(f) \in Text /\ Len(Encode(f)) \in Nat /\ k \in Nat /\ k < Len(Encode(f))
  BY EncodeType, LenProperties DEF Text
<1>2. CASE k = 0
  <2>1. SubSeq(Encode(f), 1, k) = <<>>
    BY <1>2, SubSeqEmpty
  <2> QED BY <2>1, LoopOfNothing
<1>3. CASE 0 < k
  <2> DEFINE in == SubSeq(Encode(f), 1, k)
  <2>1. ReadFrame(in) = Unread
    BY <1>1, <1>3, CutFrame
  <2>2. in \in Text /\ 1 <= Len(in)
    <3> DEFINE one == 1
               w == Encode(f)
               cut == SubSeq(w, one, k)
    <3>1. w \in Text /\ k <= Len(w)
      BY <1>1
    <3> HIDE DEF w
    <3>2. \A i \in one..k : w[i] \in Nat
      BY <1>1, <3>1, ElementOfSeq DEF Text
    <3>3. one \in Int /\ k \in Int
      BY <1>1
    <3> HIDE DEF one
    <3>4. cut \in Seq(Nat) /\ Len(cut) = IF one <= k THEN k - one + 1 ELSE 0
      BY <3>2, <3>3, SubSeqProperties
    <3>5. Len(cut) = k
      <4> HIDE DEF cut
      <4> QED BY <1>1, <1>3, <3>4 DEF one
    <3> QED BY <1>1, <1>3, <3>4, <3>5 DEF one, w, Text
  <2> HIDE DEF in
  <2>3. PICK m \in Nat : m = Len(in) /\ 0 \in 0..m /\ 1 \in 0..m /\ 0 + 1 <= m
    BY <2>2, LenProperties DEF Text
  <2>4. PICK t : IsLoop(t, in, m) /\ StreamReadLoop(in) = t[m].handed
    BY <2>2, <2>3, LoopHands
  <2>5. t[0] = [rest |-> in, handed |-> <<>>]
    BY <2>4, LoopFirst
  <2>6. t[0].rest = in /\ t[0].handed = <<>>
    BY <2>5
  <2>7. t[0 + 1] = TurnAfter(t[0])
    BY <2>3, <2>4, LoopNext
  <2>8. TurnAfter(t[0]) = [rest |-> Unread.rest, handed |-> <<>> \o Handed(Unread)]
    BY <2>1, <2>6 DEF TurnAfter
  <2>9. Unread.rest = <<>> /\ Handed(Unread) = <<>> /\ <<>> \o <<>> = <<>>
    <3>1. <<>> \o <<>> = <<>>
      BY EmptySeq, ConcatEmptySeq
    <3> QED BY <3>1 DEF Unread, Handed
  <2>10. t[1].rest = <<>> /\ t[1].handed = <<>>
    BY <2>7, <2>8, <2>9
  <2>11. t[m].handed = t[1].handed
    BY <2>2, <2>3, <2>4, <2>10, LoopIdle
  <2> QED BY <2>4, <2>10, <2>11 DEF in
<1> QED BY <1>1, <1>2, <1>3

(* Two frames on a stream that was opened for three names.                 *)
THEOREM FramesArriveInOrder ==
    \A init \in InitFrame : \A f, g \in AnyFrame : InOrder(init, f, g)
<1> SUFFICES ASSUME NEW init \in InitFrame, NEW f \in AnyFrame, NEW g \in AnyFrame,
                    Fits(f), Fits(g),
                    ShortFits(init.node), ShortFits(init.app), ShortFits(init.name)
             PROVE  Accepted(EncodeStreamInit(init) \o Encode(f) \o Encode(g))
                        = <<[init |-> init, handed |-> <<f, g>>]>>
  BY DEF InOrder
<1>1. Encode(f) \in Text /\ Encode(g) \in Text
  BY EncodeType
<1>2. EncodeStreamInit(init) \in Text
  <2> DEFINE n == Short(init.node)
             a == Short(init.app)
             m == Short(init.name)
  <2>1. n \in Text /\ a \in Text /\ m \in Text
    BY FieldIsText, FramingAssumption DEF Short, InitFrame
  <2>2. <<STREAM_INIT>> \in Text
    BY DEF Text, STREAM_INIT
  <2> HIDE DEF n, a, m
  <2>3. <<STREAM_INIT>> \o n \in Text
    BY <2>1, <2>2, TakeOff
  <2>4. (<<STREAM_INIT>> \o n) \o a \in Text
    BY <2>1, <2>3, TakeOff
  <2>5. ((<<STREAM_INIT>> \o n) \o a) \o m \in Text
    BY <2>1, <2>4, TakeOff
  <2> QED BY <2>5 DEF EncodeStreamInit, n, a, m
<1>3. PICK x \in Text : x = EncodeStreamInit(init)
  BY <1>2
<1>4. PICK u \in Text : u = Encode(f) \o Encode(g)
  BY <1>1, TakeOff
<1>5. (x \o Encode(f)) \o Encode(g) = x \o u
  BY <1>1, <1>4, Assoc
<1>6. Accepted(x \o u) = <<[init |-> init, handed |-> StreamReadLoop(u)]>>
  BY <1>3, AcceptedAsOpened
<1>7. StreamReadLoop(Encode(g)) = <<g>>
  <2>1. <<>> \in Text /\ Encode(g) \o <<>> = Encode(g) /\ <<g>> \o <<>> = <<g>>
    <3>1. <<g>> \in Seq(AnyFrame)
      OBVIOUS
    <3> QED BY <1>1, <3>1, EmptySeq, ConcatEmptySeq DEF Text
  <2>2. StreamReadLoop(Encode(g) \o <<>>) = <<g>> \o StreamReadLoop(<<>>)
    BY <2>1, LoopTakesFrame
  <2> QED BY <2>1, <2>2, LoopOfNothing
<1>8. StreamReadLoop(u) = <<f>> \o <<g>>
  BY <1>1, <1>4, <1>7, LoopTakesFrame
<1>9. <<f>> \o <<g>> = <<f, g>>
  <2>1. /\ <<f>> \in Seq(AnyFrame) /\ <<g>> \in Seq(AnyFrame)
        /\ <<f, g>> \in Seq(AnyFrame)
    OBVIOUS
  <2> DEFINE v == <<f>>
             w == <<g>>
             z == <<f, g>>
  <2>2. Len(v) = 1 /\ Len(w) = 1 /\ v[1] = f /\ w[1] = g /\ Len(z) = 2 /\ z[1] = f /\ z[2] = g
    OBVIOUS
  <2>2a. v \in Seq(AnyFrame) /\ w \in Seq(AnyFrame) /\ z \in Seq(AnyFrame)
    BY <2>1
  <2> HIDE DEF v, w, z
  <2>3. /\ v \o w \in Seq(AnyFrame) /\ Len(v \o w) = 2
        /\ (v \o w)[1] = f /\ (v \o w)[2] = g
    <3>1. /\ v \o w \in Seq(AnyFrame) /\ Len(v \o w) = Len(v) + Len(w)
          /\ \A i \in 1..(Len(v) + Len(w)) :
                (v \o w)[i] = IF i <= Len(v) THEN v[i] ELSE w[i - Len(v)]
      BY <2>2a, ConcatProperties, Zenon
    <3>2. \A i \in 1..2 : (v \o w)[i] = IF i <= 1 THEN v[i] ELSE w[i - 1]
      BY <2>2, <3>1
    <3> QED BY <2>2, <3>1, <3>2
  <2>4. v \o w = z
    <3>1. \A i \in 1..Len(z) : (v \o w)[i] = z[i]
      BY <2>2, <2>3
    <3> QED BY <2>2, <2>2a, <2>3, <3>1, SeqEqual
  <2> QED BY <2>4 DEF v, w, z
<1> QED BY <1>3, <1>5, <1>6, <1>8, <1>9

(* The frames, texts and names of the runs are some of these.              *)
LEMMA TextsAreText == \A n \in Nat : TextsTo(n) \subseteq Text
<1> SUFFICES ASSUME NEW n \in Nat, NEW i \in 0..n, NEW t \in [1..i -> {1, 3}]
             PROVE  t \in Text
  BY DEF TextsTo
<1>1. i \in Nat
  OBVIOUS
<1>2. {1, 3} \subseteq Nat
  OBVIOUS
<1>3. t \in [1..i -> Nat]
  BY <1>2
<1> QED BY <1>1, <1>3, SeqDef DEF Text

(* The frames of the run are frames.                                       *)
LEMMA FramesAreFrames == Frames \subseteq AnyFrame /\ Few \subseteq AnyFrame /\ Inits \subseteq InitFrame
<1>1. TextsTo(2) \subseteq Text /\ TextsTo(ShortLimit) \subseteq Text /\ TextsTo(LongLimit) \subseteq Text
  BY TextsAreText, FramingAssumption
<1>2. {<<>>, <<1>>, <<3>>, <<1, 3>>, <<3, 1>>, <<3, 3>>} \subseteq Text
  BY DEF Text
<1>3. Frames \subseteq AnyFrame
  BY <1>1, <1>2 DEF Frames, AnyFrame, DataFrame, RequestFrame, ResponseFrame, Names, Texts
<1>4. Few \subseteq AnyFrame
  BY <1>2 DEF Few, AnyFrame, DataFrame, RequestFrame, ResponseFrame
<1>5. Inits \subseteq InitFrame
  BY <1>1, <1>2 DEF Inits, InitFrame, Names
<1> QED BY <1>3, <1>4, <1>5

(* What the run of the streams checks of the codec, at any limits: a frame *)
(* is read back exactly if it fits, ...                                    *)
THEOREM StreamsFramesInStep == Spec => []FramesInStep
<1>1. FramesInStep
  <2>1. \A f \in Frames, g \in Few : InStep(f, <<>>) /\ InStep(f, Encode(g))
    <3>1. <<>> \in Text /\ \A g \in Few : Encode(g) \in Text
      BY FramesAreFrames, EncodeType DEF Text
    <3> QED BY <3>1, FramesAreFrames, FrameInStep
  <2> QED BY <2>1 DEF FramesInStep
<1> QED BY <1>1, PTL

(* ... nothing of a frame that is cut is handed on, ...                    *)
THEOREM StreamsFramesNotTorn == Spec => []FramesNotTorn
<1>1. FramesNotTorn
  BY FramesAreFrames, NothingTorn DEF FramesNotTorn
<1> QED BY <1>1, PTL

(* ... and an accepted stream has the names it was opened with, and hands  *)
(* on its frames in order.                                                 *)
THEOREM StreamsFramesInOrder == Spec => []FramesInOrder
<1>1. FramesInOrder
  BY FramesAreFrames, FramesArriveInOrder DEF FramesInOrder
<1> QED BY <1>1, PTL
=============================================================================
