-------------------------- MODULE FixFraming_proofs --------------------------
(***************************************************************************)
(* Proofs about the receive path of a FIX session, for every size of the   *)
(* buffer and whatever the bytes are: the buffer is never exceeded, no     *)
(* byte in it is lost, repeated or moved before another, and no message    *)
(* sent before the first broken one is lost.                               *)
(***************************************************************************)
EXTENDS FixFraming, FixWire_proofs

SentMessages == UNION {Messages(n) : n \in Nat}

LEMMA MessageIsBytes ==
  ASSUME NEW m \in SentMessages
  PROVE  \E S : Bytes(m) \in Seq(S)
<1> DEFINE raw == Unparse(Val(0),
                          IF m.kind = "type" THEN Val(9) ELSE Known,
                          m.seq,
                          IF m.kind = "tag" THEN Val(9) ELSE Tag(Text),
                          m.text,
                          CASE m.kind = "long" -> 5 [] m.kind = "short" -> -5
                            [] OTHER -> 0)
           sum == CheckSumOf(<<>>)
<1>1. m.text \in Nat /\ m.cut \in Nat
  <2>1. PICK n \in Nat : m \in Messages(n)
    BY DEF SentMessages
  <2>2. m.text \in Texts /\ (m.cut = 0 \/ m.cut \in Cuts)
    BY <2>1 DEF Messages
  <2>3. Texts \subseteq Nat /\ Cuts \subseteq Nat
    BY SizeAssumption
  <2>4. \A x \in Texts : x \in Nat
    BY <2>3
  <2>5. \A x \in Cuts : x \in Nat
    BY <2>3
  <2>6. m.text \in Nat
    BY <2>2, <2>4
  <2>7. m.cut \in Nat
    BY <2>2, <2>5
  <2> QED BY <2>6, <2>7
<1>2. PICK S : raw \in Seq(S)
  BY <1>1, UnparseIsBytes
<1>3. Bytes(m) = CASE m.kind = "cut" -> SubSeq(raw, 1, m.cut)
                   [] m.kind = "sum" -> [raw EXCEPT ![Len(raw) - 1] = sum]
                   [] OTHER -> raw
  BY DEF Bytes
<1> HIDE DEF raw, sum
<1>4. CASE m.kind = "cut"
  BY <1>1, <1>2, <1>3, <1>4, CutIsBytes
<1>5. CASE m.kind = "sum"
  <2> DEFINE T == S \cup {sum}
             x == [raw EXCEPT ![Len(raw) - 1] = sum]
  <2>1. x = [i \in 1..Len(raw) |-> IF i = Len(raw) - 1 THEN sum ELSE raw[i]]
        /\ Len(raw) \in Nat
    BY <1>2
  <2>2. \A i \in 1..Len(raw) : raw[i] \in S
    BY <1>2
  <2> HIDE DEF x
  <2>3. x \in Seq(T)
    BY <2>1, <2>2
  <2>4. Bytes(m) = x
    BY <1>3, <1>5 DEF x
  <2> QED BY <2>3, <2>4
<1>6. CASE m.kind \notin {"cut", "sum"}
  BY <1>2, <1>3, <1>6
<1> QED BY <1>4, <1>5, <1>6

-----------------------------------------------------------------------------
(***************************************************************************)
(* The invariant.                                                          *)
(***************************************************************************)
BytesSent == [i \in 1..Len(sent) |-> Bytes(sent[i])]

Within == start \in 0..Capacity /\ start + Len(unread) <= Capacity

InARow(a, b, c) == Cat(a, Cat(b, c))

\* What was taken out of the buffer, what is in it and what is on the way are,
\* in this order, the bytes sent.
Stream(S, taken) ==
  /\ taken \in Seq(S) /\ unread \in Seq(S) /\ wire \in Seq(S)
  /\ BytesSent \in Seq(Seq(S))
  /\ FlattenSeq(BytesSent) = InARow(taken, unread, wire)

IInv ==
  /\ sent \in Seq(SentMessages)
  /\ Within
  /\ \E S : \E taken \in Seq(S) : Stream(S, taken)

LEMMA IInvIsEnough == IInv => TypeOK
<1> SUFFICES ASSUME IInv PROVE TypeOK
  OBVIOUS
<1>1. PICK S : \E taken \in Seq(S) : Stream(S, taken)
  BY DEF IInv
<1>2. PICK taken \in Seq(S) : Stream(S, taken)
  BY <1>1
<1>3. unread \o wire \in Seq(S)
  BY <1>2 DEF Stream
<1>4. IsSuffix(unread \o wire, FlattenSeq(BytesSent))
  BY <1>2, <1>3, SuffixIs DEF Stream, InARow, Cat
<1> QED BY <1>4 DEF IInv, Within, TypeOK, BytesSent

LEMMA InitIInv == Init => IInv
<1> SUFFICES ASSUME Init PROVE IInv
  OBVIOUS
<1>1. sent = <<>> /\ wire = <<>> /\ unread = <<>> /\ start = 0
  BY DEF Init
<1>2. BytesSent = <<>>
  BY <1>1 DEF BytesSent
<1>3. FlattenSeq(BytesSent) = <<>>
  BY <1>2 DEF FlattenSeq
<1>4. Stream({}, <<>>)
  BY <1>1, <1>2, <1>3 DEF Stream, InARow, Cat
<1>5. Within
  BY <1>1, SizeAssumption DEF Within
<1>6. sent \in Seq(SentMessages) /\ <<>> \in Seq({})
  BY <1>1
<1>7. \E taken \in Seq({}) : Stream({}, taken)
  BY <1>4, <1>6
<1> QED BY <1>5, <1>6, <1>7 DEF IInv

\* A message more is bytes more on the way.
LEMMA SendIInv == IInv /\ Send => IInv'
<1> SUFFICES ASSUME IInv, Send PROVE IInv'
  OBVIOUS
<1>1. PICK m \in Messages(Len(sent) + 1) :
        sent' = Append(sent, m) /\ wire' = wire \o Bytes(m)
  BY DEF Send
<1>2. start' = start /\ unread' = unread
  BY DEF Send
<1>3. PICK S : \E taken \in Seq(S) : Stream(S, taken)
  BY DEF IInv
<1>4. PICK taken \in Seq(S) : Stream(S, taken)
  BY <1>3
<1>5. sent \in Seq(SentMessages) /\ Len(sent) + 1 \in Nat
  BY DEF IInv
<1>6. m \in SentMessages
  BY <1>5 DEF SentMessages
<1>7. PICK R : Bytes(m) \in Seq(R)
  BY <1>6, MessageIsBytes
<1> DEFINE T == S \cup R
           x == Bytes(m)
<1>8. S \subseteq T /\ R \subseteq T
  OBVIOUS
<1> HIDE DEF T, x
<1>9. Seq(S) \subseteq Seq(T) /\ Seq(R) \subseteq Seq(T)
  BY <1>8, SeqMonotonic
<1>10. Seq(Seq(S)) \subseteq Seq(Seq(T))
  BY <1>9, SeqMonotonic
<1>11. x \in Seq(T) /\ taken \in Seq(T) /\ unread \in Seq(T) /\ wire \in Seq(T)
       /\ BytesSent \in Seq(Seq(T))
  BY <1>4, <1>7, <1>9, <1>10 DEF Stream, x
<1>12. BytesSent' = Append(BytesSent, x)
  <2>1. Len(sent') = Len(sent) + 1 /\ Len(sent) \in Nat /\ sent'[Len(sent) + 1] = m
        /\ \A i \in 1..Len(sent) : sent'[i] = sent[i]
    BY <1>1, <1>5, <1>6
  <2>2. BytesSent' = [i \in 1..(Len(sent) + 1) |-> Bytes(sent'[i])]
    BY <2>1 DEF BytesSent
  <2>3. Len(BytesSent) = Len(sent)
    BY <2>1 DEF BytesSent
  <2>4. Append(BytesSent, x)
          = [i \in 1..(Len(sent) + 1) |-> IF i \in 1..Len(sent) THEN BytesSent[i] ELSE x]
    <3> DEFINE y == Append(BytesSent, x)
    <3>1. y \in Seq(Seq(T)) /\ Len(y) = Len(sent) + 1 /\ y[Len(sent) + 1] = x
          /\ \A i \in 1..Len(sent) : y[i] = BytesSent[i]
      BY <1>11, <2>1, <2>3
    <3> HIDE DEF y
    <3>2. y = [i \in 1..(Len(sent) + 1) |-> y[i]]
      BY <3>1
    <3>3. \A i \in 1..(Len(sent) + 1) :
            y[i] = IF i \in 1..Len(sent) THEN BytesSent[i] ELSE x
      BY <2>1, <3>1
    <3>4. y = [i \in 1..(Len(sent) + 1) |->
                 IF i \in 1..Len(sent) THEN BytesSent[i] ELSE x]
      BY <3>2, <3>3
    <3> QED BY <3>4 DEF y
  <2>5. \A i \in 1..Len(sent) : BytesSent[i] = Bytes(sent'[i])
    BY <2>1 DEF BytesSent
  <2>6. \A i \in 1..(Len(sent) + 1) : i \notin 1..Len(sent) => i = Len(sent) + 1
    BY <2>1
  <2>7. \A i \in 1..(Len(sent) + 1) :
          Bytes(sent'[i]) = IF i \in 1..Len(sent) THEN BytesSent[i] ELSE x
    BY <2>1, <2>5, <2>6 DEF x
  <2> QED BY <2>2, <2>4, <2>7
<1>13. FlattenSeq(BytesSent') = InARow(taken, unread', wire')
  <2>1. FlattenSeq(BytesSent') = Cat(InARow(taken, unread, wire), x)
    BY <1>4, <1>11, <1>12, FlattenAppend DEF Stream, Cat
  <2>2. Cat(unread, wire) \in Seq(T)
    BY <1>11, CatIs
  <2>3. Cat(Cat(unread, wire), x) = Cat(unread, Cat(wire, x))
    BY <1>11, CatAssociates
  <2>4. Cat(Cat(taken, Cat(unread, wire)), x)
          = Cat(taken, Cat(Cat(unread, wire), x))
    BY <1>11, <2>2, CatAssociates
  <2>5. wire' = Cat(wire, x)
    BY <1>1 DEF Cat, x
  <2> QED BY <1>2, <2>1, <2>3, <2>4, <2>5 DEF InARow
<1>14. wire' \in Seq(T) /\ BytesSent' \in Seq(Seq(T))
  BY <1>1, <1>11, <1>12 DEF x
<1>15. Stream(T, taken)'
  BY <1>2, <1>11, <1>13, <1>14 DEF Stream
<1>16. sent' \in Seq(SentMessages)
  BY <1>1, <1>5, <1>6
<1>17. Within'
  BY <1>2 DEF IInv, Within
<1> QED BY <1>11, <1>15, <1>16, <1>17 DEF IInv

\* What is left behind in the buffer is taken out of the stream.
LEMMA Behinds ==
  ASSUME NEW S, NEW u \in Seq(S), NEW at \in 1..(Len(u) + 1)
  PROVE  From(u, at) \in Seq(S) /\ Len(From(u, at)) = Len(u) + 1 - at
<1>1. at - 1 \in 0..Len(u) /\ (at - 1) + 1 = at
      /\ Len(u) - (at - 1) = Len(u) + 1 - at
  OBVIOUS
<1> QED BY <1>1, Divided DEF From

LEMMA Advances ==
  ASSUME NEW S, NEW taken \in Seq(S), NEW u \in Seq(S), NEW w \in Seq(S),
         NEW at \in 1..(Len(u) + 1)
  PROVE  \E t \in Seq(S) : InARow(taken, u, w) = InARow(t, From(u, at), w)
<1> DEFINE a == SubSeq(u, 1, at - 1)
           b == From(u, at)
<1>1. at - 1 \in 0..Len(u) /\ (at - 1) + 1 = at
  OBVIOUS
<1>2. a \in Seq(S) /\ b \in Seq(S)
  BY <1>1, Divided DEF From
<1>3. u = Cat(a, b)
  BY <1>1, Divided DEF From
<1> HIDE DEF a, b
<1>4. Cat(b, w) \in Seq(S) /\ Cat(taken, a) \in Seq(S)
  BY <1>2, CatIs
<1>5. Cat(Cat(a, b), w) = Cat(a, Cat(b, w))
  BY <1>2, CatAssociates
<1>6. Cat(Cat(taken, a), Cat(b, w)) = Cat(taken, Cat(a, Cat(b, w)))
  BY <1>2, <1>4, CatAssociates
<1>7. InARow(taken, u, w) = InARow(Cat(taken, a), b, w)
  BY <1>3, <1>5, <1>6 DEF InARow
<1> QED BY <1>4, <1>7 DEF b

\* Bytes that are read keep their order.
More(u, w, n) == u \o SubSeq(w, 1, n)

LEMMA Refills ==
  ASSUME NEW S, NEW u \in Seq(S), NEW w \in Seq(S), NEW n \in 0..Len(w)
  PROVE  /\ More(u, w, n) \in Seq(S) /\ Len(More(u, w, n)) = Len(u) + n
         /\ From(w, n + 1) \in Seq(S)
         /\ \A t : InARow(t, More(u, w, n), From(w, n + 1)) = InARow(t, u, w)
<1> DEFINE a == SubSeq(w, 1, n)
           b == From(w, n + 1)
<1>1. a \in Seq(S) /\ Len(a) = n
  BY Divided DEF From
<1>2. b \in Seq(S)
  BY Divided DEF From
<1>3. Cat(a, b) = w
  BY Divided DEF From
<1> HIDE DEF a, b
<1>4. Cat(u, a) \in Seq(S) /\ Len(Cat(u, a)) = Len(u) + n
  BY <1>1, CatIs
<1>5. Cat(Cat(u, a), b) = Cat(u, Cat(a, b))
  BY <1>1, <1>2, CatAssociates
<1>6. \A t : InARow(t, Cat(u, a), b) = InARow(t, u, w)
  BY <1>3, <1>5 DEF InARow
<1>7. More(u, w, n) = Cat(u, a)
  BY DEF More, a, Cat
<1> QED BY <1>2, <1>4, <1>6, <1>7 DEF b

\* What a call that parses u, from st on in the buffer, leaves there.
LEMMA BufferWithin ==
  ASSUME NEW S, NEW taken \in Seq(S), NEW u \in Seq(S), wire' \in Seq(S),
         NEW st \in Nat, st + Len(u) <= Capacity, BytesSent' \in Seq(Seq(S)),
         FlattenSeq(BytesSent') = InARow(taken, u, wire'),
         BufferBecomes(st, u, Parse(u, MaxMessage))
  PROVE  Within' /\ \E t \in Seq(S) : Stream(S, t)'
<1> DEFINE at == Parse(u, MaxMessage).at
<1>1. at \in 1..(Len(u) + 1) /\ Len(u) \in Nat
  BY ParseWithin, SizeAssumption
<1>2. start' = st + at - 1 /\ unread' = From(u, at)
  BY DEF BufferBecomes
<1> HIDE DEF at
<1>3. unread' \in Seq(S) /\ Len(unread') = Len(u) + 1 - at
  BY <1>1, <1>2, Behinds
<1>4. PICK t \in Seq(S) : InARow(taken, u, wire') = InARow(t, unread', wire')
  BY <1>1, <1>2, Advances
<1>5. Stream(S, t)'
  BY <1>3, <1>4 DEF Stream
<1>6. Within'
  BY <1>1, <1>2, <1>3, SizeAssumption DEF Within
<1> QED BY <1>5, <1>6

LEMMA RecvIInv == IInv /\ Recv => IInv'
<1> SUFFICES ASSUME IInv, Recv PROVE IInv'
  OBVIOUS
<1>1. PICK S : \E taken \in Seq(S) : Stream(S, taken)
  BY DEF IInv
<1>2. PICK taken \in Seq(S) : Stream(S, taken)
  BY <1>1
<1>3. unread \in Seq(S) /\ wire \in Seq(S) /\ BytesSent \in Seq(Seq(S))
      /\ FlattenSeq(BytesSent) = InARow(taken, unread, wire) /\ Len(unread) \in Nat
  BY <1>2 DEF Stream
<1>4. start \in Nat /\ start + Len(unread) <= Capacity
  BY DEF IInv, Within
<1>5. sent' = sent /\ BytesSent' = BytesSent
  BY DEF Recv, BytesSent
<1> DEFINE p == Parse(unread, MaxMessage)
           at == p.at
           rest == From(unread, at)
           st == Compact(start + at - 1, rest)
<1>6. p.got \in BOOLEAN /\ at \in 1..(Len(unread) + 1)
  BY <1>3, ParseWithin, SizeAssumption
<1>7. IF p.got THEN TakeParsed(p)
      ELSE \E n \in 0..Len(wire) : MayRead(n, Room(st, rest)) /\ Receive(st, rest, n)
  BY DEF Recv
<1>8. CASE p.got
  <2>1. BufferBecomes(start, unread, p) /\ wire' = wire
    BY <1>7, <1>8 DEF TakeParsed
  <2>2. Within' /\ \E t \in Seq(S) : Stream(S, t)'
    BY <1>3, <1>4, <1>5, <2>1, BufferWithin
  <2> QED BY <1>5, <2>2 DEF IInv
<1>9. CASE ~p.got
  <2>1. PICK n \in 0..Len(wire) :
          MayRead(n, Room(st, rest)) /\ Receive(st, rest, n)
    BY <1>7, <1>9
  <2> HIDE DEF p, at
  <2>2. unread \in Seq(S) /\ wire \in Seq(S)
    BY <1>3
  <2>2a. rest \in Seq(S) /\ Len(rest) = Len(unread) + 1 - at
    BY <2>2, <1>6, Behinds
  <2>3. PICK t \in Seq(S) : InARow(taken, unread, wire) = InARow(t, rest, wire)
    BY <2>2, <1>6, Advances
  <2> HIDE DEF rest
  <2>4. st \in Nat /\ st + Len(rest) <= Capacity
    <3> DEFINE here == start + at - 1
    <3>1. here \in Nat /\ here + Len(rest) = start + Len(unread)
      BY <1>3, <1>4, <1>6, <2>2a
    <3>2. Len(rest) \in Nat
      BY <2>2a
    <3>3. st = here \/ st = 0
      BY DEF Compact
    <3> HIDE DEF st, here
    <3> QED BY <1>3, <1>4, <3>1, <3>2, <3>3, SizeAssumption
  <2> HIDE DEF st
  <2> DEFINE more == More(rest, wire, n)
  <2>5. more \in Seq(S) /\ Len(more) = Len(rest) + n
        /\ From(wire, n + 1) \in Seq(S)
    BY <2>2, <2>2a, Refills
  <2>5a. InARow(t, more, From(wire, n + 1)) = InARow(t, rest, wire)
    BY <2>2, <2>2a, Refills
  <2>6. wire' = From(wire, n + 1) /\ BufferBecomes(st, more, Parse(more, MaxMessage))
    BY <2>1 DEF Receive, More
  <2> HIDE DEF more
  <2>7. st + Len(more) <= Capacity
    <3>1. Len(rest) \in Nat /\ n \in Nat
      BY <2>2, <2>2a
    <3>2. n <= IF Room(st, rest) > 0 THEN Room(st, rest) ELSE 0
      BY <2>1 DEF MayRead
    <3>3. Room(st, rest) = Capacity - (st + Len(rest)) - MaxMessage
      BY DEF Room, Remaining
    <3> QED BY <2>4, <2>5, <3>1, <3>2, <3>3, SizeAssumption
  <2>8. FlattenSeq(BytesSent') = InARow(t, more, wire')
    BY <1>3, <1>5, <2>3, <2>5a, <2>6
  <2>9. Within' /\ \E v \in Seq(S) : Stream(S, v)'
    BY <1>3, <1>5, <2>4, <2>5, <2>6, <2>7, <2>8, BufferWithin
  <2> QED BY <1>5, <2>9 DEF IInv
<1> QED BY <1>6, <1>8, <1>9

\* The buffer of a session is never exceeded, and its bytes are the last the
\* peer sent before those on the wire: whatever is sent, whole, cut or
\* unreadable, and however recv cuts it into pieces, no call to
\* fix_session_recv loses, repeats or moves a byte.
THEOREM NothingMisplaced == Spec => []TypeOK
<1>1. IInv /\ UNCHANGED vars => IInv'
  BY DEF IInv, Within, Stream, BytesSent, vars
<1>2. IInv /\ [Next]_vars => IInv'
  BY <1>1, SendIInv, RecvIInv DEF Next
<1>3. Spec => []IInv
  BY InitIInv, <1>2, PTL DEF Spec
<1> QED BY <1>3, IInvIsEnough, PTL

-----------------------------------------------------------------------------
(***************************************************************************)
(* A whole message, field after field, and what the parser makes of it.    *)
(***************************************************************************)
LengthOf(text) == 11 + text
Texted(text) == [i \in 1..text |-> Val(0)]
HeadPart(text) ==
  Cat(Field(Tag(BeginString), <<Val(0)>>), Field(Tag(BodyLength), <<Val(LengthOf(text))>>))
BodyPart(n, text) ==
  Cat(Cat(Field(Tag(MsgType), <<Known>>), Field(Tag(MsgSeqNum), <<Val(n)>>)),
      Field(Tag(Text), Texted(text)))
Summed(n, text) == Cat(HeadPart(text), BodyPart(n, text))
SumFor(n, text) == CheckSumOf(Summed(n, text))
Raw(n, text) == Cat(Summed(n, text), Field(Tag(CheckSum), <<SumFor(n, text)>>))

LEMMA WireTags ==
  ASSUME NEW S, Symbols \subseteq S
  PROVE  /\ Tag(BeginString) \in S /\ Tag(BodyLength) \in S /\ Tag(MsgType) \in S
         /\ Tag(MsgSeqNum) \in S /\ Tag(Text) \in S /\ Tag(CheckSum) \in S
         /\ Eq \in S /\ Soh \in S /\ Known \in S /\ \A v \in Int : Val(v) \in S
<1>1. /\ BeginString \in Nat /\ BodyLength \in Nat /\ MsgType \in Nat
      /\ MsgSeqNum \in Nat /\ Text \in Nat /\ CheckSum \in Nat
  BY DEF BeginString, BodyLength, MsgType, MsgSeqNum, Text, CheckSum
<1> QED BY <1>1 DEF Symbols, Known

LEMMA TextedIs ==
  ASSUME NEW S, Symbols \subseteq S, NEW text \in Nat
  PROVE  Texted(text) \in Seq(S) /\ Len(Texted(text)) = text /\ IsValue(Texted(text))
<1>1. Val(0) \in S /\ Val(0) # Soh
  BY WireTags, SymbolsDiffer
<1> QED BY <1>1 DEF Texted, IsValue

\* A field of one symbol.
LEMMA OneSymbol ==
  ASSUME NEW S, NEW tag \in S, NEW v \in S, Eq \in S, Soh \in S
  PROVE  Field(tag, <<v>>) \in Seq(S) /\ Len(Field(tag, <<v>>)) = 4
<1> DEFINE value == <<v>>
<1>1. value \in Seq(S) /\ Len(value) = 1
  OBVIOUS
<1> HIDE DEF value
<1>1a. tag \in S /\ Eq \in S /\ Soh \in S
  OBVIOUS
<1>2. Field(tag, value) \in Seq(S) /\ Len(Field(tag, value)) = Len(value) + 3
  <2> PICK t : t = tag
    OBVIOUS
  <2>1. t \in S
    BY <1>1a
  <2>2. Field(t, value) \in Seq(S) /\ Len(Field(t, value)) = Len(value) + 3
    BY <1>1, <1>1a, <2>1, FieldSymbols
  <2> QED BY <2>2
<1>3. Field(tag, value) \in Seq(S) /\ Len(Field(tag, value)) = 4
  BY <1>1, <1>2
<1> QED BY <1>3 DEF value

\* What stands where in the bytes of a message.
Laid(u, n, text) ==
  /\ StandsAt(u, 0, Field(Tag(BeginString), <<Val(0)>>))
  /\ StandsAt(u, 4, Field(Tag(BodyLength), <<Val(LengthOf(text))>>))
  /\ StandsAt(u, 8, Field(Tag(MsgType), <<Known>>))
  /\ StandsAt(u, 12, Field(Tag(MsgSeqNum), <<Val(n)>>))
  /\ StandsAt(u, 16, Field(Tag(Text), Texted(text)))
  /\ StandsAt(u, 8 + LengthOf(text), Field(Tag(CheckSum), <<SumFor(n, text)>>))
  /\ StandsAt(u, 0, Summed(n, text))

\* The fields.
RawFieldsIn(S, n, text) ==
  LET f1 == Field(Tag(BeginString), <<Val(0)>>)
      f2 == Field(Tag(BodyLength), <<Val(LengthOf(text))>>)
      f3 == Field(Tag(MsgType), <<Known>>)
      f4 == Field(Tag(MsgSeqNum), <<Val(n)>>)
      f5 == Field(Tag(Text), Texted(text))
      f6 == Field(Tag(CheckSum), <<SumFor(n, text)>>)
  IN  /\ f1 \in Seq(S) /\ Len(f1) = 4 /\ f2 \in Seq(S) /\ Len(f2) = 4
      /\ f3 \in Seq(S) /\ Len(f3) = 4 /\ f4 \in Seq(S) /\ Len(f4) = 4
      /\ f5 \in Seq(S) /\ Len(f5) = text + 3 /\ f6 \in Seq(S) /\ Len(f6) = 4
      /\ Cat(f3, f4) \in Seq(S) /\ Len(Cat(f3, f4)) = 8

LEMMA RawFields ==
  ASSUME NEW S, Symbols \subseteq S, NEW n \in Nat, NEW text \in Nat, SumFor(n, text) \in S
  PROVE  RawFieldsIn(S, n, text)
<1> DEFINE f1 == Field(Tag(BeginString), <<Val(0)>>)
           f2 == Field(Tag(BodyLength), <<Val(LengthOf(text))>>)
           f3 == Field(Tag(MsgType), <<Known>>)
           f4 == Field(Tag(MsgSeqNum), <<Val(n)>>)
           f5 == Field(Tag(Text), Texted(text))
           f6 == Field(Tag(CheckSum), <<SumFor(n, text)>>)
           f34 == Cat(f3, f4)
<1>0. LengthOf(text) \in Nat
  BY DEF LengthOf
<1>1. /\ Tag(BeginString) \in S /\ Tag(BodyLength) \in S /\ Tag(MsgType) \in S
      /\ Tag(MsgSeqNum) \in S /\ Tag(Text) \in S /\ Tag(CheckSum) \in S
      /\ Eq \in S /\ Soh \in S /\ Known \in S /\ Val(0) \in S /\ Val(n) \in S
      /\ Val(LengthOf(text)) \in S
  BY <1>0, WireTags
<1>2. f1 \in Seq(S) /\ Len(f1) = 4
  BY <1>1, OneSymbol
<1>3. f2 \in Seq(S) /\ Len(f2) = 4
  BY <1>1, OneSymbol
<1>4. f3 \in Seq(S) /\ Len(f3) = 4
  BY <1>1, OneSymbol
<1>5. f4 \in Seq(S) /\ Len(f4) = 4
  BY <1>1, OneSymbol
<1>6. f6 \in Seq(S) /\ Len(f6) = 4
  BY <1>1, OneSymbol
<1>7. f5 \in Seq(S) /\ Len(f5) = text + 3
  <2> DEFINE value == Texted(text)
  <2>1. value \in Seq(S) /\ Len(value) = text
    BY TextedIs
  <2>2. Tag(Text) \in S /\ Eq \in S /\ Soh \in S
    BY <1>1
  <2>3. f5 = Field(Tag(Text), value)
    OBVIOUS
  <2> HIDE DEF value, f5
  <2>4. /\ Field(Tag(Text), value) \in Seq(S)
        /\ Len(Field(Tag(Text), value)) = Len(value) + 3
    BY <2>1, <2>2, FieldSymbols
  <2> QED BY <2>1, <2>3, <2>4
<1> HIDE DEF f1, f2, f3, f4, f5, f6
<1>9. f34 \in Seq(S) /\ Len(f34) = 8
  <2>1. f34 \in Seq(S) /\ Len(f34) = Len(f3) + Len(f4)
    BY <1>4, <1>5, CatIs
  <2> QED BY <1>4, <1>5, <2>1
<1> QED BY <1>2, <1>3, <1>4, <1>5, <1>6, <1>7, <1>9
        DEF RawFieldsIn, f1, f2, f3, f4, f5, f6, f34

LEMMA RawParts ==
  ASSUME NEW S, Symbols \subseteq S, NEW n \in Nat, NEW text \in Nat, SumFor(n, text) \in S
  PROVE  /\ HeadPart(text) \in Seq(S) /\ Len(HeadPart(text)) = 8
         /\ BodyPart(n, text) \in Seq(S) /\ Len(BodyPart(n, text)) = LengthOf(text)
         /\ Summed(n, text) \in Seq(S) /\ Len(Summed(n, text)) = 8 + LengthOf(text)
         /\ Raw(n, text) \in Seq(S) /\ Len(Raw(n, text)) = 12 + LengthOf(text)
<1> DEFINE f1 == Field(Tag(BeginString), <<Val(0)>>)
           f2 == Field(Tag(BodyLength), <<Val(LengthOf(text))>>)
           f3 == Field(Tag(MsgType), <<Known>>)
           f4 == Field(Tag(MsgSeqNum), <<Val(n)>>)
           f5 == Field(Tag(Text), Texted(text))
           f6 == Field(Tag(CheckSum), <<SumFor(n, text)>>)
           f34 == Cat(f3, f4)
<1>0. LengthOf(text) \in Nat
  BY DEF LengthOf
<1>1. /\ f1 \in Seq(S) /\ Len(f1) = 4 /\ f2 \in Seq(S) /\ Len(f2) = 4
      /\ f5 \in Seq(S) /\ Len(f5) = text + 3 /\ f6 \in Seq(S) /\ Len(f6) = 4
      /\ f34 \in Seq(S) /\ Len(f34) = 8
  BY RawFields DEF RawFieldsIn
<1> HIDE DEF f1, f2, f3, f4, f5, f6
<1>8. HeadPart(text) \in Seq(S) /\ Len(HeadPart(text)) = 8
  <2>1. Cat(f1, f2) \in Seq(S) /\ Len(Cat(f1, f2)) = Len(f1) + Len(f2)
    BY <1>1, CatIs
  <2>2. HeadPart(text) = Cat(f1, f2)
    BY DEF HeadPart, f1, f2
  <2> QED BY <1>1, <2>1, <2>2
<1>10. BodyPart(n, text) = Cat(f34, f5)
  BY DEF BodyPart, f3, f4, f5
<1> HIDE DEF f34
<1>11. BodyPart(n, text) \in Seq(S) /\ Len(BodyPart(n, text)) = LengthOf(text)
  <2>1. Cat(f34, f5) \in Seq(S) /\ Len(Cat(f34, f5)) = Len(f34) + Len(f5)
    BY <1>1, CatIs
  <2> QED BY <1>1, <1>10, <2>1 DEF LengthOf
<1>12. Summed(n, text) \in Seq(S) /\ Len(Summed(n, text)) = 8 + LengthOf(text)
  <2>1. /\ Cat(HeadPart(text), BodyPart(n, text)) \in Seq(S)
        /\ Len(Cat(HeadPart(text), BodyPart(n, text)))
             = Len(HeadPart(text)) + Len(BodyPart(n, text))
    BY <1>8, <1>11, CatIs
  <2> QED BY <1>8, <1>11, <2>1 DEF Summed
<1>13. Raw(n, text) \in Seq(S) /\ Len(Raw(n, text)) = 12 + LengthOf(text)
  <2>1. /\ Cat(Summed(n, text), f6) \in Seq(S)
        /\ Len(Cat(Summed(n, text), f6)) = Len(Summed(n, text)) + Len(f6)
    BY <1>1, <1>12, CatIs
  <2>2. Raw(n, text) = Cat(Summed(n, text), f6)
    BY DEF Raw, f6
  <2> QED BY <1>0, <1>1, <1>12, <2>1, <2>2
<1> QED BY <1>8, <1>11, <1>12, <1>13

LEMMA RawIs ==
  ASSUME NEW n \in Nat, NEW text \in Nat
  PROVE  Unparse(Val(0), Known, n, Tag(Text), text, 0) = Raw(n, text)
<1> DEFINE body == Field(Tag(MsgType), <<Known>>)
                     \o Field(Tag(MsgSeqNum), <<Val(n)>>)
                     \o Field(Tag(Text), [i \in 1..text |-> Val(0)])
           head == Field(Tag(BeginString), <<Val(0)>>)
                     \o Field(Tag(BodyLength), <<Val(Len(body) + 0)>>)
<1>1. Unparse(Val(0), Known, n, Tag(Text), text, 0)
        = head \o body \o Field(Tag(CheckSum), <<CheckSumOf(head \o body)>>)
  BY DEF Unparse
<1>2. body = BodyPart(n, text)
  BY DEF BodyPart, Cat, Texted
<1>3. Len(BodyPart(n, text)) = LengthOf(text) /\ LengthOf(text) + 0 = LengthOf(text)
  <2> DEFINE S == Symbols \cup {SumFor(n, text)}
  <2>1. Symbols \subseteq S /\ SumFor(n, text) \in S
    OBVIOUS
  <2> HIDE DEF S
  <2>2. Len(BodyPart(n, text)) = LengthOf(text)
    BY <2>1, RawParts
  <2> QED BY <2>2 DEF LengthOf
<1> HIDE DEF body
<1>4. head = HeadPart(text)
  BY <1>2, <1>3 DEF HeadPart, Cat
<1> HIDE DEF head
<1> QED BY <1>1, <1>2, <1>4 DEF Raw, Summed, SumFor, Cat

\* What stands there as a whole stands there field after field.
LEMMA RawLaid ==
  ASSUME NEW S, Symbols \subseteq S, NEW n \in Nat, NEW text \in Nat, SumFor(n, text) \in S,
         NEW u \in Seq(S), StandsAt(u, 0, Raw(n, text))
  PROVE  Laid(u, n, text)
<1> DEFINE f1 == Field(Tag(BeginString), <<Val(0)>>)
           f2 == Field(Tag(BodyLength), <<Val(LengthOf(text))>>)
           f3 == Field(Tag(MsgType), <<Known>>)
           f4 == Field(Tag(MsgSeqNum), <<Val(n)>>)
           f5 == Field(Tag(Text), Texted(text))
           f6 == Field(Tag(CheckSum), <<SumFor(n, text)>>)
           f34 == Cat(f3, f4)
           h == HeadPart(text)
           b == BodyPart(n, text)
           s == Summed(n, text)
<1>0. LengthOf(text) \in Nat
  BY DEF LengthOf
<1>1. /\ f1 \in Seq(S) /\ Len(f1) = 4 /\ f2 \in Seq(S) /\ Len(f2) = 4
      /\ f3 \in Seq(S) /\ Len(f3) = 4 /\ f4 \in Seq(S) /\ Len(f4) = 4
      /\ f5 \in Seq(S) /\ f6 \in Seq(S)
      /\ f34 \in Seq(S) /\ Len(f34) = 8
  BY RawFields DEF RawFieldsIn
<1>2. /\ h \in Seq(S) /\ Len(h) = 8 /\ b \in Seq(S)
      /\ s \in Seq(S) /\ Len(s) = 8 + LengthOf(text)
  BY RawParts
<1>3. /\ h = Cat(f1, f2) /\ b = Cat(f34, f5) /\ f34 = Cat(f3, f4) /\ s = Cat(h, b)
      /\ Raw(n, text) = Cat(s, f6)
  BY DEF HeadPart, BodyPart, Summed, Raw
<1> HIDE DEF f1, f2, f3, f4, f5, f6, f34, h, b, s
<1>4. StandsAt(u, 0, s) /\ StandsAt(u, 0 + Len(s), f6)
  BY <1>1, <1>2, <1>3, StandsBoth
<1>5. StandsAt(u, 0, h) /\ StandsAt(u, 0 + Len(h), b)
  BY <1>2, <1>3, <1>4, StandsBoth
<1>6. StandsAt(u, 0, f1) /\ StandsAt(u, 0 + Len(f1), f2)
  BY <1>1, <1>3, <1>5, StandsBoth
<1>7. StandsAt(u, 8, b) /\ 8 \in Nat
  BY <1>2, <1>5
<1>8. StandsAt(u, 8, f34) /\ StandsAt(u, 8 + Len(f34), f5)
  BY <1>1, <1>3, <1>7, StandsBoth
<1>9. StandsAt(u, 8, f3) /\ StandsAt(u, 8 + Len(f3), f4)
  BY <1>1, <1>3, <1>7, <1>8, StandsBoth
<1>10. 0 + Len(s) = 8 + LengthOf(text) /\ 0 + Len(f1) = 4 /\ 8 + Len(f34) = 16
       /\ 8 + Len(f3) = 12
  BY <1>0, <1>1, <1>2
<1>11. /\ StandsAt(u, 8 + LengthOf(text), f6) /\ StandsAt(u, 4, f2)
       /\ StandsAt(u, 16, f5) /\ StandsAt(u, 12, f4)
  BY <1>4, <1>6, <1>8, <1>9, <1>10
<1> QED BY <1>4, <1>6, <1>9, <1>11 DEF Laid, f1, f2, f3, f4, f5, f6, s

\* A message that stands at the start of the bytes.
RawStands(S, u, max, n, text) ==
  /\ Symbols \subseteq S /\ n \in Nat /\ text \in Nat /\ SumFor(n, text) \in S
  /\ max \in Nat /\ LengthOf(text) <= max
  /\ u \in Seq(S) /\ StandsAt(u, 0, Raw(n, text))

LEMMA RawRead ==
  ASSUME NEW S, NEW u, NEW max, NEW n, NEW text, RawStands(S, u, max, n, text)
  PROVE  Reads(u, 13, 13 + LengthOf(text), n, <<text>>)
<1> DEFINE len == LengthOf(text)
           c == SumFor(n, text)
           at == 13 + len
           value == Texted(text)
<1>0. /\ Symbols \subseteq S /\ n \in Nat /\ text \in Nat /\ c \in S
      /\ u \in Seq(S) /\ StandsAt(u, 0, Raw(n, text))
  BY DEF RawStands
<1>1. Laid(u, n, text)
  BY <1>0, RawLaid
<1>2. /\ Tag(MsgSeqNum) \in S /\ Tag(Text) \in S /\ Tag(CheckSum) \in S
      /\ Eq \in S /\ Soh \in S /\ Val(n) \in S /\ Val(n) # Soh /\ c # Soh
  <2>1. c # Soh /\ Val(n) # Soh
    BY SymbolsDiffer DEF SumFor
  <2>2. n \in Int
    BY <1>0
  <2> HIDE DEF c
  <2> QED BY <1>0, <2>1, <2>2, WireTags
<1>3. value \in Seq(S) /\ Len(value) = text /\ IsValue(value)
  BY <1>0, TextedIs
<1>4. len \in Nat /\ len = 11 + text /\ 12 \in Nat /\ 16 \in Nat /\ 8 + len \in Nat
  BY <1>0 DEF LengthOf
<1>5. OneStands(S, u, 8 + len, CheckSum, c)
  BY <1>0, <1>1, <1>2, <1>4 DEF OneStands, Laid
<1>6. FieldStands(S, u, 16, Text, value)
  BY <1>0, <1>1, <1>2, <1>3, <1>4 DEF FieldStands, Laid
<1>7. OneStands(S, u, 12, MsgSeqNum, Val(n))
  BY <1>0, <1>1, <1>2, <1>4 DEF OneStands, Laid
<1> HIDE DEF len, c, value
<1>8. Reads(u, (8 + len) + 1, (8 + len) + 5, 0, <<>>)
  BY <1>5, ReadEnd
<1>9. (8 + len) + 1 = 16 + Len(value) + 4 /\ (8 + len) + 5 = at
  BY <1>3, <1>4, <1>0
<1> HIDE DEF at
<1>10. Reads(u, 16 + Len(value) + 4, at, 0, <<>>)
  BY <1>8, <1>9
<1>11. Reads(u, 16 + 1, at, 0, <<Len(value)>> \o <<>>)
  BY <1>6, <1>10, ReadText
<1>12. <<Len(value)>> \o <<>> = <<text>> /\ 16 + 1 = 12 + 5 /\ 12 + 1 = 13
  BY <1>3
<1>13. Reads(u, 12 + 5, at, 0, <<text>>)
  BY <1>11, <1>12
<1>14. Reads(u, 12 + 1, at, n, <<text>>)
  BY <1>7, <1>13, ReadNumber
<1> QED BY <1>12, <1>14 DEF at, len

\* What the parser returns of it.
Returned(p, at, n, text) ==
  /\ p.got = TRUE /\ p.at = at
  /\ p.msg = [begin |-> <<Val(0)>>, seq |-> n, text |-> <<text>>]

LEMMA WholeParsed ==
  ASSUME NEW S, NEW u, NEW max, NEW n, NEW text, RawStands(S, u, max, n, text)
  PROVE  Returned(Parse(u, max), 13 + LengthOf(text), n, text)
<1> DEFINE len == LengthOf(text)
           body == Summed(n, text)
           at == 13 + len
           r == RestOfMessage(u, 13)
           f == Frame(u, 1, max)
<1>0. /\ Symbols \subseteq S /\ n \in Nat /\ text \in Nat /\ SumFor(n, text) \in S
      /\ u \in Seq(S) /\ StandsAt(u, 0, Raw(n, text)) /\ max \in Nat /\ len <= max
  BY DEF RawStands
<1>1. Laid(u, n, text)
  BY <1>0, RawLaid
<1>2. Val(0) \in S /\ Val(0) # Soh
  <2>1. 0 \in Int /\ Symbols \subseteq S
    BY <1>0
  <2> QED BY <2>1, WireTags, SymbolsDiffer
<1>3. body \in Seq(S) /\ Len(body) = 8 + len
  BY <1>0, RawParts
<1>4. len \in Nat /\ 1 <= len
  BY <1>0 DEF LengthOf
<1>5. Framed(u, 0, len, Val(0), body)
  <2>1. 0 + 4 = 4 /\ 0 + 8 = 8 /\ 0 + (8 + len) = 8 + len
    BY <1>4
  <2>2. /\ StandsAt(u, 0, Field(Tag(BeginString), <<Val(0)>>))
        /\ StandsAt(u, 4, Field(Tag(BodyLength), <<Val(len)>>))
        /\ StandsAt(u, 8, Field(Tag(MsgType), <<Known>>))
        /\ StandsAt(u, 8 + len, Field(Tag(CheckSum), <<CheckSumOf(body)>>))
        /\ StandsAt(u, 0, body)
    BY <1>1 DEF Laid, SumFor
  <2> HIDE DEF len, body
  <2> QED BY <1>2, <1>3, <2>1, <2>2 DEF Framed
<1>6. FramedIn(S, u, max, len, Val(0), body)
  <2>1. CheckSumOf(body) \in S
    BY <1>0 DEF SumFor
  <2> HIDE DEF body, len
  <2> QED BY <1>0, <1>2, <1>3, <1>4, <1>5, <2>1 DEF FramedIn
<1>7. f = WholeOf(Val(0), r)
  BY <1>6, FrameFirst
<1>8. Reads(u, 13, at, n, <<text>>)
  BY RawRead
<1>9. r.at = at /\ r.seq = n /\ r.text = <<text>>
  BY <1>8 DEF Reads, Read
<1> HIDE DEF r
<1> DEFINE msg == [begin |-> <<Val(0)>>, seq |-> n, text |-> <<text>>]
<1>10. f.st = "ok" /\ f.at = at /\ f.msg = msg
  BY <1>7, <1>9 DEF WholeOf
<1> HIDE DEF f, msg, at, len
<1>11. Parse(u, max) = [got |-> TRUE, at |-> f.at, msg |-> f.msg]
  <2>1. Len(u) \in Nat
    BY <1>0
  <2> QED BY <1>0, <1>10, <2>1, ParseStarts DEF f
<1>12. Returned(Parse(u, max), at, n, text)
  BY <1>10, <1>11 DEF Returned, msg
<1> QED BY <1>12 DEF at, len

-----------------------------------------------------------------------------
(***************************************************************************)
(* A message of which only the front is there: the parser waits.           *)
(***************************************************************************)
\* The bytes u are the front of r.
FrontOf(u, r) ==
  /\ Len(u) \in Nat /\ Len(r) \in Nat /\ Len(u) <= Len(r)
  /\ \A j \in 1..Len(u) : u[j] = r[j]

\* u ends in the field x, behind the first p symbols.
CutAt(u, p, x) ==
  /\ p \in Nat /\ Len(u) \in Nat /\ p <= Len(u) /\ Len(u) < p + Len(x)
  /\ \A j \in 1..(Len(u) - p) : u[p + j] = x[j]

LEMMA FrontStands ==
  ASSUME NEW u, NEW r, NEW p \in Nat, NEW x, Len(x) \in Nat,
         FrontOf(u, r), StandsAt(r, p, x), p <= Len(u)
  PROVE  StandsAt(u, p, x) \/ CutAt(u, p, x)
<1>1. /\ Len(u) \in Nat /\ Len(r) \in Nat /\ Len(u) <= Len(r)
      /\ \A j \in 1..Len(u) : u[j] = r[j]
  BY DEF FrontOf
<1>2. p + Len(x) <= Len(r) /\ \A j \in 1..Len(x) : r[p + j] = x[j]
  BY DEF StandsAt
<1>3. ASSUME NEW j \in 1..Len(x), p + j <= Len(u) PROVE u[p + j] = x[j]
  <2>1. p + j \in 1..Len(u)
    BY <1>1, <1>3
  <2> QED BY <1>1, <1>2, <2>1
<1>4. CASE p + Len(x) <= Len(u)
  <2>1. \A j \in 1..Len(x) : p + j <= Len(u)
    BY <1>1, <1>4
  <2> QED BY <1>3, <1>4, <2>1 DEF StandsAt
<1>5. CASE Len(u) < p + Len(x)
  <2>1. \A j \in 1..(Len(u) - p) : j \in 1..Len(x) /\ p + j <= Len(u)
    BY <1>1, <1>5
  <2> QED BY <1>1, <1>3, <1>5, <2>1 DEF CutAt
<1> QED BY <1>1, <1>4, <1>5

LEMMA CutWaits ==
  ASSUME NEW u, NEW p, NEW t, NEW v, v # Soh, CutAt(u, p, Field(Tag(t), <<v>>))
  PROVE  MatchField(u, p + 1, t).st = "partial"
<1> DEFINE x == Field(Tag(t), <<v>>)
           i == p + 1
           S == {Tag(t), Eq, Soh, v}
           f == ParseField(u, i)
<1>1. Len(x) = 4 /\ x[1] = Tag(t) /\ x[2] = Eq /\ x[3] = v
  BY DEF Field
<1>2. /\ p \in Nat /\ Len(u) \in Nat /\ p <= Len(u) /\ Len(u) < p + 4
      /\ \A j \in 1..(Len(u) - p) : u[p + j] = x[j]
  BY <1>1 DEF CutAt
<1> HIDE DEF x
<1>3. i \in 1..(Len(u) + 1) /\ i \in Nat \ {0}
  BY <1>2
<1>4. p + 1 <= Len(u) => u[i] = Tag(t)
  BY <1>1, <1>2
<1>5. p + 2 <= Len(u) => u[p + 2] = Eq
  BY <1>1, <1>2
<1>6. p + 3 <= Len(u) => u[p + 3] = v
  BY <1>1, <1>2
<1>7. MatchField(u, i, t) = Expect(f, t, Garbled(NextTag(u, Find(u, i, Eq))))
  BY DEF MatchField
<1>8. CASE Len(u) <= p + 1
  <2>1. ASSUME NEW j \in i..Len(u) PROVE u[j] # Eq
    <3>1. j = i /\ p + 1 <= Len(u)
      BY <1>2, <1>8
    <3> QED BY <1>4, <3>1, SymbolsDiffer
  <2>2. Find(u, i, Eq) = Len(u) + 1
    BY <1>2, <1>3, <2>1, FindNone
  <2>3. f = Partial
    BY <1>2, <1>3, <2>2, ParseFieldMoves
  <2> HIDE DEF f
  <2> QED BY <1>7, <2>3 DEF Expect, Partial
<1>9. CASE p + 2 <= Len(u)
  <2>1. FirstAt(u, i, p + 2, Eq)
    <3>1. \A j \in i..((p + 2) - 1) : j = i
      BY <1>2
    <3>2. p + 2 \in i..Len(u)
      BY <1>2, <1>9
    <3>3. u[i] # Eq /\ u[p + 2] = Eq
      BY <1>2, <1>4, <1>5, <1>9, SymbolsDiffer
    <3> QED BY <1>2, <1>3, <3>1, <3>2, <3>3 DEF FirstAt
  <2>2. Find(u, i, Eq) = p + 2
    BY <2>1, FindIs
  <2>3. ASSUME NEW j \in (p + 2)..Len(u) PROVE u[j] # Soh
    <3>1. j = p + 2 \/ (j = p + 3 /\ p + 3 <= Len(u))
      BY <1>2
    <3> QED BY <1>5, <1>6, <1>9, <3>1, SymbolsDiffer
  <2>4. Find(u, p + 2, Soh) = Len(u) + 1
    <3>1. p + 2 \in Nat
      BY <1>2
    <3> QED BY <1>2, <2>3, <3>1, FindNone
  <2>5. IsTag(u, i, p + 2) /\ u[i].tag = t
    <3>1. u[i] = Tag(t) /\ p + 2 = i + 1
      BY <1>2, <1>4, <1>9
    <3> QED BY <3>1, SymbolsDiffer DEF IsTag
  <2>6. f = FieldAt(u, i, p + 2, Len(u) + 1)
    BY <2>2, <2>4 DEF ParseField, UpTo
  <2>7. f = [st |-> "partial", tag |-> t]
    <3>1. ~AtEnd(u, p + 2) /\ AtEnd(u, Len(u) + 1)
      BY <1>2, <1>9 DEF AtEnd
    <3> QED BY <2>5, <2>6, <3>1 DEF FieldAt
  <2> HIDE DEF f
  <2> QED BY <1>7, <2>7 DEF Expect
<1> QED BY <1>2, <1>8, <1>9

-----------------------------------------------------------------------------
\* The fields of a message up to its MsgType, in front of which it was cut.
LEMMA FrontFields ==
  ASSUME NEW S, Symbols \subseteq S, NEW n \in Nat, NEW text \in Nat, SumFor(n, text) \in S,
         NEW u \in Seq(S), FrontOf(u, Raw(n, text))
  PROVE  /\ \/ OneStands(S, u, 0, BeginString, Val(0))
            \/ CutAt(u, 0, Field(Tag(BeginString), <<Val(0)>>))
         /\ 4 <= Len(u) => \/ OneStands(S, u, 4, BodyLength, Val(LengthOf(text)))
                           \/ CutAt(u, 4, Field(Tag(BodyLength), <<Val(LengthOf(text))>>))
         /\ 8 <= Len(u) => \/ OneStands(S, u, 8, MsgType, Known)
                           \/ CutAt(u, 8, Field(Tag(MsgType), <<Known>>))
<1> DEFINE raw == Raw(n, text)
           f1 == Field(Tag(BeginString), <<Val(0)>>)
           f2 == Field(Tag(BodyLength), <<Val(LengthOf(text))>>)
           f3 == Field(Tag(MsgType), <<Known>>)
<1>1. raw \in Seq(S)
  BY RawParts
<1>2. StandsAt(raw, 0, raw)
  <2> HIDE DEF raw
  <2> QED BY <1>1 DEF StandsAt
<1>3. Laid(raw, n, text)
  BY <1>1, <1>2, RawLaid
<1>4. StandsAt(raw, 0, f1) /\ StandsAt(raw, 4, f2) /\ StandsAt(raw, 8, f3)
  BY <1>3 DEF Laid
<1>5. Len(f1) = 4 /\ Len(f2) = 4 /\ Len(f3) = 4
  BY RawFields DEF RawFieldsIn
<1>6. /\ Tag(BeginString) \in S /\ Tag(BodyLength) \in S /\ Tag(MsgType) \in S
      /\ Eq \in S /\ Soh \in S /\ Known \in S /\ Val(0) \in S /\ Val(LengthOf(text)) \in S
      /\ Known # Soh /\ Val(0) # Soh /\ Val(LengthOf(text)) # Soh
  <2>1. LengthOf(text) \in Int /\ 0 \in Int
    BY DEF LengthOf
  <2> QED BY <2>1, WireTags, SymbolsDiffer DEF Known
<1>7. Len(u) \in Nat /\ 0 \in Nat /\ 4 \in Nat /\ 8 \in Nat /\ FrontOf(u, raw)
  OBVIOUS
<1> HIDE DEF raw
<1>8. StandsAt(u, 0, f1) \/ CutAt(u, 0, f1)
  <2> HIDE DEF f1
  <2>1. Len(f1) \in Nat /\ 0 <= Len(u)
    BY <1>5, <1>7
  <2> QED BY <1>4, <1>7, <2>1, FrontStands
<1>9. 4 <= Len(u) => StandsAt(u, 4, f2) \/ CutAt(u, 4, f2)
  <2> HIDE DEF f2
  <2>1. Len(f2) \in Nat
    BY <1>5
  <2> QED BY <1>4, <1>7, <2>1, FrontStands
<1>10. 8 <= Len(u) => StandsAt(u, 8, f3) \/ CutAt(u, 8, f3)
  <2> HIDE DEF f3
  <2>1. Len(f3) \in Nat
    BY <1>5
  <2> QED BY <1>4, <1>7, <2>1, FrontStands
<1> QED BY <1>6, <1>7, <1>8, <1>9, <1>10 DEF OneStands

\* One look at the front of a message.
RawBegun(S, u, max, n, text) ==
  /\ Symbols \subseteq S /\ n \in Nat /\ text \in Nat /\ SumFor(n, text) \in S
  /\ max \in Nat /\ LengthOf(text) <= max
  /\ u \in Seq(S) /\ FrontOf(u, Raw(n, text)) /\ Len(u) < 12 + LengthOf(text)

LEMMA FrontWaits ==
  ASSUME NEW S, NEW u, NEW max, NEW n, NEW text, RawBegun(S, u, max, n, text)
  PROVE  Frame(u, 1, max).st = "partial"
<1> DEFINE len == LengthOf(text)
           b == MatchField(u, 1, BeginString)
           l == ParseBodyLength(u, b.at, max)
           t == ParseMsgType(u, l.at)
           c == VerifyCheckSum(u, 1, l.at, Number(l.value))
<1>0. /\ Symbols \subseteq S /\ n \in Nat /\ text \in Nat /\ SumFor(n, text) \in S
      /\ max \in Nat /\ len <= max
      /\ u \in Seq(S) /\ FrontOf(u, Raw(n, text)) /\ Len(u) < 12 + len
  BY DEF RawBegun
<1>1. /\ \/ OneStands(S, u, 0, BeginString, Val(0))
         \/ CutAt(u, 0, Field(Tag(BeginString), <<Val(0)>>))
      /\ 4 <= Len(u) => \/ OneStands(S, u, 4, BodyLength, Val(len))
                        \/ CutAt(u, 4, Field(Tag(BodyLength), <<Val(len)>>))
      /\ 8 <= Len(u) => \/ OneStands(S, u, 8, MsgType, Known)
                        \/ CutAt(u, 8, Field(Tag(MsgType), <<Known>>))
  BY <1>0, FrontFields
<1>2. len \in 1..max /\ len \in Nat /\ Len(u) \in Nat
  BY <1>0 DEF LengthOf
<1>3. Val(0) # Soh /\ Val(len) # Soh /\ Known # Soh
  BY SymbolsDiffer DEF Known
<1> HIDE DEF len
\* The BeginString.
<1>4. \/ b.st = "partial"
      \/ b = FieldOf(5, BeginString, <<Val(0)>>) /\ 4 <= Len(u)
  <2> DEFINE p == 0
  <2>0. p + 1 = 1 /\ p + 5 = 5 /\ p = 0
    OBVIOUS
  <2>1. CASE CutAt(u, 0, Field(Tag(BeginString), <<Val(0)>>))
    <3>1. CutAt(u, p, Field(Tag(BeginString), <<Val(0)>>))
      BY <2>1
    <3> HIDE DEF p
    <3>2. MatchField(u, p + 1, BeginString).st = "partial"
      BY <1>3, <3>1, CutWaits
    <3> QED BY <2>0, <3>2
  <2>2. CASE OneStands(S, u, 0, BeginString, Val(0))
    <3>1. OneStands(S, u, p, BeginString, Val(0))
      BY <2>2
    <3>2. 4 <= Len(u)
      BY <1>2, <2>2 DEF OneStands, StandsAt, Field
    <3> HIDE DEF p
    <3>3. MatchField(u, p + 1, BeginString) = FieldOf(p + 5, BeginString, <<Val(0)>>)
      BY <3>1, MatchOne
    <3> QED BY <2>0, <3>2, <3>3
  <2> QED BY <1>1, <2>1, <2>2
\* The BodyLength.
<1>5. ASSUME b.at = 5, 4 <= Len(u)
      PROVE  \/ l.st = "partial"
             \/ l = FieldOf(9, BodyLength, <<Val(len)>>) /\ 8 <= Len(u)
  <2> DEFINE p == 4
             m == MatchField(u, 5, BodyLength)
  <2>0. p + 1 = 5 /\ p + 5 = 9 /\ p = 4
    OBVIOUS
  <2>a. l = ParseBodyLength(u, 5, max)
    BY <1>5
  <2> HIDE DEF l, b
  <2>1. CASE CutAt(u, 4, Field(Tag(BodyLength), <<Val(len)>>))
    <3>1. CutAt(u, p, Field(Tag(BodyLength), <<Val(len)>>))
      BY <2>1
    <3> HIDE DEF p
    <3>2. MatchField(u, p + 1, BodyLength).st = "partial"
      BY <1>3, <3>1, CutWaits
    <3>3. m.st = "partial"
      BY <2>0, <3>2
    <3>4. ParseBodyLength(u, 5, max)
            = IF m.st = "ok" /\ ~(Number(m.value) \in 1..max) THEN Garbled(m.at) ELSE m
      BY DEF ParseBodyLength, Check
    <3> HIDE DEF m
    <3> QED BY <2>a, <3>3, <3>4
  <2>2. CASE OneStands(S, u, 4, BodyLength, Val(len))
    <3>1. OneStands(S, u, p, BodyLength, Val(len))
      BY <2>2
    <3>2. 8 <= Len(u)
      BY <1>2, <2>2 DEF OneStands, StandsAt, Field
    <3> HIDE DEF p
    <3>3. MatchField(u, p + 1, BodyLength) = FieldOf(p + 5, BodyLength, <<Val(len)>>)
      BY <3>1, MatchOne
    <3>4. m = FieldOf(9, BodyLength, <<Val(len)>>)
      BY <2>0, <3>3
    <3>5. m.st = "ok" /\ m.value = <<Val(len)>>
      BY <3>4 DEF FieldOf
    <3>6. ParseBodyLength(u, 5, max) = m
      BY <1>2, <3>5, LengthRead
    <3> QED BY <2>a, <3>2, <3>4, <3>6
  <2> QED BY <1>1, <1>5, <2>1, <2>2
\* The MsgType.
<1>6. ASSUME l.at = 9, 8 <= Len(u)
      PROVE  \/ t.st = "partial"
             \/ t.st = "ok"
  <2> DEFINE p == 8
             m == MatchField(u, 9, MsgType)
  <2>0. p + 1 = 9 /\ p + 5 = 13 /\ p = 8
    OBVIOUS
  <2>a. t = ParseMsgType(u, 9)
    BY <1>6
  <2> HIDE DEF t, l, b
  <2>1. CASE CutAt(u, 8, Field(Tag(MsgType), <<Known>>))
    <3>1. CutAt(u, p, Field(Tag(MsgType), <<Known>>))
      BY <2>1
    <3> HIDE DEF p
    <3>2. MatchField(u, p + 1, MsgType).st = "partial"
      BY <1>3, <3>1, CutWaits
    <3>3. m.st = "partial"
      BY <2>0, <3>2
    <3>4. ParseMsgType(u, 9)
            = IF m.st = "ok" /\ ~(m.value = <<Known>>) THEN Garbled(m.at) ELSE m
      BY DEF ParseMsgType, Check
    <3> HIDE DEF m
    <3> QED BY <2>a, <3>3, <3>4
  <2>2. CASE OneStands(S, u, 8, MsgType, Known)
    <3>1. OneStands(S, u, p, MsgType, Known)
      BY <2>2
    <3> HIDE DEF p
    <3>3. MatchField(u, p + 1, MsgType) = FieldOf(p + 5, MsgType, <<Known>>)
      BY <3>1, MatchOne
    <3>4. ParseMsgType(u, 9) = FieldOf(13, MsgType, <<Known>>)
      BY <2>0, <3>3, TypeRead
    <3> QED BY <2>a, <3>4 DEF FieldOf
  <2> QED BY <1>1, <1>6, <2>1, <2>2
\* The checksum.
<1>7. ASSUME l = FieldOf(9, BodyLength, <<Val(len)>>)
      PROVE  c.st = "partial"
  <2> HIDE DEF l, b
  <2>1. l.at = 9 /\ l.value = <<Val(len)>>
    BY <1>7 DEF FieldOf
  <2>2. Number(l.value) = len
    BY <2>1, NumberOfVal
  <2>3. ~Enough(u, 9, len)
    BY <1>0, <1>2 DEF Enough, CheckSumSize
  <2>4. VerifyCheckSum(u, 1, 9, len) = Partial
    BY <2>3 DEF VerifyCheckSum
  <2> QED BY <2>1, <2>2, <2>4 DEF Partial
<1>8. b = FieldOf(5, BeginString, <<Val(0)>>) => b.st = "ok" /\ b.at = 5
  <2> HIDE DEF b
  <2> QED BY DEF FieldOf
<1>9. l = FieldOf(9, BodyLength, <<Val(len)>>) => l.st = "ok" /\ l.at = 9
  <2> HIDE DEF l
  <2> QED BY DEF FieldOf
<1>10. Frame(u, 1, max) = Begun(u, 1, max, b)
  BY DEF Frame
<1>11. b.st = "ok" => Begun(u, 1, max, b) = Sized(u, 1, b, l)
  BY DEF Begun
<1>12. b.st = "partial" => Begun(u, 1, max, b) = b
  <2> HIDE DEF b
  <2> QED BY DEF Begun
<1>13. l.st = "ok" => Sized(u, 1, b, l) = Typed(u, 1, b, l, t)
  <2> HIDE DEF b, l
  <2> QED BY DEF Sized
<1>14. l.st = "partial" => Sized(u, 1, b, l) = l
  <2> HIDE DEF b, l
  <2> QED BY DEF Sized
<1>15. t.st = "ok" => Typed(u, 1, b, l, t) = Checked(u, b, t, c)
  <2> HIDE DEF b, l, t
  <2> QED BY DEF Typed
<1>16. t.st = "partial" => Typed(u, 1, b, l, t) = t
  <2> HIDE DEF b, l, t
  <2> QED BY DEF Typed
<1>17. c.st = "partial" => Checked(u, b, t, c) = c
  <2> HIDE DEF b, l, t, c
  <2> QED BY DEF Checked
<1> HIDE DEF b, l, t, c
<1> QED BY <1>4, <1>5, <1>6, <1>7, <1>8, <1>9, <1>10, <1>11, <1>12, <1>13, <1>14,
           <1>15, <1>16, <1>17

LEMMA FrontParsed ==
  ASSUME NEW S, NEW u, NEW max, NEW n, NEW text, RawBegun(S, u, max, n, text)
  PROVE  Parse(u, max) = [got |-> FALSE, at |-> 1]
<1>1. Frame(u, 1, max).st = "partial"
  BY FrontWaits
<1>2. Len(u) \in Nat /\ max \in Nat
  BY DEF RawBegun
<1> QED BY <1>1, <1>2, ParseStarts

-----------------------------------------------------------------------------
(***************************************************************************)
(* The messages before the first broken one.                               *)
(***************************************************************************)
\* g[i] are the bytes of the messages after the i-th.
After(S, g) ==
  /\ g \in [0..Len(sent) -> Seq(S)]
  /\ g[Len(sent)] = <<>>
  /\ \A i \in 1..Len(sent) :
       Bytes(sent[i]) \in Seq(S) /\ g[i - 1] = Cat(Bytes(sent[i]), g[i])

\* u and w are the bytes of the messages after the d-th.
Ahead(S, g, d, u, w) ==
  /\ d \in 0..Len(sent) /\ u \in Seq(S) /\ w \in Seq(S) /\ Cat(u, w) = g[d]

\* The first d messages have been returned, and no byte after them is gone.
Returns(d) == Len(delivered) = d /\ \A i \in 1..d : delivered[i].seq = i
InTurn == \E S : \E g, d : After(S, g) /\ Ahead(S, g, d, unread, wire) /\ Returns(d)

\* Or all that came before a broken message have been.
Reached(n) == \E i \in 1..Len(delivered) : delivered[i].seq = n
Done == \E m \in 1..Len(sent) : Broken(sent[m]) /\ \A n \in 1..(m - 1) : Reached(n)

Numbered == sent \in Seq(SentMessages) /\ \A i \in 1..Len(sent) : sent[i] \in Messages(i)
AInv == Numbered /\ (\E D : delivered \in Seq(D)) /\ (InTurn \/ Done)

LEMMA InitAInv == Init => AInv
<1> SUFFICES ASSUME Init PROVE AInv
  OBVIOUS
<1>1. sent = <<>> /\ wire = <<>> /\ unread = <<>> /\ delivered = <<>> /\ Len(<<>>) = 0
  BY DEF Init
<1> DEFINE g == [i \in 0..0 |-> <<>>]
<1>2. After({}, g)
  <2>1. 0..Len(sent) = 0..0 /\ 1..Len(sent) = {} /\ Len(sent) = 0
    BY <1>1
  <2>2. g \in [0..0 -> Seq({})] /\ g[0] = <<>>
    OBVIOUS
  <2> HIDE DEF g
  <2> QED BY <2>1, <2>2 DEF After
<1>3. Ahead({}, g, 0, unread, wire)
  <2>1. Cat(<<>>, <<>>) = <<>> /\ g[0] = <<>>
    BY DEF Cat
  <2>2. 0 \in 0..Len(sent)
    BY <1>1
  <2> HIDE DEF g
  <2> QED BY <1>1, <2>1, <2>2 DEF Ahead
<1>4. Returns(0)
  BY <1>1 DEF Returns
<1>5. InTurn
  BY <1>2, <1>3, <1>4 DEF InTurn
<1>6. Numbered /\ delivered \in Seq({})
  BY <1>1 DEF Numbered
<1> QED BY <1>5, <1>6 DEF AInv

\* A message more comes after all of them.
LEMMA AfterMore ==
  ASSUME NEW S, NEW g, After(S, g), NEW x \in Seq(S), Len(sent) \in Nat,
         Len(sent') = Len(sent) + 1, \A i \in 1..Len(sent) : sent'[i] = sent[i],
         x = Bytes(sent'[Len(sent) + 1])
  PROVE  \E h : /\ After(S, h)'
                /\ \A i \in 0..Len(sent) : h[i] = Cat(g[i], x)
<1> DEFINE k == Len(sent)
<1>0. PICK h : h = [i \in 0..(k + 1) |-> IF i <= k THEN Cat(g[i], x) ELSE <<>>]
  OBVIOUS
<1>1. /\ g \in [0..k -> Seq(S)] /\ g[k] = <<>>
      /\ \A i \in 1..k : Bytes(sent[i]) \in Seq(S) /\ g[i - 1] = Cat(Bytes(sent[i]), g[i])
  BY DEF After
<1>2. \A i \in 0..k : h[i] = Cat(g[i], x)
  BY <1>0
<1>3. h[k + 1] = <<>>
  BY <1>0
<1>4. h \in [0..(k + 1) -> Seq(S)]
  <2>1. ASSUME NEW i \in 0..k PROVE Cat(g[i], x) \in Seq(S)
    <3>1. g[i] \in Seq(S)
      BY <1>1
    <3> QED BY <3>1, CatIs
  <2>2. <<>> \in Seq(S)
    OBVIOUS
  <2> QED BY <1>0, <2>1, <2>2
<1>5. ASSUME NEW i \in 1..(k + 1) 
      PROVE  Bytes(sent'[i]) \in Seq(S) /\ h[i - 1] = Cat(Bytes(sent'[i]), h[i])
  <2>1. CASE i = k + 1
    <3>1. h[i - 1] = Cat(<<>>, x)
      BY <1>1, <1>2, <2>1
    <3>2. Cat(<<>>, x) = x /\ Cat(x, <<>>) = x
      BY DEF Cat
    <3>3. Bytes(sent'[i]) = x /\ h[i] = <<>>
      BY <1>3, <2>1
    <3> QED BY <3>1, <3>2, <3>3
  <2>2. CASE i # k + 1
    <3>1. i \in 1..k /\ i - 1 \in 0..k /\ i \in 0..k
      BY <2>2
    <3> DEFINE y == Bytes(sent[i])
               z == g[i]
    <3>2. h[i - 1] = Cat(g[i - 1], x) /\ h[i] = Cat(z, x)
      BY <1>2, <3>1
    <3>3. g[i - 1] = Cat(y, z) /\ z \in Seq(S)
      BY <1>1, <3>1
    <3>4. y \in Seq(S)
      BY <1>1, <3>1
    <3> HIDE DEF y, z
    <3>5. Cat(Cat(y, z), x) = Cat(y, Cat(z, x))
      BY <3>3, <3>4, CatAssociates
    <3>6. sent'[i] = sent[i]
      BY <3>1
    <3> QED BY <3>2, <3>3, <3>4, <3>5, <3>6 DEF y
  <2> QED BY <2>1, <2>2
<1>6. After(S, h)'
  BY <1>3, <1>4, <1>5 DEF After
<1> QED BY <1>2, <1>6

\* The bytes may be of a larger set.
LEMMA AfterTyped ==
  ASSUME NEW S, NEW R, S \subseteq R, NEW g, After(S, g)
  PROVE  After(R, g)
<1>0. S \subseteq R
  OBVIOUS
<1>1. Seq(S) \subseteq Seq(R)
  BY <1>0, SeqMonotonic
<1>2. /\ g \in [0..Len(sent) -> Seq(S)] /\ g[Len(sent)] = <<>>
      /\ \A i \in 1..Len(sent) :
           Bytes(sent[i]) \in Seq(S) /\ g[i - 1] = Cat(Bytes(sent[i]), g[i])
  BY DEF After
<1>3. g \in [0..Len(sent) -> Seq(R)]
  BY <1>1, <1>2
<1> QED BY <1>1, <1>2, <1>3 DEF After

LEMMA SendAInv == AInv /\ Send => AInv'
<1> SUFFICES ASSUME AInv, Send PROVE AInv'
  OBVIOUS
<1>1. PICK m \in Messages(Len(sent) + 1) :
        sent' = Append(sent, m) /\ wire' = wire \o Bytes(m)
  BY DEF Send
<1>2. unread' = unread /\ delivered' = delivered
  BY DEF Send
<1> DEFINE k == Len(sent)
<1>3. sent \in Seq(SentMessages) /\ k \in Nat /\ \A i \in 1..k : sent[i] \in Messages(i)
  BY DEF AInv, Numbered
<1>4. m \in SentMessages
  BY <1>3 DEF SentMessages
<1>5. /\ sent' \in Seq(SentMessages) /\ Len(sent') = k + 1 /\ sent'[k + 1] = m
      /\ \A i \in 1..k : sent'[i] = sent[i]
  BY <1>1, <1>3, <1>4
<1>6. Numbered'
  <2>1. ASSUME NEW i \in 1..(k + 1) PROVE sent'[i] \in Messages(i)
    <3>1. CASE i = k + 1
      BY <1>1, <1>5, <3>1
    <3>2. CASE i # k + 1
      <4>1. i \in 1..k
        BY <1>3, <3>2
      <4> QED BY <1>3, <1>5, <4>1
    <3> QED BY <3>1, <3>2
  <2> QED BY <1>5, <2>1 DEF Numbered
<1>7. \E D : delivered' \in Seq(D)
  BY <1>2 DEF AInv
<1>8. CASE Done
  <2>1. PICK n \in 1..k : Broken(sent[n]) /\ \A i \in 1..(n - 1) : Reached(i)
    BY <1>8 DEF Done
  <2>2. n \in 1..Len(sent') /\ sent'[n] = sent[n]
    BY <1>3, <1>5, <2>1
  <2>3. \A i \in 1..(n - 1) : Reached(i)'
    BY <1>2, <2>1 DEF Reached
  <2>4. Broken(sent'[n])
    BY <2>1, <2>2
  <2>5. Done'
    BY <2>2, <2>3, <2>4 DEF Done
  <2> QED BY <1>6, <1>7, <2>5 DEF AInv
<1>9. CASE InTurn
  <2>1. PICK S : \E g, d : After(S, g) /\ Ahead(S, g, d, unread, wire) /\ Returns(d)
    BY <1>9 DEF InTurn
  <2>2. PICK g, d : After(S, g) /\ Ahead(S, g, d, unread, wire) /\ Returns(d)
    BY <2>1
  <2> DEFINE x == Bytes(m)
  <2>3. PICK R : x \in Seq(R)
    BY <1>4, MessageIsBytes
  <2> DEFINE T == S \cup R
  <2>4. S \subseteq T /\ R \subseteq T
    OBVIOUS
  <2> HIDE DEF T, x
  <2>5. x \in Seq(T) /\ After(T, g) /\ Seq(S) \subseteq Seq(T)
    BY <2>2, <2>3, <2>4, SeqMonotonic, AfterTyped
  <2>6. /\ d \in 0..k /\ unread \in Seq(T) /\ wire \in Seq(T)
        /\ Cat(unread, wire) = g[d] /\ g[d] \in Seq(T)
    BY <2>2, <2>5 DEF Ahead, After
  <2>7. PICK h : /\ After(T, h)'
                 /\ \A i \in 0..Len(sent) : h[i] = Cat(g[i], x)
    <3>1. x = Bytes(sent'[Len(sent) + 1])
      BY <1>5 DEF x
    <3> QED BY <1>3, <1>5, <2>5, <3>1, AfterMore
  <2>8. wire' = Cat(wire, x)
    BY <1>1 DEF Cat, x
  <2>9. wire' \in Seq(T)
    BY <2>5, <2>6, <2>8, CatIs
  <2>10. Cat(unread, wire') = h[d]
    <3>1. Cat(Cat(unread, wire), x) = Cat(unread, Cat(wire, x))
      BY <2>5, <2>6, CatAssociates
    <3>2. h[d] = Cat(g[d], x)
      BY <2>6, <2>7
    <3> QED BY <2>6, <2>8, <3>1, <3>2
  <2>11. Ahead(T, h, d, unread, wire)'
    <3>1. d \in 0..Len(sent')
      BY <1>3, <1>5, <2>6
    <3> QED BY <1>2, <2>6, <2>9, <2>10, <3>1 DEF Ahead
  <2>12. Returns(d)'
    BY <1>2, <2>2 DEF Returns
  <2>13. InTurn'
    BY <2>7, <2>11, <2>12 DEF InTurn
  <2> QED BY <1>6, <1>7, <2>13 DEF AInv
<1> QED BY <1>8, <1>9 DEF AInv

\* Bytes that begin with a: those in front are all of a and more, or part of a.
LEMMA PartsOf ==
  ASSUME NEW S, NEW a \in Seq(S), NEW b \in Seq(S), NEW c \in Seq(S), NEW e \in Seq(S),
         Len(a) = Len(c), Cat(a, b) = Cat(c, e)
  PROVE  a = c /\ b = e
<1> DEFINE x == Cat(a, b)
           y == Cat(c, e)
<1>0. x = y
  OBVIOUS
<1>1. ASSUME NEW i \in 1..Len(a) PROVE Cat(a, b)[i] = a[i]
  BY CatFirst, Zenon
<1>1a. ASSUME NEW i \in 1..Len(b) PROVE Cat(a, b)[Len(a) + i] = b[i]
  BY CatSecond, Zenon
<1>2. ASSUME NEW i \in 1..Len(c) PROVE Cat(c, e)[i] = c[i]
  BY CatFirst, Zenon
<1>2a. ASSUME NEW i \in 1..Len(e) PROVE Cat(c, e)[Len(c) + i] = e[i]
  BY CatSecond, Zenon
<1>3. Len(x) = Len(a) + Len(b) /\ Len(y) = Len(c) + Len(e)
  BY CatIs
<1> HIDE DEF x, y
<1>4. Len(b) = Len(e)
  BY <1>0, <1>3
<1>5. \A i \in 1..Len(a) : a[i] = c[i]
  BY <1>0, <1>1, <1>2
<1>6. \A i \in 1..Len(b) : b[i] = e[i]
  BY <1>0, <1>1a, <1>2a, <1>4
<1>7. a = c
  BY <1>5, SeqEqual
<1>8. b = e
  BY <1>4, <1>6, SeqEqual
<1> QED BY <1>7, <1>8

LEMMA SplitCat ==
  ASSUME NEW S, NEW a \in Seq(S), NEW b \in Seq(S), NEW u \in Seq(S), NEW w \in Seq(S),
         Cat(u, w) = Cat(a, b)
  PROVE  \/ StandsAt(u, 0, a) /\ Cat(From(u, Len(a) + 1), w) = b
         \/ Len(u) < Len(a) /\ FrontOf(u, a) /\ w # <<>>
<1>0. Len(u) \in Nat /\ Len(a) \in Nat /\ Len(w) \in Nat /\ Len(b) \in Nat
  OBVIOUS
<1>1. Len(u) + Len(w) = Len(a) + Len(b)
  <2>1. Len(Cat(u, w)) = Len(u) + Len(w)
    BY CatIs
  <2>2. Len(Cat(a, b)) = Len(a) + Len(b)
    BY CatIs
  <2> QED BY <2>1, <2>2
<1>2. ASSUME NEW j \in 1..Len(u), j <= Len(a) PROVE u[j] = a[j]
  <2>1. Cat(u, w)[j] = u[j]
    BY CatFirst
  <2>2. Cat(a, b)[j] = a[j]
    <3>1. j \in 1..Len(a)
      BY <1>2
    <3> QED BY <3>1, CatFirst
  <2> QED BY <2>1, <2>2
<1>3. CASE Len(a) <= Len(u)
  <2> DEFINE n == Len(a)
             u1 == SubSeq(u, 1, n)
             u2 == SubSeq(u, n + 1, Len(u))
  <2>0. n \in 0..Len(u)
    BY <1>0, <1>3
  <2> HIDE DEF n
  <2>1. u1 \in Seq(S) /\ Len(u1) = n /\ u2 \in Seq(S) /\ Cat(u1, u2) = u
    BY <2>0, Divided
  <2> HIDE DEF u1, u2
  <2>2. Cat(Cat(u1, u2), w) = Cat(u1, Cat(u2, w)) /\ Cat(u2, w) \in Seq(S)
    BY <2>1, CatAssociates, CatIs
  <2>3. Cat(u1, Cat(u2, w)) = Cat(a, b) /\ Len(u1) = Len(a)
    BY <2>1, <2>2 DEF n
  <2>4. Cat(u2, w) = b
    BY <2>1, <2>2, <2>3, PartsOf
  <2>5. StandsAt(u, 0, a)
    <3>1. \A j \in 1..Len(a) : j \in 1..Len(u) /\ 0 + j = j
      BY <1>0, <1>3
    <3> QED BY <1>0, <1>2, <1>3, <3>1 DEF StandsAt
  <2> QED BY <2>4, <2>5 DEF From, u2, n
<1>4. CASE Len(u) < Len(a)
  <2>1. \A j \in 1..Len(u) : j <= Len(a)
    BY <1>0, <1>4
  <2>2. FrontOf(u, a)
    BY <1>0, <1>2, <1>4, <2>1 DEF FrontOf
  <2>3. w # <<>>
    BY <1>0, <1>1, <1>4
  <2> QED BY <1>4, <2>2, <2>3
<1> QED BY <1>0, <1>3, <1>4

LEMMA WholeBytes ==
  ASSUME NEW n \in Nat, NEW m \in Messages(n), ~Broken(m)
  PROVE  /\ Bytes(m) = Raw(n, m.text) /\ m.text \in Nat
         /\ LengthOf(m.text) <= MaxMessage
<1>1. m.kind = "whole" /\ m.seq = n /\ m.text \in Texts
  BY DEF Messages, Broken
<1>2. m.text \in Nat /\ LengthOf(m.text) <= MaxMessage
  <2>1. \A text \in Texts : text \in Nat /\ text + 11 <= MaxMessage
    BY SizeAssumption, FitAssumption
  <2>2. m.text \in Nat /\ m.text + 11 <= MaxMessage
    BY <1>1, <2>1
  <2> QED BY <2>2 DEF LengthOf
<1> DEFINE raw == Unparse(Val(0),
                          IF m.kind = "type" THEN Val(9) ELSE Known,
                          m.seq,
                          IF m.kind = "tag" THEN Val(9) ELSE Tag(Text),
                          m.text,
                          CASE m.kind = "long" -> 5 [] m.kind = "short" -> -5
                            [] OTHER -> 0)
<1>3. Bytes(m) = CASE m.kind = "cut" -> SubSeq(raw, 1, m.cut)
                   [] m.kind = "sum" -> [raw EXCEPT ![Len(raw) - 1] = CheckSumOf(<<>>)]
                   [] OTHER -> raw
  BY DEF Bytes
<1>4. raw = Unparse(Val(0), Known, n, Tag(Text), m.text, 0)
  BY <1>1
<1> HIDE DEF raw
<1>5. Bytes(m) = raw
  BY <1>1, <1>3
<1>6. raw = Raw(n, m.text)
  BY <1>2, <1>4, RawIs
<1> QED BY <1>2, <1>5, <1>6

\* What a parse makes of the bytes u in front of w: it returns the next
\* message, or it leaves them all there to wait for the rest.
Taken(S, g, d, u, w) ==
  LET p == Parse(u, MaxMessage)
  IN  \/ p.got = TRUE /\ p.msg.seq = d + 1 /\ Ahead(S, g, d + 1, From(u, p.at), w)
      \/ /\ p.got = FALSE /\ p.at = 1 /\ (w = <<>> => d = Len(sent))
         /\ Ahead(S, g, d, u, w)

LEMMA NothingParsed ==
  ASSUME NEW u, Len(u) = 0
  PROVE  Parse(u, MaxMessage) = [got |-> FALSE, at |-> 1]
<1>1. 1 \in 1..(Len(u) + 1) /\ Len(u) \in Nat /\ MaxMessage \in Nat
  BY SizeAssumption
<1> DEFINE f == Frame(u, 1, MaxMessage)
<1>2. Moved(u, 1, f)
  BY <1>1, FrameMoves
<1> HIDE DEF f
<1>3. f.st = "partial"
  BY <1>2 DEF Moved, Behind
<1> QED BY <1>1, <1>3, ParseStarts DEF f

LEMMA FromFirst ==
  ASSUME NEW S, NEW u \in Seq(S)
  PROVE  From(u, 1) = u
<1> DEFINE v == From(u, 1)
<1>1. v \in Seq(S) /\ Len(v) = Len(u) /\ \A i \in 1..Len(u) : v[i] = u[i]
  BY DEF From
<1> HIDE DEF v
<1>2. v = u
  BY <1>1, SeqEqual
<1> QED BY <1>2 DEF v

LEMMA TurnParse ==
  ASSUME Numbered, NEW S, NEW g, NEW d, NEW u, NEW w, After(S, g), Ahead(S, g, d, u, w),
         d < Len(sent) => ~Broken(sent[d + 1])
  PROVE  Taken(S, g, d, u, w)
<1>1. /\ d \in 0..Len(sent) /\ u \in Seq(S) /\ w \in Seq(S) /\ Cat(u, w) = g[d]
      /\ Len(sent) \in Nat
  BY DEF Ahead, Numbered
<1> DEFINE p == Parse(u, MaxMessage)
<1>2. CASE d = Len(sent)
  <2>1. Cat(u, w) = <<>>
    BY <1>1, <1>2 DEF After
  <2>2. Len(Cat(u, w)) = Len(u) + Len(w) /\ Len(u) \in Nat /\ Len(w) \in Nat
    <3>1. Len(Cat(u, w)) = Len(u) + Len(w)
      BY <1>1, CatIs
    <3> QED BY <1>1, <3>1
  <2>3. Len(u) = 0
    <3>1. Len(Cat(u, w)) = 0
      BY <2>1
    <3> QED BY <2>2, <3>1
  <2>4. p = [got |-> FALSE, at |-> 1]
    BY <2>3, NothingParsed
  <2> HIDE DEF p
  <2>5. p.got = FALSE /\ p.at = 1
    BY <2>4
  <2> QED BY <1>2, <2>5 DEF Taken, p
<1>3. CASE d < Len(sent)
  <2> DEFINE n == d + 1
             m == sent[n]
             text == m.text
             raw == Raw(n, text)
             T == S \cup Symbols \cup {SumFor(n, text)}
             b == g[n]
  <2>1. n \in Nat /\ n \in 1..Len(sent) /\ n - 1 = d /\ n \in 0..Len(sent)
    BY <1>1, <1>3
  <2>2. m \in Messages(n) /\ ~Broken(m)
    BY <1>3, <2>1 DEF Numbered
  <2>3. /\ Bytes(m) = raw /\ text \in Nat /\ LengthOf(text) <= MaxMessage
    BY <2>1, <2>2, WholeBytes
  <2>4. b \in Seq(S) /\ g[d] = Cat(raw, b) /\ raw \in Seq(S)
    BY <2>1, <2>3 DEF After
  <2> HIDE DEF m, n, text, raw, b
  <2>5. \/ StandsAt(u, 0, raw) /\ Cat(From(u, Len(raw) + 1), w) = b
        \/ Len(u) < Len(raw) /\ FrontOf(u, raw) /\ w # <<>>
    BY <1>1, <2>4, SplitCat
  <2>6. /\ Symbols \subseteq T /\ SumFor(n, text) \in T /\ S \subseteq T
    OBVIOUS
  <2> HIDE DEF T
  <2>7. Seq(S) \subseteq Seq(T)
    BY <2>6, SeqMonotonic
  <2>8. u \in Seq(T)
    BY <1>1, <2>7
  <2>9. Len(raw) = 12 + LengthOf(text) /\ LengthOf(text) \in Nat
    <3>1. Len(Raw(n, text)) = 12 + LengthOf(text)
      BY <2>1, <2>3, <2>6, RawParts
    <3> QED BY <2>3, <3>1 DEF raw, LengthOf
  <2>10. MaxMessage \in Nat
    BY SizeAssumption
  <2>11. CASE StandsAt(u, 0, raw) /\ Cat(From(u, Len(raw) + 1), w) = b
    <3>1. RawStands(T, u, MaxMessage, n, text)
      BY <2>1, <2>3, <2>6, <2>8, <2>10, <2>11 DEF RawStands, raw
    <3>2. Returned(p, 13 + LengthOf(text), n, text)
      BY <3>1, WholeParsed
    <3> HIDE DEF p
    <3>3. p.got = TRUE /\ p.at = 13 + LengthOf(text) /\ p.msg.seq = n
      BY <3>2 DEF Returned
    <3>4. p.at = Len(raw) + 1 /\ p.at \in 1..(Len(u) + 1)
      <4>1. 0 + Len(raw) <= Len(u)
        BY <2>11 DEF StandsAt
      <4> QED BY <1>1, <2>9, <3>3, <4>1
    <3>5. From(u, p.at) \in Seq(S)
      BY <1>1, <3>4, Behinds
    <3>6. Ahead(S, g, n, From(u, p.at), w)
      BY <1>1, <2>1, <2>11, <3>4, <3>5 DEF Ahead, b
    <3> QED BY <3>3, <3>6 DEF Taken, p, n
  <2>12. CASE Len(u) < Len(raw) /\ FrontOf(u, raw) /\ w # <<>>
    <3>1. RawBegun(T, u, MaxMessage, n, text)
      BY <2>1, <2>3, <2>6, <2>8, <2>9, <2>10, <2>12 DEF RawBegun, raw
    <3>2. p = [got |-> FALSE, at |-> 1]
      BY <3>1, FrontParsed
    <3> HIDE DEF p
    <3>3. p.got = FALSE /\ p.at = 1
      BY <3>2
    <3> QED BY <2>12, <3>3 DEF Taken, p
  <2> QED BY <2>5, <2>11, <2>12
<1> QED BY <1>1, <1>2, <1>3

\* A message that was returned stays returned.
LEMMA DeliverKeeps ==
  ASSUME NEW D, delivered \in Seq(D), NEW p, p.got \in BOOLEAN, Deliver(p)
  PROVE  /\ \E E : delivered' \in Seq(E)
         /\ \A n : Reached(n) => Reached(n)'
<1>1. CASE p.got
  <2> DEFINE E == D \cup {p.msg}
             x == p.msg
  <2>1. delivered \in Seq(E) /\ x \in E
    OBVIOUS
  <2>2. delivered' = Append(delivered, x)
    BY <1>1 DEF Deliver
  <2> HIDE DEF E, x
  <2>3. /\ delivered' \in Seq(E) /\ Len(delivered') = Len(delivered) + 1
        /\ Len(delivered) \in Nat
        /\ \A i \in 1..Len(delivered) : delivered'[i] = delivered[i]
    BY <2>1, <2>2
  <2>4. ASSUME NEW n, Reached(n) PROVE Reached(n)'
    <3>1. PICK i \in 1..Len(delivered) : delivered[i].seq = n
      BY <2>4 DEF Reached
    <3>2. i \in 1..Len(delivered') /\ delivered'[i] = delivered[i]
      BY <2>3, <3>1
    <3>3. delivered'[i].seq = n
      BY <3>1, <3>2
    <3> QED BY <3>2, <3>3 DEF Reached
  <2> QED BY <2>3, <2>4
<1>2. CASE ~p.got
  <2>1. delivered' = delivered
    BY <1>2 DEF Deliver
  <2>2. \A n : Reached(n) => Reached(n)'
    BY <2>1 DEF Reached
  <2> QED BY <2>1, <2>2
<1> QED BY <1>1, <1>2

\* What the next call takes of u, it returns.
LEMMA TakenReturns ==
  ASSUME NEW D, delivered \in Seq(D), NEW S, NEW g, NEW d, NEW u,
         After(S, g), sent' = sent, Returns(d), Taken(S, g, d, u, wire'), u \in Seq(S),
         NEW p, p = Parse(u, MaxMessage), Deliver(p), unread' = From(u, p.at)
  PROVE  InTurn'
<1>0. After(S, g)'
  BY DEF After
<1>1. CASE p.got = TRUE /\ p.msg.seq = d + 1 /\ Ahead(S, g, d + 1, From(u, p.at), wire')
  <2> DEFINE x == p.msg
             E == D \cup {x}
  <2>1. delivered' = Append(delivered, x) /\ x.seq = d + 1
    BY <1>1 DEF Deliver
  <2>2. delivered \in Seq(E) /\ x \in E
    OBVIOUS
  <2>3. Len(delivered) = d /\ d \in Nat /\ \A i \in 1..d : delivered[i].seq = i
    BY DEF Returns
  <2> HIDE DEF x, E
  <2>4. /\ Len(delivered') = d + 1 /\ delivered'[d + 1] = x
        /\ \A i \in 1..d : delivered'[i] = delivered[i]
    BY <2>1, <2>2, <2>3
  <2>5. ASSUME NEW i \in 1..(d + 1) PROVE delivered'[i].seq = i
    <3>1. CASE i = d + 1
      BY <2>1, <2>4, <3>1
    <3>2. CASE i # d + 1
      <4>1. i \in 1..d
        BY <2>3, <3>2
      <4> QED BY <2>3, <2>4, <4>1
    <3> QED BY <3>1, <3>2
  <2>6. Returns(d + 1)'
    <3> DEFINE e == d + 1
    <3>1. Len(delivered') = e /\ \A i \in 1..e : delivered'[i].seq = i
      BY <2>4, <2>5
    <3> QED BY <3>1 DEF Returns
  <2>7. Ahead(S, g, d + 1, unread, wire)'
    BY <1>1 DEF Ahead
  <2> QED BY <1>0, <2>6, <2>7 DEF InTurn
<1>2. CASE /\ p.got = FALSE /\ p.at = 1 /\ (wire' = <<>> => d = Len(sent))
           /\ Ahead(S, g, d, u, wire')
  <2>1. unread' = u
    <3>1. From(u, 1) = u
      BY FromFirst
    <3> QED BY <1>2, <3>1
  <2>2. delivered' = delivered
    BY <1>2 DEF Deliver
  <2>3. Returns(d)'
    BY <2>2 DEF Returns
  <2>4. Ahead(S, g, d, unread, wire)'
    BY <1>2, <2>1 DEF Ahead
  <2> QED BY <1>0, <2>3, <2>4 DEF InTurn
<1> QED BY <1>1, <1>2 DEF Taken

LEMMA BrokenIsNext ==
  ASSUME NEW d, Len(sent) \in Nat, d \in 0..Len(sent), Returns(d),
         d < Len(sent), Broken(sent[d + 1])
  PROVE  Done
<1>1. d + 1 \in 1..Len(sent) /\ (d + 1) - 1 = d
  OBVIOUS
<1>2. ASSUME NEW n \in 1..d PROVE Reached(n)
  <2>1. n \in 1..Len(delivered) /\ delivered[n].seq = n
    BY DEF Returns
  <2> QED BY <2>1 DEF Reached
<1> QED BY <1>1, <1>2 DEF Done

\* What a call that finds no message in the buffer then parses.
LEMMA Refilled ==
  ASSUME NEW S, unread \in Seq(S), wire \in Seq(S), Recv,
         Parse(unread, MaxMessage).got = FALSE
  PROVE  LET rest == From(unread, Parse(unread, MaxMessage).at)
         IN  \E n \in 0..Len(wire) : \E st :
               /\ wire' = From(wire, n + 1)
               /\ BufferBecomes(st, More(rest, wire, n),
                                Parse(More(rest, wire, n), MaxMessage))
               /\ Deliver(Parse(More(rest, wire, n), MaxMessage))
               /\ More(rest, wire, n) \in Seq(S) /\ wire' \in Seq(S)
               /\ Cat(More(rest, wire, n), wire') = Cat(rest, wire)
<1> DEFINE p == Parse(unread, MaxMessage)
           rest == From(unread, p.at)
           st == Compact(start + p.at - 1, rest)
<1>1. Len(unread) \in Nat /\ MaxMessage \in Nat
  BY SizeAssumption
<1>2. p.at \in 1..(Len(unread) + 1)
  BY <1>1, ParseWithin
<1>3. PICK n \in 0..Len(wire) : Receive(st, rest, n)
  BY DEF Recv
<1> HIDE DEF p
<1>4. rest \in Seq(S)
  BY <1>2, Behinds
<1> HIDE DEF rest, st
<1> DEFINE more == More(rest, wire, n)
<1>5. wire' = From(wire, n + 1) /\ BufferBecomes(st, more, Parse(more, MaxMessage))
      /\ Deliver(Parse(more, MaxMessage))
  BY <1>3 DEF Receive, More
<1>6. /\ more \in Seq(S) /\ From(wire, n + 1) \in Seq(S)
      /\ InARow(<<>>, more, From(wire, n + 1)) = InARow(<<>>, rest, wire)
  BY <1>4, Refills
<1> HIDE DEF more
<1>7. Cat(more, wire') = Cat(rest, wire)
  <2>1. \A S1, x : x \in Seq(S1) => Cat(<<>>, x) = x
    BY DEF Cat
  <2>2. Cat(more, wire') \in Seq(S) /\ Cat(rest, wire) \in Seq(S)
    BY <1>4, <1>5, <1>6, CatIs
  <2>3. Cat(<<>>, Cat(more, wire')) = Cat(<<>>, Cat(rest, wire))
    BY <1>5, <1>6 DEF InARow
  <2> QED BY <2>1, <2>2, <2>3
<1> QED BY <1>5, <1>6, <1>7 DEF more, rest, p

LEMMA RecvAInv == IInv /\ AInv /\ Recv => AInv'
<1> SUFFICES ASSUME IInv, AInv, Recv PROVE AInv'
  OBVIOUS
<1>1. PICK R : \E taken \in Seq(R) : Stream(R, taken)
  BY DEF IInv
<1>2. unread \in Seq(R) /\ wire \in Seq(R)
  BY <1>1 DEF Stream
<1>3. sent' = sent /\ Len(sent) \in Nat
  BY DEF Recv, AInv, Numbered
<1>4. Numbered'
  BY <1>3 DEF AInv, Numbered
<1>5. PICK D : delivered \in Seq(D)
  BY DEF AInv
<1>6. MaxMessage \in Nat
  BY SizeAssumption
<1> DEFINE p == Parse(unread, MaxMessage)
           rest == From(unread, p.at)
<1>7. p.got \in BOOLEAN
  BY <1>2, <1>6, ParseWithin
<1>8. p.got = TRUE => BufferBecomes(start, unread, p) /\ Deliver(p) /\ wire' = wire
  BY DEF Recv, TakeParsed
<1> HIDE DEF p, rest
<1>9. \E q : q.got \in BOOLEAN /\ Deliver(q)
  <2>1. CASE p.got = TRUE
    BY <1>7, <1>8, <2>1
  <2>2. CASE p.got = FALSE
    <3>1. PICK n \in 0..Len(wire) :
            /\ Deliver(Parse(More(rest, wire, n), MaxMessage))
            /\ More(rest, wire, n) \in Seq(R)
      BY <1>2, <2>2, Refilled DEF p, rest
    <3> DEFINE more == More(rest, wire, n)
    <3>2. more \in Seq(R)
      BY <3>1
    <3> HIDE DEF more
    <3>3. Len(more) \in Nat
      BY <3>2
    <3>4. Parse(more, MaxMessage).got \in BOOLEAN
      BY <1>6, <3>3, ParseWithin
    <3> QED BY <3>1, <3>4 DEF more
  <2> QED BY <1>7, <2>1, <2>2
<1>10. (\E E : delivered' \in Seq(E)) /\ \A n : Reached(n) => Reached(n)'
  <2>1. PICK q : q.got \in BOOLEAN /\ Deliver(q)
    BY <1>9
  <2> QED BY <1>5, <2>1, DeliverKeeps
<1>11. ASSUME Done PROVE AInv'
  <2>1. PICK m \in 1..Len(sent) : Broken(sent[m]) /\ \A n \in 1..(m - 1) : Reached(n)
    BY <1>11 DEF Done
  <2>2. \A n \in 1..(m - 1) : Reached(n)'
    BY <1>10, <2>1
  <2>3. m \in 1..Len(sent') /\ Broken(sent'[m])
    BY <1>3, <2>1
  <2>4. Done'
    BY <2>2, <2>3 DEF Done
  <2> QED BY <1>4, <1>10, <2>4 DEF AInv
<1>12. CASE InTurn
  <2>1. PICK S : \E g, d : After(S, g) /\ Ahead(S, g, d, unread, wire) /\ Returns(d)
    BY <1>12 DEF InTurn
  <2>2. PICK g, d : After(S, g) /\ Ahead(S, g, d, unread, wire) /\ Returns(d)
    BY <2>1
  <2>3. /\ d \in 0..Len(sent) /\ unread \in Seq(S) /\ wire \in Seq(S)
        /\ Cat(unread, wire) = g[d]
    BY <2>2 DEF Ahead
  <2>4. CASE d < Len(sent) /\ Broken(sent[d + 1])
    <3>1. Done
      BY <1>3, <2>2, <2>3, <2>4, BrokenIsNext
    <3> QED BY <1>11, <3>1
  <2>5. CASE ~(d < Len(sent) /\ Broken(sent[d + 1]))
    <3>0. Numbered /\ (d < Len(sent) => ~Broken(sent[d + 1]))
      BY <2>5 DEF AInv
    <3>1. Taken(S, g, d, unread, wire)
      BY <2>2, <3>0, TurnParse
    <3>2. CASE p.got = TRUE
      <4>1. wire' = wire /\ Deliver(p) /\ unread' = From(unread, p.at)
        BY <1>8, <3>2 DEF BufferBecomes
      <4>2. Taken(S, g, d, unread, wire')
        BY <3>1, <4>1
      <4>3. InTurn'
        BY <1>3, <1>5, <2>2, <2>3, <4>1, <4>2, TakenReturns DEF p
      <4> QED BY <1>4, <1>10, <4>3 DEF AInv
    <3>3. CASE p.got = FALSE
      <4>1. p.at = 1
        BY <3>1, <3>3 DEF Taken, p
      <4>2. rest = unread
        BY <2>3, <4>1, FromFirst DEF rest
      <4>3. PICK n \in 0..Len(wire) : \E st :
              /\ wire' = From(wire, n + 1)
              /\ BufferBecomes(st, More(rest, wire, n),
                               Parse(More(rest, wire, n), MaxMessage))
              /\ Deliver(Parse(More(rest, wire, n), MaxMessage))
              /\ More(rest, wire, n) \in Seq(S) /\ wire' \in Seq(S)
              /\ Cat(More(rest, wire, n), wire') = Cat(rest, wire)
        BY <2>3, <3>3, Refilled DEF p, rest
      <4> PICK more : more = More(rest, wire, n)
        OBVIOUS
      <4> PICK q : q = Parse(more, MaxMessage)
        OBVIOUS
      <4>4. PICK st : /\ BufferBecomes(st, more, q) /\ Deliver(q) /\ more \in Seq(S)
                      /\ wire' \in Seq(S) /\ Cat(more, wire') = g[d]
        BY <2>3, <4>2, <4>3
      <4>5. Ahead(S, g, d, more, wire')
        BY <2>3, <4>4 DEF Ahead
      <4>6. Taken(S, g, d, more, wire')
        BY <2>2, <3>0, <4>5, TurnParse
      <4>7. unread' = From(more, q.at)
        BY <4>4 DEF BufferBecomes
      <4>8. InTurn'
        BY <1>3, <1>5, <2>2, <4>4, <4>6, <4>7, TakenReturns
      <4> QED BY <1>4, <1>10, <4>8 DEF AInv
    <3> QED BY <1>7, <3>2, <3>3
  <2> QED BY <2>4, <2>5
<1> QED BY <1>11, <1>12 DEF AInv

LEMMA StayAInv == AInv /\ UNCHANGED vars => AInv'
<1> SUFFICES ASSUME AInv, UNCHANGED vars PROVE AInv'
  OBVIOUS
<1>1. sent' = sent /\ wire' = wire /\ unread' = unread /\ delivered' = delivered
  BY DEF vars
<1>2. Numbered' /\ \E D : delivered' \in Seq(D)
  BY <1>1 DEF AInv, Numbered
<1>3. CASE Done
  <2>1. Done'
    BY <1>1, <1>3 DEF Done, Reached
  <2> QED BY <1>2, <2>1 DEF AInv
<1>4. CASE InTurn
  <2>1. PICK S : \E g, d : After(S, g) /\ Ahead(S, g, d, unread, wire) /\ Returns(d)
    BY <1>4 DEF InTurn
  <2>2. PICK g, d : After(S, g) /\ Ahead(S, g, d, unread, wire) /\ Returns(d)
    BY <2>1
  <2>3. After(S, g)'
    BY <1>1, <2>2 DEF After
  <2>4. Ahead(S, g, d, unread, wire)'
    BY <1>1, <2>2 DEF Ahead
  <2>5. Returns(d)'
    BY <1>1, <2>2 DEF Returns
  <2>6. InTurn'
    BY <2>3, <2>4, <2>5 DEF InTurn
  <2> QED BY <1>2, <2>6 DEF AInv
<1> QED BY <1>3, <1>4 DEF AInv

LEMMA AInvIsEnough == AInv => AllArrived
<1> SUFFICES ASSUME AInv, AtRest, NEW n \in 1..Len(sent), ~Excused(n) PROVE Reached(n)
  BY DEF AllArrived, Reached
<1>1. Len(sent) \in Nat /\ Numbered
  BY DEF AInv, Numbered
<1>2. ASSUME Done PROVE Reached(n)
  <2>1. PICK m \in 1..Len(sent) : Broken(sent[m]) /\ \A k \in 1..(m - 1) : Reached(k)
    BY <1>2 DEF Done
  <2>2. CASE m <= n
    <3>1. m \in 1..n
      BY <1>1, <2>2
    <3> QED BY <2>1, <3>1 DEF Excused
  <2>3. CASE ~(m <= n)
    <3>1. n \in 1..(m - 1)
      BY <1>1, <2>3
    <3> QED BY <2>1, <3>1
  <2> QED BY <2>2, <2>3
<1>3. CASE InTurn
  <2>1. PICK S : \E g, d : After(S, g) /\ Ahead(S, g, d, unread, wire) /\ Returns(d)
    BY <1>3 DEF InTurn
  <2>2. PICK g, d : After(S, g) /\ Ahead(S, g, d, unread, wire) /\ Returns(d)
    BY <2>1
  <2>3. d \in 0..Len(sent)
    BY <2>2 DEF Ahead
  <2>4. CASE d < Len(sent) /\ Broken(sent[d + 1])
    <3>1. Done
      BY <1>1, <2>2, <2>3, <2>4, BrokenIsNext
    <3> QED BY <1>2, <3>1
  <2>5. CASE ~(d < Len(sent) /\ Broken(sent[d + 1]))
    <3>0. d < Len(sent) => ~Broken(sent[d + 1])
      BY <2>5
    <3>1. Taken(S, g, d, unread, wire)
      BY <1>1, <2>2, <3>0, TurnParse
    <3>2. wire = <<>> /\ ~Parse(unread, MaxMessage).got
      BY DEF AtRest
    <3>3. d = Len(sent)
      BY <3>1, <3>2 DEF Taken
    <3>4. n \in 1..Len(delivered) /\ delivered[n].seq = n
      BY <2>2, <3>3 DEF Returns
    <3> QED BY <3>4 DEF Reached
  <2> QED BY <2>4, <2>5
<1> QED BY <1>2, <1>3 DEF AInv

\* What fix_session_recv owes its caller: once no byte is on its way and a
\* call returns nothing, every whole message sent before the first broken one
\* has been returned, however the bytes were cut into pieces, and wherever in
\* the buffer a compaction has put them.
THEOREM WholeMessagesArrive == Spec => []AllArrived
<1>1. IInv /\ UNCHANGED vars => IInv'
  BY DEF IInv, Within, Stream, BytesSent, vars
<1>2. IInv /\ AInv /\ [Next]_vars => IInv' /\ AInv'
  BY <1>1, SendIInv, RecvIInv, StayAInv, SendAInv, RecvAInv DEF Next
<1>3. Spec => [](IInv /\ AInv)
  BY InitIInv, InitAInv, <1>2, PTL DEF Spec
<1> QED BY <1>3, AInvIsEnough, PTL
=============================================================================
