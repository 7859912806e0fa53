-------------------------- MODULE FixTemplate_proofs --------------------------
(***************************************************************************)
(* Proofs about a message template, for all numbers, times, sessions and   *)
(* any constant and variable fields: what an unparse leaves is, symbol by  *)
(* symbol, the message that would be built anew, and the parser reads it   *)
(* back.                                                                   *)
(***************************************************************************)
EXTENDS FixTemplate, FixWire_proofs

(***************************************************************************)
(* The head of a message, field after field, with the values that change.  *)
(***************************************************************************)
Head2(length) == Cat(Value(BeginString, Zero), Value(BodyLength, length))
Head3(length) == Cat(Head2(length), Value(MsgType, Known))
Head4(length, seq) == Cat(Head3(length), Value(MsgSeqNum, seq))
Head5(length, seq, sender) == Cat(Head4(length, seq), Value(SenderCompID, sender))
Head6(length, seq, sender, now) ==
  Cat(Head5(length, seq, sender), Value(SendingTime, now))
Head7(length, seq, sender, now) ==
  Cat(Head6(length, seq, sender, now), Value(TargetCompID, Zero))
Head8(length, seq, sender, now) ==
  Cat(Head7(length, seq, sender, now), Value(TransactTime, now))
HeadOf(transact, length, seq, sender, now) ==
  IF transact THEN Head8(length, seq, sender, now) ELSE Head7(length, seq, sender, now)
HeadSize(transact) == IF transact THEN 32 ELSE 28

LEMMA TagsTyped ==
  /\ BeginString \in Nat /\ BodyLength \in Nat /\ MsgType \in Nat /\ MsgSeqNum \in Nat
  /\ SenderCompID \in Nat /\ SendingTime \in Nat /\ TargetCompID \in Nat
  /\ TransactTime \in Nat /\ CheckSum \in Nat /\ Text \in Nat
  /\ Zero \in Symbols /\ Known \in Symbols
BY DEF BeginString, BodyLength, MsgType, MsgSeqNum, SenderCompID, SendingTime,
       TargetCompID, TransactTime, CheckSum, Text, Symbols, Zero, Known

\* Sequences of a length.
Of(S, n) == {s \in Seq(S) : Len(s) = n}

LEMMA CatOf ==
  ASSUME NEW S, NEW m \in Nat, NEW n \in Nat, NEW a \in Of(S, m), NEW b \in Of(S, n)
  PROVE  Cat(a, b) \in Of(S, m + n)
<1>1. a \in Seq(S) /\ b \in Seq(S) /\ Len(a) = m /\ Len(b) = n
  BY DEF Of
<1>2. Cat(a, b) \in Seq(S)
  BY <1>1, CatIs
<1>3. Len(Cat(a, b)) = Len(a) + Len(b)
  BY <1>1, CatIs, Zenon
<1> QED BY <1>1, <1>2, <1>3 DEF Of

LEMMA ValueOf ==
  ASSUME NEW S, Symbols \subseteq S, NEW tag \in Nat, NEW value \in S
  PROVE  Value(tag, value) \in Of(S, 4)
<1>1. Tag(tag) \in S /\ Eq \in S /\ Soh \in S
  BY DEF Symbols
<1> QED BY <1>1 DEF Value, Field, Of

LEMMA HeadTyped ==
  ASSUME NEW S, Symbols \subseteq S,
         NEW length \in S, NEW seq \in S, NEW sender \in S, NEW now \in S
  PROVE  /\ Head2(length) \in Of(S, 8)
         /\ Head3(length) \in Of(S, 12)
         /\ Head4(length, seq) \in Of(S, 16)
         /\ Head5(length, seq, sender) \in Of(S, 20)
         /\ Head6(length, seq, sender, now) \in Of(S, 24)
         /\ Head7(length, seq, sender, now) \in Of(S, 28)
         /\ Head8(length, seq, sender, now) \in Of(S, 32)
<1>0. Zero \in S /\ Known \in S
  BY TagsTyped
<1>1. /\ Value(BeginString, Zero) \in Of(S, 4) /\ Value(BodyLength, length) \in Of(S, 4)
      /\ Value(MsgType, Known) \in Of(S, 4) /\ Value(MsgSeqNum, seq) \in Of(S, 4)
  BY <1>0, TagsTyped, ValueOf
<1>2. /\ Value(SenderCompID, sender) \in Of(S, 4) /\ Value(SendingTime, now) \in Of(S, 4)
      /\ Value(TargetCompID, Zero) \in Of(S, 4) /\ Value(TransactTime, now) \in Of(S, 4)
  BY <1>0, TagsTyped, ValueOf
<1>3. Head2(length) \in Of(S, 8)
  BY <1>1, CatOf DEF Head2
<1>4. Head3(length) \in Of(S, 12)
  BY <1>1, <1>3, CatOf DEF Head3
<1>5. Head4(length, seq) \in Of(S, 16)
  BY <1>1, <1>4, CatOf DEF Head4
<1>6. Head5(length, seq, sender) \in Of(S, 20)
  BY <1>2, <1>5, CatOf DEF Head5
<1>7. Head6(length, seq, sender, now) \in Of(S, 24)
  BY <1>2, <1>6, CatOf DEF Head6
<1>8. Head7(length, seq, sender, now) \in Of(S, 28)
  BY <1>2, <1>7, CatOf DEF Head7
<1>9. Head8(length, seq, sender, now) \in Of(S, 32)
  BY <1>2, <1>8, CatOf DEF Head8
<1> QED BY <1>3, <1>4, <1>5, <1>6, <1>7, <1>8, <1>9

LEMMA HeadOfTyped ==
  ASSUME NEW S, Symbols \subseteq S, NEW transact \in BOOLEAN,
         NEW length \in S, NEW seq \in S, NEW sender \in S, NEW now \in S
  PROVE  HeadOf(transact, length, seq, sender, now) \in Of(S, HeadSize(transact))
BY HeadTyped DEF HeadOf, HeadSize

(***************************************************************************)
(* Writing at a marker.                                                    *)
(***************************************************************************)
LEMMA PutAt ==
  ASSUME NEW S, NEW a \in Seq(S), NEW m, NEW v \in S
  PROVE  \A i \in 1..Len(a) : Put(a, m, v)[i] = IF i = m THEN v ELSE a[i]
<1>1. Put(a, m, v) = [i \in 1..Len(a) |-> IF i = m THEN v ELSE a[i]]
  BY DEF Put
<1> QED BY <1>1

LEMMA PutSeq ==
  ASSUME NEW S, NEW a \in Seq(S), NEW m, NEW v \in S
  PROVE  Put(a, m, v) \in Seq(S) /\ Len(Put(a, m, v)) = Len(a)
<1>1. Put(a, m, v) = [i \in 1..Len(a) |-> IF i = m THEN v ELSE a[i]]
  BY DEF Put
<1>2. \A i \in 1..Len(a) : a[i] \in S
  OBVIOUS
<1> QED BY <1>1, <1>2

LEMMA PutOf ==
  ASSUME NEW S, NEW n \in Nat, NEW a \in Of(S, n), NEW m, NEW v \in S
  PROVE  Put(a, m, v) \in Of(S, n)
<1>0. a \in Seq(S) /\ Len(a) = n
  BY DEF Of
<1>1. Put(a, m, v) \in Seq(S) /\ Len(Put(a, m, v)) = Len(a)
  BY <1>0, PutSeq
<1> QED BY <1>0, <1>1 DEF Of

\* Two sequences of a length are the same when their elements are.
LEMMA SameOf ==
  ASSUME NEW S, NEW n \in Nat, NEW a \in Of(S, n), NEW b \in Of(S, n),
         \A i \in 1..n : a[i] = b[i]
  PROVE  a = b
<1>1. a \in Seq(S) /\ b \in Seq(S) /\ Len(a) = n /\ Len(b) = n
  BY DEF Of
<1> QED BY <1>1, SeqEqual

\* The elements of a sequence put together from two.
LEMMA CatOfAt ==
  ASSUME NEW S, NEW m \in Nat, NEW n \in Nat, NEW a \in Of(S, m), NEW b \in Of(S, n),
         NEW i \in 1..(m + n)
  PROVE  /\ Cat(a, b)[i] = IF i <= m THEN a[i] ELSE b[i - m]
         /\ i > m => i - m \in 1..n
<1>1. a \in Seq(S) /\ b \in Seq(S) /\ Len(a) = m /\ Len(b) = n
  BY DEF Of
<1>2. CASE i <= m
  BY <1>1, <1>2, CatElements
<1>3. CASE i > m
  <2> DEFINE j == i - m
  <2>1. j \in 1..n /\ m + j = i
    BY <1>3
  <2>2. Cat(a, b)[Len(a) + j] = b[j]
    <3> HIDE DEF j
    <3>1. j \in 1..Len(b)
      BY <1>1, <2>1
    <3> QED BY <1>1, <3>1, CatSecond
  <2>3. Cat(a, b)[i] = b[j]
    BY <1>1, <2>1, <2>2
  <2> QED BY <1>3, <2>1, <2>3
<1> QED BY <1>2, <1>3

LEMMA PutOfAt ==
  ASSUME NEW S, NEW n \in Nat, NEW a \in Of(S, n), NEW m, NEW v \in S, NEW i \in 1..n
  PROVE  Put(a, m, v)[i] = IF i = m THEN v ELSE a[i]
<1>1. a \in Seq(S) /\ Len(a) = n
  BY DEF Of
<1> QED BY <1>1, PutAt

LEMMA PutCat ==
  ASSUME NEW S, NEW k \in Nat, NEW n \in Nat, NEW a \in Of(S, k), NEW b \in Of(S, n),
         NEW m \in Nat, NEW v \in S
  PROVE  /\ m <= k => Put(Cat(a, b), m, v) = Cat(Put(a, m, v), b)
         /\ m > k => Put(Cat(a, b), m, v) = Cat(a, Put(b, m - k, v))
<1> DEFINE c == Cat(a, b)
           x == Put(c, m, v)
           p == Put(a, m, v)
           q == Put(b, m - k, v)
           y == Cat(p, b)
           z == Cat(a, q)
<1>1. c \in Of(S, k + n)
  BY CatOf
<1>2. x \in Of(S, k + n)
  BY <1>1, PutOf
<1>3. p \in Of(S, k) /\ q \in Of(S, n)
  BY PutOf
<1>4. y \in Of(S, k + n) /\ z \in Of(S, k + n)
  BY <1>3, CatOf
<1>5. ASSUME NEW i \in 1..(k + n)
      PROVE  /\ m <= k => x[i] = y[i]
             /\ m > k => x[i] = z[i]
  <2>1. x[i] = IF i = m THEN v ELSE c[i]
    BY <1>1, PutOfAt
  <2>2. c[i] = IF i <= k THEN a[i] ELSE b[i - k]
    BY CatOfAt
  <2>3. y[i] = IF i <= k THEN p[i] ELSE b[i - k]
    BY <1>3, CatOfAt
  <2>4. z[i] = IF i <= k THEN a[i] ELSE q[i - k]
    BY <1>3, CatOfAt
  <2>5. i <= k => p[i] = IF i = m THEN v ELSE a[i]
    BY PutOfAt
  <2>6. i > k => i - k \in 1..n
    OBVIOUS
  <2>7. i > k => q[i - k] = IF i - k = m - k THEN v ELSE b[i - k]
    BY <2>6, PutOfAt
  <2> HIDE DEF c, x, p, q, y, z
  <2> QED BY <2>1, <2>2, <2>3, <2>4, <2>5, <2>7
<1> HIDE DEF c, x, p, q, y, z
<1>6. m <= k => x = y
  BY <1>2, <1>4, <1>5, SameOf
<1>7. m > k => x = z
  BY <1>2, <1>4, <1>5, SameOf
<1> QED BY <1>6, <1>7 DEF c, x, p, q, y, z

LEMMA PutValue ==
  ASSUME NEW tag \in Nat, NEW old \in Symbols, NEW value \in Symbols
  PROVE  Put(Value(tag, old), 3, value) = Value(tag, value)
<1> DEFINE a == Value(tag, old)
           b == Value(tag, value)
           c == Put(a, 3, value)
<1>1. Tag(tag) \in Symbols /\ Eq \in Symbols /\ Soh \in Symbols
  BY DEF Symbols
<1>2. a \in Of(Symbols, 4) /\ b \in Of(Symbols, 4)
  BY ValueOf
<1>3. a[1] = Tag(tag) /\ a[2] = Eq /\ a[4] = Soh
  BY <1>1 DEF Value, Field
<1>4. b[1] = Tag(tag) /\ b[2] = Eq /\ b[3] = value /\ b[4] = Soh
  BY <1>1 DEF Value, Field
<1>5. c \in Of(Symbols, 4)
  BY <1>2, PutOf
<1>6. ASSUME NEW i \in 1..4 PROVE c[i] = b[i]
  <2>1. c[i] = IF i = 3 THEN value ELSE a[i]
    BY <1>2, PutOfAt
  <2> HIDE DEF a, b, c
  <2> QED BY <1>3, <1>4, <2>1
<1> HIDE DEF a, b, c
<1>7. c = b
  BY <1>2, <1>5, <1>6, SameOf
<1> QED BY <1>7 DEF a, b, c

(***************************************************************************)
(* The values of the head, each put at its place.                          *)
(***************************************************************************)
Pieces(length, seq, sender, now) ==
  /\ Value(BeginString, Zero) \in Of(Symbols, 4)
  /\ Value(BodyLength, length) \in Of(Symbols, 4)
  /\ Value(MsgType, Known) \in Of(Symbols, 4)
  /\ Value(MsgSeqNum, seq) \in Of(Symbols, 4)
  /\ Value(SenderCompID, sender) \in Of(Symbols, 4)
  /\ Value(SendingTime, now) \in Of(Symbols, 4)
  /\ Value(TargetCompID, Zero) \in Of(Symbols, 4)
  /\ Value(TransactTime, now) \in Of(Symbols, 4)
  /\ Head2(length) \in Of(Symbols, 8)
  /\ Head3(length) \in Of(Symbols, 12)
  /\ Head4(length, seq) \in Of(Symbols, 16)
  /\ Head5(length, seq, sender) \in Of(Symbols, 20)
  /\ Head6(length, seq, sender, now) \in Of(Symbols, 24)
  /\ Head7(length, seq, sender, now) \in Of(Symbols, 28)
  /\ Head8(length, seq, sender, now) \in Of(Symbols, 32)

LEMMA PiecesTyped ==
  ASSUME NEW length \in Symbols, NEW seq \in Symbols, NEW sender \in Symbols,
         NEW now \in Symbols
  PROVE  Pieces(length, seq, sender, now)
BY TagsTyped, ValueOf, HeadTyped DEF Pieces

LEMMA PutLength ==
  ASSUME NEW transact \in BOOLEAN, NEW new \in Symbols, NEW length \in Symbols,
         NEW seq \in Symbols, NEW sender \in Symbols, NEW now \in Symbols
  PROVE  Put(HeadOf(transact, length, seq, sender, now), 7, new)
           = HeadOf(transact, new, seq, sender, now)
<1>0. Pieces(length, seq, sender, now)
  BY PiecesTyped
<1>1. Put(Value(BodyLength, length), 7 - 4, new) = Value(BodyLength, new)
  BY TagsTyped, PutValue
<1>2. Put(Head2(length), 7, new) = Head2(new)
  BY <1>1, <1>0, PutCat DEF Pieces, Head2
<1>3. Put(Head3(length), 7, new) = Head3(new)
  BY <1>2, <1>0, PutCat DEF Pieces, Head3
<1>4. Put(Head4(length, seq), 7, new) = Head4(new, seq)
  BY <1>3, <1>0, PutCat DEF Pieces, Head4
<1>5. Put(Head5(length, seq, sender), 7, new) = Head5(new, seq, sender)
  BY <1>4, <1>0, PutCat DEF Pieces, Head5
<1>6. Put(Head6(length, seq, sender, now), 7, new) = Head6(new, seq, sender, now)
  BY <1>5, <1>0, PutCat DEF Pieces, Head6
<1>7. Put(Head7(length, seq, sender, now), 7, new) = Head7(new, seq, sender, now)
  BY <1>6, <1>0, PutCat DEF Pieces, Head7
<1>8. Put(Head8(length, seq, sender, now), 7, new) = Head8(new, seq, sender, now)
  BY <1>7, <1>0, PutCat DEF Pieces, Head8
<1> QED BY <1>7, <1>8 DEF HeadOf

LEMMA PutSeqNum ==
  ASSUME NEW transact \in BOOLEAN, NEW new \in Symbols, NEW length \in Symbols,
         NEW seq \in Symbols, NEW sender \in Symbols, NEW now \in Symbols
  PROVE  Put(HeadOf(transact, length, seq, sender, now), 15, new)
           = HeadOf(transact, length, new, sender, now)
<1>0. Pieces(length, seq, sender, now)
  BY PiecesTyped
<1>1. Put(Value(MsgSeqNum, seq), 15 - 12, new) = Value(MsgSeqNum, new)
  BY TagsTyped, PutValue
<1>2. Put(Head4(length, seq), 15, new) = Head4(length, new)
  BY <1>1, <1>0, PutCat DEF Pieces, Head4
<1>3. Put(Head5(length, seq, sender), 15, new) = Head5(length, new, sender)
  BY <1>2, <1>0, PutCat DEF Pieces, Head5
<1>4. Put(Head6(length, seq, sender, now), 15, new) = Head6(length, new, sender, now)
  BY <1>3, <1>0, PutCat DEF Pieces, Head6
<1>5. Put(Head7(length, seq, sender, now), 15, new) = Head7(length, new, sender, now)
  BY <1>4, <1>0, PutCat DEF Pieces, Head7
<1>6. Put(Head8(length, seq, sender, now), 15, new) = Head8(length, new, sender, now)
  BY <1>5, <1>0, PutCat DEF Pieces, Head8
<1> QED BY <1>5, <1>6 DEF HeadOf

LEMMA PutSender ==
  ASSUME NEW transact \in BOOLEAN, NEW new \in Symbols, NEW length \in Symbols,
         NEW seq \in Symbols, NEW sender \in Symbols, NEW now \in Symbols
  PROVE  Put(HeadOf(transact, length, seq, sender, now), 19, new)
           = HeadOf(transact, length, seq, new, now)
<1>0. Pieces(length, seq, sender, now)
  BY PiecesTyped
<1>1. Put(Value(SenderCompID, sender), 19 - 16, new) = Value(SenderCompID, new)
  BY TagsTyped, PutValue
<1>2. Put(Head5(length, seq, sender), 19, new) = Head5(length, seq, new)
  BY <1>1, <1>0, PutCat DEF Pieces, Head5
<1>3. Put(Head6(length, seq, sender, now), 19, new) = Head6(length, seq, new, now)
  BY <1>2, <1>0, PutCat DEF Pieces, Head6
<1>4. Put(Head7(length, seq, sender, now), 19, new) = Head7(length, seq, new, now)
  BY <1>3, <1>0, PutCat DEF Pieces, Head7
<1>5. Put(Head8(length, seq, sender, now), 19, new) = Head8(length, seq, new, now)
  BY <1>4, <1>0, PutCat DEF Pieces, Head8
<1> QED BY <1>4, <1>5 DEF HeadOf

\* fix_template_update_time writes at one marker, or at two.
LEMMA PutTime ==
  ASSUME NEW transact \in BOOLEAN, NEW new \in Symbols, NEW length \in Symbols,
         NEW seq \in Symbols, NEW sender \in Symbols, NEW now \in Symbols
  PROVE  Put(Put(HeadOf(transact, length, seq, sender, now), 23, new),
             IF transact THEN 31 ELSE 0, new)
           = HeadOf(transact, length, seq, sender, new)
<1> DEFINE h7 == Head7(length, seq, sender, now)
           n7 == Head7(length, seq, sender, new)
           n8 == Head8(length, seq, sender, new)
           old == Value(TransactTime, now)
<1>0. Pieces(length, seq, sender, now) /\ Pieces(length, seq, sender, new)
  BY PiecesTyped
<1>1. Put(Value(SendingTime, now), 23 - 20, new) = Value(SendingTime, new)
  BY TagsTyped, PutValue
<1>2. Put(Head6(length, seq, sender, now), 23, new) = Head6(length, seq, sender, new)
  BY <1>1, <1>0, PutCat DEF Pieces, Head6
<1>3. Put(h7, 23, new) = n7
  BY <1>2, <1>0, PutCat DEF Pieces, Head7
<1>4. /\ h7 \in Of(Symbols, 28) /\ n7 \in Of(Symbols, 28)
      /\ old \in Of(Symbols, 4) /\ n8 \in Of(Symbols, 32)
  BY <1>0 DEF Pieces
<1>5. Put(Cat(h7, old), 23, new) = Cat(n7, old)
  BY <1>3, <1>4, PutCat
<1>6. Put(old, 31 - 28, new) = Value(TransactTime, new)
  BY TagsTyped, PutValue
<1>7. Put(Cat(n7, old), 31, new) = n8
  BY <1>4, <1>6, PutCat DEF Head8
<1>8. Put(n7, 0, new) = n7
  <2>1. Put(n7, 0, new) \in Of(Symbols, 28)
    BY <1>4, PutOf
  <2>2. ASSUME NEW i \in 1..28 PROVE Put(n7, 0, new)[i] = n7[i]
    BY <1>4, PutOfAt
  <2> HIDE DEF n7
  <2> QED BY <1>4, <2>1, <2>2, SameOf
<1>9. CASE transact
  BY <1>5, <1>7, <1>9 DEF HeadOf, Head8
<1>10. CASE ~transact
  BY <1>3, <1>8, <1>10 DEF HeadOf
<1> QED BY <1>9, <1>10

(***************************************************************************)
(* Writing from a place on, and reading between two places.                *)
(***************************************************************************)
LEMMA MaxOfTwo ==
  ASSUME NEW m \in Nat, NEW n \in Nat
  PROVE  Max({m, n}) = IF m <= n THEN n ELSE m
<1>1. CASE m <= n
  <2>1. \E x \in {m, n} : \A y \in {m, n} : x >= y
    BY <1>1
  <2>2. Max({m, n}) \in {m, n} /\ \A y \in {m, n} : Max({m, n}) >= y
    BY <2>1 DEF Max
  <2> QED BY <1>1, <2>2
<1>2. CASE ~(m <= n)
  <2>1. \E x \in {m, n} : \A y \in {m, n} : x >= y
    BY <1>2
  <2>2. Max({m, n}) \in {m, n} /\ \A y \in {m, n} : Max({m, n}) >= y
    BY <2>1 DEF Max
  <2> QED BY <1>2, <2>2
<1> QED BY <1>1, <1>2

\* Writing f from the end of a on leaves a and f, and what was behind.
LEMMA WrittenIs ==
  ASSUME NEW S, NEW m \in Nat, NEW n \in Nat,
         NEW a \in Of(S, m), NEW j \in Seq(S), NEW f \in Of(S, n)
  PROVE  \E k \in Seq(S) : Written(Cat(a, j), m, f) = Cat(Cat(a, f), k)
<1> DEFINE bytes == Cat(a, j)
           last == m + n
           size == IF Len(bytes) <= last THEN last ELSE Len(bytes)
           w == Written(bytes, m, f)
           af == Cat(a, f)
           b == SubSeq(w, 1, last)
           k == SubSeq(w, last + 1, Len(w))
<1>1. /\ a \in Seq(S) /\ Len(a) = m /\ f \in Seq(S) /\ Len(f) = n
      /\ Len(j) \in Nat /\ j \in Of(S, Len(j))
  BY DEF Of
<1>2. bytes \in Seq(S) /\ Len(bytes) = m + Len(j)
  <2>1. bytes \in Seq(S) /\ Len(bytes) = Len(a) + Len(j)
    BY <1>1, CatIs
  <2> HIDE DEF bytes
  <2> QED BY <1>1, <2>1
<1> HIDE DEF bytes
<1>3. w = [i \in 1..size |-> IF i \in (m + 1)..last THEN f[i - m] ELSE bytes[i]]
  BY <1>1, <1>2, MaxOfTwo DEF Written
<1>4. size \in Nat /\ last \in 0..size
  BY <1>1, <1>2
<1>5. ASSUME NEW i \in 1..size
      PROVE  (IF i \in (m + 1)..last THEN f[i - m] ELSE bytes[i]) \in S
  <2>1. CASE i \in (m + 1)..last
    <3>1. i - m \in 1..Len(f)
      BY <1>1, <2>1
    <3> QED BY <1>1, <2>1, <3>1
  <2>2. CASE i \notin (m + 1)..last
    <3>1. i \in 1..Len(bytes)
      BY <1>1, <1>2, <2>2
    <3> QED BY <1>2, <2>2, <3>1
  <2> QED BY <2>1, <2>2
<1> HIDE DEF size, w
<1>6. w \in Seq(S) /\ Len(w) = size
  BY <1>3, <1>4, <1>5
<1>7. b \in Seq(S) /\ Len(b) = last /\ k \in Seq(S) /\ Cat(b, k) = w
  BY <1>4, <1>6, Divided
<1>8. af \in Of(S, last)
  BY CatOf
<1>9. b \in Of(S, last)
  BY <1>7 DEF Of
<1>10. ASSUME NEW i \in 1..last PROVE b[i] = af[i]
  <2>1. b[i] = w[i]
    BY <1>4, <1>6
  <2>2. w[i] = IF i \in (m + 1)..last THEN f[i - m] ELSE bytes[i]
    BY <1>3, <1>4
  <2>3. af[i] = IF i <= m THEN a[i] ELSE f[i - m]
    BY CatOfAt
  <2>4. CASE i > m
    <3> HIDE DEF af, b
    <3> QED BY <2>1, <2>2, <2>3, <2>4
  <2>5. CASE i <= m
    <3>1. i \in 1..(m + Len(j))
      BY <1>1, <2>5
    <3>2. bytes[i] = a[i]
      BY <1>1, <2>5, <3>1, CatOfAt DEF bytes
    <3> HIDE DEF af, b
    <3> QED BY <2>1, <2>2, <2>3, <2>5, <3>2
  <2> QED BY <2>4, <2>5
<1> HIDE DEF af, b, k
<1>11. b = af
  BY <1>8, <1>9, <1>10, SameOf
<1> QED BY <1>7, <1>11 DEF w, bytes, af

LEMMA BeginningOf ==
  ASSUME NEW S, NEW m \in Nat, NEW a \in Of(S, m), NEW b \in Seq(S)
  PROVE  SubSeq(Cat(a, b), 1, m) = a
<1> DEFINE c == Cat(a, b)
           d == SubSeq(c, 1, m)
<1>1. a \in Seq(S) /\ Len(a) = m /\ Len(b) \in Nat /\ b \in Of(S, Len(b))
  BY DEF Of
<1>2. c \in Of(S, m + Len(b))
  BY <1>1, CatOf
<1>3. c \in Seq(S) /\ Len(c) = m + Len(b)
  BY <1>2 DEF Of
<1>4. \A i \in 1..m : c[i] = a[i]
  BY <1>1, CatOfAt
<1> HIDE DEF c
<1>5. d \in Seq(S) /\ Len(d) = m /\ \A i \in 1..m : d[i] = c[i]
  BY <1>1, <1>3
<1> HIDE DEF d
<1>6. d = a
  BY <1>1, <1>4, <1>5, SeqEqual
<1> QED BY <1>6 DEF c, d

\* What is read up to the end of the first part, and in the second.
LEMMA ReadFirst ==
  ASSUME NEW S, NEW m \in Nat, NEW a \in Of(S, m), NEW b \in Seq(S),
         NEW from \in 1..(m + 1)
  PROVE  SubSeq(Cat(a, b), from, m) = SubSeq(a, from, m)
<1> DEFINE c == Cat(a, b)
           d == SubSeq(c, from, m)
           e == SubSeq(a, from, m)
           n == (m - from) + 1
<1>1. a \in Seq(S) /\ Len(a) = m /\ Len(b) \in Nat /\ b \in Of(S, Len(b))
  BY DEF Of
<1>2. c \in Of(S, m + Len(b))
  BY <1>1, CatOf
<1>3. c \in Seq(S) /\ Len(c) = m + Len(b)
  BY <1>2 DEF Of
<1>4. \A i \in 1..m : c[i] = a[i]
  BY <1>1, CatOfAt
<1> HIDE DEF c
<1>5. d \in Seq(S) /\ Len(d) = n /\ \A i \in 1..n : d[i] = c[from + i - 1]
  BY <1>1, <1>3
<1>6. e \in Seq(S) /\ Len(e) = n /\ \A i \in 1..n : e[i] = a[from + i - 1]
  BY <1>1
<1> HIDE DEF d, e
<1>7. ASSUME NEW i \in 1..n PROVE d[i] = e[i]
  <2>1. from + i - 1 \in 1..m
    OBVIOUS
  <2>2. c[from + i - 1] = a[from + i - 1]
    BY <1>4, <2>1
  <2>3. d[i] = c[from + i - 1] /\ e[i] = a[from + i - 1]
    BY <1>5, <1>6
  <2> QED BY <2>2, <2>3
<1> HIDE DEF n
<1>8. d = e
  BY <1>5, <1>6, <1>7, SeqEqual
<1> QED BY <1>8 DEF c, d, e

LEMMA ReadSecond ==
  ASSUME NEW S, NEW m \in Nat, NEW n \in Nat, NEW a \in Of(S, m), NEW b \in Of(S, n)
  PROVE  SubSeq(Cat(a, b), m + 1, m + n) = b
<1> DEFINE c == Cat(a, b)
           d == SubSeq(c, m + 1, m + n)
<1>1. b \in Seq(S) /\ Len(b) = n
  BY DEF Of
<1>2. c \in Of(S, m + n)
  BY CatOf
<1>3. c \in Seq(S) /\ Len(c) = m + n
  BY <1>2 DEF Of
<1>4. ASSUME NEW i \in 1..n PROVE c[m + i] = b[i]
  <2>1. m + i \in 1..(m + n) /\ ~(m + i <= m) /\ (m + i) - m = i
    OBVIOUS
  <2>2. c[m + i] = IF m + i <= m THEN a[m + i] ELSE b[(m + i) - m]
    BY <2>1, CatOfAt
  <2> HIDE DEF c
  <2> QED BY <2>1, <2>2
<1> HIDE DEF c
<1>5. d \in Seq(S) /\ Len(d) = n /\ \A i \in 1..n : d[i] = c[m + i]
  BY <1>3
<1> HIDE DEF d
<1>6. d = b
  BY <1>1, <1>4, <1>5, SeqEqual
<1> QED BY <1>6 DEF c, d

(***************************************************************************)
(* The head as fix_template_prepare writes it, and as a message built anew *)
(* has it.                                                                 *)
(***************************************************************************)
LEMMA PairIs ==
  ASSUME NEW x, NEW y
  PROVE  <<x>> \o <<y>> = <<x, y>>
<1> DEFINE S == {x, y}
           a == <<x>> \o <<y>>
           b == <<x, y>>
<1>1. a \in Seq(S) /\ Len(a) = 2 /\ a[1] = x /\ a[2] = y
  OBVIOUS
<1>2. b \in Seq(S) /\ Len(b) = 2 /\ b[1] = x /\ b[2] = y
  OBVIOUS
<1> HIDE DEF a, b, S
<1>3. \A i \in 1..2 : a[i] = b[i]
  BY <1>1, <1>2
<1>4. a = b
  BY <1>1, <1>2, <1>3, SeqEqual
<1> QED BY <1>4 DEF a, b

\* A value of one symbol, and what is before and behind the place it starts.
LEMMA ValueParts ==
  ASSUME NEW tag \in Nat, NEW value \in Symbols
  PROVE  /\ <<Tag(tag), Eq>> \in Of(Symbols, 2) /\ <<value, Soh>> \in Of(Symbols, 2)
         /\ Cat(<<Tag(tag), Eq>>, <<value, Soh>>) = Value(tag, value)
<1>1. Tag(tag) \in Symbols /\ Eq \in Symbols /\ Soh \in Symbols
  BY DEF Symbols
<1>2. <<Tag(tag), Eq>> \in Of(Symbols, 2) /\ <<value, Soh>> \in Of(Symbols, 2)
  BY <1>1 DEF Of
<1>3. /\ <<Tag(tag), Eq>> \in Seq(Symbols) /\ <<value>> \in Seq(Symbols)
      /\ <<Soh>> \in Seq(Symbols)
  BY <1>1
<1>4. Cat(<<value>>, <<Soh>>) = <<value, Soh>>
  BY PairIs DEF Cat
<1> DEFINE a == <<Tag(tag), Eq>>
           b == <<value>>
           c == <<Soh>>
           d == <<value, Soh>>
<1>5. Value(tag, value) = Cat(Cat(a, b), c)
  BY DEF Cat, Value, Field
<1>5a. a \in Seq(Symbols) /\ b \in Seq(Symbols) /\ c \in Seq(Symbols)
  BY <1>3
<1> HIDE DEF a, b, c, d
<1>6. Cat(Cat(a, b), c) = Cat(a, Cat(b, c))
  BY <1>5a, CatAssociates
<1>7. Cat(b, c) = d
  BY <1>4 DEF b, c, d
<1>8. Cat(a, d) = Value(tag, value)
  BY <1>5, <1>6, <1>7
<1> QED BY <1>2, <1>8 DEF a, d

LEMMA UpToLengthIs ==
  /\ UpToLength \in Of(Symbols, 6)
  /\ Cat(UpToLength, <<Zero, Soh>>) = Head2(Zero)
  /\ \A length \in Symbols : Cat(UpToLength, <<length, Soh>>) = Head2(length)
<1> DEFINE first == Value(BeginString, Zero)
           tag == <<Tag(BodyLength), Eq>>
<1>1. first \in Of(Symbols, 4) /\ Zero \in Symbols /\ BodyLength \in Nat
  BY TagsTyped, ValueOf
<1>2. tag \in Of(Symbols, 2)
  BY <1>1, ValueParts
<1>3. UpToLength = Cat(first, tag)
  BY DEF UpToLength, Cat
<1>4. UpToLength \in Of(Symbols, 4 + 2)
  BY <1>1, <1>2, <1>3, CatOf
<1>5. ASSUME NEW length \in Symbols
      PROVE  Cat(UpToLength, <<length, Soh>>) = Head2(length)
  <2> DEFINE rest == <<length, Soh>>
  <2>1. rest \in Of(Symbols, 2) /\ Cat(tag, rest) = Value(BodyLength, length)
    BY <1>1, ValueParts
  <2> HIDE DEF rest
  <2>2. first \in Seq(Symbols) /\ tag \in Seq(Symbols) /\ rest \in Seq(Symbols)
    BY <1>1, <1>2, <2>1 DEF Of
  <2> HIDE DEF tag
  <2>3. Head2(length) = Cat(first, Value(BodyLength, length))
    BY DEF Head2
  <2> HIDE DEF first
  <2>4. Cat(Cat(first, tag), rest) = Cat(first, Cat(tag, rest))
    BY <2>2, CatAssociates
  <2>5. Cat(UpToLength, rest) = Head2(length)
    BY <1>3, <2>1, <2>3, <2>4
  <2> QED BY <2>5 DEF rest
<1> QED BY <1>1, <1>4, <1>5

LEMMA UpToNumberIs ==
  /\ UpToNumber \in Of(Symbols, 14)
  /\ Cat(UpToNumber, <<Zero, Soh>>) = Head4(Zero, Zero)
<1> DEFINE tag == <<Tag(MsgSeqNum), Eq>>
           rest == <<Zero, Soh>>
<1>1. Zero \in Symbols /\ MsgSeqNum \in Nat
  BY TagsTyped
<1>2. tag \in Of(Symbols, 2) /\ rest \in Of(Symbols, 2) /\ Cat(tag, rest) = Value(MsgSeqNum, Zero)
  BY <1>1, ValueParts
<1>3. Head3(Zero) \in Of(Symbols, 12)
  BY <1>1, PiecesTyped DEF Pieces
<1>4. UpToNumber = Cat(Head3(Zero), tag)
  BY UpToLengthIs DEF UpToNumber, Head3, Cat
<1>5. UpToNumber \in Of(Symbols, 12 + 2)
  BY <1>2, <1>3, <1>4, CatOf
<1>6. Head3(Zero) \in Seq(Symbols) /\ tag \in Seq(Symbols) /\ rest \in Seq(Symbols)
  BY <1>2, <1>3 DEF Of
<1> HIDE DEF tag, rest
<1>7. Cat(Cat(Head3(Zero), tag), rest) = Cat(Head3(Zero), Cat(tag, rest))
  BY <1>6, CatAssociates
<1>8. Cat(UpToNumber, rest) = Head4(Zero, Zero)
  BY <1>2, <1>4, <1>7 DEF Head4
<1> QED BY <1>5, <1>8 DEF rest

LEMMA StampedIs ==
  ASSUME NEW sender \in Nat, NEW transact \in BOOLEAN
  PROVE  Stamped(sender, transact) = HeadOf(transact, Zero, Zero, Val(sender), Zero)
<1>1. Cat(UpToNumber, <<Zero, Soh>>) = Head4(Zero, Zero)
  BY UpToNumberIs
<1>2. Zero \in Symbols /\ Val(sender) \in Symbols
  BY TagsTyped DEF Symbols
<1>3. Head7(Zero, Zero, Val(sender), Zero) \in Of(Symbols, 28)
  BY <1>2, PiecesTyped DEF Pieces
<1> DEFINE h7 == ((Cat(UpToNumber, <<Zero, Soh>>) \o Value(SenderCompID, Val(sender)))
                    \o Value(SendingTime, Zero)) \o Value(TargetCompID, Zero)
<1>4. h7 = Head7(Zero, Zero, Val(sender), Zero)
  BY <1>1 DEF Head7, Head6, Head5, Cat
<1>5. Stamped(sender, transact)
        = h7 \o (IF transact THEN Value(TransactTime, Zero) ELSE <<>>)
  BY DEF Stamped, Cat
<1> HIDE DEF h7
<1>6. h7 \o <<>> = h7
  <2>1. h7 \in Seq(Symbols)
    BY <1>3, <1>4 DEF Of
  <2> QED BY <2>1
<1>7. CASE transact
  BY <1>4, <1>5, <1>7 DEF HeadOf, Head8, Cat
<1>8. CASE ~transact
  BY <1>4, <1>5, <1>6, <1>8 DEF HeadOf
<1> QED BY <1>7, <1>8

\* The head begins as it was summed when the template was prepared.
LEMMA HeadBegins ==
  ASSUME NEW transact \in BOOLEAN, NEW length \in Symbols, NEW seq \in Symbols,
         NEW sender \in Symbols, NEW now \in Symbols
  PROVE  SubSeq(HeadOf(transact, length, seq, sender, now), 1, 6) = UpToLength
<1> DEFINE Begins(h) == \E r \in Seq(Symbols) : h = Cat(UpToLength, r)
<1>0. Pieces(length, seq, sender, now)
  BY PiecesTyped
<1>1. UpToLength \in Seq(Symbols) /\ UpToLength \in Of(Symbols, 6)
  BY UpToLengthIs DEF Of
<1>2. Begins(Head2(length))
  <2>1. <<length, Soh>> \in Seq(Symbols)
    BY DEF Symbols
  <2> QED BY <2>1, UpToLengthIs
<1>3. ASSUME NEW h, Begins(h), NEW v \in Of(Symbols, 4)
      PROVE  Begins(Cat(h, v))
  <2>1. PICK r \in Seq(Symbols) : h = Cat(UpToLength, r)
    BY <1>3
  <2>2. v \in Seq(Symbols)
    BY DEF Of
  <2>3. Cat(h, v) = Cat(UpToLength, Cat(r, v)) /\ Cat(r, v) \in Seq(Symbols)
    BY <1>1, <2>1, <2>2, CatAssociates, CatIs
  <2> QED BY <2>3
<1> HIDE DEF Begins
<1>4. Begins(Head3(length))
  BY <1>0, <1>2, <1>3 DEF Head3, Pieces
<1>5. Begins(Head4(length, seq))
  BY <1>0, <1>3, <1>4 DEF Head4, Pieces
<1>6. Begins(Head5(length, seq, sender))
  BY <1>0, <1>3, <1>5 DEF Head5, Pieces
<1>7. Begins(Head6(length, seq, sender, now))
  BY <1>0, <1>3, <1>6 DEF Head6, Pieces
<1>8. Begins(Head7(length, seq, sender, now))
  BY <1>0, <1>3, <1>7 DEF Head7, Pieces
<1>9. Begins(Head8(length, seq, sender, now))
  BY <1>0, <1>3, <1>8 DEF Head8, Pieces
<1>10. Begins(HeadOf(transact, length, seq, sender, now))
  BY <1>8, <1>9 DEF HeadOf
<1>11. PICK r \in Seq(Symbols) :
         HeadOf(transact, length, seq, sender, now) = Cat(UpToLength, r)
  BY <1>10 DEF Begins
<1>12. SubSeq(Cat(UpToLength, r), 1, 6) = UpToLength
  BY <1>1, BeginningOf
<1> QED BY <1>11, <1>12

\* What comes behind the length, as a message built anew has it.
BodyOf(transact, seq, sender, now, texts, more) ==
  Value(MsgType, Known) \o Value(MsgSeqNum, seq) \o Value(SenderCompID, sender)
    \o Value(SendingTime, now) \o Value(TargetCompID, Zero)
    \o (IF transact THEN Value(TransactTime, now) ELSE <<>>) \o texts \o more

LEMMA BodyIs ==
  ASSUME NEW transact \in BOOLEAN, NEW length \in Symbols, NEW seq \in Symbols,
         NEW sender \in Symbols, NEW now \in Symbols,
         NEW texts \in Seq(Symbols), NEW more \in Seq(Symbols)
  PROVE  /\ BodyOf(transact, seq, sender, now, texts, more) \in Seq(Symbols)
         /\ Cat(Head2(length), BodyOf(transact, seq, sender, now, texts, more))
              = Cat(Cat(HeadOf(transact, length, seq, sender, now), texts), more)
<1> DEFINE Bytes == Seq(Symbols)
           v3 == Value(MsgType, Known)
           v4 == Value(MsgSeqNum, seq)
           v5 == Value(SenderCompID, sender)
           v6 == Value(SendingTime, now)
           v7 == Value(TargetCompID, Zero)
           v8 == Value(TransactTime, now)
           b4 == Cat(v3, v4)
           b5 == Cat(b4, v5)
           b6 == Cat(b5, v6)
           b7 == Cat(b6, v7)
           b8 == IF transact THEN Cat(b7, v8) ELSE b7
           bt == Cat(b8, texts)
           bm == Cat(bt, more)
           h2 == Head2(length)
<1>1. /\ v3 \in Bytes /\ v4 \in Bytes /\ v5 \in Bytes /\ v6 \in Bytes
      /\ v7 \in Bytes /\ v8 \in Bytes /\ h2 \in Bytes
  BY PiecesTyped DEF Pieces, Of
<1>2. BodyOf(transact, seq, sender, now, texts, more) = bm
  <2>1. b7 \o <<>> = b7
    <3> HIDE DEF v3, v4, v5, v6, v7
    <3>1. b7 \in Bytes
      BY <1>1, CatIs
    <3> HIDE DEF b7
    <3> QED BY <3>1
  <2>2. BodyOf(transact, seq, sender, now, texts, more)
          = ((b7 \o (IF transact THEN v8 ELSE <<>>)) \o texts) \o more
    BY DEF BodyOf, Cat
  <2> HIDE DEF b7, v8
  <2>3. b7 \o (IF transact THEN v8 ELSE <<>>) = b8
    BY <2>1 DEF Cat
  <2> HIDE DEF b8
  <2> QED BY <2>2, <2>3 DEF Cat
<1> HIDE DEF Bytes, v3, v4, v5, v6, v7, v8, h2
<1>3. b4 \in Bytes /\ Cat(h2, b4) = Cat(Cat(h2, v3), v4)
  BY <1>1, CatIs, CatAssociates DEF Bytes
<1> HIDE DEF b4
<1>4. b5 \in Bytes /\ Cat(h2, b5) = Cat(Cat(h2, b4), v5)
  BY <1>1, <1>3, CatIs, CatAssociates DEF Bytes
<1> HIDE DEF b5
<1>5. b6 \in Bytes /\ Cat(h2, b6) = Cat(Cat(h2, b5), v6)
  BY <1>1, <1>4, CatIs, CatAssociates DEF Bytes
<1> HIDE DEF b6
<1>6. b7 \in Bytes /\ Cat(h2, b7) = Cat(Cat(h2, b6), v7)
  BY <1>1, <1>5, CatIs, CatAssociates DEF Bytes
<1>7. Cat(h2, b7) = Head7(length, seq, sender, now)
  BY <1>3, <1>4, <1>5, <1>6
  DEF Head7, Head6, Head5, Head4, Head3, h2, v3, v4, v5, v6, v7
<1> HIDE DEF b7
<1>8. b8 \in Bytes /\ Cat(h2, b8) = HeadOf(transact, length, seq, sender, now)
  <2>1. CASE transact
    <3>1. Cat(b7, v8) \in Bytes /\ Cat(h2, Cat(b7, v8)) = Cat(Cat(h2, b7), v8)
      BY <1>1, <1>6, CatIs, CatAssociates DEF Bytes
    <3> QED BY <1>7, <2>1, <3>1 DEF HeadOf, Head8, v8
  <2>2. CASE ~transact
    BY <1>6, <1>7, <2>2 DEF HeadOf
  <2> QED BY <2>1, <2>2
<1> HIDE DEF b8
<1>9. bt \in Bytes /\ Cat(h2, bt) = Cat(Cat(h2, b8), texts)
  BY <1>1, <1>8, CatIs, CatAssociates DEF Bytes
<1> HIDE DEF bt
<1>10. bm \in Bytes /\ Cat(h2, bm) = Cat(Cat(h2, bt), more)
  BY <1>1, <1>9, CatIs, CatAssociates DEF Bytes
<1> HIDE DEF bm
<1> QED BY <1>2, <1>8, <1>9, <1>10 DEF h2, Bytes

LEMMA TextFieldsTyped ==
  ASSUME NEW texts \in Seq(Nat)
  PROVE  TextFields(texts) \in Seq(Symbols)
<1>1. ASSUME NEW len \in Nat PROVE TextField(len) \in Seq(Symbols)
  <2>1. [i \in 1..len |-> Zero] \in Seq(Symbols)
    BY TagsTyped
  <2>2. Tag(Text) \in Symbols /\ Eq \in Symbols /\ Soh \in Symbols
    BY TagsTyped DEF Symbols
  <2> QED BY <2>1, <2>2, FieldIsBytes DEF TextField
<1>2. [i \in 1..Len(texts) |-> TextField(texts[i])] \in Seq(Seq(Symbols))
  BY <1>1
<1> QED BY <1>2, FlattenTyped DEF TextFields

-----------------------------------------------------------------------------
(***************************************************************************)
(* What the parser reads in a message of the template.                     *)
(***************************************************************************)
LEMMA TextFieldIs ==
  ASSUME NEW n \in Nat
  PROVE  /\ [i \in 1..n |-> Zero] \in Seq(Symbols) /\ Len([i \in 1..n |-> Zero]) = n
         /\ IsValue([i \in 1..n |-> Zero])
         /\ TextField(n) \in Seq(Symbols) /\ Len(TextField(n)) = n + 3
<1> DEFINE value == [i \in 1..n |-> Zero]
<1>1. value \in Seq(Symbols) /\ Len(value) = n
  BY TagsTyped
<1>2. IsValue(value)
  BY SymbolsDiffer DEF IsValue, Zero
<1> HIDE DEF value
<1>3. Tag(Text) \in Symbols /\ Eq \in Symbols /\ Soh \in Symbols
  BY TagsTyped DEF Symbols
<1>4. Field(Tag(Text), value) \in Seq(Symbols) /\ Len(Field(Tag(Text), value)) = n + 3
  BY <1>1, <1>3, FieldSymbols
<1> QED BY <1>1, <1>2, <1>4 DEF TextField, value

LEMMA TextFieldsAppend ==
  ASSUME NEW front \in Seq(Nat), NEW n \in Nat
  PROVE  TextFields(Append(front, n)) = Cat(TextFields(front), TextField(n))
<1> DEFINE texts == Append(front, n)
           q == [i \in 1..Len(front) |-> TextField(front[i])]
           r == [i \in 1..Len(texts) |-> TextField(texts[i])]
<1>1. \A k \in Nat : TextField(k) \in Seq(Symbols)
  BY TextFieldIs
<1>2. /\ texts \in Seq(Nat) /\ Len(texts) = Len(front) + 1 /\ texts[Len(front) + 1] = n
      /\ Len(front) \in Nat /\ \A i \in 1..Len(front) : texts[i] = front[i]
  OBVIOUS
<1>3. q \in Seq(Seq(Symbols)) /\ Len(q) = Len(front)
  <2>1. Len(front) \in Nat /\ \A i \in 1..Len(front) : front[i] \in Nat
    OBVIOUS
  <2>2. \A i \in 1..Len(front) : TextField(front[i]) \in Seq(Symbols)
    BY <1>1, <2>1
  <2> QED BY <2>1, <2>2
<1> HIDE DEF texts
<1>4. r = Append(q, TextField(n))
  <2>1. r \in Seq(Seq(Symbols)) /\ Len(r) = Len(front) + 1
    BY <1>1, <1>2
  <2>2. TextField(n) \in Seq(Symbols)
    BY <1>1
  <2>3. /\ Append(q, TextField(n)) \in Seq(Seq(Symbols))
        /\ Len(Append(q, TextField(n))) = Len(front) + 1
    BY <1>3, <2>2
  <2>4. ASSUME NEW i \in 1..(Len(front) + 1) PROVE r[i] = Append(q, TextField(n))[i]
    <3>1. CASE i = Len(front) + 1
      <4>1. r[i] = TextField(n)
        BY <1>2, <3>1
      <4>2. Append(q, TextField(n))[Len(q) + 1] = TextField(n)
        BY <1>3, <2>2
      <4> QED BY <1>3, <3>1, <4>1, <4>2
    <3>2. CASE i # Len(front) + 1
      <4>1. i \in 1..Len(front) /\ i \in 1..Len(texts)
        BY <1>2, <3>2
      <4>2. r[i] = TextField(front[i])
        BY <1>2, <4>1
      <4>3. q[i] = TextField(front[i])
        BY <4>1
      <4>4. Append(q, TextField(n))[i] = q[i]
        <5> HIDE DEF q
        <5> QED BY <1>3, <2>2, <4>1
      <4> QED BY <4>2, <4>3, <4>4
    <3> QED BY <3>1, <3>2
  <2> HIDE DEF r, q
  <2> QED BY <2>1, <2>3, <2>4, SeqEqual
<1>5. FlattenSeq(Append(q, TextField(n))) = FlattenSeq(q) \o TextField(n)
  BY <1>1, <1>3, FlattenAppend
<1> QED BY <1>4, <1>5 DEF TextFields, texts, Cat

LEMMA NoTextFields == TextFields(<<>>) = <<>>
<1>1. [i \in 1..Len(<<>>) |-> TextField(<<>>[i])] = <<>>
  OBVIOUS
<1>2. FlattenSeq(<<>>) = <<>>
  BY DEF FlattenSeq
<1> QED BY <1>1, <1>2 DEF TextFields

\* Text fields, read one after the other.
LEMMA ReadTexts ==
  ASSUME NEW S, Symbols \subseteq S, NEW u \in Seq(S), NEW at, NEW seq,
         NEW p \in Nat, NEW texts \in Seq(Nat), NEW text \in Seq(Nat),
         StandsAt(u, p, TextFields(texts)),
         Reads(u, p + Len(TextFields(texts)) + 1, at, seq, text)
  PROVE  Reads(u, p + 1, at, seq, Cat(texts, text))
<1> DEFINE Holds(s, t) ==
             StandsAt(u, p, TextFields(s)) /\ Reads(u, p + Len(TextFields(s)) + 1, at, seq, t)
               => Reads(u, p + 1, at, seq, Cat(s, t))
           N == {k \in Nat : \A s, t \in Seq(Nat) : Len(s) = k => Holds(s, t)}
<1>1. 0 \in N
  <2> SUFFICES ASSUME NEW s \in Seq(Nat), NEW t \in Seq(Nat), Len(s) = 0 PROVE Holds(s, t)
    OBVIOUS
  <2>1. s = <<>> /\ Len(<<>>) = 0 /\ p + 0 + 1 = p + 1
    OBVIOUS
  <2>2. TextFields(s) = <<>>
    BY <2>1, NoTextFields
  <2>3. Cat(s, t) = t
    BY <2>1 DEF Cat
  <2> QED BY <2>1, <2>2, <2>3
<1>2. ASSUME NEW k \in Nat, k \in N PROVE k + 1 \in N
  <2> SUFFICES ASSUME NEW s \in Seq(Nat), NEW t \in Seq(Nat), Len(s) = k + 1,
                      StandsAt(u, p, TextFields(s)),
                      Reads(u, p + Len(TextFields(s)) + 1, at, seq, t)
               PROVE  Reads(u, p + 1, at, seq, Cat(s, t))
    OBVIOUS
  <2> DEFINE n == s[k + 1]
             front == SubSeq(s, 1, k)
             a == TextFields(front)
             b == TextField(n)
             value == [i \in 1..n |-> Zero]
             t2 == Cat(<<n>>, t)
  <2>1. n \in Nat /\ front \in Seq(Nat) /\ Len(front) = k /\ s = Append(front, n)
    <3>1. n \in Nat
      OBVIOUS
    <3>2. front \in Seq(Nat) /\ Len(front) = k /\ \A i \in 1..k : front[i] = s[i]
      OBVIOUS
    <3> HIDE DEF n, front
    <3> DEFINE x == Append(front, n)
    <3>3. /\ x \in Seq(Nat) /\ Len(x) = k + 1 /\ x[k + 1] = n
          /\ \A i \in 1..k : x[i] = front[i]
      BY <3>1, <3>2, AppendProperties
    <3> HIDE DEF x
    <3>4. ASSUME NEW i \in 1..(k + 1) PROVE s[i] = x[i]
      <4>1. CASE i = k + 1
        BY <3>3, <4>1 DEF n
      <4>2. CASE i # k + 1
        BY <3>2, <3>3, <4>2
      <4> QED BY <4>1, <4>2
    <3>5. s = x
      BY <3>3, <3>4, SeqEqual
    <3> QED BY <3>1, <3>2, <3>5 DEF x
  <2>2. t2 \in Seq(Nat) /\ Cat(s, t) = Cat(front, t2)
    <3> DEFINE one == <<n>>
    <3>1. s = Cat(front, one) /\ one \in Seq(Nat)
      BY <2>1 DEF Cat
    <3>a. t2 = Cat(one, t)
      OBVIOUS
    <3> HIDE DEF n, front, one, t2
    <3>2. Cat(Cat(front, one), t) = Cat(front, Cat(one, t))
      BY <2>1, <3>1, CatAssociates
    <3>3. Cat(one, t) \in Seq(Nat)
      BY <3>1, CatIs
    <3> QED BY <3>a, <3>1, <3>2, <3>3
  <2> HIDE DEF n, front
  <2>3. TextFields(s) = Cat(a, b)
    BY <2>1, TextFieldsAppend
  <2>4. a \in Seq(Symbols) /\ b \in Seq(Symbols)
    BY <2>1, TextFieldsTyped, TextFieldIs
  <2>5. a \in Seq(S) /\ b \in Seq(S) /\ value \in Seq(S)
    <3>1. value \in Seq(Symbols)
      BY <2>1, TextFieldIs
    <3> HIDE DEF a, b, value
    <3> QED BY <2>4, <3>1
  <2>6. /\ Len(b) = n + 3 /\ Len(value) = n /\ IsValue(value)
        /\ b = Field(Tag(Text), value)
    BY <2>1, TextFieldIs DEF TextField
  <2> HIDE DEF a, b, value
  <2>7. StandsAt(u, p, a) /\ StandsAt(u, p + Len(a), b)
    BY <2>3, <2>5, StandsBoth
  <2>8. Len(Cat(a, b)) = Len(a) + Len(b) /\ Len(a) \in Nat
    <3>1. Len(Cat(a, b)) = Len(a) + Len(b)
      BY <2>5, CatIs
    <3> QED BY <2>5, <3>1
  <2> DEFINE q == p + Len(a)
  <2>9. q \in Nat /\ p + Len(TextFields(s)) + 1 = q + Len(value) + 4
    <3>1. Len(TextFields(s)) = Len(a) + (Len(value) + 3) /\ Len(value) \in Nat
      BY <2>1, <2>3, <2>6, <2>8
    <3> QED BY <2>8, <3>1
  <2>10. Reads(u, q + Len(value) + 4, at, seq, t)
    BY <2>9
  <2>11. StandsAt(u, q, Field(Tag(Text), value))
    BY <2>6, <2>7
  <2> HIDE DEF q
  <2>12. Reads(u, q + 1, at, seq, <<Len(value)>> \o t)
    <3>1. Tag(Text) \in S /\ Eq \in S /\ Soh \in S
      BY TagsTyped DEF Symbols
    <3>2. FieldStands(S, u, q, Text, value)
      BY <2>5, <2>6, <2>9, <2>11, <3>1 DEF FieldStands
    <3> QED BY <2>10, <3>2, ReadText
  <2>13. Reads(u, p + Len(a) + 1, at, seq, t2)
    BY <2>6, <2>12 DEF q, Cat
  <2>14. Holds(front, t2)
    BY <1>2, <2>1, <2>2
  <2> QED BY <2>2, <2>7, <2>13, <2>14 DEF a
<1> HIDE DEF N
<1>3. Len(texts) \in N
  <2>1. Len(texts) \in Nat
    OBVIOUS
  <2> QED BY <1>1, <1>2, <2>1, SetInduction
<1>4. Holds(texts, text)
  BY <1>3 DEF N
<1> QED BY <1>4

\* A whole that stands somewhere, cut behind the first m symbols.
LEMMA StandsCut ==
  ASSUME NEW S, NEW u \in Seq(S), NEW m \in Nat, NEW a \in Of(S, m), NEW b \in Seq(S),
         StandsAt(u, 0, Cat(a, b))
  PROVE  StandsAt(u, 0, a) /\ StandsAt(u, m, b)
<1>1. a \in Seq(S) /\ Len(a) = m /\ 0 + m = m
  BY DEF Of
<1>2. StandsAt(u, 0, a) /\ StandsAt(u, 0 + Len(a), b)
  BY <1>1, StandsBoth
<1> QED BY <1>1, <1>2

LEMMA ValueBytes ==
  ASSUME NEW S, Symbols \subseteq S, NEW tag \in Nat, NEW v \in S
  PROVE  Value(tag, v) \in Seq(S)
BY ValueOf DEF Of

\* The fields of the head, each at its place.
HeadStands(u, transact, length, seq, sender, now) ==
  /\ StandsAt(u, 0, Value(BeginString, Zero))
  /\ StandsAt(u, 4, Value(BodyLength, length))
  /\ StandsAt(u, 8, Value(MsgType, Known))
  /\ StandsAt(u, 12, Value(MsgSeqNum, seq))
  /\ StandsAt(u, 16, Value(SenderCompID, sender))
  /\ StandsAt(u, 20, Value(SendingTime, now))
  /\ StandsAt(u, 24, Value(TargetCompID, Zero))
  /\ transact => StandsAt(u, 28, Value(TransactTime, now))

LEMMA HeadFields ==
  ASSUME NEW S, Symbols \subseteq S, NEW u \in Seq(S), NEW transact \in BOOLEAN,
         NEW length \in S, NEW seq \in S, NEW sender \in S, NEW now \in S,
         StandsAt(u, 0, HeadOf(transact, length, seq, sender, now))
  PROVE  HeadStands(u, transact, length, seq, sender, now)
<1> DEFINE h1 == Value(BeginString, Zero)
           h2 == Head2(length)
           h3 == Head3(length)
           h4 == Head4(length, seq)
           h5 == Head5(length, seq, sender)
           h6 == Head6(length, seq, sender, now)
           h7 == Head7(length, seq, sender, now)
           v2 == Value(BodyLength, length)
           v3 == Value(MsgType, Known)
           v4 == Value(MsgSeqNum, seq)
           v5 == Value(SenderCompID, sender)
           v6 == Value(SendingTime, now)
           v7 == Value(TargetCompID, Zero)
           v8 == Value(TransactTime, now)
<1>1. Zero \in S /\ Known \in S
  BY TagsTyped
<1>2. /\ v2 \in Seq(S) /\ v3 \in Seq(S) /\ v4 \in Seq(S) /\ v5 \in Seq(S)
      /\ v6 \in Seq(S) /\ v7 \in Seq(S) /\ v8 \in Seq(S)
  BY <1>1, TagsTyped, ValueBytes
<1>3. /\ h2 \in Of(S, 8) /\ h3 \in Of(S, 12) /\ h4 \in Of(S, 16) /\ h5 \in Of(S, 20)
      /\ h6 \in Of(S, 24) /\ h7 \in Of(S, 28)
  BY HeadTyped
<1>4. h1 \in Of(S, 4)
  BY <1>1, TagsTyped, ValueOf
<1>5. /\ h2 = Cat(h1, v2) /\ h3 = Cat(h2, v3) /\ h4 = Cat(h3, v4) /\ h5 = Cat(h4, v5)
      /\ h6 = Cat(h5, v6) /\ h7 = Cat(h6, v7)
  BY DEF Head2, Head3, Head4, Head5, Head6, Head7
<1>6. StandsAt(u, 0, h7) /\ (transact => StandsAt(u, 28, v8))
  <2>1. CASE transact
    <3>1. StandsAt(u, 0, Cat(h7, v8))
      BY <2>1 DEF HeadOf, Head8
    <3> HIDE DEF h7, v8
    <3> QED BY <1>2, <1>3, <3>1, StandsCut
  <2>2. CASE ~transact
    BY <2>2 DEF HeadOf
  <2> QED BY <2>1, <2>2
<1> HIDE DEF h1, h2, h3, h4, h5, h6, h7, v2, v3, v4, v5, v6, v7, v8
<1>7. StandsAt(u, 0, h6) /\ StandsAt(u, 24, v7)
  BY <1>2, <1>3, <1>5, <1>6, StandsCut
<1>8. StandsAt(u, 0, h5) /\ StandsAt(u, 20, v6)
  BY <1>2, <1>3, <1>5, <1>7, StandsCut
<1>9. StandsAt(u, 0, h4) /\ StandsAt(u, 16, v5)
  BY <1>2, <1>3, <1>5, <1>8, StandsCut
<1>10. StandsAt(u, 0, h3) /\ StandsAt(u, 12, v4)
  BY <1>2, <1>3, <1>5, <1>9, StandsCut
<1>11. StandsAt(u, 0, h2) /\ StandsAt(u, 8, v3)
  BY <1>2, <1>3, <1>5, <1>10, StandsCut
<1>12. StandsAt(u, 0, h1) /\ StandsAt(u, 4, v2)
  BY <1>2, <1>4, <1>5, <1>11, StandsCut
<1> QED BY <1>6, <1>7, <1>8, <1>9, <1>10, <1>11, <1>12
        DEF HeadStands, h1, v2, v3, v4, v5, v6, v7, v8

\* The parser reads the number in the head, and of what is behind it the texts.
LEMMA ReadHead ==
  ASSUME NEW S, Symbols \subseteq S, NEW u \in Seq(S), NEW transact \in BOOLEAN,
         NEW length, NEW n \in Int, NEW sender \in Int, NEW now \in Int,
         HeadStands(u, transact, length, Val(n), Val(sender), Val(now)),
         NEW at, NEW seq, NEW text,
         Reads(u, HeadSize(transact) + 1, at, seq, text)
  PROVE  Reads(u, 13, at, n, text)
<1>1. /\ Val(n) \in S /\ Val(sender) \in S /\ Val(now) \in S /\ Zero \in S
      /\ Val(n) # Soh /\ Val(sender) # Soh /\ Val(now) # Soh /\ Zero # Soh
  BY TagsTyped, SymbolsDiffer DEF Symbols, Zero
<1>2. /\ SenderCompID \notin {CheckSum, MsgSeqNum, Text}
      /\ SendingTime \notin {CheckSum, MsgSeqNum, Text}
      /\ TargetCompID \notin {CheckSum, MsgSeqNum, Text}
      /\ TransactTime \notin {CheckSum, MsgSeqNum, Text}
  BY DEF SenderCompID, SendingTime, TargetCompID, TransactTime, CheckSum, MsgSeqNum, Text
<1>3. /\ OneStands(S, u, 12, MsgSeqNum, Val(n))
      /\ OneStands(S, u, 16, SenderCompID, Val(sender))
      /\ OneStands(S, u, 20, SendingTime, Val(now))
      /\ OneStands(S, u, 24, TargetCompID, Zero)
      /\ transact => OneStands(S, u, 28, TransactTime, Val(now))
  <2>1. /\ StandsAt(u, 12, Field(Tag(MsgSeqNum), <<Val(n)>>))
        /\ StandsAt(u, 16, Field(Tag(SenderCompID), <<Val(sender)>>))
        /\ StandsAt(u, 20, Field(Tag(SendingTime), <<Val(now)>>))
        /\ StandsAt(u, 24, Field(Tag(TargetCompID), <<Zero>>))
        /\ transact => StandsAt(u, 28, Field(Tag(TransactTime), <<Val(now)>>))
    BY DEF HeadStands, Value
  <2>2. /\ Eq \in S /\ Soh \in S /\ Tag(MsgSeqNum) \in S /\ Tag(SenderCompID) \in S
        /\ Tag(SendingTime) \in S /\ Tag(TargetCompID) \in S /\ Tag(TransactTime) \in S
    <3>1. /\ MsgSeqNum \in Nat /\ SenderCompID \in Nat /\ SendingTime \in Nat
          /\ TargetCompID \in Nat /\ TransactTime \in Nat
      BY DEF MsgSeqNum, SenderCompID, SendingTime, TargetCompID, TransactTime
    <3> QED BY <3>1 DEF Symbols
  <2>3. 12 \in Nat /\ 16 \in Nat /\ 20 \in Nat /\ 24 \in Nat /\ 28 \in Nat
    OBVIOUS
  <2> QED BY <1>1, <2>1, <2>2, <2>3 DEF OneStands
<1>4. Reads(u, 28 + 1, at, seq, text)
  <2>1. CASE transact
    <3>1. Reads(u, 28 + 5, at, seq, text)
      <4>1. HeadSize(transact) + 1 = 28 + 5
        BY <2>1 DEF HeadSize
      <4> QED BY <4>1
    <3> QED BY <1>2, <1>3, <2>1, <3>1, ReadOther
  <2>2. CASE ~transact
    BY <2>2 DEF HeadSize
  <2> QED BY <2>1, <2>2
<1>5. Reads(u, 24 + 1, at, seq, text)
  <2>1. Reads(u, 24 + 5, at, seq, text)
    BY <1>4
  <2> QED BY <1>2, <1>3, <2>1, ReadOther
<1>6. Reads(u, 20 + 1, at, seq, text)
  <2>1. Reads(u, 20 + 5, at, seq, text)
    BY <1>5
  <2> QED BY <1>2, <1>3, <2>1, ReadOther
<1>7. Reads(u, 16 + 1, at, seq, text)
  <2>1. Reads(u, 16 + 5, at, seq, text)
    BY <1>6
  <2> QED BY <1>2, <1>3, <2>1, ReadOther
<1>8. Reads(u, 12 + 1, at, n, text)
  <2>1. Reads(u, 12 + 5, at, seq, text)
    BY <1>7
  <2> QED BY <1>3, <2>1, ReadNumber
<1>9. 12 + 1 = 13
  OBVIOUS
<1> QED BY <1>8, <1>9

\* The message that a template builds from the fields.
BodyFor(transact, len, n, sender, now, texts, more) ==
  Cat(Cat(HeadOf(transact, Val(len), Val(n), Val(sender), Val(now)),
          TextFields(texts)), TextFields(more))
Composed(message, transact, len, n, sender, now, texts, more) ==
  LET body == BodyFor(transact, len, n, sender, now, texts, more)
  IN  /\ transact \in BOOLEAN /\ n \in Nat /\ sender \in Nat /\ now \in Nat
      /\ texts \in Seq(Nat) /\ more \in Seq(Nat)
      /\ len \in Nat \ {0} /\ Len(body) = 8 + len
      /\ message = Cat(body, Field(Tag(CheckSum), <<CheckSumOf(body)>>))

\* It is read as a whole, with its number and its texts.
LEMMA MessageParsed ==
  ASSUME NEW message, NEW transact, NEW len, NEW n, NEW sender, NEW now, NEW texts,
         NEW more, Composed(message, transact, len, n, sender, now, texts, more)
  PROVE  Parse(message, Len(message))
           = [got |-> TRUE, at |-> Len(message) + 1,
              msg |-> [begin |-> <<Zero>>, seq |-> n, text |-> texts \o more]]
<1> DEFINE body == BodyFor(transact, len, n, sender, now, texts, more)
<1>0. /\ transact \in BOOLEAN /\ n \in Nat /\ sender \in Nat /\ now \in Nat
      /\ texts \in Seq(Nat) /\ more \in Seq(Nat)
      /\ len \in Nat \ {0} /\ Len(body) = 8 + len
      /\ message = Cat(body, Field(Tag(CheckSum), <<CheckSumOf(body)>>))
  BY DEF Composed
<1>0a. body = Cat(Cat(HeadOf(transact, Val(len), Val(n), Val(sender), Val(now)),
                      TextFields(texts)), TextFields(more))
  BY DEF BodyFor
<1> HIDE DEF body
<1> DEFINE c == CheckSumOf(body)
           S == Symbols \cup {c}
           trailer == Field(Tag(CheckSum), <<c>>)
           head == HeadOf(transact, Val(len), Val(n), Val(sender), Val(now))
           h == HeadSize(transact)
           tf == TextFields(texts)
           mf == TextFields(more)
           base == Cat(head, tf)
           b == Len(body)
           t == Len(tf)
           m == Len(message)
           at == m + 1
\* Where everything stands.
<1>1. /\ Symbols \subseteq S /\ c \in S /\ Eq \in S /\ Soh \in S /\ Tag(CheckSum) \in S
      /\ Val(len) \in S /\ Val(n) \in S /\ Val(sender) \in S /\ Val(now) \in S /\ Zero \in S
  <2> HIDE DEF c
  <2>1. Symbols \subseteq S /\ c \in S
    OBVIOUS
  <2> HIDE DEF S
  <2>2. CheckSum \in Nat /\ Zero \in Symbols
    BY TagsTyped
  <2>3. len \in Int /\ n \in Int /\ sender \in Int /\ now \in Int
    BY <1>0
  <2>4. /\ Eq \in Symbols /\ Soh \in Symbols /\ \A k \in Nat : Tag(k) \in Symbols
        /\ \A k \in Int : Val(k) \in Symbols
    BY DEF Symbols
  <2>5. /\ Val(len) \in Symbols /\ Val(n) \in Symbols /\ Val(sender) \in Symbols
        /\ Val(now) \in Symbols /\ Tag(CheckSum) \in Symbols
    BY <2>2, <2>3, <2>4
  <2> QED BY <2>1, <2>2, <2>4, <2>5
<1>2. c # Soh /\ Zero # Soh
  BY SymbolsDiffer DEF Zero
<1> HIDE DEF c, S
<1>3. trailer \in Seq(S) /\ Len(trailer) = 4
  BY <1>1 DEF Field
<1>4. head \in Of(S, h) /\ head \in Seq(S) /\ Len(head) = h /\ h \in Nat
  <2>1. head \in Of(S, h)
    BY <1>0, <1>1, HeadOfTyped
  <2> QED BY <2>1 DEF Of, HeadSize
<1>5. tf \in Seq(S) /\ mf \in Seq(S) /\ t \in Nat
  <2>1. tf \in Seq(Symbols) /\ mf \in Seq(Symbols)
    BY <1>0, TextFieldsTyped
  <2> HIDE DEF tf, mf
  <2> QED BY <1>1, <2>1
<1> HIDE DEF head, tf, mf, h, trailer
<1>6. base \in Seq(S) /\ Len(base) = h + t
  <2>1. base \in Seq(S) /\ Len(base) = Len(head) + Len(tf)
    BY <1>4, <1>5, CatIs
  <2> QED BY <1>4, <2>1
<1>7. body = Cat(base, mf) /\ message = Cat(body, trailer)
  BY <1>0, <1>0a DEF head, tf, mf, base, trailer, c
<1> HIDE DEF base
<1>8. body \in Seq(S) /\ b = (h + t) + Len(mf) /\ b \in Nat /\ Len(mf) \in Nat
  <2>1. Cat(base, mf) \in Seq(S) /\ Len(Cat(base, mf)) = Len(base) + Len(mf)
    BY <1>5, <1>6, CatIs
  <2>2. Len(mf) \in Nat
    BY <1>5
  <2> QED BY <1>4, <1>5, <1>6, <1>7, <2>1, <2>2
<1>9. message \in Seq(S) /\ m = b + 4 /\ m \in Nat
  <2>1. Cat(body, trailer) \in Seq(S) /\ Len(Cat(body, trailer)) = Len(body) + Len(trailer)
    BY <1>3, <1>8, CatIs
  <2> QED BY <1>3, <1>7, <1>8, <2>1
<1>10. StandsAt(message, 0, body) /\ StandsAt(message, b, trailer)
  <2>1. StandsAt(message, 0, Cat(body, trailer))
    <3>1. StandsAt(message, 0, message)
      BY <1>9 DEF StandsAt
    <3> QED BY <1>7, <3>1
  <2>2. body \in Of(S, b)
    BY <1>8 DEF Of
  <2> QED BY <1>3, <1>8, <1>9, <2>1, <2>2, StandsCut
<1>11. StandsAt(message, 0, base) /\ StandsAt(message, h + t, mf)
  <2>1. base \in Of(S, h + t) /\ h + t \in Nat
    BY <1>4, <1>5, <1>6 DEF Of
  <2>2. StandsAt(message, 0, Cat(base, mf))
    BY <1>7, <1>10
  <2> QED BY <1>5, <1>9, <2>1, <2>2, StandsCut
<1>12. StandsAt(message, 0, head) /\ StandsAt(message, h, tf)
  <2>1. StandsAt(message, 0, Cat(head, tf))
    BY <1>11 DEF base
  <2> QED BY <1>4, <1>5, <1>9, <2>1, StandsCut
<1>13. HeadStands(message, transact, Val(len), Val(n), Val(sender), Val(now))
  <2>1. StandsAt(message, 0, HeadOf(transact, Val(len), Val(n), Val(sender), Val(now)))
    BY <1>12 DEF head
  <2> QED BY <1>0, <1>1, <1>9, <2>1, HeadFields
\* What is read, from the end on.
<1>14. Reads(message, b + 1, at, 0, <<>>)
  <2>1. Reads(message, b + 1, b + 5, 0, <<>>)
    <3>1. StandsAt(message, b, Field(Tag(CheckSum), <<c>>))
      BY <1>10 DEF trailer
    <3>2. OneStands(S, message, b, CheckSum, c)
      BY <1>1, <1>2, <1>8, <1>9, <3>1 DEF OneStands
    <3> QED BY <3>2, ReadEnd
  <2>2. b + 5 = at
    BY <1>8, <1>9
  <2> QED BY <2>1, <2>2
<1> HIDE DEF at
<1>15. Reads(message, (h + t) + 1, at, 0, more)
  <2> DEFINE p == h + t
             none == <<>>
  <2>1. p \in Nat /\ p + Len(mf) + 1 = b + 1 /\ none \in Seq(Nat)
    BY <1>4, <1>5, <1>8
  <2>2. Reads(message, p + Len(mf) + 1, at, 0, none)
    BY <1>14, <2>1
  <2>3. StandsAt(message, p, mf)
    BY <1>11
  <2>4. Cat(more, none) = more
    BY <1>0 DEF Cat
  <2> HIDE DEF p, none
  <2>5. Reads(message, p + 1, at, 0, Cat(more, none))
    BY <1>0, <1>1, <1>9, <2>1, <2>2, <2>3, ReadTexts DEF mf
  <2> QED BY <2>4, <2>5 DEF p
<1>16. Reads(message, h + 1, at, 0, Cat(texts, more))
  <2>1. Reads(message, h + Len(tf) + 1, at, 0, more)
    BY <1>15
  <2> HIDE DEF t
  <2> QED BY <1>0, <1>1, <1>4, <1>9, <1>12, <2>1, ReadTexts DEF tf
<1>17. Reads(message, 13, at, n, Cat(texts, more))
  <2>1. Reads(message, HeadSize(transact) + 1, at, 0, Cat(texts, more))
    BY <1>16 DEF h
  <2>2. n \in Int /\ sender \in Int /\ now \in Int
    BY <1>0
  <2> QED BY <1>0, <1>1, <1>9, <1>13, <2>1, <2>2, ReadHead
\* The frame.
<1>18. Framed(message, 0, len, Zero, body)
  <2>1. /\ StandsAt(message, 0, Field(Tag(BeginString), <<Zero>>))
        /\ StandsAt(message, 4, Field(Tag(BodyLength), <<Val(len)>>))
        /\ StandsAt(message, 8, Field(Tag(MsgType), <<Known>>))
    BY <1>13 DEF HeadStands, Value
  <2>2. StandsAt(message, 8 + len, Field(Tag(CheckSum), <<CheckSumOf(body)>>))
    BY <1>0, <1>10 DEF trailer, c
  <2>3. 0 + 4 = 4 /\ 0 + 8 = 8 /\ 0 + (8 + len) = 8 + len
    BY <1>0
  <2> QED BY <1>0, <1>2, <1>10, <2>1, <2>2, <2>3 DEF Framed
<1> DEFINE r == RestOfMessage(message, 13)
<1>19. Frame(message, 1, m) = WholeOf(Zero, r)
  <2>1. 1 <= len /\ len <= m /\ len \in Nat
    BY <1>0, <1>8, <1>9
  <2>2. CheckSumOf(body) \in S
    BY <1>1 DEF c
  <2>3. FramedIn(S, message, m, len, Zero, body)
    BY <1>1, <1>8, <1>9, <1>18, <2>1, <2>2 DEF FramedIn
  <2> QED BY <2>3, FrameFirst
<1>20. r.at = at /\ r.seq = n /\ r.text = Cat(texts, more)
  BY <1>17 DEF Reads, Read
<1> DEFINE f == Frame(message, 1, m)
           msg == [begin |-> <<Zero>>, seq |-> n, text |-> Cat(texts, more)]
<1> HIDE DEF r
<1>21. f.st = "ok" /\ f.at = at /\ f.msg = msg
  BY <1>19, <1>20 DEF WholeOf
<1> HIDE DEF f, msg
<1>22. Parse(message, m) = [got |-> TRUE, at |-> f.at, msg |-> f.msg]
  <2>1. Len(message) \in Nat /\ m \in Nat
    BY <1>9
  <2> HIDE DEF m
  <2> QED BY <1>21, <2>1, ParseStarts DEF f
<1> QED BY <1>9, <1>21, <1>22 DEF msg, at, Cat

-----------------------------------------------------------------------------
(***************************************************************************)
(* The inductive invariant: what the buffer holds between the calls.  The  *)
(* values in the head may be those of an earlier session, number and       *)
(* length, except the time, and behind the constant fields is whatever an  *)
(* earlier message left; S is the set of the symbols met so far.           *)
(***************************************************************************)
MarkersIn(transact) ==
  [length |-> 7, seq |-> 15, sender |-> 19, time |-> 23,
   transact |-> IF transact THEN 31 ELSE 0,
   constStart |-> HeadSize(transact) + 1,
   constEnd |-> HeadSize(transact) + Len(TextFields(consts)) + 1]

Laid(transact, length, seq, sender, S, tail) ==
  /\ Symbols \subseteq S /\ tail \in Seq(S)
  /\ data = Cat(Cat(HeadOf(transact, length, seq, sender, Val(time)),
                    TextFields(consts)), tail)
  /\ markers = MarkersIn(transact)
  /\ sums = [head |-> UpToLength, const |-> TextFields(consts)]

LaidOut ==
  \E transact \in BOOLEAN, length \in Symbols, seq \in Symbols, sender \in Symbols :
    \E S, tail : Laid(transact, length, seq, sender, S, tail)

Ranges ==
  /\ session \in [sender : Nat, seq : Nat] /\ time \in Nat
  /\ consts \in Seq(Nat) /\ fields \in Seq(Nat)

IInv == Ranges /\ LaidOut /\ AsBuiltAnew /\ end \in Nat

LEMMA SymbolsOfState ==
  ASSUME Ranges
  PROVE  /\ Val(time) \in Symbols /\ Val(session.sender) \in Symbols
         /\ Val(session.seq) \in Symbols /\ Zero \in Symbols
         /\ TextFields(consts) \in Seq(Symbols) /\ TextFields(fields) \in Seq(Symbols)
<1>1. time \in Int /\ session.sender \in Int /\ session.seq \in Int
  BY DEF Ranges
<1>2. \A v \in Int : Val(v) \in Symbols
  BY DEF Symbols
<1>3. TextFields(consts) \in Seq(Symbols) /\ TextFields(fields) \in Seq(Symbols)
  BY TextFieldsTyped DEF Ranges
<1> QED BY <1>1, <1>2, <1>3, TagsTyped

LEMMA InitEstablishes == Init => IInv
<1> SUFFICES ASSUME Init PROVE IInv
  OBVIOUS
<1>1. Ranges
  <2>1. consts \in Seq(Nat) /\ fields \in Seq(Nat)
    BY TemplateAssumption DEF Init
  <2>a. session \in [sender : Senders, seq : {1}] /\ time = 0
    BY DEF Init
  <2>2. session \in [sender : Nat, seq : Nat] /\ time \in Nat
    <3>1. Senders \subseteq Nat /\ 0 \in Nat /\ 1 \in Nat
      BY TemplateAssumption
    <3> QED BY <2>a, <3>1
  <2> QED BY <2>1, <2>2 DEF Ranges
<1>2. PICK transact \in BOOLEAN :
        Prepared(Stamped(session.sender, transact), TextFields(consts), transact)
  BY DEF Init
<1> DEFINE head == Stamped(session.sender, transact)
           texts == TextFields(consts)
           n == HeadSize(transact)
<1>3. head = HeadOf(transact, Zero, Zero, Val(session.sender), Val(time))
  BY <1>1, StampedIs DEF Init, Ranges, Zero
<1>4. /\ Zero \in Symbols /\ Val(session.sender) \in Symbols /\ Val(time) \in Symbols
      /\ texts \in Seq(Symbols)
  BY <1>1, SymbolsOfState
<1>5. head \in Of(Symbols, n)
  BY <1>3, <1>4, HeadOfTyped
<1>6. head \in Seq(Symbols) /\ Len(head) = n /\ n = IF transact THEN 32 ELSE 28
  BY <1>5 DEF Of, HeadSize
<1>7. Len(UpToLength) = 6 /\ Len(UpToNumber) = 14
  BY UpToLengthIs, UpToNumberIs DEF Of
<1>8. /\ data = Cat(head, texts) /\ markers = MarkersOf(head, texts, transact)
      /\ sums = [head |-> UpToLength, const |-> texts]
  BY <1>2 DEF Prepared, Cat
<1> HIDE DEF head, texts, n
<1>9. markers = MarkersIn(transact)
  BY <1>6, <1>7, <1>8 DEF MarkersOf, MarkersIn, n, texts
<1>10. data = Cat(Cat(head, texts), <<>>) /\ <<>> \in Seq(Symbols)
  <2>1. Cat(head, texts) \in Seq(Symbols)
    BY <1>4, <1>6, CatIs
  <2> QED BY <1>8, <2>1 DEF Cat
<1>11. Laid(transact, Zero, Zero, Val(session.sender), Symbols, <<>>)
  BY <1>3, <1>8, <1>9, <1>10 DEF Laid, texts
<1>12. LaidOut
  BY <1>4, <1>11 DEF LaidOut
<1>13. end \in Nat
  <2>1. end = Len(data)
    BY <1>2 DEF Prepared
  <2>2. head \in Seq(Symbols) /\ texts \in Seq(Symbols)
    BY <1>4, <1>6
  <2>3. data \in Seq(Symbols)
    BY <1>8, <2>2, CatIs
  <2> QED BY <2>1, <2>3
<1> QED BY <1>1, <1>12, <1>13 DEF IInv, AsBuiltAnew, Init

\* The calls of the user's program leave the buffer alone.
LEMMA CallKeeps ==
  ASSUME IInv, Ranges', ~current',
         UNCHANGED <<data, end, markers, sums, time, consts>>
  PROVE  IInv'
<1>1. LaidOut'
  BY DEF IInv, LaidOut, Laid, MarkersIn
<1>2. end' \in Nat
  BY DEF IInv
<1> QED BY <1>1, <1>2 DEF IInv, AsBuiltAnew

\* A value put at its marker changes the head alone.
LEMMA PutData ==
  ASSUME NEW S, NEW n \in Nat, NEW head \in Of(S, n), NEW texts \in Seq(S),
         NEW tail \in Seq(S), NEW m \in 0..n, NEW v \in S
  PROVE  Put(Cat(Cat(head, texts), tail), m, v) = Cat(Cat(Put(head, m, v), texts), tail)
<1> DEFINE b == Cat(head, texts)
           k == Len(texts)
<1>1. k \in Nat /\ texts \in Of(S, k) /\ Len(tail) \in Nat /\ tail \in Of(S, Len(tail))
  BY DEF Of
<1> HIDE DEF k
<1>2. b \in Of(S, n + k)
  BY <1>1, CatOf
<1>3. Put(b, m, v) = Cat(Put(head, m, v), texts)
  BY <1>1, PutCat
<1> HIDE DEF b
<1>4. n + k \in Nat /\ m <= n + k /\ m \in Nat
  BY <1>1
<1>5. Put(Cat(b, tail), m, v) = Cat(Put(b, m, v), tail)
  BY <1>1, <1>2, <1>4, PutCat
<1> QED BY <1>3, <1>5 DEF b

LEMMA UpdateTimeKeeps ==
  ASSUME IInv, NEW now \in Times, UpdateTime(now)
  PROVE  IInv'
<1>0. PICK transact \in BOOLEAN, length \in Symbols, seq \in Symbols,
           sender \in Symbols :
        \E S, tail : Laid(transact, length, seq, sender, S, tail)
  BY DEF IInv, LaidOut
<1>1. PICK S, tail : Laid(transact, length, seq, sender, S, tail)
  BY <1>0
<1> DEFINE n == HeadSize(transact)
           head == HeadOf(transact, length, seq, sender, Val(time))
           head2 == HeadOf(transact, length, seq, sender, Val(now))
           texts == TextFields(consts)
           m == IF transact THEN 31 ELSE 0
           v == Val(now)
           first == Put(data, 23, v)
           second == Put(first, m, v)
<1>2. Ranges' /\ now \in Nat /\ time' = now /\ ~current'
  BY TemplateAssumption DEF IInv, Ranges, UpdateTime
<1>3. /\ Val(time) \in Symbols /\ v \in Symbols /\ texts \in Seq(Symbols)
  BY <1>2, SymbolsOfState DEF IInv, Symbols
<1>4. /\ Symbols \subseteq S /\ tail \in Seq(S) /\ data = Cat(Cat(head, texts), tail)
      /\ markers.time = 23 /\ markers.transact = m
  BY <1>1 DEF Laid, MarkersIn
<1>5. n \in Nat /\ 23 \in 0..n /\ m \in 0..n /\ m \in Nat
  BY DEF HeadSize
<1>6. /\ head \in Of(Symbols, n) /\ Put(Put(head, 23, v), m, v) = head2
  BY <1>3, HeadOfTyped, PutTime
<1>7. head \in Of(S, n) /\ texts \in Seq(S) /\ v \in S
  BY <1>3, <1>4, <1>6 DEF Of
<1>8. data \in Seq(S)
  <2>1. head \in Seq(S)
    BY <1>7 DEF Of
  <2> HIDE DEF head, texts
  <2>2. Cat(head, texts) \in Seq(S)
    BY <1>7, <2>1, CatIs
  <2> QED BY <1>4, <2>2, CatIs
<1> HIDE DEF head, head2, texts, n, m, v
<1>9. first = Cat(Cat(Put(head, 23, v), texts), tail)
  BY <1>4, <1>5, <1>7, PutData
<1>10. Put(head, 23, v) \in Of(S, n)
  BY <1>5, <1>7, PutOf
<1>11. second = Cat(Cat(head2, texts), tail)
  BY <1>4, <1>5, <1>6, <1>7, <1>9, <1>10, PutData
<1>12. data' = second
  <2>1. data' = [i \in 1..Len(data) |-> IF i \in {23, m} THEN v ELSE data[i]]
    BY <1>4, <1>8 DEF UpdateTime, v
  <2>2. first \in Seq(S) /\ Len(first) = Len(data) /\ Len(data) \in Nat
    BY <1>7, <1>8, PutSeq
  <2>3. second \in Seq(S) /\ Len(second) = Len(data)
    BY <1>7, <2>2, PutSeq
  <2>4. ASSUME NEW i \in 1..Len(data)
        PROVE  second[i] = IF i \in {23, m} THEN v ELSE data[i]
    <3>1. first[i] = IF i = 23 THEN v ELSE data[i]
      BY <1>7, <1>8, PutAt
    <3> HIDE DEF first
    <3>2. second[i] = IF i = m THEN v ELSE first[i]
      BY <1>7, <2>2, PutAt
    <3> HIDE DEF second
    <3> QED BY <3>1, <3>2
  <2> HIDE DEF second
  <2>5. second = [i \in 1..Len(data) |-> second[i]]
    BY <2>3
  <2> QED BY <2>1, <2>4, <2>5
<1>13. UNCHANGED <<markers, sums, consts>>
  BY DEF UpdateTime
<1>14. Laid(transact, length, seq, sender, S, tail)'
  <2>1. data' = Cat(Cat(HeadOf(transact, length, seq, sender, Val(time')),
                        TextFields(consts')), tail)
    BY <1>2, <1>11, <1>12, <1>13 DEF head2, texts
  <2>2. markers' = MarkersIn(transact)'
        /\ sums' = [head |-> UpToLength, const |-> TextFields(consts')]
    BY <1>1, <1>13 DEF Laid, MarkersIn
  <2> QED BY <1>4, <2>1, <2>2 DEF Laid
<1>15. LaidOut'
  BY <1>14 DEF LaidOut
<1>16. end' \in Nat
  BY DEF IInv, UpdateTime
<1> QED BY <1>2, <1>15, <1>16 DEF IInv, AsBuiltAnew

LEMMA LaidOutNext ==
  ASSUME NEW transact \in BOOLEAN, NEW length \in Symbols, NEW seq \in Symbols,
         NEW sender \in Symbols, NEW S, NEW tail \in Seq(S), Symbols \subseteq S,
         data' = Cat(Cat(HeadOf(transact, length, seq, sender, Val(time')),
                         TextFields(consts')), tail),
         markers' = MarkersIn(transact)',
         sums' = [head |-> UpToLength, const |-> TextFields(consts')]
  PROVE  LaidOut'
<1>1. Laid(transact, length, seq, sender, S, tail)'
  BY DEF Laid
<1> QED BY <1>1 DEF LaidOut

LEMMA UnparseKeeps ==
  ASSUME IInv, TemplateUnparse
  PROVE  IInv'
<1>0. PICK transact \in BOOLEAN, length \in Symbols, seq \in Symbols,
           sender \in Symbols :
        \E S, tail : Laid(transact, length, seq, sender, S, tail)
  BY DEF IInv, LaidOut
<1>1. PICK S, tail : Laid(transact, length, seq, sender, S, tail)
  BY <1>0
<1> DEFINE n == HeadSize(transact)
           texts == TextFields(consts)
           more == TextFields(fields)
           t == Len(texts)
           f == Len(more)
           start == n + t
           last == start + f
           now == Val(time)
           newlength == Val(last - 8)
           newseq == Val(session.seq)
           newsender == Val(session.sender)
           head == HeadOf(transact, length, seq, sender, now)
           head1 == HeadOf(transact, length, seq, newsender, now)
           head2 == HeadOf(transact, length, newseq, newsender, now)
           head3 == HeadOf(transact, newlength, newseq, newsender, now)
\* The state before, and its ranges.
<1>2. Ranges /\ Ranges' /\ UNCHANGED <<markers, sums, fields, session, time, consts>>
  BY DEF IInv, Ranges, TemplateUnparse
<1>3. /\ now \in Symbols /\ newseq \in Symbols /\ newsender \in Symbols
      /\ texts \in Seq(Symbols) /\ more \in Seq(Symbols)
  BY <1>2, SymbolsOfState
<1>4. /\ Symbols \subseteq S /\ tail \in Seq(S) /\ data = Cat(Cat(head, texts), tail)
      /\ markers = MarkersIn(transact)
      /\ sums = [head |-> UpToLength, const |-> texts]
  BY <1>1 DEF Laid
<1>5. /\ n \in Nat /\ n >= 28 /\ 7 \in 0..n /\ 15 \in 0..n /\ 19 \in 0..n
      /\ t \in Nat /\ f \in Nat /\ start \in Nat /\ last \in Nat /\ last - 8 \in Int
  <2>1. n \in Nat /\ n >= 28
    BY DEF HeadSize
  <2>2. t \in Nat /\ f \in Nat
    BY <1>3
  <2> HIDE DEF n, t, f
  <2> QED BY <2>1, <2>2
<1>6. newlength \in Symbols
  BY <1>5 DEF Symbols
<1>7. /\ head \in Of(Symbols, n) /\ head1 \in Of(Symbols, n)
      /\ head2 \in Of(Symbols, n) /\ head3 \in Of(Symbols, n)
  BY <1>3, <1>6, HeadOfTyped
<1>8. /\ Put(head, 19, newsender) = head1 /\ Put(head1, 15, newseq) = head2
      /\ Put(head2, 7, newlength) = head3
  BY <1>3, <1>6, PutSender, PutSeqNum, PutLength
<1>9. SubSeq(head3, 1, 6) = UpToLength
  BY <1>3, <1>6, HeadBegins
<1>10. /\ markers.length = 7 /\ markers.seq = 15 /\ markers.sender = 19
       /\ markers.constStart = n + 1 /\ markers.constEnd = start + 1
       /\ (markers.transact = 0) = ~transact
       /\ Start = start /\ LengthOf(last) = last - 8
  <2>1. /\ markers.length = 7 /\ markers.seq = 15 /\ markers.sender = 19
        /\ markers.constStart = n + 1 /\ markers.constEnd = n + t + 1
        /\ (markers.transact = 0) = ~transact
    BY <1>4 DEF MarkersIn
  <2> HIDE DEF n, t, last
  <2>2. Start = start
    BY <1>5, <2>1 DEF Start
  <2>3. LengthOf(last) = last - 8
    BY <1>5, <2>1 DEF LengthOf
  <2> QED BY <1>5, <2>1, <2>2, <2>3
\* The variable fields, written behind the constant ones.
<1> DEFINE base == Cat(head, texts)
           base3 == Cat(head3, texts)
           body == Cat(base3, more)
<1>11. /\ head \in Of(S, n) /\ head1 \in Of(S, n) /\ head2 \in Of(S, n)
       /\ head3 \in Of(S, n) /\ texts \in Of(S, t) /\ more \in Of(S, f)
       /\ texts \in Seq(S) /\ more \in Seq(S)
       /\ newsender \in S /\ newseq \in S /\ newlength \in S
  BY <1>3, <1>4, <1>6, <1>7 DEF Of
<1>11a. base3 \in Of(S, start) /\ base \in Of(S, start)
  BY <1>5, <1>11, CatOf
<1>11b. body \in Of(S, last)
  BY <1>5, <1>11, <1>11a, CatOf
<1> HIDE DEF n, t, f, start, last, now, head, head1, head2, head3, texts, more
<1> HIDE DEF newlength, newseq, newsender
<1>12. PICK k \in Seq(S) : Written(data, Start, more) = Cat(Cat(base, more), k)
  BY <1>4, <1>5, <1>10, <1>11, <1>11a, WrittenIs
<1> DEFINE tail1 == Cat(more, k)
           written == Written(data, Start, more)
           marked == Marked(written, last)
<1>13. tail1 \in Seq(S)
  BY <1>11, <1>12, CatIs
<1>14. written = Cat(Cat(head, texts), tail1)
  <2>1. base \in Seq(S)
    BY <1>11a DEF Of
  <2> HIDE DEF base
  <2>2. Cat(Cat(base, more), k) = Cat(base, Cat(more, k))
    BY <1>11, <1>12, <2>1, CatAssociates
  <2> QED BY <1>12, <2>2 DEF base
<1> HIDE DEF tail1, written
<1>15. marked = Cat(Cat(head3, texts), tail1)
  <2>1. Put(written, 19, newsender) = Cat(Cat(head1, texts), tail1)
    BY <1>5, <1>8, <1>11, <1>13, <1>14, PutData
  <2>2. Put(Cat(Cat(head1, texts), tail1), 15, newseq) = Cat(Cat(head2, texts), tail1)
    BY <1>5, <1>8, <1>11, <1>13, PutData
  <2>3. Put(Cat(Cat(head2, texts), tail1), 7, newlength) = Cat(Cat(head3, texts), tail1)
    BY <1>5, <1>8, <1>11, <1>13, PutData
  <2>4. marked = Put(Put(Put(written, 19, newsender), 15, newseq), 7, newlength)
    BY <1>10 DEF Marked, newsender, newseq, newlength
  <2> QED BY <2>1, <2>2, <2>3, <2>4
<1>16. marked = Cat(body, k)
  <2>1. base3 \in Seq(S)
    BY <1>11a DEF Of
  <2>2. marked = Cat(base3, Cat(more, k))
    BY <1>15 DEF tail1
  <2> HIDE DEF base3
  <2>3. Cat(Cat(base3, more), k) = Cat(base3, Cat(more, k))
    BY <1>11, <1>12, <2>1, CatAssociates
  <2> QED BY <2>2, <2>3
<1> HIDE DEF marked
\* What is summed: all of the message.
<1>17. SubSeq(marked, 7, n) = SubSeq(head3, 7, n)
  <2>1. head3 \in Seq(S)
    BY <1>11 DEF Of
  <2>2. marked = Cat(head3, Cat(texts, tail1)) /\ Cat(texts, tail1) \in Seq(S)
    BY <1>11, <1>13, <1>15, <2>1, CatAssociates, CatIs
  <2>3. 7 \in 1..(n + 1)
    BY <1>5
  <2> QED BY <1>5, <1>11, <2>2, <2>3, ReadFirst
<1>18. SubSeq(marked, start + 1, last) = more
  <2>1. start + 1 \in 1..(last + 1)
    BY <1>5 DEF last
  <2>2. SubSeq(marked, start + 1, last) = SubSeq(body, start + 1, last)
    BY <1>5, <1>11b, <1>12, <1>16, <2>1, ReadFirst
  <2>3. SubSeq(body, start + 1, start + f) = more
    BY <1>5, <1>11, <1>11a, ReadSecond
  <2> QED BY <2>2, <2>3 DEF last
<1>19. Cat(UpToLength, SubSeq(head3, 7, n)) = head3
  <2>1. head3 \in Seq(S) /\ Len(head3) = n /\ 6 \in 0..n
    BY <1>5, <1>11 DEF Of
  <2>2. Cat(SubSeq(head3, 1, 6), SubSeq(head3, 6 + 1, n)) = head3
    BY <2>1, Divided
  <2>3. 6 + 1 = 7
    OBVIOUS
  <2> QED BY <1>9, <2>2, <2>3, Zenon
<1> DEFINE c == CheckSumOf(body)
           S2 == S \cup {c}
           trailer == Field(Tag(CheckSum), <<c>>)
<1>20. Sum(marked, last) = c
  <2>1. Between(marked, markers.length, markers.constStart) = SubSeq(head3, 7, n)
    <3>1. (n + 1) - 1 = n
      BY <1>5
    <3> QED BY <1>10, <1>17, <3>1 DEF Between
  <2>2. Between(marked, markers.constEnd, last + 1) = more
    <3>1. (last + 1) - 1 = last
      BY <1>5
    <3> QED BY <1>10, <1>18, <3>1 DEF Between
  <2>3. sums.head = UpToLength /\ sums.const = texts
    BY <1>4
  <2> QED BY <1>19, <2>1, <2>2, <2>3 DEF Sum, Cat
\* The checksum, behind it.
<1>21. trailer \in Of(S2, 4)
  <2>1. c \in S2 /\ Tag(CheckSum) \in S2 /\ Eq \in S2 /\ Soh \in S2
    BY <1>4, TagsTyped DEF Symbols
  <2> HIDE DEF c, S2
  <2> QED BY <2>1 DEF Field, Of
<1>22. Symbols \subseteq S2 /\ k \in Seq(S2) /\ more \in Seq(S2) /\ more \in Of(S2, f)
  <2> HIDE DEF c
  <2> QED BY <1>4, <1>11, <1>12 DEF Of
<1>23. base3 \in Of(S2, start) /\ body \in Of(S2, last)
  <2>1. base3 \in Seq(S) /\ Len(base3) = start /\ body \in Seq(S) /\ Len(body) = last
    BY <1>11a, <1>11b DEF Of
  <2> HIDE DEF c, base3, body
  <2> QED BY <2>1 DEF Of
<1> HIDE DEF S2, c, trailer
<1>24. PICK rest \in Seq(S2) :
         Written(Cat(body, k), last, trailer) = Cat(Cat(body, trailer), rest)
  BY <1>5, <1>21, <1>22, <1>23, WrittenIs
<1>25. data' = Cat(Cat(body, trailer), rest) /\ end' = last + 4 /\ current'
  <2>1. PICK l \in {Start + Len(TextFields(fields))} :
          /\ data' = Summed(Marked(Written(data, Start, TextFields(fields)), l), l)
          /\ end' = l + CheckSumSize
    BY DEF TemplateUnparse
  <2>2. l = last
    BY <1>10, <2>1 DEF last, f, more
  <2>3. data' = Summed(marked, last)
    BY <2>1, <2>2 DEF marked, written, more
  <2>4. data' = Written(Cat(body, k), last, trailer)
    BY <1>16, <1>20, <2>3 DEF Summed, trailer
  <2> QED BY <1>24, <2>1, <2>2, <2>4 DEF CheckSumSize, TemplateUnparse
<1> DEFINE tail2 == Cat(Cat(more, trailer), rest)
<1>26. data' = Cat(Cat(head3, texts), tail2) /\ tail2 \in Seq(S2)
  <2>1. base3 \in Seq(S2) /\ trailer \in Seq(S2)
    BY <1>21, <1>23 DEF Of
  <2> HIDE DEF base3
  <2>2. Cat(more, trailer) \in Seq(S2) /\ tail2 \in Seq(S2)
    BY <1>22, <1>24, <2>1, CatIs
  <2>3. Cat(Cat(base3, more), trailer) = Cat(base3, Cat(more, trailer))
    BY <1>22, <2>1, CatAssociates
  <2>4. Cat(Cat(base3, Cat(more, trailer)), rest) = Cat(base3, Cat(Cat(more, trailer), rest))
    BY <1>24, <2>1, <2>2, CatAssociates
  <2>5. data' = Cat(base3, tail2)
    BY <1>25, <2>3, <2>4
  <2> QED BY <2>2, <2>5 DEF base3
<1> HIDE DEF tail2
<1>27. sums' = [head |-> UpToLength, const |-> TextFields(consts')]
  BY <1>2, <1>4 DEF texts
<1>27a. markers' = MarkersIn(transact)'
  BY <1>2, <1>4 DEF MarkersIn
<1>27b. data' = Cat(Cat(HeadOf(transact, newlength, newseq, newsender, Val(time')),
                       TextFields(consts')), tail2)
  BY <1>2, <1>26 DEF head3, texts, now
<1>28. LaidOut'
  BY <1>3, <1>6, <1>22, <1>26, <1>27, <1>27a, <1>27b, LaidOutNext
\* The message, and the one built anew.
<1>29. Message' = Cat(body, trailer)
  <2>1. body \in Seq(S2) /\ trailer \in Seq(S2) /\ Len(body) = last /\ Len(trailer) = 4
    BY <1>21, <1>23 DEF Of
  <2> HIDE DEF body
  <2>2. Cat(body, trailer) \in Of(S2, last + 4) /\ last + 4 \in Nat
    BY <1>5, <1>21, <1>23, CatOf
  <2>3. SubSeq(Cat(Cat(body, trailer), rest), 1, last + 4) = Cat(body, trailer)
    BY <1>24, <2>2, BeginningOf
  <2> QED BY <1>25, <2>3 DEF Message
<1> DEFINE anew == BodyOf(transact, newseq, newsender, now, texts, more)
<1>30. anew \in Seq(Symbols) /\ Cat(Head2(newlength), anew) = body
  BY <1>3, <1>6, BodyIs DEF head3
<1> HIDE DEF anew
<1>31. newlength = Val(Len(anew))
  <2>1. Head2(newlength) \in Seq(Symbols) /\ Len(Head2(newlength)) = 8
    BY <1>3, <1>6, PiecesTyped DEF Pieces, Of
  <2>2. Len(body) = last
    BY <1>11b DEF Of
  <2> HIDE DEF body
  <2>a. Len(Cat(Head2(newlength), anew)) = Len(Head2(newlength)) + Len(anew)
    BY <1>30, <2>1, CatIs, Zenon
  <2>3. Len(body) = 8 + Len(anew) /\ Len(anew) \in Nat
    BY <1>30, <2>1, <2>a
  <2>4. Len(anew) = last - 8
    BY <1>5, <2>2, <2>3
  <2> QED BY <2>4 DEF newlength
<1>32. FromFields' = FromBody(anew)
  <2>1. FromFields' = FromBody(
          Value(MsgType, Known) \o Value(MsgSeqNum, newseq)
            \o Value(SenderCompID, newsender) \o Value(SendingTime, now)
            \o Value(TargetCompID, Zero)
            \o (IF markers.transact = 0 THEN <<>> ELSE Value(TransactTime, now))
            \o texts \o more)
    BY <1>2 DEF FromFields, newseq, newsender, now, texts, more
  <2>2. (IF markers.transact = 0 THEN <<>> ELSE Value(TransactTime, now))
          = (IF transact THEN Value(TransactTime, now) ELSE <<>>)
    BY <1>10
  <2> QED BY <2>1, <2>2 DEF anew, BodyOf
<1>33. FromBody(anew) = Cat(body, trailer)
  <2>1. FromBody(anew) = Complete(Head2(newlength), anew)
    BY <1>31 DEF FromBody, Head2, Cat
  <2>2. Complete(Head2(newlength), anew)
          = Cat(Cat(Head2(newlength), anew),
                Field(Tag(CheckSum), <<CheckSumOf(Cat(Head2(newlength), anew))>>))
    BY DEF Complete, Cat
  <2> QED BY <1>30, <2>1, <2>2 DEF trailer, c
<1>34. AsBuiltAnew'
  BY <1>29, <1>32, <1>33 DEF AsBuiltAnew
<1>35. end' \in Nat
  BY <1>5, <1>25
<1> QED BY <1>2, <1>28, <1>34, <1>35 DEF IInv

LEMMA StepKeeps == IInv /\ [Next]_vars => IInv'
<1> SUFFICES ASSUME IInv, [Next]_vars PROVE IInv'
  OBVIOUS
<1>1. ASSUME NEW sender \in Senders, UseSession(sender) PROVE IInv'
  <2>1. Ranges'
    <3>1. sender \in Nat
      BY TemplateAssumption
    <3>2. session' = [session EXCEPT !.sender = sender]
      BY <1>1 DEF UseSession
    <3>3. session' \in [sender : Nat, seq : Nat]
      BY <3>1, <3>2 DEF IInv, Ranges
    <3> QED BY <1>1, <3>3 DEF IInv, Ranges, UseSession
  <2> QED BY <1>1, <2>1, CallKeeps DEF UseSession
<1>2. CASE NextNumber
  <2>1. Ranges'
    <3>1. session' = [session EXCEPT !.seq = @ + 1]
      BY <1>2 DEF NextNumber
    <3>2. session' \in [sender : Nat, seq : Nat]
      BY <3>1 DEF IInv, Ranges
    <3> QED BY <1>2, <3>2 DEF IInv, Ranges, NextNumber
  <2> QED BY <1>2, <2>1, CallKeeps DEF NextNumber
<1>3. ASSUME NEW texts \in Texts, SetFields(texts) PROVE IInv'
  <2>1. Ranges'
    BY <1>3, TemplateAssumption DEF IInv, Ranges, SetFields
  <2> QED BY <1>3, <2>1, CallKeeps DEF SetFields
<1>4. ASSUME NEW now \in Times, UpdateTime(now) PROVE IInv'
  BY <1>4, UpdateTimeKeeps
<1>5. CASE TemplateUnparse
  BY <1>5, UnparseKeeps
<1>6. CASE UNCHANGED vars
  BY <1>6 DEF vars, IInv, Ranges, LaidOut, Laid, MarkersIn, AsBuiltAnew, Message, FromFields
<1> QED BY <1>1, <1>2, <1>3, <1>4, <1>5, <1>6 DEF Next

\* What fix_template_unparse leaves in the buffer, writing at the markers and
\* summing by parts, is what fix_message_unparse would build from the fields,
\* whatever the template was used for before and however long the fields are.
THEOREM TemplateAsBuiltAnew == Spec => []AsBuiltAnew
<1>1. IInv => AsBuiltAnew
  BY DEF IInv
<1> QED BY <1>1, InitEstablishes, StepKeeps, PTL DEF Spec

\* A message built anew has the form that the parser reads.
LEMMA FromFieldsIs ==
  ASSUME Ranges
  PROVE  \E transact, len :
           Composed(FromFields, transact, len, session.seq, session.sender, time,
                    consts, fields)
<1> DEFINE transact == ~(markers.transact = 0)
           texts == TextFields(consts)
           more == TextFields(fields)
           seq == Val(session.seq)
           sender == Val(session.sender)
           now == Val(time)
           anew == BodyOf(transact, seq, sender, now, texts, more)
           len == Len(anew)
           h2 == Head2(Val(len))
           head == HeadOf(transact, Val(len), seq, sender, now)
           base == Cat(head, texts)
           body == Cat(base, more)
<1>1. /\ now \in Symbols /\ seq \in Symbols /\ sender \in Symbols /\ Zero \in Symbols
      /\ texts \in Seq(Symbols) /\ more \in Seq(Symbols)
  BY SymbolsOfState
<1>2. transact \in BOOLEAN
  OBVIOUS
<1> HIDE DEF transact, texts, more, seq, sender, now
<1>3. anew \in Seq(Symbols)
  BY <1>1, <1>2, BodyIs
<1>4. len \in Nat /\ Val(len) \in Symbols
  <2> HIDE DEF anew
  <2>1. len \in Nat
    BY <1>3
  <2> QED BY <2>1 DEF Symbols
<1> HIDE DEF len
<1>5. Cat(h2, anew) = body
  BY <1>1, <1>2, <1>4, BodyIs
<1>6. h2 \in Seq(Symbols) /\ Len(h2) = 8
  BY <1>1, <1>4, HeadTyped DEF Of
<1>7. head \in Seq(Symbols) /\ Len(head) \in Nat /\ Len(head) >= 28
  <2>1. head \in Of(Symbols, HeadSize(transact))
    BY <1>1, <1>2, <1>4, HeadOfTyped
  <2>2. HeadSize(transact) \in Nat /\ HeadSize(transact) >= 28
    BY DEF HeadSize
  <2> QED BY <2>1, <2>2 DEF Of
<1> HIDE DEF anew, h2, head
<1>8. Len(body) = 8 + len
  <2>1. Len(Cat(h2, anew)) = Len(h2) + Len(anew)
    BY <1>3, <1>6, CatIs
  <2> HIDE DEF body
  <2> QED BY <1>5, <1>6, <2>1 DEF len
<1>9. len # 0
  <2>1. base \in Seq(Symbols) /\ Len(base) = Len(head) + Len(texts)
    BY <1>1, <1>7, CatIs
  <2>2. Len(texts) \in Nat /\ Len(more) \in Nat
    BY <1>1
  <2> HIDE DEF base
  <2>3. Len(body) = Len(base) + Len(more)
    BY <1>1, <2>1, CatIs
  <2> HIDE DEF body
  <2> QED BY <1>4, <1>7, <1>8, <2>1, <2>2, <2>3
<1>10. FromFields = FromBody(anew)
  BY DEF FromFields, anew, BodyOf, transact, seq, sender, now, texts, more
<1>11. FromBody(anew) = Cat(body, Field(Tag(CheckSum), <<CheckSumOf(body)>>))
  <2>1. FromBody(anew) = Complete(h2, anew)
    BY DEF FromBody, Head2, Cat, h2, len
  <2>2. Complete(h2, anew)
          = Cat(Cat(h2, anew), Field(Tag(CheckSum), <<CheckSumOf(Cat(h2, anew))>>))
    BY DEF Complete, Cat
  <2> HIDE DEF body
  <2> QED BY <1>5, <2>1, <2>2
<1>12. body = BodyFor(transact, len, session.seq, session.sender, time, consts, fields)
  BY DEF BodyFor, head, base, texts, more, seq, sender, now
<1>13. /\ session.seq \in Nat /\ session.sender \in Nat /\ time \in Nat
       /\ consts \in Seq(Nat) /\ fields \in Seq(Nat)
  BY DEF Ranges
<1> HIDE DEF body
<1>14. Composed(FromFields, transact, len, session.seq, session.sender, time, consts, fields)
  BY <1>2, <1>4, <1>8, <1>9, <1>10, <1>11, <1>12, <1>13 DEF Composed
<1> QED BY <1>14

LEMMA ReadsBack == IInv => ReadBack
<1> SUFFICES ASSUME Ranges, AsBuiltAnew, end \in Nat, current
             PROVE  Parse(Message, Len(Message)) =
                      [got |-> TRUE, at |-> end + 1,
                       msg |-> [begin |-> <<Zero>>, seq |-> session.seq,
                                text |-> consts \o fields]]
  BY DEF IInv, ReadBack
<1>1. Message = FromFields
  BY DEF AsBuiltAnew
<1>2. Len(Message) = end
  BY DEF Message
<1>3. PICK transact, len :
        Composed(FromFields, transact, len, session.seq, session.sender, time, consts, fields)
  BY FromFieldsIs
<1>4. Composed(Message, transact, len, session.seq, session.sender, time, consts, fields)
  BY <1>1, <1>3
<1> HIDE DEF Message
<1>7. Parse(Message, Len(Message))
        = [got |-> TRUE, at |-> Len(Message) + 1,
           msg |-> [begin |-> <<Zero>>, seq |-> session.seq, text |-> consts \o fields]]
  BY <1>4, MessageParsed
<1> QED BY <1>2, <1>7

\* fix_message_parse, given what fix_template_unparse leaves, accepts it as one
\* message, to its last byte, and reads the number and all the texts in it,
\* whatever the template was used for before and however long the fields are.
THEOREM TemplateReadBack == Spec => []ReadBack
BY ReadsBack, InitEstablishes, StepKeeps, PTL DEF Spec
=============================================================================
