---------------------------- MODULE FixWire_proofs ----------------------------
(***************************************************************************)
(* Proofs about a FIX message on the wire and its parser, for all bytes,   *)
(* and the lemmas about sequences of bytes they rest on.                   *)
(*                                                                         *)
(* Induction is over sets of numbers: WFMin says that a set of naturals    *)
(* that is not empty has a least element.                                  *)
(***************************************************************************)
EXTENDS FixWire, SequencesExt, SequenceTheorems, WellFoundedInduction, TLAPS

(***************************************************************************)
(* Induction.                                                              *)
(***************************************************************************)
LEMMA LeastNumber ==
  ASSUME NEW S \in SUBSET Nat, S # {}
  PROVE  \E n \in S : \A m \in S : n <= m
<1> DEFINE R == OpToRel(<, Nat)
<1>1. IsWellFoundedOn(R, Nat)
  BY NatLessThanWellFounded
<1>2. \A a, b \in Nat : a < b => <<a, b>> \in R
  BY DEF OpToRel
<1> HIDE DEF R
<1>3. PICK n \in S : \A m \in S : <<m, n>> \notin R
  BY <1>1, WFMin
<1>4. \A m \in S : ~(m < n) /\ m \in Nat /\ n \in Nat
  BY <1>2, <1>3
<1> QED BY <1>3, <1>4

LEMMA SetInduction ==
  ASSUME NEW S, 0 \in S, \A n \in Nat : n \in S => n + 1 \in S
  PROVE  \A n \in Nat : n \in S
<1> SUFFICES ASSUME NEW k \in Nat \ S PROVE FALSE
  OBVIOUS
<1>1. PICK n \in Nat \ S : \A m \in Nat \ S : n <= m
  BY LeastNumber
<1>2. n # 0 /\ n - 1 \in Nat /\ ~(n <= n - 1) /\ (n - 1) + 1 = n
  BY <1>1
<1> QED BY <1>1, <1>2

\* From the end to the beginning, when each place follows from those behind.
LEMMA DownInduction ==
  ASSUME NEW S, NEW n \in Nat,
         \A i \in 1..n : (\A j \in (i + 1)..n : j \in S) => i \in S
  PROVE  \A i \in 1..n : i \in S
<1> DEFINE Bad == {i \in 1..n : i \notin S}
           B == {k \in Nat : k \in 0..n /\ n - k \in Bad}
<1> SUFFICES ASSUME NEW i \in Bad PROVE FALSE
  OBVIOUS
<1>1. n - i \in B
  <2>1. n - i \in Nat /\ n - i \in 0..n /\ n - (n - i) = i
    OBVIOUS
  <2> HIDE DEF Bad
  <2> QED BY <2>1
<1>2. PICK k \in B : \A m \in B : k <= m
  BY <1>1, LeastNumber
<1>3. k \in 0..n /\ n - k \in Bad
  BY <1>2
<1>4. ASSUME NEW j \in ((n - k) + 1)..n
      PROVE  j \in S
  <2> SUFFICES ASSUME j \notin S PROVE FALSE
    OBVIOUS
  <2>1. j \in Bad /\ n - j \in Nat /\ n - j \in 0..n /\ n - (n - j) = j
    BY <1>3
  <2>2. n - j \in B
    BY <2>1
  <2>3. ~(k <= n - j)
    BY <1>3
  <2> QED BY <1>2, <2>2, <2>3
<1> QED BY <1>3, <1>4

\* Min is what its name says.
LEMMA MinIs ==
  ASSUME NEW S \in SUBSET Nat, S # {}
  PROVE  Min(S) \in S /\ \A m \in S : Min(S) <= m
BY LeastNumber DEF Min

-----------------------------------------------------------------------------
(***************************************************************************)
(* The bytes of all messages: one message more puts its bytes behind.      *)
(***************************************************************************)
\* What the recursive function inside FlattenSeq has to be.
Flattens(f, q) ==
  f = [i \in 1..Len(q) |-> IF i = 1 THEN q[i] ELSE f[i - 1] \o q[i]]

LEMMA FlattensExists ==
  ASSUME NEW q, Len(q) \in Nat
  PROVE  \E f : Flattens(f, q)
<1> DEFINE Upto(f, n) ==
             f = [i \in 1..n |-> IF i = 1 THEN q[i] ELSE f[i - 1] \o q[i]]
           S == {n \in Nat : \E f : Upto(f, n)}
<1>1. 0 \in S
  <2>1. Upto([i \in 1..0 |-> IF i = 1 THEN q[i] ELSE q[i]], 0)
    OBVIOUS
  <2> QED BY <2>1
<1>2. ASSUME NEW n \in Nat, n \in S
      PROVE  n + 1 \in S
  <2>1. PICK f : Upto(f, n)
    BY <1>2
  <2> DEFINE g == [i \in 1..(n + 1) |->
                     IF i \in 1..n THEN f[i]
                     ELSE IF i = 1 THEN q[i] ELSE f[i - 1] \o q[i]]
             h == [i \in 1..(n + 1) |-> IF i = 1 THEN q[i] ELSE g[i - 1] \o q[i]]
  <2>2. \A i \in 1..n : f[i] = IF i = 1 THEN q[i] ELSE f[i - 1] \o q[i]
    BY <2>1
  <2>2a. ASSUME NEW i \in 1..(n + 1)
         PROVE  g[i] = h[i]
    <3>1. CASE i = 1
      BY <2>2, <3>1
    <3>2. CASE i # 1
      <4>1. i - 1 \in 1..n /\ i - 1 \in 1..(n + 1)
        BY <3>2
      <4>2. g[i - 1] = f[i - 1]
        BY <4>1
      <4>3. h[i] = f[i - 1] \o q[i]
        BY <3>2, <4>2
      <4>4. CASE i \in 1..n
        <5>1. g[i] = f[i]
          BY <4>4
        <5>2. f[i] = f[i - 1] \o q[i]
          BY <2>2, <3>2, <4>4
        <5> QED BY <4>3, <5>1, <5>2
      <4>5. CASE i \notin 1..n
        <5>1. g[i] = f[i - 1] \o q[i]
          BY <3>2, <4>5
        <5> QED BY <4>3, <5>1
      <4> QED BY <4>4, <4>5
    <3> QED BY <3>1, <3>2
  <2>2b. g = [i \in 1..(n + 1) |-> g[i]] /\ h = [i \in 1..(n + 1) |-> h[i]]
    OBVIOUS
  <2> HIDE DEF g, h
  <2>3. g = h
    BY <2>2a, <2>2b
  <2>4. Upto(g, n + 1)
    BY <2>3 DEF h
  <2> HIDE DEF Upto
  <2> QED BY <2>4
<1> HIDE DEF S
<1>3. Len(q) \in S
  BY <1>1, <1>2, SetInduction
<1> QED BY <1>3 DEF S, Flattens

LEMMA FlattenIs ==
  ASSUME NEW q, Len(q) \in Nat \ {0}
  PROVE  \E f : Flattens(f, q) /\ FlattenSeq(q) = f[Len(q)]
<1>1. PICK f : f = CHOOSE g : Flattens(g, q)
  OBVIOUS
<1>2. Flattens(f, q)
  BY <1>1, FlattensExists
<1>3. FlattenSeq(q) = f[Len(q)]
  BY <1>1 DEF FlattenSeq, Flattens
<1> QED BY <1>2, <1>3

\* It has one value only.
LEMMA FlattensOnce ==
  ASSUME NEW q, NEW r, NEW f, NEW g,
         Len(q) \in Nat \ {0}, Len(r) \in Nat, Len(q) <= Len(r),
         \A i \in 1..Len(q) : q[i] = r[i], Flattens(f, q), Flattens(g, r)
  PROVE  f[Len(q)] = g[Len(q)]
<1>1. \A i \in 1..Len(q) : f[i] = IF i = 1 THEN q[i] ELSE f[i - 1] \o q[i]
  BY DEF Flattens
<1>2. \A i \in 1..Len(r) : g[i] = IF i = 1 THEN r[i] ELSE g[i - 1] \o r[i]
  BY DEF Flattens
<1> DEFINE S == {n \in Nat : n \in 1..Len(q) => f[n] = g[n]}
<1>3. 0 \in S
  OBVIOUS
<1>4. ASSUME NEW n \in Nat, n \in S
      PROVE  n + 1 \in S
  <2> SUFFICES ASSUME n + 1 \in 1..Len(q) PROVE f[n + 1] = g[n + 1]
    OBVIOUS
  <2>1. /\ n + 1 \in 1..Len(q) /\ n + 1 \in 1..Len(r) /\ (n + 1) - 1 = n
        /\ q[n + 1] = r[n + 1]
    OBVIOUS
  <2>2. CASE n = 0
    <3>1. f[n + 1] = q[n + 1] /\ g[n + 1] = r[n + 1]
      BY <1>1, <1>2, <2>1, <2>2
    <3> QED BY <2>1, <3>1
  <2>3. CASE n # 0
    <3>1. n + 1 # 1 /\ f[n] = g[n]
      BY <1>4, <2>3
    <3>2. f[n + 1] = f[n] \o q[n + 1]
      BY <1>1, <2>1, <3>1
    <3>3. g[n + 1] = g[n] \o r[n + 1]
      BY <1>2, <2>1, <3>1
    <3> QED BY <2>1, <3>1, <3>2, <3>3
  <2> QED BY <2>2, <2>3
<1> HIDE DEF S
<1>5. Len(q) \in S
  BY <1>3, <1>4, SetInduction
<1> QED BY <1>5 DEF S

LEMMA FlattenTyped ==
  ASSUME NEW S, NEW q \in Seq(Seq(S))
  PROVE  FlattenSeq(q) \in Seq(S)
<1>1. CASE q = <<>>
  BY <1>1 DEF FlattenSeq
<1>2. CASE q # <<>>
  <2>1. Len(q) \in Nat \ {0} /\ \A i \in 1..Len(q) : q[i] \in Seq(S)
    BY <1>2
  <2>2. PICK f : Flattens(f, q) /\ FlattenSeq(q) = f[Len(q)]
    BY <2>1, FlattenIs
  <2>3. \A i \in 1..Len(q) : f[i] = IF i = 1 THEN q[i] ELSE f[i - 1] \o q[i]
    BY <2>2 DEF Flattens
  <2> DEFINE T == {n \in Nat : n \in 1..Len(q) => f[n] \in Seq(S)}
  <2>4. 0 \in T
    OBVIOUS
  <2>5. ASSUME NEW n \in Nat, n \in T
        PROVE  n + 1 \in T
    <3> SUFFICES ASSUME n + 1 \in 1..Len(q) PROVE f[n + 1] \in Seq(S)
      OBVIOUS
    <3>1. q[n + 1] \in Seq(S) /\ (n + 1) - 1 = n
      BY <2>1
    <3>2. CASE n = 0
      BY <2>3, <3>1, <3>2
    <3>3. CASE n # 0
      <4>1. n + 1 # 1 /\ f[n] \in Seq(S)
        BY <2>5, <3>3
      <4>2. f[n + 1] = f[n] \o q[n + 1]
        BY <2>3, <3>1, <4>1
      <4> QED BY <3>1, <4>1, <4>2
    <3> QED BY <3>2, <3>3
  <2> HIDE DEF T
  <2>6. Len(q) \in T
    BY <2>1, <2>4, <2>5, SetInduction
  <2> QED BY <2>1, <2>2, <2>6 DEF T
<1> QED BY <1>1, <1>2

LEMMA FlattenAppend ==
  ASSUME NEW S, NEW q \in Seq(Seq(S)), NEW x \in Seq(S)
  PROVE  FlattenSeq(Append(q, x)) = FlattenSeq(q) \o x
<1> DEFINE r == Append(q, x)
<1>1. r \in Seq(Seq(S)) /\ Len(r) = Len(q) + 1 /\ r[Len(r)] = x
      /\ Len(q) \in Nat /\ \A i \in 1..Len(q) : q[i] = r[i]
  OBVIOUS
<1> HIDE DEF r
<1>1a. Len(r) \in Nat \ {0}
  BY <1>1
<1>2. PICK g : Flattens(g, r) /\ FlattenSeq(r) = g[Len(r)]
  BY <1>1a, FlattenIs
<1>3. \A i \in 1..Len(r) : g[i] = IF i = 1 THEN r[i] ELSE g[i - 1] \o r[i]
  BY <1>2 DEF Flattens
<1>4. CASE q = <<>>
  <2>1. Len(r) = 1 /\ FlattenSeq(r) = r[1] /\ r[1] = x
    BY <1>1, <1>2, <1>3, <1>4
  <2>2. FlattenSeq(q) = <<>>
    BY <1>4 DEF FlattenSeq
  <2> QED BY <2>1, <2>2 DEF r
<1>5. CASE q # <<>>
  <2>1. Len(q) \in Nat \ {0} /\ Len(r) # 1 /\ Len(r) - 1 = Len(q)
        /\ Len(r) \in 1..Len(r)
    BY <1>1, <1>5
  <2>2. PICK f : Flattens(f, q) /\ FlattenSeq(q) = f[Len(q)]
    BY <2>1, FlattenIs
  <2>3. f[Len(q)] = g[Len(q)]
    <3>1. Len(q) <= Len(r) /\ Len(r) \in Nat /\ \A i \in 1..Len(q) : q[i] = r[i]
      BY <1>1
    <3>2. Flattens(f, q) /\ Flattens(g, r)
      BY <1>2, <2>2
    <3> QED BY <2>1, <3>1, <3>2, FlattensOnce
  <2>4. g[Len(r)] = g[Len(q)] \o x
    BY <1>1, <1>3, <2>1
  <2> QED BY <1>2, <2>2, <2>3, <2>4 DEF r
<1> QED BY <1>4, <1>5

-----------------------------------------------------------------------------
(***************************************************************************)
(* The end of a sequence of bytes.                                         *)
(***************************************************************************)
LEMMA SuffixIs ==
  ASSUME NEW S, NEW p \in Seq(S), NEW s \in Seq(S)
  PROVE  IsSuffix(s, p \o s)
<1> DEFINE t == p \o s
           rs == Reverse(s)
           rt == Reverse(t)
<1>1. t \in Seq(S) /\ Len(t) = Len(p) + Len(s)
      /\ Len(p) \in Nat /\ Len(s) \in Nat
      /\ \A i \in 1..Len(s) : t[Len(p) + i] = s[i]
  OBVIOUS
<1> HIDE DEF t
<1>2. rs \in Seq(S) /\ Len(rs) = Len(s)
      /\ \A i \in 1..Len(s) : rs[i] = s[(Len(s) - i) + 1]
  BY <1>1 DEF Reverse
<1>3. rt \in Seq(S) /\ Len(rt) = Len(t)
      /\ \A i \in 1..Len(t) : rt[i] = t[(Len(t) - i) + 1]
  BY <1>1 DEF Reverse
<1>4. \A i \in 1..Len(s) : rs[i] = rt[i]
  <2> TAKE i \in 1..Len(s)
  <2>1. (Len(s) - i) + 1 \in 1..Len(s) /\ i \in 1..Len(t)
        /\ (Len(t) - i) + 1 = Len(p) + ((Len(s) - i) + 1)
    BY <1>1
  <2>2. rs[i] = s[(Len(s) - i) + 1]
    BY <1>2
  <2>3. rt[i] = t[Len(p) + ((Len(s) - i) + 1)]
    BY <1>3, <2>1
  <2> QED BY <1>1, <2>1, <2>2, <2>3
<1> HIDE DEF rs, rt
<1>5. SubSeq(rs, 1, Len(rs)) = SubSeq(rt, 1, Len(rs))
  <2> DEFINE a == SubSeq(rs, 1, Len(rs))
             b == SubSeq(rt, 1, Len(rs))
  <2>1. a = [i \in 1..Len(s) |-> rs[i]] /\ b = [i \in 1..Len(s) |-> rt[i]]
    BY <1>1, <1>2, <1>3
  <2> HIDE DEF a, b
  <2>2. a = b
    BY <1>4, <2>1
  <2> QED BY <2>2 DEF a, b
<1>6. IsPrefix(rs, rt)
  BY <1>1, <1>2, <1>3, <1>5 DEF IsPrefix
<1> QED BY <1>6 DEF IsSuffix, rs, rt, t

LEMMA Joined ==
  ASSUME NEW S, NEW a \in Seq(S), NEW b \in Seq(S), NEW c \in Seq(S)
  PROVE  /\ a \o b \in Seq(S)
         /\ (a \o b) \o c = a \o (b \o c)
<1>1. a \o b \in Seq(S) /\ b \o c \in Seq(S)
  OBVIOUS
<1> QED BY <1>1, ConcatAssociative

\* The same under a name, which the provers need not look into.
Cat(a, b) == a \o b

LEMMA CatIs ==
  ASSUME NEW S, NEW a \in Seq(S), NEW b \in Seq(S)
  PROVE  Cat(a, b) \in Seq(S) /\ Len(Cat(a, b)) = Len(a) + Len(b)
BY DEF Cat

LEMMA CatAssociates ==
  ASSUME NEW S, NEW a \in Seq(S), NEW b \in Seq(S), NEW c \in Seq(S)
  PROVE  Cat(Cat(a, b), c) = Cat(a, Cat(b, c))
BY Joined DEF Cat

\* What is behind a place, and what is before it.
LEMMA Divided ==
  ASSUME NEW S, NEW u \in Seq(S), NEW n \in 0..Len(u)
  PROVE  /\ SubSeq(u, 1, n) \in Seq(S) /\ Len(SubSeq(u, 1, n)) = n
         /\ SubSeq(u, n + 1, Len(u)) \in Seq(S) /\ Len(SubSeq(u, n + 1, Len(u))) = Len(u) - n
         /\ Cat(SubSeq(u, 1, n), SubSeq(u, n + 1, Len(u))) = u
<1> DEFINE a == SubSeq(u, 1, n)
           b == SubSeq(u, n + 1, Len(u))
           v == Cat(a, b)
<1>1. a \in Seq(S) /\ Len(a) = n /\ \A i \in 1..n : a[i] = u[i]
  OBVIOUS
<1>2. b \in Seq(S) /\ Len(b) = Len(u) - n
      /\ \A i \in 1..(Len(u) - n) : b[i] = u[n + i]
  OBVIOUS
<1> HIDE DEF a, b
<1>3. v \in Seq(S) /\ Len(v) = Len(u)
  <2>1. v \in Seq(S) /\ Len(v) = Len(a) + Len(b)
    BY <1>1, <1>2, CatIs
  <2> HIDE DEF v
  <2> QED BY <1>1, <1>2, <2>1
<1>4. ASSUME NEW i \in 1..Len(u) PROVE v[i] = u[i]
  <2>1. CASE i <= n
    BY <1>1, <1>2, <2>1 DEF Cat
  <2>2. CASE i > n
    <3>1. i - n \in 1..(Len(u) - n) /\ n + (i - n) = i
      BY <2>2
    <3>2. v[i] = b[i - n]
      BY <1>1, <1>2, <2>2 DEF Cat
    <3>3. b[i - n] = u[n + (i - n)]
      BY <1>2, <3>1
    <3> QED BY <3>1, <3>2, <3>3
  <2> HIDE DEF v
  <2> QED BY <2>1, <2>2
<1> HIDE DEF v
<1>5. v = u
  BY <1>3, <1>4, SeqEqual
<1> QED BY <1>1, <1>2, <1>5 DEF a, b, v

-----------------------------------------------------------------------------
(***************************************************************************)
(* The parser never goes back, and never beyond the bytes it was given.    *)
(***************************************************************************)
\* A field that was read, or passed over, ends behind the place it began.
Behind(u, i) == (i + 1)..(Len(u) + 1)
Moved(u, i, f) ==
  f.st = "partial" \/ (f.st \in {"garbled", "ok"} /\ f.at \in Behind(u, i))

LEMMA FindWithin ==
  ASSUME NEW u, Len(u) \in Nat, NEW i \in 1..(Len(u) + 1), NEW c
  PROVE  Find(u, i, c) \in i..(Len(u) + 1)
<1> DEFINE found == {j \in i..Len(u) : u[j] = c}
<1>1. CASE found = {}
  BY <1>1 DEF Find
<1>2. CASE found # {}
  <2>1. found \in SUBSET Nat
    OBVIOUS
  <2>2. Min(found) \in found
    BY <1>2, <2>1, MinIs
  <2>3. Find(u, i, c) = Min(found)
    BY <1>2 DEF Find
  <2> QED BY <2>2, <2>3
<1> QED BY <1>1, <1>2

LEMMA NextTagBehind ==
  ASSUME NEW u, Len(u) \in Nat, NEW i \in 1..Len(u)
  PROVE  NextTag(u, i) \in Behind(u, i)
<1>1. Find(u, i, Soh) \in i..(Len(u) + 1)
  BY FindWithin
<1> QED BY <1>1 DEF NextTag, AtEnd, Behind

LEMMA ParseFieldMoves ==
  ASSUME NEW u, Len(u) \in Nat, NEW i \in 1..(Len(u) + 1)
  PROVE  /\ Moved(u, i, ParseField(u, i))
         /\ Find(u, i, Eq) > Len(u) => ParseField(u, i) = Partial
<1> DEFINE eq == Find(u, i, Eq)
           soh == Find(u, eq, Soh)
<1>1. eq \in i..(Len(u) + 1)
  BY FindWithin
<1>2. soh \in eq..(Len(u) + 1)
  BY <1>1, FindWithin
<1>3. eq <= Len(u) => NextTag(u, eq) \in Behind(u, i)
  BY <1>1, NextTagBehind DEF Behind
<1>4. ParseField(u, i) = FieldAt(u, i, eq, soh)
  BY DEF ParseField, UpTo
<1> HIDE DEF eq, soh
<1>5. CASE eq > Len(u)
  <2>1. ParseField(u, i) = Partial
    BY <1>4, <1>5 DEF FieldAt, AtEnd
  <2> QED BY <2>1 DEF Moved, Partial
<1>6. CASE eq <= Len(u) /\ ~IsTag(u, i, eq)
  <2>1. ParseField(u, i) = Garbled(NextTag(u, eq))
    BY <1>1, <1>4, <1>6 DEF FieldAt, AtEnd
  <2> QED BY <1>1, <1>3, <1>6, <2>1 DEF Moved, Garbled, eq
<1>7. CASE eq <= Len(u) /\ IsTag(u, i, eq) /\ soh > Len(u)
  <2>1. ParseField(u, i) = [st |-> "partial", tag |-> u[i].tag]
    BY <1>1, <1>4, <1>7 DEF FieldAt, AtEnd
  <2> QED BY <1>1, <1>7, <2>1 DEF Moved, eq
<1>8. CASE eq <= Len(u) /\ IsTag(u, i, eq) /\ soh <= Len(u)
  <2>1. ParseField(u, i) = [st |-> "ok", at |-> soh + 1, tag |-> u[i].tag,
                            value |-> SubSeq(u, eq + 1, soh - 1)]
    BY <1>1, <1>2, <1>4, <1>8 DEF FieldAt, AtEnd
  <2>2. soh + 1 \in Behind(u, i)
    BY <1>1, <1>2, <1>8 DEF Behind
  <2> QED BY <1>1, <1>8, <2>1, <2>2 DEF Moved, eq
<1> QED BY <1>1, <1>2, <1>5, <1>6, <1>7, <1>8

LEMMA MatchFieldMoves ==
  ASSUME NEW u, Len(u) \in Nat, NEW i \in 1..(Len(u) + 1), NEW tag
  PROVE  Moved(u, i, MatchField(u, i, tag))
<1> DEFINE eq == Find(u, i, Eq)
           f == ParseField(u, i)
<1>1. eq \in i..(Len(u) + 1)
  BY FindWithin
<1>2. Moved(u, i, f) /\ (eq > Len(u) => f = Partial)
  BY ParseFieldMoves
<1>3. MatchField(u, i, tag)
        = IF "tag" \in DOMAIN f /\ f.tag # tag THEN Garbled(NextTag(u, eq)) ELSE f
  BY DEF MatchField, Expect
<1> HIDE DEF eq, f
<1>4. CASE "tag" \in DOMAIN f /\ f.tag # tag
  <2>1. eq \in 1..Len(u)
    BY <1>1, <1>2, <1>4 DEF Partial
  <2>2. NextTag(u, eq) \in Behind(u, i)
    BY <1>1, <2>1, NextTagBehind DEF Behind
  <2> QED BY <1>3, <1>4, <2>2 DEF Moved, Garbled
<1>5. CASE ~("tag" \in DOMAIN f /\ f.tag # tag)
  BY <1>2, <1>3, <1>5
<1> QED BY <1>4, <1>5

\* What the recursive function of rest_of_message has to be, from a place on.
RestFrom(u, k, g) ==
  g = [i \in k..(Len(u) + 1) |-> RestAfter(u, ParseField(u, i), g)]

LEMMA RestExists ==
  ASSUME NEW u, Len(u) \in Nat
  PROVE  \E g : RestFrom(u, 1, g)
<1> DEFINE n == Len(u) + 1
           S == {i \in 1..n : \E g : RestFrom(u, i, g)}
<1>0. n \in Nat /\ 1 \in 1..n
  OBVIOUS
<1>1. ASSUME NEW i \in 1..n, \A j \in (i + 1)..n : j \in S
      PROVE  i \in S
  <2>1. PICK h : i < n => RestFrom(u, i + 1, h)
    <3>1. CASE i < n
      <4>1. i + 1 \in S
        BY <1>1, <3>1
      <4> QED BY <4>1
    <3>2. CASE ~(i < n)
      BY <3>2
    <3> QED BY <3>1, <3>2
  <2> DEFINE Step(g, j) == RestAfter(u, ParseField(u, j), g)
             g == [j \in i..n |-> IF j = i THEN Step(h, i) ELSE h[j]]
  <2>1a. /\ g = [j \in i..n |-> g[j]]
         /\ \A j \in i..n : g[j] = IF j = i THEN Step(h, i) ELSE h[j]
    OBVIOUS
  <2> HIDE DEF g
  <2>2. ASSUME NEW j \in i..n
        PROVE  g[j] = Step(g, j)
    <3>1. Moved(u, j, ParseField(u, j))
      BY ParseFieldMoves
    <3>2. ASSUME NEW k \in (i + 1)..n
          PROVE  g[k] = h[k]
      BY <2>1a, <3>2
    <3>3. Step(g, j) = Step(h, j)
      <4>1. CASE ParseField(u, j).st = "ok"
        <5>1. ParseField(u, j).at \in (i + 1)..n
          BY <3>1, <4>1 DEF Moved, Behind
        <5> QED BY <3>2, <4>1, <5>1 DEF RestAfter
      <4>2. CASE ParseField(u, j).st # "ok"
        BY <3>1, <4>2 DEF Moved, RestAfter
      <4> QED BY <4>1, <4>2
    <3>4. g[j] = Step(h, j)
      <4>1. CASE j = i
        BY <2>1a, <4>1
      <4>2. CASE j # i
        <5>1. j \in (i + 1)..n /\ i < n
          BY <4>2
        <5>2. h[j] = Step(h, j)
          BY <2>1, <5>1 DEF RestFrom
        <5> QED BY <3>2, <5>1, <5>2
      <4> QED BY <4>1, <4>2
    <3> QED BY <3>3, <3>4
  <2>3. g = [j \in i..n |-> Step(g, j)]
    BY <2>1a, <2>2
  <2>4. RestFrom(u, i, g)
    BY <2>3 DEF RestFrom
  <2> QED BY <2>4
<1> HIDE DEF S, n
<1>2. 1 \in S
  BY <1>0, <1>1, DownInduction
<1> QED BY <1>2 DEF S

LEMMA RestWithin ==
  ASSUME NEW u, Len(u) \in Nat, NEW i \in 1..(Len(u) + 1)
  PROVE  RestOfMessage(u, i).at \in i..(Len(u) + 1)
<1> DEFINE n == Len(u) + 1
<1>0. n \in Nat /\ i \in 1..n
  OBVIOUS
<1>1. PICK g : g = CHOOSE h : RestFrom(u, 1, h)
  OBVIOUS
<1>2. RestFrom(u, 1, g)
  BY <1>1, RestExists
<1>3. RestOfMessage(u, i) = g[i]
  BY <1>1 DEF RestOfMessage, RestFrom
<1> DEFINE S == {j \in 1..n : "at" \in DOMAIN g[j] /\ g[j].at \in j..n}
<1>4. ASSUME NEW j \in 1..n, \A k \in (j + 1)..n : k \in S
      PROVE  j \in S
  <2> DEFINE f == ParseField(u, j)
  <2>1. Moved(u, j, f)
    BY ParseFieldMoves
  <2>2. g[j] = RestAfter(u, f, g)
    BY <1>2 DEF RestFrom
  <2> HIDE DEF f
  <2>3. CASE f.st = "partial"
    BY <2>2, <2>3 DEF Ends, RestAfter
  <2>4. CASE f.st = "garbled"
    BY <2>1, <2>2, <2>4 DEF Ends, RestAfter, Moved, Behind
  <2>5. CASE f.st = "ok" /\ f.tag = CheckSum
    BY <2>1, <2>2, <2>5 DEF Ends, RestAfter, Moved, Behind
  <2>6. CASE f.st = "ok" /\ f.tag # CheckSum
    <3>1. f.at \in (j + 1)..n
      BY <2>1, <2>6 DEF Moved, Behind
    <3>2. "at" \in DOMAIN g[f.at] /\ g[f.at].at \in f.at..n
      BY <1>4, <3>1
    <3>3. g[j] = With(f, g[f.at])
      BY <2>2, <2>6 DEF RestAfter
    <3>4. "at" \in DOMAIN g[j] /\ g[j].at = g[f.at].at
      BY <3>2, <3>3 DEF With
    <3> QED BY <3>1, <3>2, <3>4
  <2> QED BY <2>1, <2>3, <2>4, <2>5, <2>6 DEF Moved
<1> HIDE DEF S, n
<1>5. i \in S
  BY <1>0, <1>4, DownInduction
<1> QED BY <1>3, <1>5 DEF S, n

LEMMA MovedFurther ==
  ASSUME NEW u, Len(u) \in Nat, NEW i \in 1..(Len(u) + 1), NEW j \in i..(Len(u) + 1),
         NEW f, Moved(u, j, f)
  PROVE  Moved(u, i, f)
BY DEF Moved, Behind

\* A check of the value does not change where the field ends.
LEMMA ParseBodyLengthMoves ==
  ASSUME NEW u, Len(u) \in Nat, NEW i \in 1..(Len(u) + 1), NEW max
  PROVE  LET l == ParseBodyLength(u, i, max)
         IN  Moved(u, i, l) /\ (l.st = "ok" => Number(l.value) \in 1..max)
<1> DEFINE f == MatchField(u, i, BodyLength)
<1>1. Moved(u, i, f)
  BY MatchFieldMoves
<1>2. ParseBodyLength(u, i, max)
        = IF f.st = "ok" /\ ~(Number(f.value) \in 1..max) THEN Garbled(f.at) ELSE f
  BY DEF ParseBodyLength, Check
<1> HIDE DEF f
<1>3. CASE f.st = "ok" /\ ~(Number(f.value) \in 1..max)
  BY <1>1, <1>2, <1>3 DEF Moved, Garbled
<1>4. CASE ~(f.st = "ok" /\ ~(Number(f.value) \in 1..max))
  BY <1>1, <1>2, <1>4
<1> QED BY <1>3, <1>4

LEMMA ParseMsgTypeMoves ==
  ASSUME NEW u, Len(u) \in Nat, NEW i \in 1..(Len(u) + 1)
  PROVE  Moved(u, i, ParseMsgType(u, i))
<1> DEFINE f == MatchField(u, i, MsgType)
<1>1. Moved(u, i, f)
  BY MatchFieldMoves
<1>2. ParseMsgType(u, i)
        = IF f.st = "ok" /\ ~(f.value = <<Known>>) THEN Garbled(f.at) ELSE f
  BY DEF ParseMsgType, Check
<1> HIDE DEF f
<1> QED BY <1>1, <1>2 DEF Moved, Garbled

\* The checksum is looked for behind the message it is of.
LEMMA VerifyCheckSumMoves ==
  ASSUME NEW u, Len(u) \in Nat, NEW i,
         NEW type \in 1..(Len(u) + 1), NEW len \in Nat
  PROVE  LET c == VerifyCheckSum(u, i, type, len)
         IN  Moved(u, type, c)
<1>1. CASE Enough(u, type, len)
  <2> DEFINE f == MatchField(u, type + len, CheckSum)
             sum == <<CheckSumOf(SubSeq(u, i, type + len - 1))>>
  <2>1. type + len \in type..(Len(u) + 1) /\ type + len \in 1..(Len(u) + 1)
    BY <1>1 DEF Enough, CheckSumSize
  <2>2. Moved(u, type + len, f)
    BY <2>1, MatchFieldMoves
  <2>3. Moved(u, type, f)
    BY <2>1, <2>2, MovedFurther
  <2>4. VerifyCheckSum(u, i, type, len)
          = IF f.st = "ok" /\ ~(f.value = sum) THEN Garbled(f.at) ELSE f
    BY <1>1 DEF VerifyCheckSum, Check
  <2> HIDE DEF f, sum
  <2> QED BY <2>3, <2>4 DEF Moved, Garbled
<1>2. CASE ~Enough(u, type, len)
  BY <1>2 DEF VerifyCheckSum, Moved, Partial
<1> QED BY <1>1, <1>2

\* A round of fix_message_parse goes on, unless it waits for the rest.
LEMMA FrameMoves ==
  ASSUME NEW u, Len(u) \in Nat, NEW i \in 1..(Len(u) + 1), NEW max \in Nat
  PROVE  Moved(u, i, Frame(u, i, max))
<1> DEFINE b == MatchField(u, i, BeginString)
           l == ParseBodyLength(u, b.at, max)
           t == ParseMsgType(u, l.at)
           c == VerifyCheckSum(u, i, l.at, Number(l.value))
           r == RestOfMessage(u, t.at)
<1>1. Moved(u, i, b)
  BY MatchFieldMoves
<1>2. ASSUME b.st = "ok"
      PROVE  Moved(u, i, l) /\ (l.st = "ok" => Number(l.value) \in 1..max)
  <2>1. b.at \in i..(Len(u) + 1) /\ b.at \in 1..(Len(u) + 1)
    BY <1>1, <1>2 DEF Moved, Behind
  <2>2. Moved(u, b.at, l) /\ (l.st = "ok" => Number(l.value) \in 1..max)
    BY <2>1, ParseBodyLengthMoves
  <2> HIDE DEF b, l
  <2> QED BY <2>1, <2>2, MovedFurther
<1>3. ASSUME b.st = "ok", l.st = "ok"
      PROVE  Moved(u, i, t) /\ Moved(u, i, c)
  <2>1. /\ l.at \in i..(Len(u) + 1) /\ l.at \in 1..(Len(u) + 1)
        /\ Number(l.value) \in Nat
    BY <1>2, <1>3 DEF Moved, Behind
  <2>2. Moved(u, l.at, t)
    BY <2>1, ParseMsgTypeMoves
  <2>3. Moved(u, l.at, c)
    BY <2>1, VerifyCheckSumMoves
  <2> HIDE DEF b, l, t, c
  <2> QED BY <2>1, <2>2, <2>3, MovedFurther
<1>4. ASSUME b.st = "ok", l.st = "ok", t.st = "ok"
      PROVE  r.at \in Behind(u, i)
  <2>1. t.at \in Behind(u, i) /\ t.at \in 1..(Len(u) + 1)
    BY <1>3, <1>4 DEF Moved, Behind
  <2>2. r.at \in t.at..(Len(u) + 1)
    BY <2>1, RestWithin
  <2> HIDE DEF b, l, t, r
  <2> QED BY <2>1, <2>2 DEF Behind
<1> HIDE DEF l, t, c, r
<1>5. Frame(u, i, max) = Begun(u, i, max, b)
  BY DEF Frame
<1>6. Begun(u, i, max, b) = IF b.st = "ok" THEN Sized(u, i, b, l) ELSE b
  BY DEF Begun, l
<1>7. Sized(u, i, b, l)
        = IF l.st = "ok" THEN Typed(u, i, b, l, t) ELSE l
  BY DEF Sized, t
<1>8. Typed(u, i, b, l, t) = IF t.st = "ok" THEN Checked(u, b, t, c) ELSE t
  BY DEF Typed, c
<1>9. Checked(u, b, t, c) = IF c.st = "ok" THEN Whole(b, r) ELSE c
  BY DEF Checked, r
<1>10. ASSUME b.st = "ok", l.st = "ok", t.st = "ok", c.st = "ok"
       PROVE  Moved(u, i, Whole(b, r))
  BY <1>4, <1>10 DEF Moved, Whole
<1> HIDE DEF b
<1>11. CASE b.st # "ok"
  BY <1>1, <1>5, <1>6, <1>11
<1>12. CASE b.st = "ok" /\ l.st # "ok"
  BY <1>2, <1>5, <1>6, <1>7, <1>12
<1>13. CASE b.st = "ok" /\ l.st = "ok" /\ t.st # "ok"
  BY <1>3, <1>5, <1>6, <1>7, <1>8, <1>13
<1>14. CASE b.st = "ok" /\ l.st = "ok" /\ t.st = "ok" /\ c.st # "ok"
  BY <1>3, <1>5, <1>6, <1>7, <1>8, <1>9, <1>14
<1>15. CASE b.st = "ok" /\ l.st = "ok" /\ t.st = "ok" /\ c.st = "ok"
  BY <1>5, <1>6, <1>7, <1>8, <1>9, <1>10, <1>15
<1> QED BY <1>11, <1>12, <1>13, <1>14, <1>15

\* What the recursive function of fix_message_parse has to be, from a place on.
TryFrom(u, max, k, g) ==
  g = [i \in k..(Len(u) + 1) |-> ParseAfter(u, i, Frame(u, i, max), g)]

LEMMA TryExists ==
  ASSUME NEW u, Len(u) \in Nat, NEW max \in Nat
  PROVE  \E g : TryFrom(u, max, 1, g)
<1> DEFINE n == Len(u) + 1
           S == {i \in 1..n : \E g : TryFrom(u, max, i, g)}
<1>0. n \in Nat /\ 1 \in 1..n
  OBVIOUS
<1>1. ASSUME NEW i \in 1..n, \A j \in (i + 1)..n : j \in S
      PROVE  i \in S
  <2>1. PICK h : i < n => TryFrom(u, max, i + 1, h)
    <3>1. CASE i < n
      <4>1. i + 1 \in S
        BY <1>1, <3>1
      <4> QED BY <4>1
    <3>2. CASE ~(i < n)
      BY <3>2
    <3> QED BY <3>1, <3>2
  <2> DEFINE Step(g, j) == ParseAfter(u, j, Frame(u, j, max), g)
             g == [j \in i..n |-> IF j = i THEN Step(h, i) ELSE h[j]]
  <2>1a. /\ g = [j \in i..n |-> g[j]]
         /\ \A j \in i..n : g[j] = IF j = i THEN Step(h, i) ELSE h[j]
    OBVIOUS
  <2> HIDE DEF g
  <2>2. ASSUME NEW j \in i..n
        PROVE  g[j] = Step(g, j)
    <3>1. Moved(u, j, Frame(u, j, max))
      BY FrameMoves
    <3>2. ASSUME NEW k \in (i + 1)..n
          PROVE  g[k] = h[k]
      BY <2>1a, <3>2
    <3>3. Step(g, j) = Step(h, j)
      <4>1. CASE Frame(u, j, max).st = "garbled"
        <5>1. Frame(u, j, max).at \in (i + 1)..n
          BY <3>1, <4>1 DEF Moved, Behind
        <5> QED BY <3>2, <4>1, <5>1 DEF ParseAfter
      <4>2. CASE Frame(u, j, max).st # "garbled"
        BY <3>1, <4>2 DEF Moved, ParseAfter
      <4> QED BY <4>1, <4>2
    <3>4. g[j] = Step(h, j)
      <4>1. CASE j = i
        BY <2>1a, <4>1
      <4>2. CASE j # i
        <5>1. j \in (i + 1)..n /\ i < n
          BY <4>2
        <5>2. h[j] = Step(h, j)
          BY <2>1, <5>1 DEF TryFrom
        <5> QED BY <3>2, <5>1, <5>2
      <4> QED BY <4>1, <4>2
    <3> QED BY <3>3, <3>4
  <2>3. g = [j \in i..n |-> Step(g, j)]
    BY <2>1a, <2>2
  <2>4. TryFrom(u, max, i, g)
    BY <2>3 DEF TryFrom
  <2> QED BY <2>4
<1> HIDE DEF S, n
<1>2. 1 \in S
  BY <1>0, <1>1, DownInduction
<1> QED BY <1>2 DEF S

LEMMA ParseWithin ==
  ASSUME NEW u, Len(u) \in Nat, NEW max \in Nat
  PROVE  /\ Parse(u, max).got \in BOOLEAN
         /\ Parse(u, max).at \in 1..(Len(u) + 1)
<1> DEFINE n == Len(u) + 1
<1>0. n \in Nat /\ 1 \in 1..n
  OBVIOUS
<1>1. PICK g : g = CHOOSE h : TryFrom(u, max, 1, h)
  OBVIOUS
<1>2. TryFrom(u, max, 1, g)
  BY <1>1, TryExists
<1>3. Parse(u, max) = g[1]
  BY <1>1 DEF Parse, TryFrom
<1> DEFINE S == {j \in 1..n : g[j].got \in BOOLEAN /\ g[j].at \in j..n}
<1>4. ASSUME NEW j \in 1..n, \A k \in (j + 1)..n : k \in S
      PROVE  j \in S
  <2> DEFINE f == Frame(u, j, max)
  <2>1. Moved(u, j, f)
    BY FrameMoves
  <2>2. g[j] = ParseAfter(u, j, f, g)
    BY <1>2 DEF TryFrom
  <2> HIDE DEF f
  <2>3. AtEnd(u, j) => f.st = "partial"
    BY <2>1 DEF AtEnd, Moved, Behind
  <2>4. CASE f.st = "partial"
    <3>1. g[j] = [got |-> FALSE, at |-> j]
      BY <2>2, <2>4 DEF ParseAfter
    <3>2. g[j].got \in BOOLEAN /\ g[j].at \in j..n
      BY <3>1
    <3> QED BY <3>2
  <2>5. CASE f.st = "garbled"
    <3>1. f.at \in (j + 1)..n
      BY <2>1, <2>5 DEF Moved, Behind
    <3>2. g[f.at].got \in BOOLEAN /\ g[f.at].at \in f.at..n
      BY <1>4, <3>1
    <3>3. g[j] = g[f.at]
      BY <2>2, <2>3, <2>5 DEF ParseAfter
    <3> QED BY <3>1, <3>2, <3>3
  <2>6. CASE f.st = "ok"
    <3>1. f.at \in (j + 1)..n
      BY <2>1, <2>6 DEF Moved, Behind
    <3>2. g[j] = [got |-> TRUE, at |-> f.at, msg |-> f.msg]
      BY <2>2, <2>3, <2>6 DEF ParseAfter
    <3>3. g[j].got \in BOOLEAN /\ g[j].at \in j..n
      BY <3>1, <3>2
    <3> QED BY <3>3
  <2> QED BY <2>1, <2>4, <2>5, <2>6 DEF Moved
<1> HIDE DEF S, n
<1>5. 1 \in S
  BY <1>0, <1>4, DownInduction
<1> QED BY <1>3, <1>5 DEF S, n

-----------------------------------------------------------------------------
(***************************************************************************)
(* A message is bytes, whatever is wrong with it.                          *)
(***************************************************************************)
LEMMA FieldIsBytes ==
  ASSUME NEW S, NEW tag \in S, NEW value \in Seq(S), Eq \in S, Soh \in S
  PROVE  Field(tag, value) \in Seq(S)
<1>1. <<tag, Eq>> \in Seq(S) /\ <<Soh>> \in Seq(S)
  OBVIOUS
<1> QED BY <1>1 DEF Field

LEMMA UnparseIsBytes ==
  ASSUME NEW begin, NEW type, NEW seq, NEW tag, NEW text \in Nat, NEW extra
  PROVE  \E S : Unparse(begin, type, seq, tag, text, extra) \in Seq(S)
<1> DEFINE A == {Eq, Soh, Tag(MsgType), Tag(MsgSeqNum), Tag(BeginString),
                 Tag(BodyLength), Tag(CheckSum), begin, type, tag, Val(seq), Val(0)}
           body == Field(Tag(MsgType), <<type>>)
                     \o Field(Tag(MsgSeqNum), <<Val(seq)>>)
                     \o Field(tag, [i \in 1..text |-> Val(0)])
           S == A \cup {Val(Len(body) + extra)}
           head == Field(Tag(BeginString), <<begin>>)
                     \o Field(Tag(BodyLength), <<Val(Len(body) + extra)>>)
           T == S \cup {CheckSumOf(head \o body)}
           raw == head \o body \o Field(Tag(CheckSum), <<CheckSumOf(head \o body)>>)
<1>1. /\ Eq \in T /\ Soh \in T /\ begin \in T /\ type \in T /\ tag \in T
      /\ Val(seq) \in T /\ Val(0) \in T /\ Val(Len(body) + extra) \in T
      /\ CheckSumOf(head \o body) \in T
      /\ Tag(MsgType) \in T /\ Tag(MsgSeqNum) \in T /\ Tag(BeginString) \in T
      /\ Tag(BodyLength) \in T /\ Tag(CheckSum) \in T
  OBVIOUS
<1> HIDE DEF T
<1>2. /\ <<type>> \in Seq(T) /\ <<Val(seq)>> \in Seq(T) /\ <<begin>> \in Seq(T)
      /\ <<Val(Len(body) + extra)>> \in Seq(T)
      /\ <<CheckSumOf(head \o body)>> \in Seq(T)
      /\ [i \in 1..text |-> Val(0)] \in Seq(T)
  BY <1>1
<1>3. body \in Seq(T)
  BY <1>1, <1>2, FieldIsBytes, Joined
<1>4. head \in Seq(T)
  BY <1>1, <1>2, FieldIsBytes, Joined
<1>5. raw \in Seq(T)
  BY <1>1, <1>2, <1>3, <1>4, FieldIsBytes, Joined
<1>6. Unparse(begin, type, seq, tag, text, extra) = raw
  BY DEF Unparse
<1> QED BY <1>5, <1>6

LEMMA CutIsBytes ==
  ASSUME NEW S, NEW s \in Seq(S), NEW k \in Nat
  PROVE  \E T : SubSeq(s, 1, k) \in Seq(T)
<1> DEFINE T == {s[i] : i \in Nat}
<1>1. SubSeq(s, 1, k) = [i \in 1..k |-> s[i]]
  OBVIOUS
<1>2. SubSeq(s, 1, k) \in Seq(T)
  BY <1>1
<1> QED BY <1>2

-----------------------------------------------------------------------------
(***************************************************************************)
(* What the parser reads.  x stands in u behind the first p symbols.       *)
(***************************************************************************)
Symbols == {Eq, Soh} \cup {Tag(t) : t \in Nat} \cup {Val(v) : v \in Int}

StandsAt(u, p, x) ==
  /\ p + Len(x) <= Len(u)
  /\ \A j \in 1..Len(x) : u[p + j] = x[j]

LEMMA SymbolsDiffer ==
  /\ Eq # Soh
  /\ \A t : /\ Tag(t) # Eq /\ Tag(t) # Soh
            /\ "tag" \in DOMAIN Tag(t) /\ Tag(t).tag = t
  /\ \A v : /\ Val(v) # Eq /\ Val(v) # Soh
            /\ "val" \in DOMAIN Val(v) /\ Val(v).val = v
  /\ \A r : CheckSumOf(r) # Eq /\ CheckSumOf(r) # Soh
<1>1. "char" \in DOMAIN Eq /\ "char" \in DOMAIN Soh /\ Eq.char # Soh.char
  BY DEF Eq, Soh
<1>2. \A t : "char" \notin DOMAIN Tag(t) /\ "tag" \in DOMAIN Tag(t) /\ Tag(t).tag = t
  BY DEF Tag
<1>3. \A v : "char" \notin DOMAIN Val(v) /\ "val" \in DOMAIN Val(v) /\ Val(v).val = v
  BY DEF Val
<1>4. \A r : "char" \notin DOMAIN CheckSumOf(r)
  BY DEF CheckSumOf
<1> QED BY <1>1, <1>2, <1>3, <1>4, Zenon

LEMMA CatElements ==
  ASSUME NEW S, NEW a \in Seq(S), NEW b \in Seq(S)
  PROVE  /\ \A i \in 1..Len(a) : Cat(a, b)[i] = a[i]
         /\ \A i \in 1..Len(b) : Cat(a, b)[Len(a) + i] = b[i]
BY DEF Cat

LEMMA CatSecond ==
  ASSUME NEW S, NEW a \in Seq(S), NEW b \in Seq(S), NEW i \in 1..Len(b)
  PROVE  Cat(a, b)[Len(a) + i] = b[i]
BY CatElements

LEMMA CatFirst ==
  ASSUME NEW S, NEW a \in Seq(S), NEW b \in Seq(S), NEW i \in 1..Len(a)
  PROVE  Cat(a, b)[i] = a[i]
BY CatElements

LEMMA StandsBoth ==
  ASSUME NEW S, NEW u \in Seq(S), NEW a \in Seq(S), NEW b \in Seq(S), NEW p \in Nat,
         StandsAt(u, p, Cat(a, b))
  PROVE  StandsAt(u, p, a) /\ StandsAt(u, p + Len(a), b)
<1> DEFINE c == Cat(a, b)
<1>1. Len(a) \in Nat /\ Len(b) \in Nat /\ Len(u) \in Nat
  OBVIOUS
<1>2. c \in Seq(S) /\ Len(c) = Len(a) + Len(b)
  BY CatIs
<1>3. \A j \in 1..Len(a) : c[j] = a[j]
  BY DEF Cat
<1>4. \A j \in 1..Len(b) : c[Len(a) + j] = b[j]
  BY DEF Cat
<1>5. p + Len(c) <= Len(u) /\ \A j \in 1..Len(c) : u[p + j] = c[j]
  BY DEF StandsAt
<1> HIDE DEF c
<1>6. StandsAt(u, p, a)
  BY <1>1, <1>2, <1>3, <1>5 DEF StandsAt
<1>7. ASSUME NEW j \in 1..Len(b) PROVE u[(p + Len(a)) + j] = b[j]
  <2>1. Len(a) + j \in 1..Len(c) /\ p + (Len(a) + j) = (p + Len(a)) + j
    BY <1>1, <1>2
  <2>2. u[p + (Len(a) + j)] = c[Len(a) + j]
    BY <1>5, <2>1
  <2> QED BY <1>4, <2>1, <2>2
<1>8. (p + Len(a)) + Len(b) <= Len(u)
  BY <1>1, <1>2, <1>5
<1>9. StandsAt(u, p + Len(a), b)
  BY <1>7, <1>8 DEF StandsAt
<1> QED BY <1>6, <1>9

LEMMA StandsFirst ==
  ASSUME NEW S, NEW a \in Seq(S), NEW b \in Seq(S)
  PROVE  StandsAt(Cat(a, b), 0, a)
<1> DEFINE c == Cat(a, b)
<1>0. Len(a) \in Nat /\ Len(b) \in Nat
  OBVIOUS
<1>1. c \in Seq(S) /\ Len(c) = Len(a) + Len(b)
  BY CatIs
<1>2. \A j \in 1..Len(a) : c[j] = a[j]
  BY DEF Cat
<1> HIDE DEF c
<1>3. 0 + Len(a) <= Len(c) /\ \A j \in 1..Len(a) : c[0 + j] = a[j]
  BY <1>0, <1>1, <1>2
<1> QED BY <1>3 DEF StandsAt, c

LEMMA StandsIs ==
  ASSUME NEW S, NEW u \in Seq(S), NEW p \in Nat, NEW x \in Seq(S), StandsAt(u, p, x)
  PROVE  SubSeq(u, p + 1, p + Len(x)) = x
<1> DEFINE n == Len(x)
           s == SubSeq(u, p + 1, p + n)
<1>1. n \in Nat /\ Len(u) \in Nat /\ p + n <= Len(u)
      /\ \A j \in 1..n : u[p + j] = x[j]
  BY DEF StandsAt
<1> HIDE DEF n
<1>2. s \in Seq(S) /\ Len(s) = n /\ \A j \in 1..n : s[j] = u[p + j]
  BY <1>1
<1> HIDE DEF s
<1>3. Len(x) = n
  BY DEF n
<1>4. s = x
  BY <1>1, <1>2, <1>3, SeqEqual
<1> QED BY <1>4 DEF s, n

\* From i on, c stands at p and not before.
FirstAt(u, i, p, c) ==
  /\ Len(u) \in Nat /\ i \in Nat \ {0} /\ p \in i..Len(u) /\ u[p] = c
  /\ \A j \in i..(p - 1) : u[j] # c

LEMMA FindIs ==
  ASSUME NEW u, NEW i, NEW p, NEW c, FirstAt(u, i, p, c)
  PROVE  Find(u, i, c) = p
<1>0. /\ Len(u) \in Nat /\ i \in Nat \ {0} /\ p \in i..Len(u) /\ u[p] = c
      /\ \A j \in i..(p - 1) : u[j] # c
  BY DEF FirstAt
<1> DEFINE found == {j \in i..Len(u) : u[j] = c}
<1>1. found \in SUBSET Nat /\ p \in found
  BY <1>0
<1>2. Min(found) \in found /\ Min(found) <= p
  BY <1>1, MinIs
<1>3. Find(u, i, c) = Min(found)
  BY <1>1 DEF Find
<1> HIDE DEF found
<1>4. Find(u, i, c) \in i..Len(u) /\ u[Find(u, i, c)] = c /\ Find(u, i, c) <= p
  BY <1>2, <1>3 DEF found
<1> QED BY <1>0, <1>4

LEMMA FindNone ==
  ASSUME NEW u, Len(u) \in Nat, NEW i \in Nat, NEW c, \A j \in i..Len(u) : u[j] # c
  PROVE  Find(u, i, c) = Len(u) + 1
BY DEF Find

\* A value has no delimiter in it.
IsValue(value) == \A k \in 1..Len(value) : value[k] # Soh

LEMMA FieldSymbols ==
  ASSUME NEW S, NEW tag \in S, NEW value \in Seq(S), Eq \in S, Soh \in S
  PROVE  LET f == Field(tag, value) n == Len(value)
         IN  /\ f \in Seq(S) /\ Len(f) = n + 3 /\ n \in Nat
             /\ f[1] = tag /\ f[2] = Eq /\ f[n + 3] = Soh
             /\ \A k \in 1..n : f[2 + k] = value[k]
<1> DEFINE a == <<tag, Eq>>
           b == <<Soh>>
           av == Cat(a, value)
           f == Cat(av, b)
           n == Len(value)
<1>1. a \in Seq(S) /\ Len(a) = 2 /\ a[1] = tag /\ a[2] = Eq
  OBVIOUS
<1>2. b \in Seq(S) /\ Len(b) = 1 /\ b[1] = Soh
  OBVIOUS
<1>3. n \in Nat
  OBVIOUS
<1>4. Field(tag, value) = f
  BY DEF Field, Cat
<1> HIDE DEF a, b
<1>5. av \in Seq(S) /\ Len(av) = Len(a) + Len(value)
  BY <1>1, CatIs
<1>6. ASSUME NEW i \in 1..Len(a) PROVE av[i] = a[i]
  <2>1. a \in Seq(S) /\ value \in Seq(S)
    BY <1>1
  <2> QED BY <2>1, CatFirst, Zenon
<1>7. ASSUME NEW k \in 1..Len(value) PROVE av[Len(a) + k] = value[k]
  <2>1. a \in Seq(S) /\ value \in Seq(S)
    BY <1>1
  <2> QED BY <2>1, CatSecond, Zenon
<1> HIDE DEF av
<1>8. f \in Seq(S) /\ Len(f) = Len(av) + Len(b)
  BY <1>2, <1>5, CatIs
<1>9. ASSUME NEW i \in 1..Len(av) PROVE f[i] = av[i]
  <2>1. b \in Seq(S) /\ av \in Seq(S)
    BY <1>2, <1>5
  <2> QED BY <2>1, CatFirst, Zenon
<1>10. ASSUME NEW i \in 1..Len(b) PROVE f[Len(av) + i] = b[i]
  <2>1. b \in Seq(S) /\ av \in Seq(S)
    BY <1>2, <1>5
  <2> QED BY <2>1, CatSecond, Zenon
<1> HIDE DEF f, n
<1>11. n = Len(value)
  BY DEF n
<1>12. /\ Len(av) = n + 2 /\ Len(f) = n + 3
       /\ 1 \in 1..Len(a) /\ 2 \in 1..Len(a) /\ 1 \in 1..Len(av) /\ 2 \in 1..Len(av)
       /\ 1 \in 1..Len(b)
  BY <1>1, <1>2, <1>3, <1>5, <1>8, <1>11
<1>13. f[1] = tag /\ f[2] = Eq
  BY <1>1, <1>6, <1>9, <1>12
<1>14. f[n + 3] = Soh
  <2>1. f[Len(av) + 1] = b[1]
    BY <1>10, <1>12
  <2>2. Len(av) + 1 = n + 3
    BY <1>3, <1>12
  <2> QED BY <1>2, <2>1, <2>2
<1>15. ASSUME NEW k \in 1..n PROVE f[2 + k] = value[k]
  <2>1. 2 + k \in 1..Len(av) /\ k \in 1..Len(value)
    BY <1>3, <1>11, <1>12
  <2>2. av[2 + k] = value[k]
    BY <1>1, <1>7, <2>1
  <2> QED BY <1>9, <2>1, <2>2
<1> QED BY <1>3, <1>4, <1>8, <1>11, <1>12, <1>13, <1>14, <1>15

FieldOf(at, t, value) == [st |-> "ok", at |-> at, tag |-> t, value |-> value]

\* A field stands in u behind the first p symbols.
FieldStands(S, u, p, t, value) ==
  /\ u \in Seq(S) /\ p \in Nat /\ value \in Seq(S)
  /\ Tag(t) \in S /\ Eq \in S /\ Soh \in S /\ IsValue(value)
  /\ StandsAt(u, p, Field(Tag(t), value))

LEMMA FieldRead ==
  ASSUME NEW S, NEW u, NEW p, NEW t, NEW value, FieldStands(S, u, p, t, value)
  PROVE  ParseField(u, p + 1) = FieldOf(p + Len(value) + 4, t, value)
<1>0. /\ u \in Seq(S) /\ p \in Nat /\ value \in Seq(S)
      /\ Tag(t) \in S /\ Eq \in S /\ Soh \in S /\ IsValue(value)
      /\ StandsAt(u, p, Field(Tag(t), value))
  BY DEF FieldStands
<1> DEFINE n == Len(value)
           f == Field(Tag(t), value)
<1>1. /\ Len(f) = n + 3 /\ n \in Nat /\ Len(u) \in Nat
      /\ f[1] = Tag(t) /\ f[2] = Eq /\ f[n + 3] = Soh
      /\ \A k \in 1..n : f[2 + k] = value[k]
  <2>1. Len(u) \in Nat
    BY <1>0
  <2>2. Tag(t) \in S /\ value \in Seq(S) /\ Eq \in S /\ Soh \in S
    BY <1>0
  <2> QED BY <2>1, <2>2, FieldSymbols
<1>2. p + Len(f) <= Len(u) /\ \A j \in 1..Len(f) : u[p + j] = f[j]
  BY <1>0 DEF StandsAt
<1>v. \A k \in 1..n : value[k] # Soh
  BY <1>0 DEF IsValue
<1> HIDE DEF n, f
<1>3. /\ u[p + 1] = Tag(t) /\ u[p + 2] = Eq /\ u[p + (n + 3)] = Soh
      /\ 1 \in 1..Len(f) /\ 2 \in 1..Len(f) /\ n + 3 \in 1..Len(f)
  BY <1>0, <1>1, <1>2
<1>4. \A k \in 1..n : u[p + (2 + k)] = value[k]
  <2> TAKE k \in 1..n
  <2>1. 2 + k \in 1..Len(f)
    BY <1>0, <1>1
  <2> QED BY <1>0, <1>1, <1>2, <2>1
<1>5. Find(u, p + 1, Eq) = p + 2
  <2>1. p + 1 \in Nat \ {0} /\ p + 2 \in (p + 1)..Len(u)
    BY <1>0, <1>1, <1>2
  <2>2. \A j \in (p + 1)..((p + 2) - 1) : j = p + 1
    BY <1>0
  <2>3. FirstAt(u, p + 1, p + 2, Eq)
    BY <1>0, <1>1, <1>3, <2>1, <2>2, SymbolsDiffer DEF FirstAt
  <2> QED BY <2>3, FindIs
<1>6. Find(u, p + 2, Soh) = p + (n + 3)
  <2>1. p + 2 \in Nat \ {0} /\ p + (n + 3) \in (p + 2)..Len(u)
    BY <1>0, <1>1, <1>2
  <2>2. ASSUME NEW j \in (p + 2)..((p + (n + 3)) - 1)
        PROVE  u[j] # Soh
    <3>1. CASE j = p + 2
      BY <1>3, <3>1, SymbolsDiffer
    <3>2. CASE j # p + 2
      <4> DEFINE k == j - (p + 2)
      <4>1. k \in 1..n /\ p + (2 + k) = j
        BY <1>0, <1>1, <3>2
      <4> HIDE DEF k
      <4> QED BY <1>4, <1>v, <4>1
    <3> QED BY <3>1, <3>2
  <2>3. FirstAt(u, p + 2, p + (n + 3), Soh)
    BY <1>0, <1>1, <1>3, <2>1, <2>2 DEF FirstAt
  <2> QED BY <2>3, FindIs
<1>7. IsTag(u, p + 1, p + 2)
  BY <1>0, <1>3, SymbolsDiffer DEF IsTag
<1>8. SubSeq(u, (p + 2) + 1, (p + (n + 3)) - 1) = value
  <2> DEFINE s == SubSeq(u, p + 3, p + n + 2)
  <2>1. s \in Seq(S) /\ Len(s) = n /\ \A k \in 1..n : s[k] = u[(p + 2) + k]
    <3>1. u \in Seq(S) /\ p \in Nat /\ n \in Nat /\ p + n + 2 <= Len(u)
      BY <1>0, <1>1, <1>2
    <3> QED BY <3>1
  <2>2. (p + 2) + 1 = p + 3 /\ (p + (n + 3)) - 1 = p + n + 2
    BY <1>0, <1>1
  <2>3. Len(value) = n
    BY DEF n
  <2> HIDE DEF s
  <2>4. \A k \in 1..n : s[k] = value[k]
    <3> TAKE k \in 1..n
    <3>1. (p + 2) + k = p + (2 + k)
      BY <1>0, <1>1
    <3> QED BY <1>4, <2>1, <3>1
  <2>5. s = value
    BY <1>0, <2>1, <2>3, <2>4, SeqEqual
  <2> QED BY <2>2, <2>5 DEF s
<1>9. ParseField(u, p + 1) = FieldAt(u, p + 1, p + 2, p + (n + 3))
  BY <1>5, <1>6 DEF ParseField, UpTo
<1>10. ~AtEnd(u, p + 2) /\ ~AtEnd(u, p + (n + 3)) /\ (p + (n + 3)) + 1 = p + n + 4
  BY <1>0, <1>1, <1>2 DEF AtEnd
<1>11. u[p + 1].tag = t
  BY <1>3, SymbolsDiffer
<1> QED BY <1>7, <1>8, <1>9, <1>10, <1>11 DEF FieldAt, FieldOf, n

(***************************************************************************)
(* A message that is there as a whole: three fields, a body of the length  *)
(* that the second one says, and the checksum.                             *)
(***************************************************************************)
\* A field of one symbol.
OneStands(S, u, p, t, v) ==
  /\ u \in Seq(S) /\ p \in Nat /\ v \in S /\ v # Soh
  /\ Tag(t) \in S /\ Eq \in S /\ Soh \in S
  /\ StandsAt(u, p, Field(Tag(t), <<v>>))

LEMMA OneRead ==
  ASSUME NEW S, NEW u, NEW p, NEW t, NEW v, OneStands(S, u, p, t, v)
  PROVE  ParseField(u, p + 1) = FieldOf(p + 5, t, <<v>>)
<1> DEFINE value == <<v>>
<1>0. /\ u \in Seq(S) /\ p \in Nat /\ v \in S /\ v # Soh
      /\ Tag(t) \in S /\ Eq \in S /\ Soh \in S
      /\ StandsAt(u, p, Field(Tag(t), value))
  BY DEF OneStands
<1>1. value \in Seq(S) /\ Len(value) = 1 /\ IsValue(value)
  BY <1>0 DEF IsValue
<1> HIDE DEF value
<1>2. FieldStands(S, u, p, t, value)
  BY <1>0, <1>1 DEF FieldStands
<1>3. ParseField(u, p + 1) = FieldOf(p + Len(value) + 4, t, value)
  BY <1>2, FieldRead
<1>4. p + Len(value) + 4 = p + 5
  BY <1>0, <1>1
<1> QED BY <1>3, <1>4 DEF value

LEMMA MatchOne ==
  ASSUME NEW S, NEW u, NEW p, NEW t, NEW v, OneStands(S, u, p, t, v)
  PROVE  MatchField(u, p + 1, t) = FieldOf(p + 5, t, <<v>>)
<1>1. ParseField(u, p + 1) = FieldOf(p + 5, t, <<v>>)
  BY OneRead
<1> QED BY <1>1 DEF MatchField, Expect, FieldOf

LEMMA NumberOfVal ==
  ASSUME NEW n
  PROVE  Number(<<Val(n)>>) = n
<1>1. <<Val(n)>> # <<>> /\ <<Val(n)>>[1] = Val(n)
  OBVIOUS
<1> QED BY <1>1, SymbolsDiffer DEF Number

\* The fields of the head, and its values.
LEMMA LengthRead ==
  ASSUME NEW u, NEW i, NEW max, NEW len, len \in 1..max,
         MatchField(u, i, BodyLength).st = "ok",
         MatchField(u, i, BodyLength).value = <<Val(len)>>
  PROVE  ParseBodyLength(u, i, max) = MatchField(u, i, BodyLength)
<1> DEFINE f == MatchField(u, i, BodyLength)
<1>1. f.st = "ok" /\ f.value = <<Val(len)>>
  OBVIOUS
<1>2. Number(f.value) \in 1..max
  BY <1>1, NumberOfVal
<1>3. ParseBodyLength(u, i, max)
        = IF f.st = "ok" /\ ~(Number(f.value) \in 1..max) THEN Garbled(f.at) ELSE f
  BY DEF ParseBodyLength, Check
<1> HIDE DEF f
<1>4. ParseBodyLength(u, i, max) = f
  BY <1>1, <1>2, <1>3
<1> QED BY <1>4 DEF f

LEMMA TypeRead ==
  ASSUME NEW u, NEW i, NEW j,
         MatchField(u, i, MsgType)
           = FieldOf(j, MsgType, <<Known>>)
  PROVE  ParseMsgType(u, i)
           = FieldOf(j, MsgType, <<Known>>)
<1> DEFINE f == MatchField(u, i, MsgType)
<1>1. f.value = <<Known>>
  BY DEF FieldOf
<1>2. ParseMsgType(u, i)
        = IF f.st = "ok" /\ ~(f.value = <<Known>>) THEN Garbled(f.at) ELSE f
  BY DEF ParseMsgType, Check
<1> HIDE DEF f
<1>3. ParseMsgType(u, i) = f
  BY <1>1, <1>2
<1> QED BY <1>3 DEF f

LEMMA SumRead ==
  ASSUME NEW u, NEW i, NEW type, NEW len, NEW body, NEW j,
         Enough(u, type, len), SubSeq(u, i, type + len - 1) = body,
         MatchField(u, type + len, CheckSum)
           = FieldOf(j, CheckSum, <<CheckSumOf(body)>>)
  PROVE  VerifyCheckSum(u, i, type, len).st = "ok"
<1> DEFINE f == MatchField(u, type + len, CheckSum)
<1>1. f.st = "ok" /\ f.value = <<CheckSumOf(body)>>
  BY DEF FieldOf
<1>2. VerifyCheckSum(u, i, type, len)
        = IF f.st = "ok" /\ ~(f.value = <<CheckSumOf(SubSeq(u, i, type + len - 1))>>)
          THEN Garbled(f.at) ELSE f
  BY DEF VerifyCheckSum, Check
<1> HIDE DEF f
<1>3. VerifyCheckSum(u, i, type, len) = f
  BY <1>1, <1>2
<1> QED BY <1>1, <1>3

\* A message begins in u behind the first p symbols: two fields, and body,
\* of which len symbols come behind them, before the checksum.
Framed(u, p, len, begin, body) ==
  /\ begin # Soh /\ Len(body) = 8 + len
  /\ StandsAt(u, p, Field(Tag(BeginString), <<begin>>))
  /\ StandsAt(u, p + 4, Field(Tag(BodyLength), <<Val(len)>>))
  /\ StandsAt(u, p + 8, Field(Tag(MsgType), <<Known>>))
  /\ StandsAt(u, p, body)
  /\ StandsAt(u, p + (8 + len), Field(Tag(CheckSum), <<CheckSumOf(body)>>))

\* Its first three fields, read in turn.
HeadRead(u, p, max, len, begin) ==
  /\ MatchField(u, p + 1, BeginString) = FieldOf(p + 5, BeginString, <<begin>>)
  /\ ParseBodyLength(u, p + 5, max) = FieldOf(p + 9, BodyLength, <<Val(len)>>)
  /\ ParseMsgType(u, p + 9) = FieldOf(p + 13, MsgType, <<Known>>)

LEMMA FramedHead ==
  ASSUME NEW S, Symbols \subseteq S, NEW u \in Seq(S), NEW p \in Nat, NEW max \in Nat,
         NEW len \in Nat, 1 <= len, len <= max, NEW begin \in S, NEW body,
         Framed(u, p, len, begin, body)
  PROVE  HeadRead(u, p, max, len, begin)
<1>1. /\ Eq \in S /\ Soh \in S /\ Known \in S /\ Val(len) \in S
      /\ Tag(BeginString) \in S /\ Tag(BodyLength) \in S /\ Tag(MsgType) \in S
      /\ Known # Soh /\ Val(len) # Soh
  <2>1. BeginString \in Nat /\ BodyLength \in Nat /\ MsgType \in Nat /\ len \in Int /\ 1 \in Int
    BY DEF BeginString, BodyLength, MsgType
  <2> QED BY <2>1, SymbolsDiffer DEF Symbols, Known
<1>2. MatchField(u, p + 1, BeginString)
        = FieldOf(p + 5, BeginString, <<begin>>)
  <2>1. OneStands(S, u, p, BeginString, begin)
    BY <1>1 DEF Framed, OneStands
  <2> QED BY <2>1, MatchOne
<1>3. ParseBodyLength(u, p + 5, max)
        = FieldOf(p + 9, BodyLength, <<Val(len)>>)
  <2> DEFINE q == p + 4
  <2>1. q \in Nat /\ q + 1 = p + 5 /\ q + 5 = p + 9
    OBVIOUS
  <2>2. OneStands(S, u, q, BodyLength, Val(len))
    BY <1>1, <2>1 DEF Framed, OneStands
  <2> HIDE DEF q
  <2>3. MatchField(u, q + 1, BodyLength)
          = FieldOf(q + 5, BodyLength, <<Val(len)>>)
    BY <2>2, MatchOne
  <2>4. MatchField(u, p + 5, BodyLength)
          = FieldOf(p + 9, BodyLength, <<Val(len)>>)
    BY <2>1, <2>3
  <2>5. len \in 1..max
    OBVIOUS
  <2> DEFINE f == MatchField(u, p + 5, BodyLength)
  <2>6. f.st = "ok" /\ f.value = <<Val(len)>>
    BY <2>4 DEF FieldOf
  <2>7. ParseBodyLength(u, p + 5, max) = f
    BY <2>5, <2>6, LengthRead
  <2> QED BY <2>4, <2>7
<1>4. ParseMsgType(u, p + 9)
        = FieldOf(p + 13, MsgType, <<Known>>)
  <2> DEFINE q == p + 8
  <2>1. q \in Nat /\ q + 1 = p + 9 /\ q + 5 = p + 13
    OBVIOUS
  <2>2. OneStands(S, u, q, MsgType, Known)
    BY <1>1, <2>1 DEF Framed, OneStands
  <2> HIDE DEF q
  <2>3. MatchField(u, q + 1, MsgType)
          = FieldOf(q + 5, MsgType, <<Known>>)
    BY <2>2, MatchOne
  <2> QED BY <2>1, <2>3, TypeRead
<1> QED BY <1>2, <1>3, <1>4 DEF HeadRead

LEMMA FramedSum ==
  ASSUME NEW S, Symbols \subseteq S, NEW u \in Seq(S), NEW p \in Nat, NEW len \in Nat,
         NEW begin \in S, NEW body \in Seq(S), CheckSumOf(body) \in S,
         Framed(u, p, len, begin, body)
  PROVE  VerifyCheckSum(u, p + 1, p + 9, len).st = "ok"
<1> DEFINE sum == CheckSumOf(body)
           q == p + (8 + len)
           trailer == Field(Tag(CheckSum), <<sum>>)
<1>1. /\ Eq \in S /\ Soh \in S /\ sum \in S /\ Tag(CheckSum) \in S /\ sum # Soh
      /\ Len(u) \in Nat
  BY SymbolsDiffer DEF Symbols, CheckSum
<1>2. q \in Nat /\ q + 1 = (p + 9) + len /\ q = (p + 9) + len - 1 /\ q = p + Len(body)
  BY DEF Framed
<1>3. StandsAt(u, q, trailer) /\ StandsAt(u, p, body)
  BY DEF Framed
<1>4. Len(trailer) = 4
  BY <1>1 DEF Field
<1> HIDE DEF sum, q
<1>5. MatchField(u, q + 1, CheckSum)
        = FieldOf(q + 5, CheckSum, <<sum>>)
  <2>1. OneStands(S, u, q, CheckSum, sum)
    BY <1>1, <1>2, <1>3 DEF OneStands
  <2> QED BY <2>1, MatchOne
<1> HIDE DEF trailer
<1>6. SubSeq(u, p + 1, (p + 9) + len - 1) = body
  <2>1. SubSeq(u, p + 1, p + Len(body)) = body
    BY <1>3, StandsIs
  <2> QED BY <1>2, <2>1
<1>7. Enough(u, p + 9, len)
  <2>1. q + 4 <= Len(u)
    BY <1>3, <1>4 DEF StandsAt
  <2> QED BY <1>1, <1>2, <2>1 DEF Enough, CheckSumSize
<1> QED BY <1>2, <1>5, <1>6, <1>7, SumRead DEF sum

\* The frame of a message that is there as a whole, of which r was read.
WholeOf(begin, r) ==
  [st |-> "ok", at |-> r.at,
   msg |-> [begin |-> <<begin>>, seq |-> r.seq, text |-> r.text]]

LEMMA FrameRead ==
  ASSUME NEW S, Symbols \subseteq S, NEW u \in Seq(S), NEW p \in Nat, NEW max \in Nat,
         NEW len \in Nat, 1 <= len, len <= max, NEW begin \in S, NEW body \in Seq(S),
         CheckSumOf(body) \in S, Framed(u, p, len, begin, body)
  PROVE  Frame(u, p + 1, max) = WholeOf(begin, RestOfMessage(u, p + 13))
<1>0. /\ MatchField(u, p + 1, BeginString)
           = FieldOf(p + 5, BeginString, <<begin>>)
      /\ ParseBodyLength(u, p + 5, max)
           = FieldOf(p + 9, BodyLength, <<Val(len)>>)
      /\ ParseMsgType(u, p + 9)
           = FieldOf(p + 13, MsgType, <<Known>>)
  <2>1. HeadRead(u, p, max, len, begin)
    BY FramedHead
  <2> QED BY <2>1 DEF HeadRead
<1> DEFINE i == p + 1
           b == MatchField(u, i, BeginString)
           l == ParseBodyLength(u, b.at, max)
           t == ParseMsgType(u, l.at)
           c == VerifyCheckSum(u, i, l.at, Number(l.value))
           r == RestOfMessage(u, t.at)
<1>1. b = FieldOf(p + 5, BeginString, <<begin>>)
  BY <1>0
<1>2. l = FieldOf(p + 9, BodyLength, <<Val(len)>>)
  <2>1. ParseBodyLength(u, p + 5, max)
          = FieldOf(p + 9, BodyLength, <<Val(len)>>)
    BY <1>0
  <2> HIDE DEF b
  <2>2. b.at = p + 5
    BY <1>1 DEF FieldOf
  <2> QED BY <2>1, <2>2
<1>3. t = FieldOf(p + 13, MsgType, <<Known>>)
  <2>1. ParseMsgType(u, p + 9)
          = FieldOf(p + 13, MsgType, <<Known>>)
    BY <1>0
  <2> HIDE DEF l
  <2>2. l.at = p + 9
    BY <1>2 DEF FieldOf
  <2> QED BY <2>1, <2>2
<1>4. c.st = "ok"
  <2>1. VerifyCheckSum(u, p + 1, p + 9, len).st = "ok"
    <3>1. len \in Nat
      OBVIOUS
    <3> QED BY <3>1, FramedSum
  <2> HIDE DEF l
  <2>2. l.at = p + 9 /\ l.value = <<Val(len)>>
    BY <1>2 DEF FieldOf
  <2>3. Number(l.value) = len
    BY <2>2, NumberOfVal
  <2> QED BY <2>1, <2>2, <2>3
<1> HIDE DEF b, l, t, c, r, i
<1>5. b.st = "ok" /\ l.st = "ok" /\ t.st = "ok" /\ b.value = <<begin>> /\ t.at = p + 13
  BY <1>1, <1>2, <1>3 DEF FieldOf
<1>6. Frame(u, i, max) = Begun(u, i, max, b)
  BY DEF Frame, b
<1>7. Begun(u, i, max, b) = Sized(u, i, b, l)
  BY <1>5 DEF Begun, l
<1>8. Sized(u, i, b, l) = Typed(u, i, b, l, t)
  BY <1>5 DEF Sized, t
<1>9. Typed(u, i, b, l, t) = Checked(u, b, t, c)
  BY <1>5 DEF Typed, c
<1>10. Checked(u, b, t, c) = Whole(b, r)
  BY <1>4 DEF Checked, r
<1>11. r = RestOfMessage(u, p + 13)
  BY <1>5 DEF r
<1>12. Frame(u, p + 1, max) = Whole(b, r)
  BY <1>6, <1>7, <1>8, <1>9, <1>10 DEF i
<1> QED BY <1>5, <1>11, <1>12 DEF Whole, WholeOf

\* At the start of the bytes, with all it takes in one.
FramedIn(S, u, max, len, begin, body) ==
  /\ Symbols \subseteq S /\ u \in Seq(S) /\ body \in Seq(S) /\ CheckSumOf(body) \in S
  /\ begin \in S /\ max \in Nat /\ len \in Nat /\ 1 <= len /\ len <= max
  /\ Framed(u, 0, len, begin, body)

LEMMA FrameFirst ==
  ASSUME NEW S, NEW u, NEW max, NEW len, NEW begin, NEW body,
         FramedIn(S, u, max, len, begin, body)
  PROVE  Frame(u, 1, max) = WholeOf(begin, RestOfMessage(u, 13))
<1> DEFINE p == 0
<1>1. /\ Symbols \subseteq S /\ u \in Seq(S) /\ body \in Seq(S) /\ CheckSumOf(body) \in S
      /\ begin \in S /\ max \in Nat /\ len \in Nat /\ 1 <= len /\ len <= max
      /\ Framed(u, p, len, begin, body)
  BY DEF FramedIn
<1>2. p \in Nat /\ p + 1 = 1 /\ p + 13 = 13
  OBVIOUS
<1> HIDE DEF p
<1>3. Frame(u, p + 1, max) = WholeOf(begin, RestOfMessage(u, p + 13))
  BY <1>1, <1>2, FrameRead
<1> QED BY <1>2, <1>3

\* The fields behind the MsgType, one by one.
LEMMA RestReads ==
  ASSUME NEW u, Len(u) \in Nat, NEW i \in 1..(Len(u) + 1), NEW f,
         ParseField(u, i) = f, f.st = "ok", f.at \in 1..(Len(u) + 1)
  PROVE  RestOfMessage(u, i)
           = IF f.tag = CheckSum THEN Ends(TRUE, f.at)
             ELSE With(f, RestOfMessage(u, f.at))
<1>1. PICK g : g = CHOOSE h : RestFrom(u, 1, h)
  OBVIOUS
<1>2. RestFrom(u, 1, g)
  BY <1>1, RestExists
<1>3. \A k \in 1..(Len(u) + 1) : RestOfMessage(u, k) = g[k]
  BY <1>1 DEF RestOfMessage, RestFrom
<1>4. g[i] = RestAfter(u, f, g)
  BY <1>2 DEF RestFrom
<1>5. g[i] = IF f.tag = CheckSum THEN Ends(TRUE, f.at) ELSE With(f, g[f.at])
  BY <1>4 DEF RestAfter
<1> QED BY <1>3, <1>5

\* What was read up to at: a number and texts.
Read(r, at, seq, text) ==
  /\ DOMAIN r = {"ok", "at", "seq", "text"}
  /\ r.ok = TRUE /\ r.at = at /\ r.seq = seq /\ r.text = text

LEMMA WithIs ==
  ASSUME NEW f, NEW r, NEW at, NEW seq, NEW text, Read(r, at, seq, text)
  PROVE  Read(With(f, r), at,
              IF f.tag = MsgSeqNum THEN Number(f.value) ELSE seq,
              IF f.tag = Text THEN <<Len(f.value)>> \o text ELSE text)
<1> DEFINE a == IF f.tag = MsgSeqNum THEN Number(f.value) ELSE seq
           b == IF f.tag = Text THEN <<Len(f.value)>> \o text ELSE text
           q == [r EXCEPT !.seq = a, !.text = b]
<1>1. /\ DOMAIN r = {"ok", "at", "seq", "text"}
      /\ r.ok = TRUE /\ r.at = at /\ r.seq = seq /\ r.text = text
  BY DEF Read
<1>2. With(f, r) = q
  BY <1>1 DEF With
<1> HIDE DEF a, b
<1>3. DOMAIN q = DOMAIN r /\ q.ok = r.ok /\ q.at = r.at /\ q.seq = a /\ q.text = b
  BY <1>1
<1> HIDE DEF q
<1>4. Read(q, at, a, b)
  BY <1>1, <1>3 DEF Read
<1> QED BY <1>2, <1>4 DEF a, b

\* From i on the rest of a message is read.
Reads(u, i, at, seq, text) == Read(RestOfMessage(u, i), at, seq, text)

\* One field more, behind the first p symbols.
ReadsField(u, p, t, v) ==
  RestOfMessage(u, p + 1)
    = IF t = CheckSum THEN Ends(TRUE, p + 5)
      ELSE With(FieldOf(p + 5, t, <<v>>), RestOfMessage(u, p + 5))

LEMMA ReadsOne ==
  ASSUME NEW S, NEW u, NEW p, NEW t, NEW v, OneStands(S, u, p, t, v)
  PROVE  ReadsField(u, p, t, v)
<1> DEFINE f == FieldOf(p + 5, t, <<v>>)
           x == Field(Tag(t), <<v>>)
<1>1. /\ u \in Seq(S) /\ p \in Nat /\ v \in S /\ Tag(t) \in S /\ Eq \in S /\ Soh \in S
      /\ StandsAt(u, p, x)
  BY DEF OneStands
<1>2. ParseField(u, p + 1) = f
  BY OneRead
<1>3. Len(x) = 4 /\ Len(u) \in Nat
  BY <1>1 DEF Field
<1> HIDE DEF x
<1>4. p + 1 \in 1..(Len(u) + 1) /\ p + 5 \in 1..(Len(u) + 1)
  <2>1. p + Len(x) <= Len(u)
    BY <1>1 DEF StandsAt
  <2> QED BY <1>1, <1>3, <2>1
<1>5. f.st = "ok" /\ f.at = p + 5 /\ f.tag = t
  BY DEF FieldOf
<1> HIDE DEF f
<1>6. RestOfMessage(u, p + 1)
        = IF f.tag = CheckSum THEN Ends(TRUE, f.at) ELSE With(f, RestOfMessage(u, f.at))
  BY <1>2, <1>3, <1>4, <1>5, RestReads
<1> QED BY <1>5, <1>6 DEF ReadsField, f

LEMMA ReadEnd ==
  ASSUME NEW S, NEW u, NEW p, NEW v, OneStands(S, u, p, CheckSum, v)
  PROVE  Reads(u, p + 1, p + 5, 0, <<>>)
<1> DEFINE t == CheckSum
<1>0. t = CheckSum /\ OneStands(S, u, p, t, v)
  OBVIOUS
<1> HIDE DEF t
<1>1. RestOfMessage(u, p + 1) = Ends(TRUE, p + 5)
  <2>1. ReadsField(u, p, t, v)
    BY <1>0, ReadsOne
  <2> QED BY <1>0, <2>1, Zenon DEF ReadsField
<1>2. Read(Ends(TRUE, p + 5), p + 5, 0, <<>>)
  BY DEF Read, Ends
<1> QED BY <1>1, <1>2 DEF Reads

LEMMA ReadsMore ==
  ASSUME NEW S, NEW u, NEW p, NEW t, NEW v, OneStands(S, u, p, t, v), t # CheckSum
  PROVE  RestOfMessage(u, p + 1) = With(FieldOf(p + 5, t, <<v>>), RestOfMessage(u, p + 5))
<1>1. ReadsField(u, p, t, v)
  BY ReadsOne
<1> QED BY <1>1, Zenon DEF ReadsField

LEMMA ReadOne ==
  ASSUME NEW S, NEW u, NEW p, NEW t, NEW v, OneStands(S, u, p, t, v),
         t # CheckSum, t # Text, NEW at, NEW seq, NEW text, Reads(u, p + 5, at, seq, text)
  PROVE  Reads(u, p + 1, at, IF t = MsgSeqNum THEN Number(<<v>>) ELSE seq, text)
<1>0. RestOfMessage(u, p + 1) = With(FieldOf(p + 5, t, <<v>>), RestOfMessage(u, p + 5))
  BY ReadsMore
<1> DEFINE r == RestOfMessage(u, p + 5)
           f == FieldOf(p + 5, t, <<v>>)
<1>1. RestOfMessage(u, p + 1) = With(f, r)
  BY <1>0
<1>2. Read(r, at, seq, text)
  BY DEF Reads
<1>3. f.tag = t /\ f.value = <<v>>
  BY DEF FieldOf
<1> HIDE DEF f, r
<1>4. Read(With(f, r), at, IF f.tag = MsgSeqNum THEN Number(f.value) ELSE seq,
           IF f.tag = Text THEN <<Len(f.value)>> \o text ELSE text)
  BY <1>2, WithIs
<1> QED BY <1>1, <1>3, <1>4 DEF Reads

LEMMA ReadOther ==
  ASSUME NEW S, NEW u, NEW p, NEW t, NEW v, OneStands(S, u, p, t, v),
         t \notin {CheckSum, MsgSeqNum, Text}, NEW at, NEW seq, NEW text,
         Reads(u, p + 5, at, seq, text)
  PROVE  Reads(u, p + 1, at, seq, text)
<1>1. t # CheckSum /\ t # Text /\ t # MsgSeqNum
  OBVIOUS
<1>2. Reads(u, p + 1, at, IF t = MsgSeqNum THEN Number(<<v>>) ELSE seq, text)
  BY <1>1, ReadOne
<1> QED BY <1>1, <1>2, Zenon

LEMMA ReadNumber ==
  ASSUME NEW S, NEW u, NEW p, NEW n, OneStands(S, u, p, MsgSeqNum, Val(n)),
         NEW at, NEW seq, NEW text, Reads(u, p + 5, at, seq, text)
  PROVE  Reads(u, p + 1, at, n, text)
<1>1. MsgSeqNum # CheckSum /\ MsgSeqNum # Text
  BY DEF MsgSeqNum, CheckSum, Text
<1> DEFINE t == MsgSeqNum
           v == Val(n)
<1>2. t = MsgSeqNum /\ Number(<<v>>) = n /\ OneStands(S, u, p, t, v) /\ t # CheckSum /\ t # Text
  BY <1>1, NumberOfVal
<1> HIDE DEF t, v
<1>3. Reads(u, p + 1, at, IF t = MsgSeqNum THEN Number(<<v>>) ELSE seq, text)
  BY <1>2, ReadOne
<1> QED BY <1>2, <1>3, Zenon

LEMMA ReadText ==
  ASSUME NEW S, NEW u, NEW p, NEW value, FieldStands(S, u, p, Text, value),
         NEW at, NEW seq, NEW text, Reads(u, p + Len(value) + 4, at, seq, text)
  PROVE  Reads(u, p + 1, at, seq, <<Len(value)>> \o text)
<1> DEFINE n == Len(value)
           j == p + n + 4
           x == Field(Tag(Text), value)
           r == RestOfMessage(u, j)
           f == FieldOf(j, Text, value)
<1>0. Text # MsgSeqNum /\ Text # CheckSum
  BY DEF MsgSeqNum, CheckSum, Text
<1>1. ParseField(u, p + 1) = f
  BY FieldRead
<1>2. /\ u \in Seq(S) /\ p \in Nat /\ value \in Seq(S) /\ Tag(Text) \in S /\ Eq \in S
      /\ Soh \in S /\ StandsAt(u, p, x)
  BY DEF FieldStands
<1>3. Len(x) = n + 3 /\ n \in Nat /\ Len(u) \in Nat
  <2>1. Len(x) = n + 3 /\ n \in Nat
    BY <1>2, FieldSymbols
  <2> QED BY <1>2, <2>1
<1> HIDE DEF x, n
<1>4. p + 1 \in 1..(Len(u) + 1) /\ j \in 1..(Len(u) + 1)
  <2>1. p + Len(x) <= Len(u)
    BY <1>2 DEF StandsAt
  <2> QED BY <1>2, <1>3, <2>1
<1>5. Read(r, at, seq, text)
  BY DEF Reads, n
<1>6. f.tag # MsgSeqNum /\ f.tag = Text /\ f.tag # CheckSum /\ f.value = value
      /\ f.st = "ok" /\ f.at = j
  BY <1>0 DEF FieldOf
<1> HIDE DEF f, j, r
<1>7. RestOfMessage(u, p + 1) = With(f, r)
  <2>1. RestOfMessage(u, p + 1)
          = IF f.tag = CheckSum THEN Ends(TRUE, f.at) ELSE With(f, RestOfMessage(u, f.at))
    BY <1>1, <1>3, <1>4, <1>6, RestReads
  <2> QED BY <1>6, <2>1 DEF r
<1>8. Read(With(f, r), at, IF f.tag = MsgSeqNum THEN Number(f.value) ELSE seq,
           IF f.tag = Text THEN <<Len(f.value)>> \o text ELSE text)
  BY <1>5, WithIs
<1> QED BY <1>6, <1>7, <1>8 DEF Reads

LEMMA ParseStarts ==
  ASSUME NEW u, Len(u) \in Nat, NEW max \in Nat
  PROVE  LET f == Frame(u, 1, max)
         IN  /\ f.st = "ok" => Parse(u, max) = [got |-> TRUE, at |-> f.at, msg |-> f.msg]
             /\ f.st = "partial" => Parse(u, max) = [got |-> FALSE, at |-> 1]
<1> DEFINE f == Frame(u, 1, max)
<1>1. PICK g : g = CHOOSE h : TryFrom(u, max, 1, h)
  OBVIOUS
<1>2. TryFrom(u, max, 1, g)
  BY <1>1, TryExists
<1>3. Parse(u, max) = g[1] /\ 1 \in 1..(Len(u) + 1)
  BY <1>1 DEF Parse, TryFrom
<1>4. g[1] = ParseAfter(u, 1, f, g)
  BY <1>2, <1>3 DEF TryFrom
<1>5. AtEnd(u, 1) => f.st = "partial"
  <2>1. Moved(u, 1, f)
    BY <1>3, FrameMoves
  <2> QED BY <2>1 DEF AtEnd, Moved, Behind
<1> HIDE DEF f
<1>6. f.st = "ok" => g[1] = [got |-> TRUE, at |-> f.at, msg |-> f.msg]
  BY <1>4, <1>5 DEF ParseAfter
<1>7. f.st = "partial" => g[1] = [got |-> FALSE, at |-> 1]
  BY <1>4 DEF ParseAfter
<1> QED BY <1>3, <1>6, <1>7 DEF f
=============================================================================
