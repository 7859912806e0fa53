---------------------------- MODULE Market_proofs ----------------------------
(***************************************************************************)
(* Proofs about the simulator's market, for any number of connections, of  *)
(* trader slots and any scripts of the peers.                              *)
(***************************************************************************)
EXTENDS Market, SequenceTheorems, FunctionTheorems, FiniteSetTheorems,
        WellFoundedInduction, TLAPS

Piece == [conn : Conns, msg : Nat]
Trader == [fd : 0..ConnsNum, active : BOOLEAN, buffer : Seq(Piece)]
Call == [trader : Nat, conn : Conns, msg : Nat]

-----------------------------------------------------------------------------
(***************************************************************************)
(* Least and greatest elements, and a free descriptor.                     *)
(***************************************************************************)
LEMMA MinIs ==
  ASSUME NEW S, S \subseteq Nat, S # {}
  PROVE  Min(S) \in S
<1>1. PICK x \in S : \A y \in S : <<y, x>> \notin OpToRel(<, Nat)
  BY NatLessThanWellFounded, WFMin, Zenon
<1>2. \A y \in S : ~(y < x)
  BY <1>1, Zenon DEF OpToRel
<1>3. \A y \in S : x <= y
  BY <1>2
<1> QED BY <1>3 DEF Min

LEMMA MinOfOne ==
  ASSUME NEW x \in Nat
  PROVE  Min({x}) = x
BY MinIs

LEMMA MaxIs ==
  ASSUME NEW n \in Nat, NEW i \in 1..(n + 1)
  PROVE  Max({i, n}) = IF i = n + 1 THEN n + 1 ELSE n
<1> DEFINE top == IF i = n + 1 THEN n + 1 ELSE n
           P(x) == x \in {i, n} /\ \A y \in {i, n} : x >= y
<1>1. P(top)
  OBVIOUS
<1>2. \A x : P(x) => x = top
  OBVIOUS
<1>3. Max({i, n}) = CHOOSE x : P(x)
  BY DEF Max
<1> HIDE DEF P, top
<1>4. P(CHOOSE x : P(x))
  BY <1>1
<1> QED BY <1>2, <1>3, <1>4 DEF top

LEMMA ConstantsAre == ConnsNum \in Nat \ {0} /\ MaxTraders \in Nat \ {0}
BY MarketAssumption

\* One connection without a descriptor leaves one descriptor free.
LEMMA SomeFdIsFree ==
  ASSUME fd \in [Conns -> 0..ConnsNum], NEW c \in Conns, fd[c] = 0
  PROVE  /\ Min(FreeFds) \in 1..ConnsNum
         /\ \A d \in Conns : fd[d] # Min(FreeFds)
<1>0. ConnsNum \in Nat \ {0}
  BY ConstantsAre
<1>1. FreeFds # {}
  <2> SUFFICES ASSUME FreeFds = {} PROVE FALSE
    OBVIOUS
  <2> DEFINE others == Conns \ {c}
             g == [f \in Fds |-> CHOOSE d \in others : fd[d] = f]
  <2>1. \A f \in Fds : \E d \in others : fd[d] = f
    <3> TAKE f \in Fds
    <3>1. PICK d \in Conns : fd[d] = f
      BY DEF FreeFds
    <3>2. f # 0
      BY <1>0 DEF Fds, Conns
    <3> QED BY <3>1, <3>2
  <2>2. \A f \in Fds : g[f] \in others /\ fd[g[f]] = f
    BY <2>1
  <2>3. g \in [Fds -> others]
    BY <2>2
  <2>4. /\ IsFiniteSet(Conns) /\ Cardinality(Conns) = ConnsNum
    BY <1>0, FS_Interval DEF Conns
  <2>5. IsFiniteSet(others) /\ Cardinality(others) = ConnsNum - 1
    BY <2>4, FS_RemoveElement
  <2> HIDE DEF g, others
  <2>6. \E x, y \in Fds : x # y /\ g[x] = g[y]
    <3>1. IsFiniteSet(Fds) /\ Cardinality(Fds) = ConnsNum
      BY <2>4 DEF Fds
    <3>2. Cardinality(others) < Cardinality(Fds)
      BY <1>0, <2>5, <3>1
    <3> QED BY <2>3, <2>5, <3>1, <3>2, FS_PigeonHole
  <2> QED BY <2>2, <2>6
<1>2. FreeFds \subseteq Nat
  BY <1>0 DEF FreeFds, Fds, Conns
<1>3. Min(FreeFds) \in FreeFds
  BY <1>1, <1>2, MinIs
<1> QED BY <1>3 DEF FreeFds, Fds, Conns

-----------------------------------------------------------------------------
(***************************************************************************)
(* Halves of messages.                                                     *)
(***************************************************************************)
LEMMA HalfIs ==
  ASSUME NEW c \in Conns, NEW n \in Nat
  PROVE  Half(c, n) \in Piece
<1>1. (n + 1) \div 2 \in Nat
  OBVIOUS
<1> QED BY <1>1 DEF Half, Piece

LEMMA HalvesIs ==
  ASSUME NEW c \in Conns, NEW n \in Nat, NEW m \in Nat, n <= m
  PROVE  /\ Halves(c, n, m) \in Seq(Piece) /\ Len(Halves(c, n, m)) = m - n
         /\ \A k \in 1..(m - n) : Halves(c, n, m)[k] = Half(c, n + k)
<1>1. m - n \in Nat
  OBVIOUS
<1>2. \A k \in 1..(m - n) : Half(c, n + k) \in Piece
  <2> TAKE k \in 1..(m - n)
  <2>1. n + k \in Nat
    BY <1>1
  <2> QED BY <2>1, HalfIs
<1>3. Halves(c, n, m) \in [1..(m - n) -> Piece]
  BY <1>2 DEF Halves
<1>4. Halves(c, n, m) \in Seq(Piece)
  BY <1>1, <1>3, IsASeq
<1>5. DOMAIN Halves(c, n, m) = 1..(m - n)
  BY DEF Halves
<1>6. Len(Halves(c, n, m)) = m - n
  BY <1>1, <1>4, <1>5, LenProperties
<1> QED BY <1>4, <1>6 DEF Halves

\* What is read is appended, and what is behind a whole message is kept.
LEMMA HalvesAppended ==
  ASSUME NEW c \in Conns, NEW a \in Nat, NEW n \in Nat, NEW m \in Nat,
         a <= n, n <= m
  PROVE  Halves(c, a, n) \o Halves(c, n, m) = Halves(c, a, m)
<1>1. a <= m /\ (n - a) + (m - n) = m - a /\ n - a \in Nat /\ m - n \in Nat
  OBVIOUS
<1>2. /\ Halves(c, a, n) \in Seq(Piece) /\ Len(Halves(c, a, n)) = n - a
      /\ Halves(c, n, m) \in Seq(Piece) /\ Len(Halves(c, n, m)) = m - n
      /\ Halves(c, a, m) \in Seq(Piece) /\ Len(Halves(c, a, m)) = m - a
  BY <1>1, HalvesIs
<1> DEFINE s == Halves(c, a, n) \o Halves(c, n, m)
<1>3. /\ s \in Seq(Piece) /\ Len(s) = m - a
      /\ \A i \in 1..(m - a) :
           s[i] = IF i <= n - a THEN Halves(c, a, n)[i] ELSE Halves(c, n, m)[i - (n - a)]
  BY <1>1, <1>2, ConcatProperties
<1>4. \A i \in 1..(m - a) : s[i] = Halves(c, a, m)[i]
  <2> TAKE i \in 1..(m - a)
  <2> HIDE DEF s
  <2>1. Halves(c, a, m)[i] = Half(c, a + i)
    BY <1>1, HalvesIs
  <2>2. CASE i <= n - a
    <3>1. i \in 1..(n - a)
      BY <1>1, <2>2
    <3> QED BY <1>3, <2>1, <2>2, <3>1, HalvesIs
  <2>3. CASE ~(i <= n - a)
    <3>1. i - (n - a) \in 1..(m - n) /\ n + (i - (n - a)) = a + i
      BY <1>1, <2>3
    <3>2. Halves(c, n, m)[i - (n - a)] = Half(c, n + (i - (n - a)))
      BY <3>1, HalvesIs
    <3> QED BY <1>3, <2>1, <2>3, <3>1, <3>2
  <2> QED BY <2>2, <2>3
<1> HIDE DEF s
<1>5. s = Halves(c, a, m)
  BY <1>2, <1>3, <1>4, SeqEqual
<1> QED BY <1>5 DEF s

LEMMA HalvesRest ==
  ASSUME NEW c \in Conns, NEW k \in Nat, NEW n \in Nat, 2 * k + 2 <= n
  PROVE  /\ RestOf(Halves(c, 2 * k, n)) = Halves(c, 2 * (k + 1), n)
         /\ Halves(c, 2 * k, n)[1] = [conn |-> c, msg |-> k + 1]
<1> DEFINE b == Halves(c, 2 * k, n)
           r == Halves(c, 2 * (k + 1), n)
<1>0. /\ 2 * k \in Nat /\ 2 * (k + 1) \in Nat /\ 2 * k <= n /\ 2 * (k + 1) <= n
      /\ 2 * (k + 1) = 2 * k + 2
  OBVIOUS
<1>1. /\ b \in Seq(Piece) /\ Len(b) = n - 2 * k
      /\ \A i \in 1..(n - 2 * k) : b[i] = Half(c, 2 * k + i)
  BY <1>0, HalvesIs
<1>2. /\ r \in Seq(Piece) /\ Len(r) = n - 2 * (k + 1)
      /\ \A i \in 1..(n - 2 * (k + 1)) : r[i] = Half(c, 2 * (k + 1) + i)
  BY <1>0, HalvesIs
<1>3. b[1] = [conn |-> c, msg |-> k + 1]
  <2>1. 1 \in 1..(n - 2 * k) /\ (2 * k + 1 + 1) \div 2 = k + 1
    BY <1>0
  <2> QED BY <1>1, <2>1 DEF Half
<1> HIDE DEF b, r
<1>4. \A i \in 3..Len(b) : b[i] \in Piece
  BY <1>0, <1>1, ElementOfSeq
<1>5. /\ RestOf(b) \in Seq(Piece) /\ Len(RestOf(b)) = n - 2 * (k + 1)
      /\ \A i \in 1..(n - 2 * (k + 1)) : RestOf(b)[i] = b[i + 2]
  <2> DEFINE l == Len(b)
  <2>1. l \in Int /\ l = n - 2 * k /\ 3 <= l + 1
    BY <1>0, <1>1
  <2>2. /\ SubSeq(b, 3, l) \in Seq(Piece)
        /\ Len(SubSeq(b, 3, l)) = IF 3 <= l THEN l - 3 + 1 ELSE 0
        /\ \A i \in 1..(l - 3 + 1) : SubSeq(b, 3, l)[i] = b[3 + i - 1]
    BY <1>4, <2>1, SubSeqProperties
  <2> HIDE DEF l
  <2>3. l - 3 + 1 = n - 2 * (k + 1) /\ (~(3 <= l) => n - 2 * (k + 1) = 0)
    BY <1>0, <2>1
  <2>4. Len(SubSeq(b, 3, l)) = n - 2 * (k + 1)
    BY <2>2, <2>3
  <2>5. \A i \in 1..(n - 2 * (k + 1)) : SubSeq(b, 3, l)[i] = b[i + 2]
    <3> TAKE i \in 1..(n - 2 * (k + 1))
    <3>1. 3 + i - 1 = i + 2 /\ i \in 1..(l - 3 + 1)
      BY <1>0, <2>3
    <3> QED BY <2>2, <3>1
  <2> QED BY <2>2, <2>4, <2>5 DEF RestOf, l
<1>6. \A i \in 1..(n - 2 * (k + 1)) : b[i + 2] = r[i]
  <2> TAKE i \in 1..(n - 2 * (k + 1))
  <2>1. i + 2 \in 1..(n - 2 * k) /\ 2 * k + (i + 2) = 2 * (k + 1) + i
    BY <1>0
  <2>2. b[i + 2] = Half(c, 2 * k + (i + 2)) /\ r[i] = Half(c, 2 * (k + 1) + i)
    BY <1>1, <1>2, <2>1
  <2> QED BY <2>1, <2>2
<1>7. RestOf(b) = r
  BY <1>2, <1>5, <1>6, SeqEqual
<1> QED BY <1>3, <1>7 DEF b, r

-----------------------------------------------------------------------------
(***************************************************************************)
(* The inductive invariant.  A descriptor belongs to one connection, and a *)
(* slot to one descriptor that is open; a connection without a slot has    *)
(* not been read from; and for a connection with a slot, k messages have   *)
(* been dealt with, the buffer holding what was read after them.           *)
(***************************************************************************)
Ranges ==
  /\ script \in Scripts
  /\ sent \in [Conns -> Nat] /\ read \in [Conns -> Nat]
  /\ \A c \in Conns : read[c] <= 2 * sent[c]
  /\ fd \in [Conns -> 0..ConnsNum] /\ armed \subseteq Conns
  /\ peer \in [Conns -> {"away", "open", "shut"}]
  /\ traders \in Seq(Trader) /\ Len(traders) <= MaxTraders
  /\ handed \in Seq(Call)

\* Nothing was read from c.
Fresh(c) == read[c] = 0 /\ \A h \in 1..Len(handed) : handed[h].conn # c

Sockets ==
  /\ \A c, d \in Conns : fd[c] # 0 /\ fd[c] = fd[d] => c = d
  /\ \A c \in Conns : peer[c] = "away" => fd[c] = 0 /\ Fresh(c)
  /\ \A c \in armed : fd[c] # 0

Unserved ==
  \A c \in Conns :
    fd[c] # 0 /\ (\A i \in 1..Len(traders) : traders[i].fd # fd[c]) => Fresh(c)

OneSlot ==
  \A i, j \in 1..Len(traders) :
    traders[i].fd # 0 /\ traders[i].fd = traders[j].fd => i = j

Open ==
  \A i \in 1..Len(traders) :
    traders[i].fd # 0 => \E c \in Conns : fd[c] = traders[i].fd

\* The first k messages of c have been dealt with as the i-th trader's.
Progress(t, i, c, k, halves, calls) ==
  /\ 2 * k <= halves /\ t.buffer = Halves(c, 2 * k, halves)
  /\ IF t.active THEN /\ k >= 1 /\ script[c][1] = "Logon"
                      /\ \A j \in 1..k : script[c][j] # "Logout"
                 ELSE k = 0
  /\ \A n \in Orders(c, k) : \E h \in 1..Len(calls) :
       calls[h].conn = c /\ calls[h].msg = n
  /\ \A h \in 1..Len(calls) :
       /\ calls[h].conn = c <=> calls[h].trader = i
       /\ calls[h].conn = c => calls[h].msg <= k

Slots ==
  \A i \in 1..Len(traders), c \in Conns :
    traders[i].fd # 0 /\ traders[i].fd = fd[c] =>
      \E k \in Nat : Progress(traders[i], i, c, k, read[c], handed)

Calls ==
  /\ \A h \in 1..Len(handed) : handed[h].trader \in 1..Len(traders)
  /\ InOrder

IInv == Ranges /\ Sockets /\ Unserved /\ OneSlot /\ Open /\ Slots /\ Calls

-----------------------------------------------------------------------------
(***************************************************************************)
(* Operators of the model.                                                 *)
(***************************************************************************)
LEMMA OrdersGrow ==
  ASSUME NEW c, NEW n \in Nat, NEW m \in Nat, n <= m
  PROVE  Orders(c, n) \subseteq Orders(c, m)
BY DEF Orders

LEMMA OrdersNext ==
  ASSUME NEW c, NEW k \in Nat, NEW n \in Orders(c, k + 1), n # k + 1
  PROVE  n \in Orders(c, k)
BY DEF Orders

LEMMA PutIs ==
  ASSUME traders \in Seq(Trader), NEW i \in 1..(Len(traders) + 1), NEW t \in Trader, Put(i, t)
  PROVE  /\ traders' \in Seq(Trader)
         /\ Len(traders') = IF i = Len(traders) + 1 THEN i ELSE Len(traders)
         /\ traders'[i] = t
         /\ \A j \in 1..Len(traders) : j # i => traders'[j] = traders[j]
<1> DEFINE l == IF i = Len(traders) + 1 THEN i ELSE Len(traders)
           p == [j \in 1..l |-> IF j = i THEN t ELSE traders[j]]
<1>1. /\ Len(traders) \in Nat /\ l \in Nat
      /\ l = IF i = Len(traders) + 1 THEN Len(traders) + 1 ELSE Len(traders)
  BY LenProperties
<1>2. Max({i, Len(traders)}) = l
  BY <1>1, MaxIs
<1>3. traders' = p
  BY <1>2 DEF Put
<1>4. \A j \in 1..l : j # i => j \in 1..Len(traders)
  BY <1>1
<1>5. \A j \in 1..l : (IF j = i THEN t ELSE traders[j]) \in Trader
  BY <1>4, ElementOfSeq
<1>6. p \in [1..l -> Trader] /\ DOMAIN p = 1..l
  BY <1>5
<1>7. p \in Seq(Trader)
  BY <1>1, <1>6, IsASeq
<1>8. Len(p) = l
  BY <1>1, <1>6, <1>7, LenProperties
<1>9. i \in 1..l /\ \A j \in 1..Len(traders) : j \in 1..l
  BY <1>1
<1>10. p[i] = t /\ \A j \in 1..Len(traders) : j # i => p[j] = traders[j]
  BY <1>9
<1> HIDE DEF p, l
<1>11. l = IF i = Len(traders) + 1 THEN i ELSE Len(traders)
  BY DEF l
<1> QED BY <1>3, <1>7, <1>8, <1>10, <1>11

\* A trader of a descriptor that is open: the other slots have another one.
LEMMA SlotIs ==
  ASSUME Ranges, OneSlot, NEW f \in 1..ConnsNum
  PROVE  LET i == SlotFor(f) IN
         \/ i \in 1..Len(traders) /\ traders[i].fd = f
         \/ i = Len(traders) + 1 /\ \A j \in 1..Len(traders) : traders[j].fd # f
<1> DEFINE found == {i \in 1..Len(traders) : HasSock(i, f)}
<1>1. f # 0 /\ Len(traders) \in Nat
  BY ConstantsAre, LenProperties DEF Ranges
<1>2. CASE found = {}
  <2>1. SlotFor(f) = Len(traders) + 1
    BY <1>2 DEF SlotFor
  <2>2. \A j \in 1..Len(traders) : traders[j].fd # f
    BY <1>2 DEF HasSock
  <2> QED BY <2>1, <2>2
<1>3. CASE found # {}
  <2>1. SlotFor(f) = Min(found)
    BY <1>3 DEF SlotFor
  <2>2. found \subseteq Nat
    BY <1>1
  <2>3. Min(found) \in found
    BY <1>3, <2>2, MinIs
  <2> QED BY <2>1, <2>3 DEF HasSock
<1> QED BY <1>2, <1>3

-----------------------------------------------------------------------------
(***************************************************************************)
(* The initial states, and the steps of the peers and of the listener.     *)
(***************************************************************************)
LEMMA InitEstablishes == Init => IInv
<1> SUFFICES ASSUME Init PROVE IInv
  OBVIOUS
<1>1. Len(traders) = 0 /\ Len(handed) = 0 /\ traders \in Seq(Trader) /\ handed \in Seq(Call)
  BY EmptySeq DEF Init
<1>2. Ranges
  BY <1>1, ConstantsAre DEF Init, Ranges
<1>3. Sockets /\ Unserved
  BY <1>1 DEF Init, Sockets, Unserved, Fresh
<1>4. OneSlot /\ Open /\ Slots
  BY <1>1 DEF OneSlot, Open, Slots
<1>5. Calls
  BY <1>1 DEF Calls, InOrder
<1> QED BY <1>2, <1>3, <1>4, <1>5 DEF IInv

\* A connection and its slot that no callback touches are as far as before.
LEMMA ProgressStays ==
  ASSUME NEW j, NEW d, NEW m, traders'[j] = traders[j], read'[d] = read[d],
         handed' = handed, script' = script,
         Progress(traders[j], j, d, m, read[d], handed)
  PROVE  Progress(traders[j], j, d, m, read[d], handed)'
<1> QED BY DEF Progress, Orders

\* Steps that do not touch what these parts speak of.
LEMMA SlotsStay ==
  ASSUME OneSlot, Open, Slots, UNCHANGED <<script, read, fd, traders, handed>>
  PROVE  OneSlot' /\ Open' /\ Slots'
<1>1. OneSlot' /\ Open'
  BY DEF OneSlot, Open
<1>2. Slots'
  <2> SUFFICES ASSUME NEW i \in 1..Len(traders), NEW c \in Conns,
                      traders[i].fd # 0, traders[i].fd = fd[c]
               PROVE  \E k \in Nat : Progress(traders[i], i, c, k, read[c], handed)'
    BY DEF Slots
  <2>1. PICK k \in Nat : Progress(traders[i], i, c, k, read[c], handed)
    BY DEF Slots
  <2>2. Progress(traders[i], i, c, k, read[c], handed)'
    BY <2>1, ProgressStays
  <2> QED BY <2>2
<1> QED BY <1>1, <1>2

LEMMA InOrderStays ==
  ASSUME Ranges, InOrder, UNCHANGED <<script, handed>>, sent' \in [Conns -> Nat],
         \A d \in Conns : sent[d] <= sent'[d]
  PROVE  InOrder'
<1>1. \A h \in 1..Len(handed) : handed[h].conn \in Conns
  <2> TAKE h \in 1..Len(handed)
  <2>1. handed[h] \in Call
    BY ElementOfSeq DEF Ranges
  <2> QED BY <2>1 DEF Call
<1>2. \A h \in 1..Len(handed) :
        handed[h].msg \in Orders(handed[h].conn, sent'[handed[h].conn])
  <2> TAKE h \in 1..Len(handed)
  <2>1. handed[h].msg \in Orders(handed[h].conn, sent[handed[h].conn])
    BY DEF InOrder
  <2>2. sent[handed[h].conn] \in Nat /\ sent'[handed[h].conn] \in Nat
    BY <1>1 DEF Ranges
  <2> QED BY <1>1, <2>1, <2>2, OrdersGrow
<1>3. \A c, n : (script[c][n])' = script[c][n]
  OBVIOUS
<1>4. \A c, n : Orders(c, n)' = Orders(c, n)
  BY DEF Orders
<1>5. ASSUME NEW h \in 1..Len(handed)
      PROVE  /\ (handed[h].msg \in Orders(handed[h].conn, sent[handed[h].conn]))'
             /\ \A n \in Orders(handed[h].conn, handed[h].msg)' :
                  \E g \in 1..h : handed[g].conn = handed[h].conn /\ handed[g].msg = n
  <2>1. PICK c : c = handed[h].conn
    OBVIOUS
  <2>2. PICK n : n = sent'[c]
    OBVIOUS
  <2>3. PICK m : m = handed[h].msg
    OBVIOUS
  <2>4. m \in Orders(c, n)'
    BY <1>2, <1>4, <2>1, <2>2, <2>3
  <2>5. \A k \in Orders(c, m)' : \E g \in 1..h : handed[g].conn = c /\ handed[g].msg = k
    <3>1. \A k \in Orders(c, m) : \E g \in 1..h : handed[g].conn = c /\ handed[g].msg = k
      <4>1. \A k \in Orders(handed[h].conn, handed[h].msg) :
              \E g \in 1..h : handed[g].conn = handed[h].conn /\ handed[g].msg = k
        BY DEF InOrder
      <4> QED BY <2>1, <2>3, <4>1
    <3>2. Orders(c, m)' = Orders(c, m)
      BY <1>4
    <3> QED BY <3>1, <3>2, Zenon
  <2> QED BY <2>1, <2>2, <2>3, <2>4, <2>5 DEF Orders
<1>6. \A h \in 1..Len(handed) : \A g \in 1..(h - 1) :
        handed[g].conn = handed[h].conn => handed[g].msg < handed[h].msg
  BY DEF InOrder
<1>7. \A h, g \in 1..Len(handed) :
        handed[h].trader = handed[g].trader <=> handed[h].conn = handed[g].conn
  BY DEF InOrder
<1>8. InOrder'
  <2> SUFFICES ASSUME NEW h \in 1..Len(handed)
               PROVE  /\ (handed[h].msg \in Orders(handed[h].conn, sent[handed[h].conn]))'
                      /\ \A g \in 1..(h - 1) :
                           handed[g].conn = handed[h].conn => handed[g].msg < handed[h].msg
                      /\ \A n \in Orders(handed[h].conn, handed[h].msg)' :
                           \E g \in 1..h : handed[g].conn = handed[h].conn /\ handed[g].msg = n
    BY <1>7 DEF InOrder
  <2> QED BY <1>5, <1>6
<1> QED BY <1>8

LEMMA CallsStay ==
  ASSUME Ranges, Calls, UNCHANGED <<script, traders, handed>>, sent' \in [Conns -> Nat],
         \A d \in Conns : sent[d] <= sent'[d]
  PROVE  Calls'
<1>1. InOrder'
  BY InOrderStays DEF Calls
<1> QED BY <1>1 DEF Calls

LEMMA SendNextKeeps ==
  ASSUME IInv, NEW c \in Conns, SendNext(c)
  PROVE  IInv'
<1> USE DEF IInv, SendNext
<1>1. sent' \in [Conns -> Nat] /\ \A d \in Conns : sent[d] <= sent'[d]
  BY DEF Ranges
<1>2. \A d \in Conns : read[d] <= 2 * sent'[d]
  BY <1>1 DEF Ranges
<1>3. Ranges'
  BY <1>1, <1>2 DEF Ranges
<1>4. Sockets' /\ Unserved'
  BY DEF Sockets, Unserved, Fresh
<1>5. OneSlot' /\ Open' /\ Slots'
  BY SlotsStay
<1>6. Calls'
  BY <1>1, CallsStay
<1> QED BY <1>3, <1>4, <1>5, <1>6

LEMMA ShutKeeps ==
  ASSUME IInv, NEW c \in Conns, Shut(c)
  PROVE  IInv'
<1> USE DEF IInv, Shut
<1>1. Ranges'
  BY DEF Ranges
<1>2. \A d \in Conns : peer'[d] = "away" => peer[d] = "away"
  BY DEF Ranges
<1>3. Sockets' /\ Unserved'
  BY <1>2 DEF Sockets, Unserved, Fresh
<1>4. OneSlot' /\ Open' /\ Slots'
  BY SlotsStay
<1>5. sent' \in [Conns -> Nat] /\ \A d \in Conns : sent[d] <= sent'[d]
  BY DEF Ranges
<1>6. Calls'
  BY <1>5, CallsStay
<1> QED BY <1>1, <1>3, <1>4, <1>6

LEMMA AcceptFailsKeeps ==
  ASSUME IInv, NEW c \in Conns, AcceptFails(c)
  PROVE  IInv'
<1> USE DEF IInv, AcceptFails, peers
<1>1. Ranges' /\ Sockets' /\ Unserved'
  BY DEF Ranges, Sockets, Unserved, Fresh
<1>2. OneSlot' /\ Open' /\ Slots'
  BY SlotsStay
<1>3. sent' \in [Conns -> Nat] /\ \A d \in Conns : sent[d] <= sent'[d]
  BY DEF Ranges
<1>4. Calls'
  BY <1>3, CallsStay
<1> QED BY <1>1, <1>2, <1>4

LEMMA AcceptKeeps ==
  ASSUME IInv, NEW c \in Conns, Accept(c)
  PROVE  IInv'
<1> USE DEF IInv
<1> DEFINE f == Min(FreeFds)
<1>0. /\ peer[c] = "away" /\ peer' = [peer EXCEPT ![c] = "open"]
      /\ fd' = [fd EXCEPT ![c] = f] /\ armed' \subseteq armed \cup {c}
      /\ UNCHANGED <<script, sent, read, traders, handed>>
  BY DEF Accept
<1>1. fd[c] = 0 /\ Fresh(c)
  BY <1>0 DEF Sockets
<1>2. f \in 1..ConnsNum /\ \A d \in Conns : fd[d] # f
  BY <1>1, SomeFdIsFree DEF Ranges
<1> HIDE DEF f
<1>3. f # 0 /\ f \in 0..ConnsNum
  BY <1>2, ConstantsAre
<1>4. \A i \in 1..Len(traders) : traders[i].fd # f
  BY <1>2, <1>3 DEF Open
<1>5. fd' \in [Conns -> 0..ConnsNum] /\ fd'[c] = f /\ \A d \in Conns \ {c} : fd'[d] = fd[d]
  BY <1>0, <1>3 DEF Ranges
<1>6. /\ peer' \in [Conns -> {"away", "open", "shut"}]
      /\ \A d \in Conns : peer'[d] = "away" => peer[d] = "away" /\ d # c
  BY <1>0 DEF Ranges
<1>7. Ranges'
  BY <1>0, <1>5, <1>6 DEF Ranges
<1>8. \A d \in Conns : Fresh(d) => Fresh(d)'
  BY <1>0 DEF Fresh
<1>9. Sockets'
  <2>1. \A d, e \in Conns : fd'[d] # 0 /\ fd'[d] = fd'[e] => d = e
    BY <1>2, <1>5 DEF Sockets
  <2>2. \A d \in Conns : peer'[d] = "away" => fd'[d] = 0 /\ Fresh(d)'
    BY <1>5, <1>6, <1>8 DEF Sockets
  <2>3. \A d \in armed' : fd'[d] # 0
    BY <1>0, <1>3, <1>5 DEF Sockets, Ranges
  <2> QED BY <2>1, <2>2, <2>3 DEF Sockets
<1>10. Unserved'
  <2> SUFFICES ASSUME NEW d \in Conns, fd'[d] # 0,
                      \A i \in 1..Len(traders) : traders[i].fd # fd'[d]
               PROVE  Fresh(d)'
    BY <1>0 DEF Unserved
  <2> QED BY <1>1, <1>5, <1>8 DEF Unserved
<1>11. OneSlot'
  BY <1>0 DEF OneSlot
<1>12. Open'
  <2> SUFFICES ASSUME NEW i \in 1..Len(traders), traders[i].fd # 0
               PROVE  \E d \in Conns : fd'[d] = traders[i].fd
    BY <1>0 DEF Open
  <2>1. PICK d \in Conns : fd[d] = traders[i].fd
    BY DEF Open
  <2> QED BY <1>1, <1>5, <2>1
<1>13. Slots'
  <2> SUFFICES ASSUME NEW i \in 1..Len(traders), NEW d \in Conns,
                      traders[i].fd # 0, traders[i].fd = fd'[d]
               PROVE  \E k \in Nat : Progress(traders[i], i, d, k, read[d], handed)'
    BY <1>0 DEF Slots
  <2>1. d # c /\ traders[i].fd = fd[d]
    BY <1>4, <1>5
  <2>2. PICK k \in Nat : Progress(traders[i], i, d, k, read[d], handed)
    BY <2>1 DEF Slots
  <2>3. Progress(traders[i], i, d, k, read[d], handed)'
    BY <1>0, <2>2, ProgressStays
  <2> QED BY <2>3
<1>14. sent' \in [Conns -> Nat] /\ \A d \in Conns : sent[d] <= sent'[d]
  BY <1>0 DEF Ranges
<1>15. Calls'
  BY <1>0, <1>14, CallsStay
<1> QED BY <1>7, <1>9, <1>10, <1>11, <1>12, <1>13, <1>15

-----------------------------------------------------------------------------
(***************************************************************************)
(* An event serves the trader of the socket, be it one that has a slot or  *)
(* a new one; it may deal with one more message, and pass on its order.    *)
(***************************************************************************)
Serves(c, i, t, k) ==
  /\ i \in 1..(Len(traders) + 1) /\ i <= MaxTraders
  /\ t \in Trader /\ t.fd = fd[c] /\ fd[c] # 0
  /\ k \in Nat /\ Progress(t, i, c, k, read[c], handed)
  /\ \A j \in 1..Len(traders) : traders[j].fd = fd[c] <=> j = i

Turned(c) == Close(c) /\ UNCHANGED <<traders, read, answers, handed>>

LEMMA EventServes ==
  ASSUME IInv, NEW c \in Conns, Event(c)
  PROVE  \/ Turned(c) /\ \A j \in 1..Len(traders) : traders[j].fd # fd[c]
         \/ \E i, t, k : Serves(c, i, t, k) /\ Recv(c, i, t)
<1> USE DEF IInv
<1>1. fd[c] # 0 /\ fd[c] \in 1..ConnsNum /\ fd[c] \in 0..ConnsNum
  BY ConstantsAre DEF Event, Sockets, Ranges
<1>2. Len(traders) \in Nat /\ MaxTraders \in Nat /\ Len(traders) <= MaxTraders
  BY ConstantsAre, LenProperties DEF Ranges
<1>3. PICK i : i = SlotFor(fd[c])
  OBVIOUS
<1>4. \/ i \in 1..Len(traders) /\ traders[i].fd = fd[c]
      \/ i = Len(traders) + 1 /\ \A j \in 1..Len(traders) : traders[j].fd # fd[c]
  BY <1>1, <1>3, SlotIs
<1>5. \/ i <= Len(traders) /\ Recv(c, i, traders[i])
      \/ i > Len(traders) /\ HasRoom(i) /\ Recv(c, i, NewTrader(fd[c]))
      \/ i > Len(traders) /\ Turned(c)
  BY <1>3 DEF Event, Turned
<1>6. CASE i \in 1..Len(traders) /\ traders[i].fd = fd[c]
  <2>1. PICK t : t = traders[i]
    OBVIOUS
  <2>2. t \in Trader /\ t.fd = fd[c]
    BY <1>6, <2>1, ElementOfSeq DEF Ranges
  <2>3. PICK k \in Nat : Progress(t, i, c, k, read[c], handed)
    BY <1>1, <1>6, <2>1 DEF Slots
  <2>4. \A j \in 1..Len(traders) : traders[j].fd = fd[c] <=> j = i
    BY <1>1, <1>6 DEF OneSlot
  <2>5. i \in 1..(Len(traders) + 1) /\ i <= MaxTraders /\ ~(i > Len(traders))
    BY <1>2, <1>6
  <2>6. Recv(c, i, t)
    BY <1>5, <2>1, <2>5
  <2>7. Serves(c, i, t, k)
    BY <1>1, <2>2, <2>3, <2>4, <2>5 DEF Serves
  <2> QED BY <2>6, <2>7
<1>7. CASE i = Len(traders) + 1 /\ \A j \in 1..Len(traders) : traders[j].fd # fd[c]
  <2>1. PICK t : t = NewTrader(fd[c])
    OBVIOUS
  <2>2. Fresh(c)
    BY <1>1, <1>7 DEF Unserved
  <2>3. <<>> \in Seq(Piece)
    BY EmptySeq
  <2>4. t \in Trader /\ t.fd = fd[c] /\ t.active = FALSE /\ t.buffer = <<>>
    BY <1>1, <2>1, <2>3 DEF NewTrader, Trader
  <2>5. t.buffer = Halves(c, 2 * 0, read[c])
    <3>1. Halves(c, 0, 0) \in Seq(Piece) /\ Len(Halves(c, 0, 0)) = 0
      BY HalvesIs
    <3>2. Halves(c, 0, 0) = <<>>
      BY <3>1, EmptySeq
    <3> QED BY <2>2, <2>4, <3>2 DEF Fresh
  <2>6. \A h \in 1..Len(handed) : handed[h].conn # c /\ handed[h].trader # i
    BY <1>2, <1>7, <2>2 DEF Fresh, Calls
  <2>7. Orders(c, 0) = {}
    BY DEF Orders
  <2>8. Progress(t, i, c, 0, read[c], handed)
    BY <2>2, <2>4, <2>5, <2>6, <2>7 DEF Progress, Fresh
  <2>9. i \in 1..(Len(traders) + 1) /\ i > Len(traders) /\ ~(i <= Len(traders))
    BY <1>2, <1>7
  <2>10. CASE Turned(c)
    BY <1>7, <2>10
  <2>11. CASE HasRoom(i) /\ Recv(c, i, t)
    <3>1. \A j \in 1..Len(traders) : traders[j].fd = fd[c] <=> j = i
      BY <1>2, <1>7
    <3>2. Serves(c, i, t, 0)
      BY <1>1, <2>4, <2>8, <2>9, <2>11, <3>1 DEF Serves, HasRoom
    <3> QED BY <2>11, <3>2
  <2> QED BY <1>5, <2>1, <2>9, <2>10, <2>11
<1> QED BY <1>4, <1>6, <1>7

\* The call that hands on the next order.
NextCall(c, i, k) == [trader |-> i, conn |-> c, msg |-> k + 1]
Hands(c, i, k) == /\ k + 1 \in Orders(c, sent[c])
                  /\ handed' = Append(handed, NextCall(c, i, k))

LEMMA HandedIs ==
  ASSUME handed \in Seq(Call), NEW c \in Conns, NEW i \in Nat, NEW k \in Nat,
         handed' = Append(handed, NextCall(c, i, k))
  PROVE  /\ handed' \in Seq(Call) /\ Len(handed') = Len(handed) + 1
         /\ Len(handed) \in Nat
         /\ handed'[Len(handed) + 1] = NextCall(c, i, k)
         /\ \A h \in 1..Len(handed) : handed'[h] = handed[h]
         /\ \A h \in 1..(Len(handed) + 1) : h \in 1..Len(handed) \/ h = Len(handed) + 1
<1>1. NextCall(c, i, k) \in Call
  BY DEF NextCall, Call
<1>2. Len(handed) \in Nat
  BY LenProperties
<1>3. /\ handed' \in Seq(Call) /\ Len(handed') = Len(handed) + 1
      /\ handed'[Len(handed) + 1] = NextCall(c, i, k)
      /\ \A h \in 1..Len(handed) : handed'[h] = handed[h]
  BY <1>1, AppendProperties
<1> QED BY <1>2, <1>3

\* What the others' orders are up to is not affected.
LEMMA OthersProgress ==
  ASSUME IInv, NEW c \in Conns, NEW i, NEW t, NEW k, Serves(c, i, t, k),
         UNCHANGED script, UNCHANGED handed \/ Hands(c, i, k),
         NEW s, NEW j \in Nat, NEW d \in Conns, NEW l \in Nat, NEW r \in Nat, j # i, d # c,
         Progress(s, j, d, l, r, handed)
  PROVE  Progress(s, j, d, l, r, handed)'
<1>1. CASE UNCHANGED handed
  BY <1>1 DEF Progress, Orders
<1>2. CASE Hands(c, i, k)
  <2>1. handed \in Seq(Call) /\ i \in Nat /\ k \in Nat
    BY LenProperties DEF IInv, Ranges, Serves
  <2>2. /\ Len(handed') = Len(handed) + 1 /\ Len(handed) \in Nat
        /\ handed'[Len(handed) + 1].conn = c /\ handed'[Len(handed) + 1].trader = i
        /\ \A h \in 1..Len(handed) : handed'[h] = handed[h]
        /\ \A h \in 1..(Len(handed) + 1) : h \in 1..Len(handed) \/ h = Len(handed) + 1
    BY <1>2, <2>1, HandedIs DEF Hands, NextCall
  <2>3. \A h \in 1..Len(handed') : /\ handed'[h].conn = d <=> handed'[h].trader = j
                                   /\ handed'[h].conn = d => handed'[h].msg <= l
    BY <2>2 DEF Progress
  <2>4. \A n \in Orders(d, l) : \E h \in 1..Len(handed') :
          handed'[h].conn = d /\ handed'[h].msg = n
    <3> TAKE n \in Orders(d, l)
    <3>1. PICK h \in 1..Len(handed) : handed[h].conn = d /\ handed[h].msg = n
      BY DEF Progress
    <3> QED BY <2>2, <3>1
  <2> QED BY <2>3, <2>4 DEF Progress, Orders
<1> QED BY <1>1, <1>2

LEMMA HandsInOrder ==
  ASSUME IInv, NEW c \in Conns, NEW i, NEW t, NEW k, Serves(c, i, t, k),
         UNCHANGED <<script, sent>>, Hands(c, i, k)
  PROVE  InOrder'
<1> DEFINE l == Len(handed)
<1>1. handed \in Seq(Call) /\ i \in Nat /\ k \in Nat
  BY LenProperties DEF IInv, Ranges, Serves
<1>2. /\ Len(handed') = l + 1 /\ l \in Nat
      /\ handed'[l + 1] = NextCall(c, i, k)
      /\ \A h \in 1..l : handed'[h] = handed[h]
      /\ \A h \in 1..(l + 1) : h \in 1..l \/ h = l + 1
  BY <1>1, HandedIs DEF Hands
<1> HIDE DEF l
<1>3. NextCall(c, i, k).conn = c /\ NextCall(c, i, k).trader = i /\ NextCall(c, i, k).msg = k + 1
  BY DEF NextCall
<1>4. Progress(t, i, c, k, read[c], handed)
  BY DEF Serves
<1>5. \A h \in 1..l : /\ handed[h].conn = c <=> handed[h].trader = i
                      /\ handed[h].conn = c => handed[h].msg <= k
  BY <1>4 DEF Progress, l
<1>6. \A n \in Orders(c, k) : \E h \in 1..l : handed[h].conn = c /\ handed[h].msg = n
  BY <1>4 DEF Progress, l
<1>7. InOrder
  BY DEF IInv, Calls
<1>8. \A h, g \in 1..(l + 1) :
        handed'[h].trader = handed'[g].trader <=> handed'[h].conn = handed'[g].conn
  <2> TAKE h, g \in 1..(l + 1)
  <2>1. CASE h \in 1..l /\ g \in 1..l
    BY <1>2, <1>7, <2>1 DEF InOrder, l
  <2>2. CASE h \in 1..l /\ g = l + 1
    BY <1>2, <1>3, <1>5, <2>2
  <2>3. CASE h = l + 1 /\ g \in 1..l
    BY <1>2, <1>3, <1>5, <2>3
  <2>4. CASE h = l + 1 /\ g = l + 1
    BY <2>4
  <2> QED BY <1>2, <2>1, <2>2, <2>3, <2>4
<1>9. \A h \in 1..(l + 1) : \A g \in 1..(h - 1) :
        handed'[g].conn = handed'[h].conn => handed'[g].msg < handed'[h].msg
  <2> TAKE h \in 1..(l + 1)
  <2> TAKE g \in 1..(h - 1)
  <2>1. g \in 1..l
    BY <1>2
  <2>2. CASE h \in 1..l
    BY <1>2, <1>7, <2>1, <2>2 DEF InOrder, l
  <2>3. CASE h = l + 1
    <3>1. handed[g] \in Call
      BY <1>1, <2>1, ElementOfSeq DEF l
    <3>2. handed[g].conn = c => handed[g].msg <= k /\ handed[g].msg \in Nat
      BY <1>5, <2>1, <3>1 DEF Call
    <3>3. \A m \in Nat : m <= k => m < k + 1
      BY <1>1
    <3> QED BY <1>2, <1>3, <2>1, <2>3, <3>2, <3>3
  <2> QED BY <1>2, <2>2, <2>3
<1>10. ASSUME NEW h \in 1..(l + 1)
       PROVE  /\ handed'[h].msg \in Orders(handed'[h].conn, sent[handed'[h].conn])
              /\ \A n \in Orders(handed'[h].conn, handed'[h].msg) :
                   \E g \in 1..h : handed'[g].conn = handed'[h].conn /\ handed'[g].msg = n
  <2>1. CASE h \in 1..l
    <3>1. PICK d : d = handed[h].conn
      OBVIOUS
    <3>2. PICK m : m = handed[h].msg
      OBVIOUS
    <3>3. m \in Orders(d, sent[d])
      BY <1>7, <2>1, <3>1, <3>2 DEF InOrder, l
    <3>4. \A n \in Orders(d, m) : \E g \in 1..h : handed[g].conn = d /\ handed[g].msg = n
      <4>1. \A n \in Orders(handed[h].conn, handed[h].msg) :
              \E g \in 1..h : handed[g].conn = handed[h].conn /\ handed[g].msg = n
        BY <1>7, <2>1 DEF InOrder, l
      <4> QED BY <3>1, <3>2, <4>1
    <3>5. \A g \in 1..h : handed'[g] = handed[g]
      BY <1>2, <2>1
    <3>6. handed'[h].conn = d /\ handed'[h].msg = m
      BY <1>2, <2>1, <3>1, <3>2
    <3>7. \A n \in Orders(d, m) : \E g \in 1..h : handed'[g].conn = d /\ handed'[g].msg = n
      BY <3>4, <3>5
    <3> QED BY <3>3, <3>6, <3>7
  <2>2. CASE h = l + 1
    <3>1. handed'[h].conn = c /\ handed'[h].msg = k + 1
      BY <1>2, <1>3, <2>2
    <3>2. k + 1 \in Orders(c, sent[c])
      BY DEF Hands
    <3>3. ASSUME NEW n \in Orders(c, k + 1)
          PROVE  \E g \in 1..h : handed'[g].conn = c /\ handed'[g].msg = n
      <4>1. h \in 1..h
        BY <1>2
      <4>2. CASE n = k + 1
        BY <3>1, <4>1, <4>2
      <4>3. CASE n # k + 1
        <5>1. PICK g \in 1..l : handed[g].conn = c /\ handed[g].msg = n
          BY <1>1, <1>6, <4>3, OrdersNext
        <5>2. g \in 1..h /\ handed'[g] = handed[g]
          BY <1>2, <2>2
        <5> QED BY <5>1, <5>2
      <4> QED BY <4>2, <4>3
    <3> QED BY <3>1, <3>2, <3>3
  <2> QED BY <1>2, <2>1, <2>2
<1>11. \A d, n : Orders(d, n)' = Orders(d, n)
  BY DEF Orders
<1>12. ASSUME NEW h \in 1..(l + 1)
       PROVE  /\ (handed[h].msg \in Orders(handed[h].conn, sent[handed[h].conn]))'
              /\ (\A n \in Orders(handed[h].conn, handed[h].msg) :
                   \E g \in 1..h : handed[g].conn = handed[h].conn /\ handed[g].msg = n)'
  <2>1. PICK d : d = handed'[h].conn
    OBVIOUS
  <2>2. PICK m : m = handed'[h].msg
    OBVIOUS
  <2>3. PICK n : n = sent[d]
    OBVIOUS
  <2>4. m \in Orders(d, n)'
    BY <1>10, <1>11, <2>1, <2>2, <2>3
  <2>5. \A a \in Orders(d, m) : \E g \in 1..h : handed'[g].conn = d /\ handed'[g].msg = a
    BY <1>10, <2>1, <2>2
  <2>6. Orders(d, m)' = Orders(d, m)
    BY <1>11
  <2>7. \A a : a \in Orders(d, m)' => \E g \in 1..h : handed'[g].conn = d /\ handed'[g].msg = a
    BY <2>5, <2>6
  <2> QED BY <2>1, <2>2, <2>3, <2>4, <2>7 DEF Orders
<1> QED BY <1>2, <1>8, <1>9, <1>12 DEF InOrder, Orders

-----------------------------------------------------------------------------
(***************************************************************************)
(* What a served event leaves behind: the slot with its trader, or the     *)
(* slot empty and the socket closed.                                       *)
(***************************************************************************)
ReadOn(c) ==
  /\ read' \in [Conns -> Nat] /\ read'[c] <= 2 * sent[c]
  /\ \A d \in Conns : d # c => read'[d] = read[d]

Held(c, i, k) ==
  /\ UNCHANGED <<script, peer, sent, fd, armed>> /\ ReadOn(c)
  /\ UNCHANGED handed \/ Hands(c, i, k)
  /\ \E t2 \in Trader, l \in Nat :
       Put(i, t2) /\ t2.fd = fd[c] /\ Progress(t2, i, c, l, read[c], handed)'

Dropped(c, i) ==
  /\ UNCHANGED <<script, peer, sent, handed>> /\ ReadOn(c)
  /\ Put(i, NewTrader(0)) /\ Close(c)

LEMMA HandedKept ==
  ASSUME IInv, NEW c \in Conns, NEW i, NEW t, NEW k, Serves(c, i, t, k),
         UNCHANGED <<script, sent>>, UNCHANGED handed \/ Hands(c, i, k),
         traders' \in Seq(Trader), Len(traders) <= Len(traders'), i <= Len(traders')
  PROVE  /\ handed' \in Seq(Call) /\ Calls'
         /\ \A d \in Conns : d # c /\ (\A h \in 1..Len(handed) : handed[h].conn # d)
              => \A h \in 1..Len(handed') : handed'[h].conn # d
<1> USE DEF IInv
<1>0. /\ handed \in Seq(Call) /\ i \in Nat /\ i >= 1 /\ k \in Nat
      /\ Len(traders) \in Nat /\ Len(traders') \in Nat
  BY LenProperties DEF Ranges, Serves
<1>1. \A h \in 1..Len(handed) : handed[h].trader \in 1..Len(traders')
  BY <1>0 DEF Calls
<1>2. CASE UNCHANGED handed
  <2>1. InOrder'
    <3>1. sent' \in [Conns -> Nat] /\ \A d \in Conns : sent[d] <= sent'[d]
      BY DEF Ranges
    <3> QED BY <1>2, <3>1, InOrderStays DEF Calls
  <2> QED BY <1>0, <1>1, <1>2, <2>1 DEF Calls
<1>3. CASE Hands(c, i, k)
  <2>1. InOrder'
    BY <1>3, HandsInOrder
  <2>2. /\ handed' \in Seq(Call) /\ Len(handed') = Len(handed) + 1
        /\ handed'[Len(handed) + 1] = NextCall(c, i, k)
        /\ \A h \in 1..Len(handed) : handed'[h] = handed[h]
        /\ \A h \in 1..(Len(handed) + 1) : h \in 1..Len(handed) \/ h = Len(handed) + 1
    BY <1>0, <1>3, HandedIs DEF Hands
  <2>3. NextCall(c, i, k).conn = c /\ NextCall(c, i, k).trader = i
    BY DEF NextCall
  <2>4. \A h \in 1..Len(handed') : handed'[h].trader \in 1..Len(traders')
    BY <1>0, <1>1, <2>2, <2>3
  <2> QED BY <2>1, <2>2, <2>3, <2>4 DEF Calls
<1> QED BY <1>2, <1>3

LEMMA HeldKeeps ==
  ASSUME IInv, NEW c \in Conns, NEW i, NEW t, NEW k, Serves(c, i, t, k), Held(c, i, k)
  PROVE  IInv'
<1> USE DEF IInv
<1>0. PICK t2 \in Trader, l \in Nat :
        Put(i, t2) /\ t2.fd = fd[c] /\ Progress(t2, i, c, l, read[c], handed)'
  BY DEF Held
<1>1. /\ UNCHANGED <<script, peer, sent, fd, armed>> /\ ReadOn(c)
      /\ UNCHANGED handed \/ Hands(c, i, k)
  BY DEF Held
<1>2. /\ i \in 1..(Len(traders) + 1) /\ i <= MaxTraders /\ fd[c] # 0
      /\ \A j \in 1..Len(traders) : traders[j].fd = fd[c] <=> j = i
  BY DEF Serves
<1>3. traders \in Seq(Trader) /\ Len(traders) <= MaxTraders /\ Len(traders) \in Nat
  BY LenProperties DEF Ranges
<1>4. /\ traders' \in Seq(Trader)
      /\ Len(traders') = IF i = Len(traders) + 1 THEN i ELSE Len(traders)
      /\ traders'[i] = t2
      /\ \A j \in 1..Len(traders) : j # i => traders'[j] = traders[j]
  BY <1>0, <1>2, <1>3, PutIs
<1>5. /\ Len(traders) <= Len(traders') /\ i <= Len(traders') /\ Len(traders') <= MaxTraders
      /\ i \in 1..Len(traders') /\ i \in Nat
      /\ \A j \in 1..Len(traders) : j \in 1..Len(traders')
      /\ \A j \in 1..Len(traders') : j # i => j \in 1..Len(traders)
  BY <1>2, <1>3, <1>4
<1>6. /\ handed' \in Seq(Call) /\ Calls'
      /\ \A d \in Conns : d # c /\ (\A h \in 1..Len(handed) : handed[h].conn # d)
           => \A h \in 1..Len(handed') : handed'[h].conn # d
  BY <1>1, <1>4, <1>5, HandedKept
<1>7. \A d \in Conns : d # c /\ Fresh(d) => Fresh(d)'
  BY <1>1, <1>6 DEF Fresh, ReadOn
<1>8. peer[c] # "away"
  BY <1>2 DEF Sockets
<1>9. Ranges'
  <2>1. \A d \in Conns : read'[d] <= 2 * sent[d]
    BY <1>1 DEF Ranges, ReadOn
  <2> QED BY <1>1, <1>4, <1>5, <1>6, <2>1 DEF Ranges, ReadOn
<1>10. Sockets'
  BY <1>1, <1>7, <1>8 DEF Sockets
<1>11. Unserved'
  <2> SUFFICES ASSUME NEW d \in Conns, fd[d] # 0,
                      \A j \in 1..Len(traders') : traders'[j].fd # fd[d]
               PROVE  Fresh(d)'
    BY <1>1 DEF Unserved
  <2>1. d # c
    BY <1>0, <1>4, <1>5
  <2>2. \A j \in 1..Len(traders) : traders[j].fd # fd[d]
    <3> TAKE j \in 1..Len(traders)
    <3>1. CASE j # i
      BY <1>4, <1>5, <3>1
    <3>2. CASE j = i
      BY <1>2, <2>1, <3>2 DEF Sockets
    <3> QED BY <3>1, <3>2
  <2> QED BY <1>7, <2>1, <2>2 DEF Unserved
<1>12. \A j \in 1..Len(traders') : traders'[j].fd = fd[c] <=> j = i
  BY <1>0, <1>2, <1>4, <1>5
<1>13. \A j \in 1..Len(traders') : j # i => traders'[j] = traders[j]
  BY <1>4, <1>5
<1>14. OneSlot'
  <2> SUFFICES ASSUME NEW a \in 1..Len(traders'), NEW b \in 1..Len(traders'),
                      traders'[a].fd # 0, traders'[a].fd = traders'[b].fd
               PROVE  a = b
    BY DEF OneSlot
  <2>1. CASE a = i \/ b = i
    BY <1>12, <2>1
  <2>2. CASE a # i /\ b # i
    BY <1>5, <1>13, <2>2 DEF OneSlot
  <2> QED BY <2>1, <2>2
<1>15. Open'
  <2> SUFFICES ASSUME NEW j \in 1..Len(traders'), traders'[j].fd # 0
               PROVE  \E d \in Conns : fd[d] = traders'[j].fd
    BY <1>1 DEF Open
  <2>1. CASE j = i
    BY <1>12, <2>1
  <2>2. CASE j # i
    BY <1>5, <1>13, <2>2 DEF Open
  <2> QED BY <2>1, <2>2
<1>16. Slots'
  <2> SUFFICES ASSUME NEW j \in 1..Len(traders'), NEW d \in Conns,
                      traders'[j].fd # 0, traders'[j].fd = fd[d]
               PROVE  \E m \in Nat : Progress(traders[j], j, d, m, read[d], handed)'
    BY <1>1 DEF Slots
  <2>1. CASE j = i
    <3>1. d = c
      BY <1>2, <1>12, <2>1 DEF Sockets
    <3> QED BY <1>0, <1>4, <2>1, <3>1
  <2>2. CASE j # i
    <3>1. d # c
      BY <1>12, <2>2
    <3>2. j \in 1..Len(traders) /\ traders'[j] = traders[j]
      BY <1>5, <1>13, <2>2
    <3>3. PICK m \in Nat : Progress(traders[j], j, d, m, read[d], handed)
      BY <3>2 DEF Slots
    <3>4. PICK s : s = traders[j]
      OBVIOUS
    <3>5. PICK r : r = read[d]
      OBVIOUS
    <3>6. r \in Nat /\ r = read'[d] /\ s = traders'[j]
      BY <1>1, <3>1, <3>2, <3>4, <3>5 DEF Ranges, ReadOn
    <3>7. Progress(s, j, d, m, r, handed)
      BY <3>3, <3>4, <3>5
    <3>8. Progress(s, j, d, m, r, handed)'
      BY <1>1, <2>2, <3>1, <3>6, <3>7, OthersProgress
    <3> QED BY <3>6, <3>8 DEF Progress, Orders
  <2> QED BY <2>1, <2>2
<1> QED BY <1>6, <1>9, <1>10, <1>11, <1>14, <1>15, <1>16

\* After a close only slots of other sockets are taken, and all of those are.
LEMMA ClosedKeeps ==
  ASSUME IInv, NEW c \in Conns, fd[c] # 0, Close(c), ReadOn(c),
         UNCHANGED <<script, peer, sent, handed>>,
         traders' \in Seq(Trader), Len(traders) <= Len(traders'), Len(traders') <= MaxTraders,
         \A j \in 1..Len(traders) : traders[j].fd # fd[c] => traders'[j] = traders[j],
         \A j \in 1..Len(traders') : traders'[j].fd # 0 =>
           j \in 1..Len(traders) /\ traders'[j] = traders[j] /\ traders[j].fd # fd[c]
  PROVE  IInv'
<1> USE DEF IInv
<1>1. /\ fd' \in [Conns -> 0..ConnsNum] /\ fd'[c] = 0
      /\ \A d \in Conns : d # c => fd'[d] = fd[d]
  BY ConstantsAre DEF Close, Ranges
<1>2. Len(traders) \in Nat /\ Len(traders') \in Nat /\ \A j \in 1..Len(traders) : j \in 1..Len(traders')
  BY LenProperties DEF Ranges
<1>3. Ranges'
  <2>1. \A d \in Conns : read'[d] <= 2 * sent[d]
    BY DEF Ranges, ReadOn
  <2> QED BY <1>1, <2>1 DEF Ranges, ReadOn, Close
<1>4. \A d \in Conns : d # c /\ Fresh(d) => Fresh(d)'
  BY DEF Fresh, ReadOn
<1>5. peer[c] # "away"
  BY DEF Sockets
<1>6. Sockets'
  <2>1. \A d, e \in Conns : fd'[d] # 0 /\ fd'[d] = fd'[e] => d = e
    BY <1>1 DEF Sockets
  <2>2. \A d \in Conns : peer[d] = "away" => fd'[d] = 0 /\ Fresh(d)'
    BY <1>1, <1>4, <1>5 DEF Sockets
  <2>3. \A d \in armed' : fd'[d] # 0
    BY <1>1 DEF Sockets, Close, Ranges
  <2> QED BY <2>1, <2>2, <2>3 DEF Sockets
<1>7. Unserved'
  <2> SUFFICES ASSUME NEW d \in Conns, fd'[d] # 0,
                      \A j \in 1..Len(traders') : traders'[j].fd # fd'[d]
               PROVE  Fresh(d)'
    BY DEF Unserved
  <2>1. d # c /\ fd[d] # fd[c] /\ fd'[d] = fd[d] /\ fd[d] # 0
    BY <1>1 DEF Sockets
  <2>2. \A j \in 1..Len(traders) : traders[j].fd # fd[d]
    BY <1>2, <2>1
  <2> QED BY <1>4, <2>1, <2>2 DEF Unserved
<1>8. OneSlot'
  <2> SUFFICES ASSUME NEW a \in 1..Len(traders'), NEW b \in 1..Len(traders'),
                      traders'[a].fd # 0, traders'[a].fd = traders'[b].fd
               PROVE  a = b
    BY DEF OneSlot
  <2> QED BY DEF OneSlot
<1>9. Open'
  <2> SUFFICES ASSUME NEW j \in 1..Len(traders'), traders'[j].fd # 0
               PROVE  \E d \in Conns : fd'[d] = traders'[j].fd
    BY DEF Open
  <2>1. j \in 1..Len(traders) /\ traders'[j] = traders[j] /\ traders[j].fd # fd[c]
    OBVIOUS
  <2>2. PICK d \in Conns : fd[d] = traders[j].fd
    BY <2>1 DEF Open
  <2> QED BY <1>1, <2>1, <2>2
<1>10. Slots'
  <2> SUFFICES ASSUME NEW j \in 1..Len(traders'), NEW d \in Conns,
                      traders'[j].fd # 0, traders'[j].fd = fd'[d]
               PROVE  \E m \in Nat : Progress(traders[j], j, d, m, read[d], handed)'
    BY DEF Slots
  <2>1. j \in 1..Len(traders) /\ traders'[j] = traders[j] /\ traders[j].fd # fd[c]
    OBVIOUS
  <2>2. d # c /\ fd'[d] = fd[d]
    BY <1>1
  <2>3. PICK m \in Nat : Progress(traders[j], j, d, m, read[d], handed)
    BY <2>1, <2>2 DEF Slots
  <2>4. read'[d] = read[d]
    BY <2>2 DEF ReadOn
  <2>5. Progress(traders[j], j, d, m, read[d], handed)'
    BY <2>1, <2>3, <2>4, ProgressStays
  <2> QED BY <2>5
<1>11. Calls'
  <2>1. InOrder'
    <3>1. sent' \in [Conns -> Nat] /\ \A d \in Conns : sent[d] <= sent'[d]
      BY DEF Ranges
    <3> QED BY <3>1, InOrderStays DEF Calls
  <2>2. \A h \in 1..Len(handed) : handed[h].trader \in 1..Len(traders')
    BY <1>2 DEF Calls
  <2> QED BY <2>1, <2>2 DEF Calls
<1> QED BY <1>3, <1>6, <1>7, <1>8, <1>9, <1>10, <1>11

LEMMA DroppedKeeps ==
  ASSUME IInv, NEW c \in Conns, NEW i, NEW t, NEW k, Serves(c, i, t, k), Dropped(c, i)
  PROVE  IInv'
<1>1. /\ i \in 1..(Len(traders) + 1) /\ i <= MaxTraders /\ fd[c] # 0
      /\ \A j \in 1..Len(traders) : traders[j].fd = fd[c] <=> j = i
  BY DEF Serves
<1>2. traders \in Seq(Trader) /\ Len(traders) <= MaxTraders /\ Len(traders) \in Nat
  BY LenProperties DEF IInv, Ranges
<1>3. NewTrader(0) \in Trader /\ NewTrader(0).fd = 0
  <2>1. <<>> \in Seq(Piece) /\ 0 \in 0..ConnsNum
    BY EmptySeq, ConstantsAre
  <2> QED BY <2>1 DEF NewTrader, Trader
<1>4. /\ traders' \in Seq(Trader)
      /\ Len(traders') = IF i = Len(traders) + 1 THEN i ELSE Len(traders)
      /\ traders'[i] = NewTrader(0)
      /\ \A j \in 1..Len(traders) : j # i => traders'[j] = traders[j]
  BY <1>1, <1>2, <1>3, PutIs DEF Dropped
<1>5. /\ Len(traders) <= Len(traders') /\ Len(traders') <= MaxTraders
      /\ \A j \in 1..Len(traders') : j # i => j \in 1..Len(traders)
  BY <1>1, <1>2, <1>4
<1>6. \A j \in 1..Len(traders) : traders[j].fd # fd[c] => traders'[j] = traders[j]
  BY <1>1, <1>4
<1>7. \A j \in 1..Len(traders') : traders'[j].fd # 0 =>
        j \in 1..Len(traders) /\ traders'[j] = traders[j] /\ traders[j].fd # fd[c]
  BY <1>1, <1>3, <1>4, <1>5
<1> QED BY <1>1, <1>4, <1>5, <1>6, <1>7, ClosedKeeps DEF Dropped

LEMMA TurnedKeeps ==
  ASSUME IInv, NEW c \in Conns, fd[c] # 0, Turned(c), UNCHANGED peers,
         \A j \in 1..Len(traders) : traders[j].fd # fd[c]
  PROVE  IInv'
<1>1. ReadOn(c)
  BY DEF ReadOn, Turned, IInv, Ranges, peers
<1>2. traders \in Seq(Trader) /\ Len(traders) <= MaxTraders /\ Len(traders) \in Nat
  BY LenProperties DEF IInv, Ranges
<1>3. UNCHANGED <<script, peer, sent, handed, traders>> /\ Close(c)
  BY DEF Turned, peers
<1> QED BY <1>1, <1>2, <1>3, ClosedKeeps

-----------------------------------------------------------------------------
(***************************************************************************)
(* What an event does to the trader it serves, with n halves read.         *)
(***************************************************************************)
LEMMA IncomeMoves ==
  ASSUME IInv, NEW c \in Conns, NEW i, NEW t, NEW k, Serves(c, i, t, k),
         NEW n \in Nat, read[c] <= n, n <= 2 * sent[c], 2 * k + 2 <= n,
         UNCHANGED <<script, peer, sent>>, ReadOn(c), read'[c] = n,
         NEW u \in Trader, u.fd = t.fd, u.active = t.active,
         u.buffer = Halves(c, 2 * (k + 1), n),
         DoIncome(c, i, u, [conn |-> c, msg |-> k + 1])
  PROVE  Held(c, i, k) \/ Dropped(c, i)
<1> DEFINE kind == script[c][k + 1]
<1>0. /\ k \in Nat /\ 2 * (k + 1) <= n /\ k + 1 \in Nat /\ k + 1 >= 1
      /\ sent[c] \in Nat /\ k + 1 <= sent[c] /\ t \in Trader /\ t.fd = fd[c]
      /\ handed \in Seq(Call) /\ i \in Nat
  BY LenProperties DEF IInv, Ranges, Serves
<1>1. Progress(t, i, c, k, read[c], handed)
  BY DEF Serves
<1>2. /\ IF t.active THEN /\ k >= 1 /\ script[c][1] = "Logon"
                          /\ \A j \in 1..k : script[c][j] # "Logout"
                     ELSE k = 0
      /\ \A m \in Orders(c, k) : \E h \in 1..Len(handed) :
           handed[h].conn = c /\ handed[h].msg = m
      /\ \A h \in 1..Len(handed) : /\ handed[h].conn = c <=> handed[h].trader = i
                                   /\ handed[h].conn = c => handed[h].msg <= k
  BY <1>1 DEF Progress
<1>3. \A h \in 1..Len(handed) : handed[h].conn = c => handed[h].msg <= k + 1
  <2> TAKE h \in 1..Len(handed)
  <2>1. handed[h] \in Call
    BY <1>0, ElementOfSeq
  <2>2. handed[h].msg \in Nat
    BY <2>1 DEF Call
  <2> QED BY <1>0, <1>2, <2>2
\* The next message is neither an order nor a logout, or it is an order
\* that is handed on.
<1>4. ASSUME NEW t2 \in Trader, t2.fd = fd[c], t2.buffer = u.buffer, Put(i, t2),
             UNCHANGED <<fd, armed, handed>>,
             t2.active, k + 1 = 1 \/ t.active, k + 1 = 1 => kind = "Logon",
             kind # "Order", kind # "Logout"
      PROVE  Held(c, i, k)
  <2>1. script[c][1] = "Logon"
    BY <1>0, <1>2, <1>4
  <2>2. \A j \in 1..(k + 1) : script[c][j] # "Logout"
    <3> TAKE j \in 1..(k + 1)
    <3>1. CASE j = k + 1
      BY <1>4, <3>1
    <3>2. CASE j # k + 1
      <4>1. j \in 1..k /\ k + 1 # 1
        BY <1>0, <3>2
      <4> QED BY <1>2, <1>4, <4>1
    <3> QED BY <3>1, <3>2
  <2>3. \A m \in Orders(c, k + 1) : \E h \in 1..Len(handed) :
          handed[h].conn = c /\ handed[h].msg = m
    <3> TAKE m \in Orders(c, k + 1)
    <3>1. m # k + 1
      BY <1>4 DEF Orders
    <3> QED BY <1>0, <1>2, <3>1, OrdersNext
  <2>4. Progress(t2, i, c, k + 1, n, handed)
    BY <1>0, <1>2, <1>3, <1>4, <2>1, <2>2, <2>3 DEF Progress
  <2>5. Progress(t2, i, c, k + 1, n, handed)'
    BY <1>4, <2>4 DEF Progress, Orders
  <2>6. Progress(t2, i, c, k + 1, read[c], handed)'
    BY <2>5
  <2> QED BY <1>0, <1>4, <2>6 DEF Held
<1>5. ASSUME t.active, kind = "Order", Put(i, u), UNCHANGED <<fd, armed>>,
             handed' = Append(handed, NextCall(c, i, k))
      PROVE  Held(c, i, k)
  <2>1. script[c][1] = "Logon" /\ k >= 1
    BY <1>2, <1>5
  <2>2. \A j \in 1..(k + 1) : script[c][j] # "Logout"
    <3> TAKE j \in 1..(k + 1)
    <3>1. CASE j = k + 1
      BY <1>5, <3>1
    <3>2. CASE j # k + 1
      <4>1. j \in 1..k
        BY <1>0, <3>2
      <4> QED BY <1>2, <1>5, <4>1
    <3> QED BY <3>1, <3>2
  <2>3. k + 1 \in Orders(c, sent[c])
    BY <1>0, <1>5, <2>1, <2>2 DEF Orders
  <2>4. Hands(c, i, k)
    BY <1>5, <2>3 DEF Hands
  <2>5. /\ Len(handed') = Len(handed) + 1 /\ Len(handed) \in Nat
        /\ handed'[Len(handed) + 1] = NextCall(c, i, k)
        /\ \A h \in 1..Len(handed) : handed'[h] = handed[h]
        /\ \A h \in 1..(Len(handed) + 1) : h \in 1..Len(handed) \/ h = Len(handed) + 1
    BY <1>0, <1>5, HandedIs
  <2>6. NextCall(c, i, k).conn = c /\ NextCall(c, i, k).trader = i /\ NextCall(c, i, k).msg = k + 1
    BY DEF NextCall
  <2>7. \A h \in 1..Len(handed') : /\ handed'[h].conn = c <=> handed'[h].trader = i
                                   /\ handed'[h].conn = c => handed'[h].msg <= k + 1
    <3> TAKE h \in 1..Len(handed')
    <3>1. CASE h \in 1..Len(handed)
      BY <1>2, <1>3, <2>5, <3>1
    <3>2. CASE h = Len(handed) + 1
      BY <1>0, <2>5, <2>6, <3>2
    <3> QED BY <2>5, <3>1, <3>2
  <2>8. \A m \in Orders(c, k + 1) : \E h \in 1..Len(handed') :
          handed'[h].conn = c /\ handed'[h].msg = m
    <3> TAKE m \in Orders(c, k + 1)
    <3>1. CASE m = k + 1
      <4>1. Len(handed) + 1 \in 1..Len(handed')
        BY <2>5
      <4> QED BY <2>5, <2>6, <3>1, <4>1
    <3>2. CASE m # k + 1
      <4>1. PICK h \in 1..Len(handed) : handed[h].conn = c /\ handed[h].msg = m
        BY <1>0, <1>2, <3>2, OrdersNext
      <4>2. h \in 1..Len(handed') /\ handed'[h] = handed[h]
        BY <2>5
      <4> QED BY <4>1, <4>2
    <3> QED BY <3>1, <3>2
  <2>9. u.active /\ k + 1 >= 1
    BY <1>0, <1>5
  <2>10. Progress(u, i, c, k + 1, read[c], handed)'
    BY <1>0, <2>1, <2>2, <2>7, <2>8, <2>9 DEF Progress, Orders
  <2> QED BY <1>0, <1>5, <2>4, <2>10 DEF Held
<1>6. \/ /\ ~t.active /\ kind = "Logon" /\ UNCHANGED <<fd, armed, handed>>
         /\ Put(i, [u EXCEPT !.active = TRUE])
      \/ Dropped(c, i)
      \/ /\ t.active /\ kind = "Order" /\ Put(i, u) /\ UNCHANGED <<fd, armed>>
         /\ handed' = Append(handed, NextCall(c, i, k))
      \/ /\ t.active /\ kind \in {"Logon", "Bad", "Admin"}
         /\ Put(i, u) /\ UNCHANGED <<fd, armed, handed>>
  BY DEF DoIncome, Logout, Freed, Dropped, StaysOpen, NextCall
<1>7. CASE /\ ~t.active /\ kind = "Logon" /\ UNCHANGED <<fd, armed, handed>>
           /\ Put(i, [u EXCEPT !.active = TRUE])
  <2>1. PICK t2 : t2 = [u EXCEPT !.active = TRUE]
    OBVIOUS
  <2>2. t2 \in Trader /\ t2.fd = fd[c] /\ t2.buffer = u.buffer /\ t2.active = TRUE
    BY <1>0, <2>1 DEF Trader
  <2>3. k + 1 = 1
    BY <1>2, <1>7
  <2> QED BY <1>4, <1>7, <2>1, <2>2, <2>3
<1>8. CASE /\ t.active /\ kind \in {"Logon", "Bad", "Admin"}
           /\ Put(i, u) /\ UNCHANGED <<fd, armed, handed>>
  <2>1. k + 1 # 1
    BY <1>0, <1>2, <1>8
  <2> QED BY <1>0, <1>4, <1>8, <2>1
<1> QED BY <1>5, <1>6, <1>7, <1>8

LEMMA RecvMoves ==
  ASSUME IInv, NEW c \in Conns, NEW i, NEW t, NEW k, Serves(c, i, t, k),
         Recv(c, i, t), UNCHANGED peers
  PROVE  Held(c, i, k) \/ Dropped(c, i)
<1>0. /\ read \in [Conns -> Nat] /\ read[c] \in Nat /\ sent[c] \in Nat
      /\ read[c] <= 2 * sent[c] /\ k \in Nat /\ t \in Trader /\ t.fd = fd[c]
      /\ UNCHANGED <<script, peer, sent>>
  BY DEF IInv, Ranges, Serves, peers
<1>1. /\ Progress(t, i, c, k, read[c], handed)
      /\ 2 * k <= read[c] /\ t.buffer = Halves(c, 2 * k, read[c])
  BY DEF Serves, Progress
<1>2. ASSUME NEW n \in Nat, read[c] <= n, n <= 2 * sent[c],
             read' = [read EXCEPT ![c] = n], NEW v \in Trader,
             v.fd = t.fd, v.active = t.active, v.buffer = Halves(c, 2 * k, n)
      PROVE  /\ ReadOn(c) /\ read'[c] = n
             /\ Put(i, v) /\ StaysOpen /\ UNCHANGED <<answers, handed>> => Held(c, i, k)
             /\ Handle(c, i, v) => Held(c, i, k) \/ Dropped(c, i)
  <2>1. ReadOn(c) /\ read'[c] = n
    BY <1>0, <1>2 DEF ReadOn
  <2>2. Put(i, v) /\ StaysOpen /\ UNCHANGED <<answers, handed>> => Held(c, i, k)
    <3> SUFFICES ASSUME Put(i, v), StaysOpen, UNCHANGED handed
                 PROVE  Held(c, i, k)
      OBVIOUS
    <3>1. 2 * k <= n
      BY <1>0, <1>1, <1>2
    <3>2. Progress(v, i, c, k, n, handed)
      BY <1>1, <1>2, <3>1 DEF Progress
    <3>3. Progress(v, i, c, k, n, handed)'
      BY <1>0, <3>2 DEF Progress, Orders
    <3>4. Progress(v, i, c, k, read[c], handed)'
      BY <2>1, <3>3
    <3> QED BY <1>0, <1>2, <2>1, <3>4 DEF Held, StaysOpen
  <2>3. Handle(c, i, v) => Held(c, i, k) \/ Dropped(c, i)
    <3> SUFFICES ASSUME Handle(c, i, v) PROVE Held(c, i, k) \/ Dropped(c, i)
      OBVIOUS
    <3>1. CASE ~Whole(v.buffer)
      BY <2>2, <3>1 DEF Handle
    <3>2. CASE Whole(v.buffer)
      <4>1. 2 * k \in Nat /\ 2 * k <= n
        BY <1>0, <1>1, <1>2
      <4>2. Len(v.buffer) = n - 2 * k
        BY <1>2, <4>1, HalvesIs
      <4>3. 2 * k + 2 <= n
        BY <1>2, <3>2, <4>1, <4>2 DEF Whole
      <4>4. /\ RestOf(v.buffer) = Halves(c, 2 * (k + 1), n)
            /\ v.buffer[1] = [conn |-> c, msg |-> k + 1]
        BY <1>0, <1>2, <4>3, HalvesRest
      <4>5. PICK u : u = [v EXCEPT !.buffer = RestOf(@)]
        OBVIOUS
      <4>6. 2 * (k + 1) \in Nat /\ 2 * (k + 1) <= n
        BY <1>0, <4>3
      <4>7. RestOf(v.buffer) \in Seq(Piece)
        BY <4>4, <4>6, HalvesIs
      <4>8. /\ u \in Trader /\ u.fd = t.fd /\ u.active = t.active
            /\ u.buffer = Halves(c, 2 * (k + 1), n)
        BY <1>2, <4>4, <4>5, <4>7 DEF Trader
      <4>9. DoIncome(c, i, u, [conn |-> c, msg |-> k + 1])
        BY <3>2, <4>4, <4>5 DEF Handle
      <4> QED BY <1>0, <1>2, <2>1, <4>3, <4>8, <4>9, IncomeMoves
    <3> QED BY <3>1, <3>2
  <2> QED BY <2>1, <2>2, <2>3
<1>3. CASE ~Reads(t, c)
  <2>1. read' = [read EXCEPT ![c] = read[c]]
    BY <1>0, <1>3 DEF Recv
  <2>2. Handle(c, i, t)
    BY <1>3 DEF Recv
  <2>3. read[c] <= read[c]
    BY <1>0
  <2> QED BY <1>0, <1>1, <1>2, <2>1, <2>2, <2>3
<1>4. CASE Reads(t, c)
  <2>1. PICK n \in read[c]..(2 * sent[c]) :
          /\ read' = [read EXCEPT ![c] = n]
          /\ IF n = read[c]
             THEN Put(i, t) /\ StaysOpen /\ UNCHANGED <<answers, handed>>
             ELSE Handle(c, i, [t EXCEPT !.buffer = @ \o Halves(c, read[c], n)])
    BY <1>4 DEF Recv
  <2>2. n \in Nat /\ read[c] <= n /\ n <= 2 * sent[c]
    BY <1>0, <2>1
  <2>3. CASE n = read[c]
    BY <1>0, <1>1, <1>2, <2>1, <2>2, <2>3
  <2>4. CASE n # read[c]
    <3>1. PICK v : v = [t EXCEPT !.buffer = @ \o Halves(c, read[c], n)]
      OBVIOUS
    <3>2. 2 * k \in Nat /\ 2 * k <= n
      BY <1>0, <1>1, <2>2
    <3>3. t.buffer \o Halves(c, read[c], n) = Halves(c, 2 * k, n)
      <4>1. PICK r : r = read[c]
        OBVIOUS
      <4>2. PICK a : a = 2 * k
        OBVIOUS
      <4>3. a \in Nat /\ r \in Nat /\ a <= r /\ r <= n /\ t.buffer = Halves(c, a, r)
        BY <1>0, <1>1, <2>2, <3>2, <4>1, <4>2
      <4>4. Halves(c, a, r) \o Halves(c, r, n) = Halves(c, a, n)
        BY <2>2, <4>3, HalvesAppended
      <4> QED BY <4>1, <4>2, <4>3, <4>4
    <3>4. Halves(c, 2 * k, n) \in Seq(Piece)
      BY <2>2, <3>2, HalvesIs
    <3>5. /\ v \in Trader /\ v.fd = t.fd /\ v.active = t.active
          /\ v.buffer = Halves(c, 2 * k, n)
      BY <1>0, <3>1, <3>3, <3>4 DEF Trader
    <3>6. Handle(c, i, v)
      BY <2>1, <2>4, <3>1
    <3> QED BY <1>2, <2>1, <2>2, <3>5, <3>6
  <2> QED BY <2>3, <2>4
<1> QED BY <1>3, <1>4

LEMMA EventKeeps ==
  ASSUME IInv, NEW c \in Conns, Event(c)
  PROVE  IInv'
<1>1. UNCHANGED peers
  BY DEF Event
<1>2. CASE Turned(c) /\ \A j \in 1..Len(traders) : traders[j].fd # fd[c]
  <2>1. fd[c] # 0
    BY DEF Event, IInv, Sockets
  <2> QED BY <1>1, <1>2, <2>1, TurnedKeeps
<1>3. CASE \E i, t, k : Serves(c, i, t, k) /\ Recv(c, i, t)
  <2>1. PICK i, t, k : Serves(c, i, t, k) /\ Recv(c, i, t)
    BY <1>3
  <2>2. Held(c, i, k) \/ Dropped(c, i)
    BY <1>1, <2>1, RecvMoves
  <2> QED BY <2>1, <2>2, HeldKeeps, DroppedKeeps
<1> QED BY <1>2, <1>3, EventServes

-----------------------------------------------------------------------------
(***************************************************************************)
(* The theorems.                                                           *)
(***************************************************************************)
LEMMA StepKeeps == IInv /\ [Next]_vars => IInv'
<1> SUFFICES ASSUME IInv, [Next]_vars PROVE IInv'
  OBVIOUS
<1>1. CASE Next
  <2>1. PICK c \in Conns :
          SendNext(c) \/ Shut(c) \/ Accept(c) \/ AcceptFails(c) \/ Event(c)
    BY <1>1 DEF Next
  <2> QED BY <2>1, SendNextKeeps, ShutKeeps, AcceptKeeps, AcceptFailsKeeps, EventKeeps
<1>2. CASE UNCHANGED vars
  <2>1. UNCHANGED <<script, peer, sent, read, fd, armed, traders, handed>>
    BY <1>2 DEF vars
  <2>2. Ranges' /\ Sockets' /\ Unserved'
    BY <2>1 DEF IInv, Ranges, Sockets, Unserved, Fresh
  <2>3. sent' \in [Conns -> Nat] /\ \A d \in Conns : sent[d] <= sent'[d]
    BY <2>1 DEF IInv, Ranges
  <2> QED BY <2>1, <2>2, <2>3, SlotsStay, CallsStay DEF IInv
<1> QED BY <1>1, <1>2

LEMMA InvariantHolds == Spec => []IInv
BY InitEstablishes, StepKeeps, PTL DEF Spec

\* Sessions and sockets, for any number of connections and of slots: no slot
\* of market->traders outlives its socket, no socket has two slots, a
\* session's buffer holds what was last read from its own connection, and
\* trader_new never takes more than MAX_TRADERS slots.
THEOREM SessionsBelong == Spec => []BoundToOpen
<1>1. IInv => BoundToOpen
  <2> SUFFICES ASSUME IInv PROVE BoundToOpen
    OBVIOUS
  <2>1. ASSUME NEW i \in 1..Len(traders), traders[i].fd # 0
        PROVE  \E c \in Conns :
                 /\ fd[c] = traders[i].fd
                 /\ traders[i].buffer = Halves(c, read[c] - Len(traders[i].buffer), read[c])
                 /\ \A j \in 1..Len(traders) : traders[j].fd = fd[c] => j = i
    <3>1. PICK c \in Conns : fd[c] = traders[i].fd
      BY <2>1 DEF IInv, Open
    <3>2. PICK k \in Nat : Progress(traders[i], i, c, k, read[c], handed)
      BY <2>1, <3>1 DEF IInv, Slots
    <3>3. PICK b : b = traders[i].buffer
      OBVIOUS
    <3>4. read[c] \in Nat /\ 2 * k \in Nat /\ 2 * k <= read[c] /\ b = Halves(c, 2 * k, read[c])
      BY <3>2, <3>3 DEF Progress, IInv, Ranges
    <3>5. Len(b) = read[c] - 2 * k
      BY <3>4, HalvesIs
    <3>6. read[c] - Len(b) = 2 * k
      BY <3>4, <3>5
    <3>7. \A j \in 1..Len(traders) : traders[j].fd = fd[c] => j = i
      BY <2>1, <3>1 DEF IInv, OneSlot
    <3> QED BY <3>1, <3>3, <3>4, <3>6, <3>7
  <2> QED BY <2>1 DEF BoundToOpen, IInv, Ranges
<1> QED BY <1>1, InvariantHolds, PTL

\* The engine's input, for any scripts of the peers and any pieces their
\* messages come in: do_limit is called with each peer's orders in the order
\* sent, each once and none left out before a later one, only between its
\* Logon and its Logout, and under a trader that no other connection has.
THEOREM OrdersInTurn == Spec => []InOrder
<1>1. IInv => InOrder
  BY DEF IInv, Calls
<1> QED BY <1>1, InvariantHolds, PTL
=============================================================================
