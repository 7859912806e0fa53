--------------------------- MODULE FastBook_proofs ---------------------------
(***************************************************************************)
(* Proofs about the books kept from feeds, for any number of books, levels *)
(* and messages.                                                           *)
(***************************************************************************)
EXTENDS FastBook, SequenceTheorems, FiniteSetTheorems, TLAPS

Level == [seq_num : Nat, size : Nat]
Book == [active : BOOLEAN, join : BOOLEAN, empty : BOOLEAN,
         rptseq : Nat, snpseq : Nat, ob : [Levels -> Level]]

-----------------------------------------------------------------------------
(***************************************************************************)
(* The exchange: how its numbers grow, and what it has on a level.         *)
(***************************************************************************)
LEMMA ConstantsAre ==
  /\ BooksNum \in Nat \ {0} /\ FeedsNum \in {1, 2} /\ MaxSent \in Nat
  /\ 1 \in Books /\ 1 \in Feeds /\ Books \subseteq Nat /\ 0 \notin Books
BY SetAssumption DEF Books, Feeds

LEMMA RptSeqIs ==
  ASSUME NEW b, NEW k \in Nat
  PROVE  IsFiniteSet(Touches(b, k)) /\ RptSeq(b, k) \in Nat
<1>1. IsFiniteSet(1..k)
  BY FS_Interval
<1>2. Touches(b, k) \subseteq 1..k
  BY DEF Touches
<1>3. IsFiniteSet(Touches(b, k))
  BY <1>1, <1>2, FS_Subset
<1> QED BY <1>3, FS_CardinalityType DEF RptSeq

LEMMA RptSeqGrows ==
  ASSUME NEW b, NEW j \in Nat, NEW k \in Nat, j <= k
  PROVE  /\ RptSeq(b, j) <= RptSeq(b, k)
         /\ RptSeq(b, j) = RptSeq(b, k) <=> \A n \in (j + 1)..k : log[n].book # b
<1>1. Touches(b, j) \subseteq Touches(b, k)
  BY DEF Touches
<1>2. IsFiniteSet(Touches(b, k))
  BY RptSeqIs
<1>3. /\ RptSeq(b, j) <= RptSeq(b, k)
      /\ RptSeq(b, j) = RptSeq(b, k) => Touches(b, j) = Touches(b, k)
  BY <1>1, <1>2, FS_Subset DEF RptSeq
<1>4. Touches(b, j) = Touches(b, k) <=> \A n \in (j + 1)..k : log[n].book # b
  <2>1. ASSUME Touches(b, j) = Touches(b, k), NEW n \in (j + 1)..k PROVE log[n].book # b
    <3>1. n \in 1..k /\ n \notin 1..j
      OBVIOUS
    <3> QED BY <2>1, <3>1 DEF Touches
  <2>2. ASSUME \A n \in (j + 1)..k : log[n].book # b PROVE Touches(b, j) = Touches(b, k)
    <3>1. \A n \in 1..k : n \in 1..j \/ n \in (j + 1)..k
      OBVIOUS
    <3> QED BY <1>1, <2>2, <3>1 DEF Touches
  <2> QED BY <2>1, <2>2
<1> QED BY <1>3, <1>4 DEF RptSeq

LEMMA RptSeqNext ==
  ASSUME NEW b, NEW k \in Nat \ {0}
  PROVE  RptSeq(b, k) = IF log[k].book = b THEN RptSeq(b, k - 1) + 1 ELSE RptSeq(b, k - 1)
<1>1. /\ k - 1 \in Nat /\ k \in 1..k /\ k \notin 1..(k - 1)
      /\ \A n \in 1..k : n \in 1..(k - 1) \/ n = k
      /\ \A n \in 1..(k - 1) : n \in 1..k
  OBVIOUS
<1>2. IsFiniteSet(Touches(b, k - 1)) /\ k \notin Touches(b, k - 1)
  BY <1>1, RptSeqIs DEF Touches
<1>3. CASE log[k].book = b
  <2>1. Touches(b, k) = Touches(b, k - 1) \cup {k}
    BY <1>1, <1>3 DEF Touches
  <2> QED BY <1>2, <1>3, <2>1, FS_AddElement DEF RptSeq
<1>4. CASE log[k].book # b
  <2>1. Touches(b, k) = Touches(b, k - 1)
    BY <1>1, <1>4 DEF Touches
  <2> QED BY <1>4, <2>1 DEF RptSeq
<1> QED BY <1>3, <1>4

\* An entry of b counts one more than any message before it.
LEMMA RptSeqPast ==
  ASSUME NEW b, NEW j \in Nat, NEW n \in Nat, j < n, log[n].book = b
  PROVE  RptSeq(b, j) < RptSeq(b, n)
<1>1. n \in Nat \ {0} /\ n - 1 \in Nat /\ j <= n - 1
  OBVIOUS
<1>2. RptSeq(b, n) = RptSeq(b, n - 1) + 1
  BY <1>1, RptSeqNext
<1>3. RptSeq(b, j) <= RptSeq(b, n - 1)
  BY <1>1, RptSeqGrows
<1>4. RptSeq(b, j) \in Nat /\ RptSeq(b, n - 1) \in Nat
  BY <1>1, RptSeqIs
<1> QED BY <1>2, <1>3, <1>4

Touched(b, l, a, m) == \E n \in (a + 1)..m : log[n].book = b /\ log[n].level = l

\* The messages that touched level l of b.
OfLevel(b, l, k) == {n \in Touches(b, k) : log[n].level = l}
LastIn(ns) == CHOOSE n \in ns : \A m \in ns : m <= n
SizeOn(b, ns) == IF ns = {} THEN 0 ELSE IF log[LastIn(ns)].delete THEN 0 ELSE RptSeq(b, LastIn(ns))

LEMMA SizeAtIs ==
  ASSUME NEW b, NEW l, NEW k
  PROVE  /\ SizeAt(b, l, k) = SizeOn(b, OfLevel(b, l, k))
         /\ SizeAt(b, l, k)' = SizeOn(b, OfLevel(b, l, k))'
BY Zenon DEF SizeAt, SizeOn, OfLevel, LastIn

LEMMA LastInIs ==
  ASSUME NEW ns, ns \subseteq Nat, NEW n \in ns, \A m \in ns : m <= n
  PROVE  LastIn(ns) = n
<1>1. LastIn(ns) \in ns /\ \A m \in ns : m <= LastIn(ns)
  BY DEF LastIn
<1>2. LastIn(ns) <= n /\ n <= LastIn(ns) /\ LastIn(ns) \in Nat /\ n \in Nat
  BY <1>1
<1> QED BY <1>2

LEMMA SizeSame ==
  ASSUME NEW b, NEW l, NEW j \in Nat, NEW k \in Nat, j <= k, ~Touched(b, l, j, k)
  PROVE  SizeAt(b, l, j) = SizeAt(b, l, k)
<1>1. \A n \in 1..k : n \in 1..j \/ n \in (j + 1)..k
  OBVIOUS
<1>2. \A n \in 1..j : n \in 1..k
  OBVIOUS
<1>3. OfLevel(b, l, j) = OfLevel(b, l, k)
  BY <1>1, <1>2 DEF OfLevel, Touches, Touched
<1> QED BY <1>3, SizeAtIs

LEMMA SizeOf ==
  ASSUME NEW b, NEW l, NEW k \in Nat, NEW n \in 1..k,
         log[n].book = b, log[n].level = l, ~Touched(b, l, n, k)
  PROVE  SizeAt(b, l, k) = IF log[n].delete THEN 0 ELSE RptSeq(b, n)
<1> DEFINE ns == OfLevel(b, l, k)
<1>1. n \in ns /\ ns \subseteq Nat
  BY DEF OfLevel, Touches
<1>2. \A m \in ns : m <= n
  <2> TAKE m \in ns
  <2>1. m \in 1..k /\ log[m].book = b /\ log[m].level = l
    BY DEF OfLevel, Touches
  <2>2. ~(m \in (n + 1)..k)
    BY <2>1 DEF Touched
  <2> QED BY <2>1, <2>2
<1>3. SizeAt(b, l, k) = SizeOn(b, ns)
  BY SizeAtIs
<1> HIDE DEF ns
<1>4. LastIn(ns) = n /\ ns # {}
  BY <1>1, <1>2, LastInIs
<1> QED BY <1>3, <1>4 DEF SizeOn

\* A level that was touched was touched last by some message.
LEMMA SomeLast ==
  ASSUME NEW b, NEW l, NEW k \in Nat, OfLevel(b, l, k) # {}
  PROVE  \E n \in 1..k : log[n].book = b /\ log[n].level = l /\ ~Touched(b, l, n, k)
<1> DEFINE ns == OfLevel(b, l, k)
           T == {k - n : n \in ns}
<1>1. \A n \in ns : n \in 1..k /\ log[n].book = b /\ log[n].level = l
  BY DEF OfLevel, Touches
<1>2. \A n \in 1..k : log[n].book = b /\ log[n].level = l => n \in ns
  BY DEF OfLevel, Touches
<1> HIDE DEF ns
<1>3. T \subseteq Nat /\ T # {}
  BY <1>1 DEF ns
<1>4. PICK x \in T : \A y \in T : <<y, x>> \notin OpToRel(<, Nat)
  <2> HIDE DEF T
  <2> QED BY <1>3, NatLessThanWellFounded, WFMin, Zenon
<1>5. \A y \in T : ~(y < x)
  <2> HIDE DEF T
  <2> QED BY <1>3, <1>4, Zenon DEF OpToRel
<1>6. PICK n \in ns : x = k - n
  OBVIOUS
<1>7. \A m \in ns : ~(k - m < k - n)
  BY <1>5, <1>6
<1>8. \A m \in (n + 1)..k : m \notin ns
  BY <1>1, <1>7
<1>9. n \in 1..k /\ \A m \in (n + 1)..k : m \in 1..k
  BY <1>1
<1> QED BY <1>1, <1>2, <1>8, <1>9 DEF Touched

\* More messages do not change what was.
LEMMA PastStays ==
  ASSUME NEW b, NEW k \in Nat, \A n \in 1..k : log'[n] = log[n]
  PROVE  /\ RptSeq(b, k)' = RptSeq(b, k)
         /\ \A l : SizeAt(b, l, k)' = SizeAt(b, l, k)
<1>1. \A m \in 0..k : Touches(b, m)' = Touches(b, m)
  BY DEF Touches
<1>2. \A m \in 0..k : RptSeq(b, m)' = RptSeq(b, m)
  BY <1>1 DEF RptSeq
<1>3. ASSUME NEW l PROVE SizeAt(b, l, k)' = SizeAt(b, l, k)
  <2>1. OfLevel(b, l, k)' = OfLevel(b, l, k)
    BY DEF OfLevel, Touches
  <2>2. PICK ns : ns = OfLevel(b, l, k)
    OBVIOUS
  <2>3. /\ SizeAt(b, l, k) = SizeOn(b, ns) /\ SizeAt(b, l, k)' = SizeOn(b, OfLevel(b, l, k))'
        /\ OfLevel(b, l, k)' = ns
    BY <2>1, <2>2, SizeAtIs
  <2>4. SizeOn(b, OfLevel(b, l, k))' = SizeOn(b, ns)'
    BY <2>3 DEF SizeOn
  <2>5. CASE ns = {}
    BY <2>3, <2>4, <2>5 DEF SizeOn
  <2>6. CASE ns # {}
    <3>1. PICK n \in 1..k : log[n].book = b /\ log[n].level = l /\ ~Touched(b, l, n, k)
      BY <2>2, <2>6, SomeLast
    <3>2. n \in ns /\ ns \subseteq Nat
      BY <2>2, <3>1 DEF OfLevel, Touches
    <3>3. \A m \in ns : m <= n
      <4> TAKE m \in ns
      <4>1. m \in 1..k /\ log[m].book = b /\ log[m].level = l
        BY <2>2 DEF OfLevel, Touches
      <4>2. ~(m \in (n + 1)..k)
        BY <3>1, <4>1 DEF Touched
      <4> QED BY <4>1, <4>2
    <3>4. LastIn(ns) = n
      BY <3>2, <3>3, LastInIs
    <3>5. RptSeq(b, n)' = RptSeq(b, n) /\ log'[n] = log[n]
      BY <1>2
    <3>6. SizeOn(b, ns) = IF log[n].delete THEN 0 ELSE RptSeq(b, n)
      BY <2>6, <3>4 DEF SizeOn
    <3>7. SizeOn(b, ns)' = IF log'[n].delete THEN 0 ELSE RptSeq(b, n)'
      BY <2>6, <3>4 DEF SizeOn
    <3> QED BY <2>3, <2>4, <3>5, <3>6, <3>7
  <2> QED BY <2>5, <2>6
<1> QED BY <1>2, <1>3

-----------------------------------------------------------------------------
(***************************************************************************)
(* The inductive invariant, first for any number of feeds.  Its parts are  *)
(* stated of books bks with num as the last message taken, so that they    *)
(* can be said of the books between two parts of a step as well.           *)
(***************************************************************************)
Ranges ==
  /\ log \in Seq(Entries \cup {NoEntry})
  /\ books \in [Books -> Book]
  /\ recv_num \in [Feeds -> 0..Len(log)]
  /\ inc_msg_num \in 0..Len(log) /\ inc_gap_mode \in BOOLEAN
  /\ pc \in {"subscribe", "join", "update", "failed"}
  /\ joining \in Books /\ recovering \in BOOLEAN
  /\ msg_num_init \in Nat /\ msg_num_cur \in Nat
  /\ msg_num_init <= msg_num_cur /\ msg_num_cur <= inc_msg_num
  /\ msg_num_init = 0 <=> msg_num_cur = 0
  /\ snapshot \in [book : 0..BooksNum, last : 0..Len(log)]
  /\ snapshot # NoSnapshot =>
       snapshot.book = joining /\ msg_num_init \in 1..snapshot.last

\* The books before the one that joins are active, those after it are not,
\* and until a book is subscribed it is as fast_books_init leaves it.
Order ==
  /\ pc = "subscribe" => ~recovering /\ \A b \in Books : b >= joining => books[b] = NewBook
  /\ pc = "join" /\ ~recovering => \A b \in Books : b > joining => books[b] = NewBook
  /\ pc = "join" => /\ books[joining].join
                    /\ \A b \in Books : b >= joining <=> ~books[b].active
  /\ pc = "subscribe" => \A b \in Books : b < joining => books[b].active
  /\ pc = "update" => \A b \in Books : books[b].active
  /\ inc_msg_num = 0 => \A b \in Books : ~books[b].active

\* An active book, and the one that joins, counts no entry that did not come.
Tally(bk, b, num) == bk.rptseq <= RptSeq(b, num)
NoEmpty(bk) == \A l \in Levels : bk.ob[l].size = 0 => Absent(bk.ob[l])
Sound(bk, b, num) == bk.active => Tally(bk, b, num) /\ NoEmpty(bk)
Unread(bk) == bk.ob = NewBook.ob /\ bk.rptseq = 0

Tallied ==
  /\ \A b \in Books : Sound(books[b], b, inc_msg_num)
  /\ pc = "join" => Tally(books[joining], joining, inc_msg_num)
  /\ pc = "join" /\ msg_num_init = 0 => Unread(books[joining])

SomeRead == pc # "failed" => \E f \in Feeds : recv_num[f] <= inc_msg_num

FeedsInv == Ranges /\ Order /\ Tallied /\ SomeRead

(***************************************************************************)
(* Then for one feed, or two and one book.  Each active book is the one of *)
(* the exchange after some message m, which for one feed is the last; the  *)
(* book that joins has what messages msg_num_init to msg_num_cur touched.  *)
(***************************************************************************)
\* Where the count of b may be after m.
CountIs(bk, b, m) ==
  IF FeedsNum = 1 THEN bk.rptseq \in {0, RptSeq(b, m)}
  ELSE bk.rptseq = RptSeq(b, m) /\ bk.rptseq # 0

IsAt(bk, b, m, num) ==
  /\ \A l \in Levels : /\ bk.ob[l].size = SizeAt(b, l, m)
                       /\ bk.ob[l].seq_num <= RptSeq(b, m)
  /\ FeedsNum = 1 => m = num

\* The level l of b after messages a + 1 to m, from an empty book.
LevelFrom(level, b, l, a, m) ==
  \/ level = NoLevel /\ ~Touched(b, l, a, m)
  \/ \E n \in (a + 1)..m :
       /\ log[n].book = b /\ log[n].level = l /\ ~Touched(b, l, n, m)
       /\ level = [seq_num |-> RptSeq(b, n), size |-> SizeAt(b, l, n)]

LevelsFrom(bk, b, a, m) == \A l \in Levels : LevelFrom(bk.ob[l], b, l, a, m)

IsFrom(bk, b, init, cur, num) ==
  /\ LevelsFrom(bk, b, init - 1, cur)
  /\ CountIs(bk, b, cur)
  /\ FeedsNum = 1 => \A n \in (cur + 1)..num : log[n] = NoEntry

Exact ==
  /\ \A b \in Books : books[b].active =>
       \E m \in 1..inc_msg_num : /\ IsAt(books[b], b, m, inc_msg_num)
                                 /\ pc # "failed" => CountIs(books[b], b, m)
  /\ pc = "join" /\ msg_num_init # 0 =>
       IsFrom(books[joining], joining, msg_num_init, msg_num_cur, inc_msg_num)
  /\ FeedsNum = 1 => OnlySubscribingFails

\* The feeds and books for which an entry that is dropped is missed.
Safe == FeedsNum = 1 \/ BooksNum = 1

IInv == FeedsInv /\ (Safe => Exact)

-----------------------------------------------------------------------------
(***************************************************************************)
(* The feeds.                                                              *)
(***************************************************************************)
Feed == [recv : [Feeds -> 0..Len(log)], num : 0..Len(log), gap : BOOLEAN,
         next : 0..Len(log)]

\* Without a gap some feed is read.
Open(s) == ~s.gap => \E f \in Feeds : s.recv[f] <= s.num

Took(s, f, n, r) ==
  /\ n > s.num /\ (s.num = 0 \/ n = s.num + 1)
  /\ r.num = n /\ r.gap = FALSE /\ r.next = FirstOf(s.next, n) /\ r.recv[f] = n
Missed(s, r) == r.num = s.num /\ r.next = s.next

LEMMA RecvIs ==
  ASSUME Ranges, NEW s \in Feed, NEW f \in Feeds, NEW n \in 0..Len(log), Open(s)
  PROVE  LET r == RecvIncrement(s, f, n) IN
         r \in Feed /\ Open(r) /\ (Took(s, f, n, r) \/ Missed(s, r))
<1>0. Len(log) \in Nat
  BY LenProperties DEF Ranges
<1>1. CASE Ahead(s, f) \/ n = 0
  BY <1>1 DEF RecvIncrement, Missed
<1>2. CASE ~(Ahead(s, f) \/ n = 0) /\ Continues(s, n)
  <2>1. PICK r : r = [s EXCEPT !.recv[f] = n, !.num = n, !.gap = FALSE, !.next = FirstOf(@, n)]
    OBVIOUS
  <2>2. RecvIncrement(s, f, n) = r
    BY <1>2, <2>1 DEF RecvIncrement, Feed
  <2>3. FirstOf(s.next, n) \in 0..Len(log)
    BY DEF FirstOf, Feed
  <2>4. r \in Feed /\ r.num = n /\ r.gap = FALSE /\ r.next = FirstOf(s.next, n) /\ r.recv[f] = n
    BY <2>1, <2>3 DEF Feed
  <2>5. n > s.num /\ (s.num = 0 \/ n = s.num + 1)
    BY <1>0, <1>2 DEF Continues, Feed
  <2>6. Open(r)
    BY <1>0, <2>4 DEF Open
  <2> QED BY <2>2, <2>4, <2>5, <2>6 DEF Took
<1>3. CASE ~(Ahead(s, f) \/ n = 0) /\ ~Continues(s, n)
  <2>1. PICK r : r = [s EXCEPT !.recv[f] = n, !.gap = @ \/ s.num < n]
    OBVIOUS
  <2>2. RecvIncrement(s, f, n) = r
    BY <1>3, <2>1 DEF RecvIncrement, Feed
  <2>3. (s.gap \/ s.num < n) \in BOOLEAN
    OBVIOUS
  <2>4. /\ r \in Feed /\ r.num = s.num /\ r.next = s.next /\ r.recv[f] = n
        /\ r.gap = (s.gap \/ s.num < n)
        /\ \A g \in Feeds : g # f => r.recv[g] = s.recv[g]
    BY <2>1, <2>3 DEF Feed
  <2>5. Open(r)
    <3> SUFFICES ASSUME ~r.gap PROVE \E g \in Feeds : r.recv[g] <= r.num
      BY DEF Open
    <3>1. ~s.gap /\ ~(s.num < n)
      BY <2>4
    <3>2. n <= s.num
      BY <1>0, <3>1 DEF Feed
    <3>3. PICK g \in Feeds : s.recv[g] <= s.num
      BY <3>1 DEF Open
    <3> QED BY <2>4, <3>2, <3>3
  <2> QED BY <2>2, <2>4, <2>5 DEF Missed
<1> QED BY <1>1, <1>2, <1>3

\* What next_increment hands on is a new entry; with one feed it is the next.
NextIs(f) ==
  /\ f \in Feed /\ inc_msg_num <= f.num
  /\ ~GapLost(f) => \E g \in Feeds : f.recv[g] <= f.num
  /\ f.next = 0 \/ (inc_msg_num < f.next /\ f.next <= f.num /\ log[f.next] \in Entries)
  /\ FeedsNum = 1 =>
       \/ f.num = inc_msg_num /\ f.next = 0
       \/ /\ ~f.gap /\ (inc_msg_num = 0 \/ f.num = inc_msg_num + 1) /\ f.num > inc_msg_num
          /\ f.next = IF log[f.num] = NoEntry THEN 0 ELSE f.num

LEMMA EntriesAre ==
  ASSUME Ranges, NEW n \in 1..Len(log)
  PROVE  /\ log[n] # NoEntry => log[n] \in Entries /\ log[n].book \in Books /\ log[n].level \in Levels
         /\ log[n] = NoEntry => log[n].book \notin Books
<1>1. log[n] \in Entries \cup {NoEntry}
  BY ElementOfSeq DEF Ranges
<1> QED BY <1>1, ConstantsAre DEF Entries, NoEntry

LEMMA NextIncrementIs ==
  ASSUME Ranges, SomeRead, pc # "failed", NEW n \in [Feeds -> 0..Len(log)]
  PROVE  NextIs(NextIncrement(n))
<1>0. Len(log) \in Nat
  BY LenProperties DEF Ranges
<1>1. PICK s : s = FeedState
  OBVIOUS
<1>2. s \in Feed /\ Open(s) /\ s.num = inc_msg_num /\ s.next = 0
  BY <1>0, <1>1 DEF FeedState, Feed, Open, Ranges, SomeRead
<1>3. PICK one : one = RecvIncrement(s, 1, n[1])
  OBVIOUS
<1>4. n[1] \in 0..Len(log) /\ 1 \in Feeds
  BY ConstantsAre
<1>5. one \in Feed /\ Open(one) /\ (Took(s, 1, n[1], one) \/ Missed(s, one))
  BY <1>2, <1>3, <1>4, RecvIs
<1>6. \A f \in Feed : Open(f) /\ ~GapLost(f) => \E g \in Feeds : f.recv[g] <= f.num
  BY DEF Open, GapLost, Ahead, Feed
<1>7. ASSUME NEW m \in 0..Len(log), m > 0, log[m] # NoEntry PROVE log[m] \in Entries
  <2>1. m \in 1..Len(log)
    BY <1>0, <1>7
  <2> QED BY <1>7, <2>1, EntriesAre
<1>8. /\ one.num >= inc_msg_num
      /\ one.next = 0 \/ (inc_msg_num < one.next /\ one.next <= one.num /\ log[one.next] \in Entries)
  <2>1. inc_msg_num \in Nat /\ n[1] \in Nat
    BY <1>0, <1>4 DEF Ranges
  <2>2. CASE Missed(s, one)
    BY <1>2, <2>1, <2>2 DEF Missed
  <2>3. CASE Took(s, 1, n[1], one)
    BY <1>2, <1>4, <1>7, <2>1, <2>3 DEF Took, FirstOf
  <2> QED BY <1>5, <2>2, <2>3
<1>9. CASE FeedsNum = 1
  <2>1. NextIncrement(n) = one
    BY <1>1, <1>3, <1>9 DEF NextIncrement
  <2>2. \/ one.num = inc_msg_num /\ one.next = 0
        \/ /\ ~one.gap /\ (inc_msg_num = 0 \/ one.num = inc_msg_num + 1) /\ one.num > inc_msg_num
           /\ one.next = IF log[one.num] = NoEntry THEN 0 ELSE one.num
    BY <1>2, <1>5 DEF Took, Missed, FirstOf
  <2>3. inc_msg_num <= one.num
    BY <1>0, <1>5, <1>8 DEF Ranges, Feed
  <2> QED BY <1>5, <1>6, <1>8, <2>1, <2>2, <2>3 DEF NextIs
<1>10. CASE FeedsNum # 1
  <2>1. n[2] \in 0..Len(log) /\ 2 \in Feeds
    BY <1>10, ConstantsAre DEF Feeds
  <2>2. PICK r : r = RecvIncrement(one, 2, n[2])
    OBVIOUS
  <2>3. r \in Feed /\ Open(r) /\ (Took(one, 2, n[2], r) \/ Missed(one, r))
    BY <1>5, <2>1, <2>2, RecvIs
  <2>4. NextIncrement(n) = r
    BY <1>1, <1>3, <1>10, <2>2 DEF NextIncrement
  <2>5. /\ inc_msg_num \in Nat /\ n[2] \in Nat /\ one.num \in Nat /\ one.next \in Nat
        /\ r.num \in Nat
    BY <1>0, <1>5, <2>1, <2>3 DEF Ranges, Feed
  <2>6. /\ inc_msg_num <= r.num
        /\ r.next = 0 \/ (inc_msg_num < r.next /\ r.next <= r.num /\ log[r.next] \in Entries)
    <3>1. CASE Missed(one, r)
      BY <1>8, <2>5, <3>1 DEF Missed
    <3>2. CASE Took(one, 2, n[2], r) /\ r.next = one.next
      BY <1>8, <2>5, <3>2 DEF Took
    <3>3. CASE Took(one, 2, n[2], r) /\ r.next # one.next
      BY <1>7, <1>8, <2>1, <2>5, <3>3 DEF Took, FirstOf
    <3> QED BY <2>3, <3>1, <3>2, <3>3
  <2> QED BY <1>6, <1>10, <2>3, <2>4, <2>6 DEF NextIs
<1> QED BY <1>9, <1>10

LEMMA DeliveriesAre ==
  ASSUME Ranges, SomeRead, pc # "failed", NEW f \in Deliveries
  PROVE  NextIs(f)
<1>1. PICK n \in [Feeds -> 0..Len(log)] : f = NextIncrement(n)
  BY DEF Deliveries
<1> QED BY <1>1, NextIncrementIs

-----------------------------------------------------------------------------
(***************************************************************************)
(* An increment.                                                           *)
(***************************************************************************)
LEMMA BookFields ==
  ASSUME Ranges, NEW b \in Books
  PROVE  /\ books[b] \in Book /\ books[b].rptseq \in Nat
         /\ books[b].active \in BOOLEAN /\ books[b].join \in BOOLEAN
         /\ books[b].ob \in [Levels -> Level]
         /\ \A l \in Levels : books[b].ob[l].seq_num \in Nat /\ books[b].ob[l].size \in Nat
BY DEF Ranges, Book, Level

LEMMA NoLevelIs == NoLevel \in Level /\ NewBook.ob \in [Levels -> Level] /\ NewBook \in Book
BY DEF NoLevel, Level, NewBook, Book

\* What the level becomes that entry e touches.
LevelAfter(bk, e, rpt) ==
  IF e.delete THEN IF bk.active THEN NoLevel ELSE [seq_num |-> rpt, size |-> 0]
  ELSE [seq_num |-> rpt, size |-> rpt]

Taken(old, e, rpt, bk) ==
  /\ bk.rptseq = rpt /\ (old.rptseq # 0 => rpt = old.rptseq + 1)
  /\ \A l \in Levels : bk.ob[l] = IF l = e.level THEN LevelAfter(old, e, rpt) ELSE old.ob[l]

Refused(old, rpt, bk) ==
  /\ bk.rptseq = IF old.rptseq = 0 THEN rpt ELSE old.rptseq + 1
  /\ bk.ob = old.ob
  /\ bk.rptseq = rpt => \E l \in Levels : ~(old.ob[l].seq_num < rpt)

\* Book old takes entry e with number rpt, and is bk then.
Applies(old, e, rpt, ok, bk) ==
  /\ bk \in Book /\ bk.active = old.active /\ bk.join = old.join
  /\ bk.rptseq = IF old.rptseq = 0 THEN rpt ELSE old.rptseq + 1
  /\ ok => Taken(old, e, rpt, bk)
  /\ ~ok => Refused(old, rpt, bk)

LEMMA ApplyIs ==
  ASSUME Ranges, NEW n \in 1..Len(log), log[n] \in Entries
  PROVE  LET b == log[n].book
             a == ApplyIncrement(n)
         IN  /\ b \in Books /\ a.ok \in BOOLEAN /\ a.books \in [Books -> Book]
             /\ \A c \in Books : c # b => a.books[c] = books[c]
             /\ ~Takes(books[b]) => a.ok /\ a.books = books
             /\ Takes(books[b]) => Applies(books[b], log[n], RptSeq(b, n), a.ok, a.books[b])
<1>0. Len(log) \in Nat /\ n \in Nat
  BY LenProperties DEF Ranges
<1>1. PICK e : e = log[n]
  OBVIOUS
<1>2. PICK b : b = e.book
  OBVIOUS
<1>3. e.delete \in BOOLEAN /\ e.level \in Levels /\ b \in Books
  BY <1>1, <1>2, EntriesAre DEF Entries
<1>4. PICK rpt : rpt = RptSeq(b, n)
  OBVIOUS
<1>5. rpt \in Nat
  BY <1>0, <1>4, RptSeqIs
<1>6. PICK old : old = books[b]
  OBVIOUS
<1>7. /\ old \in Book /\ old.rptseq \in Nat /\ old.active \in BOOLEAN /\ old.join \in BOOLEAN
      /\ old.ob \in [Levels -> Level]
      /\ \A l \in Levels : old.ob[l].seq_num \in Nat /\ old.ob[l].size \in Nat
  BY <1>3, <1>6, BookFields
<1>8. PICK bk : bk = Counted(old, rpt)
  OBVIOUS
<1>9. /\ bk \in Book /\ bk.active = old.active /\ bk.join = old.join /\ bk.ob = old.ob
      /\ bk.rptseq = IF old.rptseq = 0 THEN rpt ELSE old.rptseq + 1
  <2>1. PICK r : r = IF old.rptseq = 0 THEN rpt ELSE old.rptseq + 1
    OBVIOUS
  <2>2. r \in Nat
    BY <1>5, <1>7, <2>1
  <2>3. bk = [old EXCEPT !.rptseq = r, !.empty = FALSE]
    BY <1>7, <1>8, <2>1 DEF Counted, Book
  <2>4. /\ bk \in Book /\ bk.active = old.active /\ bk.join = old.join /\ bk.ob = old.ob
        /\ bk.rptseq = r
    BY <1>7, <2>2, <2>3 DEF Book
  <2> QED BY <2>1, <2>4
<1>10. PICK a : a = ApplyIncrement(n)
  OBVIOUS
<1>11. a = IF ~Takes(old) THEN [ok |-> TRUE, books |-> books]
           ELSE IF InSequence(bk, rpt) /\ MdIncrementOk(bk, e)
           THEN [ok |-> TRUE, books |-> [books EXCEPT ![b] = MdIncrement(bk, e, rpt)]]
           ELSE [ok |-> FALSE, books |-> [books EXCEPT ![b] = bk]]
  BY <1>1, <1>2, <1>4, <1>6, <1>8, <1>10 DEF ApplyIncrement
<1>12. books \in [Books -> Book]
  BY DEF Ranges
<1>13. CASE ~Takes(old)
  <2>1. a.ok = TRUE /\ a.books = books
    BY <1>11, <1>13
  <2> QED BY <1>1, <1>2, <1>3, <1>6, <1>10, <1>12, <1>13, <2>1
<1>14. CASE Takes(old) /\ ~(InSequence(bk, rpt) /\ MdIncrementOk(bk, e))
  <2>1. a = [ok |-> FALSE, books |-> [books EXCEPT ![b] = bk]]
    BY <1>11, <1>14
  <2>2. /\ a.ok = FALSE /\ a.books \in [Books -> Book] /\ a.books[b] = bk
        /\ \A c \in Books : c # b => a.books[c] = books[c]
    BY <1>3, <1>9, <1>12, <2>1
  <2>3. ~(bk.rptseq = rpt /\ \A l \in Levels : old.ob[l].seq_num < rpt)
    BY <1>3, <1>9, <1>14 DEF InSequence, MdIncrementOk, Modifies
  <2>4. Applies(old, e, rpt, a.ok, bk)
    BY <1>9, <2>2, <2>3 DEF Applies, Taken, Refused
  <2> QED BY <1>1, <1>2, <1>3, <1>4, <1>6, <1>10, <1>14, <2>2, <2>4
<1>15. CASE Takes(old) /\ InSequence(bk, rpt) /\ MdIncrementOk(bk, e)
  <2>1. PICK new : new = MdIncrement(bk, e, rpt)
    OBVIOUS
  <2>2. a = [ok |-> TRUE, books |-> [books EXCEPT ![b] = new]]
    BY <1>11, <1>15, <2>1
  <2>3. bk.rptseq = rpt
    BY <1>15 DEF InSequence
  <2>4. PICK lv : lv = LevelAfter(old, e, rpt)
    OBVIOUS
  <2>5. lv \in Level
    BY <1>5, <2>4, NoLevelIs DEF LevelAfter, Level
  <2>6. new = [bk EXCEPT !.ob[e.level] = lv]
    BY <1>3, <1>7, <1>9, <2>1, <2>3, <2>4 DEF MdIncrement, Modify, LevelAfter
  <2>7. PICK ob : ob = [old.ob EXCEPT ![e.level] = lv]
    OBVIOUS
  <2>8. ob \in [Levels -> Level] /\ \A l \in Levels : ob[l] = IF l = e.level THEN lv ELSE old.ob[l]
    BY <1>3, <1>7, <2>5, <2>7
  <2>9. new = [bk EXCEPT !.ob = ob]
    BY <1>9, <2>6, <2>7 DEF Book
  <2>10. new \in Book /\ new.ob = ob /\ new.active = bk.active /\ new.join = bk.join
         /\ new.rptseq = bk.rptseq
    BY <1>9, <2>8, <2>9 DEF Book
  <2>11. /\ a.ok = TRUE /\ a.books \in [Books -> Book] /\ a.books[b] = new
         /\ \A c \in Books : c # b => a.books[c] = books[c]
    BY <1>3, <1>12, <2>2, <2>10
  <2>12. Applies(old, e, rpt, a.ok, new)
    BY <1>9, <2>3, <2>4, <2>8, <2>10, <2>11 DEF Applies, Taken, Refused
  <2> QED BY <1>1, <1>2, <1>3, <1>4, <1>6, <1>10, <1>15, <2>11, <2>12
<1> QED BY <1>13, <1>14, <1>15

-----------------------------------------------------------------------------
(***************************************************************************)
(* How a book stays the exchange's: by messages that do not touch it, and  *)
(* by the next entry it takes.                                             *)
(***************************************************************************)
LEMMA IsAtOn ==
  ASSUME NEW bk, NEW b, NEW num \in Nat, NEW m \in 1..num, NEW num2 \in Nat, num <= num2,
         IsAt(bk, b, m, num),
         FeedsNum = 1 => \A n \in (num + 1)..num2 : log[n].book # b
  PROVE  \E m2 \in 1..num2 : IsAt(bk, b, m2, num2) /\ (CountIs(bk, b, m) => CountIs(bk, b, m2))
<1>1. CASE FeedsNum = 1
  <2>1. m = num /\ num2 \in 1..num2
    BY <1>1 DEF IsAt
  <2>2. RptSeq(b, m) = RptSeq(b, num2)
    BY <1>1, <2>1, RptSeqGrows
  <2>3. \A l \in Levels : SizeAt(b, l, m) = SizeAt(b, l, num2)
    <3> TAKE l \in Levels
    <3>1. ~Touched(b, l, num, num2)
      BY <1>1 DEF Touched
    <3> QED BY <2>1, <3>1, SizeSame
  <2> QED BY <1>1, <2>1, <2>2, <2>3 DEF IsAt, CountIs
<1>2. CASE FeedsNum # 1
  BY <1>2 DEF IsAt
<1> QED BY <1>1, <1>2

\* Between m and an entry that a book takes next, none was its own.
LEMMA NoneBetween ==
  ASSUME NEW b, NEW m \in Nat, NEW n \in Nat, m < n, log[n].book = b,
         RptSeq(b, n) = RptSeq(b, m) + 1
  PROVE  \A k \in (m + 1)..(n - 1) : log[k].book # b
<1>1. n \in Nat \ {0} /\ n - 1 \in Nat /\ m <= n - 1
  OBVIOUS
<1>2. RptSeq(b, n) = RptSeq(b, n - 1) + 1
  BY <1>1, RptSeqNext
<1>3. RptSeq(b, m) \in Nat /\ RptSeq(b, n - 1) \in Nat
  BY <1>1, RptSeqIs
<1>4. RptSeq(b, m) = RptSeq(b, n - 1)
  BY <1>2, <1>3
<1> QED BY <1>1, <1>4, RptSeqGrows

\* Message n comes after num, and num2 is then the last that was taken.
Follows(n, num, num2) ==
  /\ num \in Nat /\ n \in Nat /\ num2 \in Nat /\ num < n /\ n <= num2
  /\ FeedsNum = 1 => n = num + 1 /\ num2 = n

LEMMA IsAtRefused ==
  ASSUME NEW old \in Book, NEW n, NEW num, NEW num2, Follows(n, num, num2), NEW m \in 1..num,
         NEW b \in Books, log[n].book = b, IsAt(old, b, m, num), CountIs(old, b, m),
         NEW bk, Refused(old, RptSeq(b, n), bk)
  PROVE  FeedsNum # 1 /\ IsAt(bk, b, m, num2)
<1>0. /\ m \in Nat /\ m < n /\ n - 1 \in Nat /\ n \in Nat \ {0}
      /\ FeedsNum = 1 => n = num + 1 /\ num2 = n
  BY DEF Follows
<1>1. RptSeq(b, m) \in Nat /\ RptSeq(b, n) \in Nat /\ RptSeq(b, m) < RptSeq(b, n)
  BY <1>0, RptSeqIs, RptSeqPast
<1>2. /\ \A l \in Levels : old.ob[l].size = SizeAt(b, l, m) /\ old.ob[l].seq_num <= RptSeq(b, m)
      /\ FeedsNum = 1 => m = num
  BY DEF IsAt
<1>3. \A l \in Levels : old.ob[l].seq_num \in Nat
  BY DEF Book, Level
<1>4. \A l \in Levels : old.ob[l].seq_num < RptSeq(b, n)
  BY <1>1, <1>2, <1>3
<1>5. /\ bk.ob = old.ob /\ bk.rptseq # RptSeq(b, n)
      /\ bk.rptseq = IF old.rptseq = 0 THEN RptSeq(b, n) ELSE old.rptseq + 1
  BY <1>4 DEF Refused
<1>6. ASSUME FeedsNum = 1 PROVE FALSE
  <2>1. m = n - 1
    BY <1>0, <1>2, <1>6
  <2>2. RptSeq(b, n) = RptSeq(b, m) + 1
    BY <1>0, <2>1, RptSeqNext
  <2>3. old.rptseq \in {0, RptSeq(b, m)}
    BY <1>6 DEF CountIs
  <2> QED BY <1>1, <1>5, <2>2, <2>3
<1> QED BY <1>2, <1>5, <1>6 DEF IsAt

LEMMA IsAtNext ==
  ASSUME NEW old \in Book, NEW n, NEW num, NEW num2, Follows(n, num, num2), NEW m \in 1..num,
         NEW b \in Books, log[n].book = b, IsAt(old, b, m, num), CountIs(old, b, m),
         NEW bk, Taken(old, log[n], RptSeq(b, n), bk)
  PROVE  IsAt(bk, b, n, num2) /\ CountIs(bk, b, n)
<1>0. /\ m \in Nat /\ m < n /\ n - 1 \in Nat /\ n \in Nat \ {0} /\ n \in 1..n
      /\ FeedsNum = 1 => n = num + 1 /\ num2 = n
  BY DEF Follows
<1>1. RptSeq(b, m) \in Nat /\ RptSeq(b, n) \in Nat /\ RptSeq(b, m) < RptSeq(b, n)
  BY <1>0, RptSeqIs, RptSeqPast
<1>2. /\ \A l \in Levels : old.ob[l].size = SizeAt(b, l, m) /\ old.ob[l].seq_num <= RptSeq(b, m)
      /\ FeedsNum = 1 => m = num
  BY DEF IsAt
<1>3. \A l \in Levels : old.ob[l].seq_num \in Nat
  BY DEF Book, Level
<1>4. /\ bk.rptseq = RptSeq(b, n) /\ (old.rptseq # 0 => RptSeq(b, n) = old.rptseq + 1)
      /\ \A l \in Levels : bk.ob[l] = IF l = log[n].level THEN LevelAfter(old, log[n], RptSeq(b, n))
                                      ELSE old.ob[l]
  BY DEF Taken
<1>5. \A k \in (m + 1)..(n - 1) : log[k].book # b
  <2>1. CASE FeedsNum = 1
    <3>1. m = n - 1
      BY <1>0, <1>2, <2>1
    <3> QED BY <1>0, <3>1
  <2>2. CASE FeedsNum # 1
    <3>1. old.rptseq = RptSeq(b, m) /\ old.rptseq # 0
      BY <2>2 DEF CountIs
    <3>2. RptSeq(b, n) = RptSeq(b, m) + 1
      BY <1>4, <3>1
    <3> QED BY <1>0, <3>2, NoneBetween
  <2> QED BY <2>1, <2>2
<1>6. ASSUME NEW l \in Levels
      PROVE  bk.ob[l].size = SizeAt(b, l, n) /\ bk.ob[l].seq_num <= RptSeq(b, n)
  <2>1. CASE l = log[n].level
    <3>1. ~Touched(b, l, n, n)
      BY <1>0 DEF Touched
    <3>2. SizeAt(b, l, n) = IF log[n].delete THEN 0 ELSE RptSeq(b, n)
      BY <1>0, <2>1, <3>1, SizeOf
    <3>3. bk.ob[l] = LevelAfter(old, log[n], RptSeq(b, n))
      BY <1>4, <2>1
    <3> QED BY <1>1, <3>2, <3>3 DEF LevelAfter, NoLevel
  <2>2. CASE l # log[n].level
    <3>1. \A k \in (m + 1)..n : k \in (m + 1)..(n - 1) \/ k = n
      BY <1>0
    <3>2. ~Touched(b, l, m, n)
      BY <1>5, <2>2, <3>1 DEF Touched
    <3>3. SizeAt(b, l, m) = SizeAt(b, l, n)
      BY <1>0, <3>2, SizeSame
    <3>4. bk.ob[l] = old.ob[l]
      BY <1>4, <2>2
    <3>5. old.ob[l].seq_num <= RptSeq(b, n)
      BY <1>1, <1>2, <1>3
    <3> QED BY <1>2, <3>3, <3>4, <3>5
  <2> QED BY <2>1, <2>2
<1>7. IsAt(bk, b, n, num2)
  BY <1>0, <1>6 DEF IsAt
<1>8. CountIs(bk, b, n)
  BY <1>1, <1>4 DEF CountIs
<1> QED BY <1>7, <1>8

LEMMA LevelOn ==
  ASSUME NEW lv, NEW b, NEW l, NEW a \in Nat, NEW m \in Nat, NEW n \in Nat, a <= m, m <= n,
         LevelFrom(lv, b, l, a, m), ~Touched(b, l, m, n)
  PROVE  LevelFrom(lv, b, l, a, n)
<1>1. ASSUME NEW j \in Nat, j <= m, ~Touched(b, l, j, m) PROVE ~Touched(b, l, j, n)
  <2>1. \A k \in (j + 1)..n : k \in (j + 1)..m \/ k \in (m + 1)..n
    BY <1>1
  <2> QED BY <1>1, <2>1 DEF Touched
<1>2. CASE lv = NoLevel /\ ~Touched(b, l, a, m)
  BY <1>1, <1>2 DEF LevelFrom
<1>3. CASE ~(lv = NoLevel /\ ~Touched(b, l, a, m))
  <2>1. PICK k \in (a + 1)..m :
          /\ log[k].book = b /\ log[k].level = l /\ ~Touched(b, l, k, m)
          /\ lv = [seq_num |-> RptSeq(b, k), size |-> SizeAt(b, l, k)]
    BY <1>3 DEF LevelFrom
  <2>2. k \in Nat /\ k <= m /\ k \in (a + 1)..n
    OBVIOUS
  <2>3. ~Touched(b, l, k, n)
    BY <1>1, <2>1, <2>2
  <2> QED BY <2>1, <2>2, <2>3 DEF LevelFrom
<1> QED BY <1>2, <1>3

\* The same of a book that joins.
LEMMA FromNext ==
  ASSUME NEW old \in Book, ~old.active, NEW b, NEW a \in Nat, NEW m \in Nat, NEW n \in Nat,
         a <= m, m < n, \A k \in (m + 1)..(n - 1) : log[k].book # b,
         log[n].book = b, NEW bk,
         LevelsFrom(old, b, a, m),
         Taken(old, log[n], RptSeq(b, n), bk)
  PROVE  /\ LevelsFrom(bk, b, a, n)
         /\ bk.rptseq = RptSeq(b, n) /\ RptSeq(b, n) # 0
<1>0. n \in (a + 1)..n /\ n \in 1..n /\ a <= n /\ n \in Nat \ {0}
  OBVIOUS
<1>1. /\ bk.rptseq = RptSeq(b, n)
      /\ \A l \in Levels : bk.ob[l] = IF l = log[n].level THEN LevelAfter(old, log[n], RptSeq(b, n))
                                      ELSE old.ob[l]
  BY DEF Taken
<1>2. RptSeq(b, m) < RptSeq(b, n) /\ RptSeq(b, m) \in Nat /\ RptSeq(b, n) \in Nat
  BY RptSeqPast, RptSeqIs
<1>3. RptSeq(b, n) # 0
  BY <1>2
<1>4. ASSUME NEW l \in Levels PROVE LevelFrom(bk.ob[l], b, l, a, n)
  <2>1. CASE l = log[n].level
    <3>1. ~Touched(b, l, n, n)
      BY <1>0 DEF Touched
    <3>2. SizeAt(b, l, n) = IF log[n].delete THEN 0 ELSE RptSeq(b, n)
      BY <1>0, <2>1, <3>1, SizeOf
    <3>3. bk.ob[l] = [seq_num |-> RptSeq(b, n), size |-> SizeAt(b, l, n)]
      BY <1>1, <2>1, <3>2 DEF LevelAfter
    <3> QED BY <1>0, <2>1, <3>1, <3>3 DEF LevelFrom
  <2>2. CASE l # log[n].level
    <3>1. \A k \in (m + 1)..n : k \in (m + 1)..(n - 1) \/ k = n
      OBVIOUS
    <3>2. ~Touched(b, l, m, n)
      BY <2>2, <3>1 DEF Touched
    <3>3. bk.ob[l] = old.ob[l] /\ LevelFrom(old.ob[l], b, l, a, m)
      BY <1>1, <2>2 DEF LevelsFrom
    <3>4. m <= n
      OBVIOUS
    <3> QED BY <3>2, <3>3, <3>4, LevelOn
  <2> QED BY <2>1, <2>2
<1> QED BY <1>1, <1>3, <1>4 DEF LevelsFrom

LEMMA UnreadFrom ==
  ASSUME NEW bk, Unread(bk), NEW b, NEW a \in Nat
  PROVE  LevelsFrom(bk, b, a, a)
<1> SUFFICES ASSUME NEW l \in Levels PROVE LevelFrom(bk.ob[l], b, l, a, a)
  BY DEF LevelsFrom
<1>1. bk.ob[l] = NoLevel
  BY DEF Unread, NewBook
<1>2. ~Touched(b, l, a, a)
  BY DEF Touched
<1> QED BY <1>1, <1>2 DEF LevelFrom

\* The first entry that comes while b joins is its own.
LEMMA FirstIsFrom ==
  ASSUME NEW old \in Book, ~old.active, Unread(old), NEW b \in Books, NEW n \in Nat \ {0}, NEW num \in Nat,
         log[n].book = b, NEW bk, Taken(old, log[n], RptSeq(b, n), bk),
         FeedsNum = 1 => num = n
  PROVE  IsFrom(bk, b, n, n, num)
<1>1. n - 1 \in Nat /\ n - 1 < n /\ n - 1 <= n - 1 /\ \A k \in ((n - 1) + 1)..(n - 1) : FALSE
  OBVIOUS
<1>2. LevelsFrom(old, b, n - 1, n - 1)
  BY <1>1, UnreadFrom
<1>3. /\ LevelsFrom(bk, b, n - 1, n)
      /\ bk.rptseq = RptSeq(b, n) /\ RptSeq(b, n) # 0
  <2>1. PICK a, m : a = n - 1 /\ m = n - 1
    OBVIOUS
  <2>2. /\ a \in Nat /\ m \in Nat /\ a <= m /\ m < n /\ n \in Nat
        /\ \A k \in (m + 1)..(n - 1) : log[k].book # b
    BY <2>1
  <2>3. LevelsFrom(old, b, a, m)
    BY <1>2, <2>1
  <2>4. /\ LevelsFrom(bk, b, a, n)
        /\ bk.rptseq = RptSeq(b, n) /\ RptSeq(b, n) # 0
    BY <2>2, <2>3, FromNext
  <2> QED BY <2>1, <2>4
<1>4. FeedsNum = 1 => \A k \in (n + 1)..num : FALSE
  OBVIOUS
<1> QED BY <1>3, <1>4 DEF IsFrom, CountIs

\* A later entry of its own: it was the next one of the book.
LEMMA NextIsFrom ==
  ASSUME NEW old \in Book, ~old.active, NEW b \in Books, NEW init \in Nat \ {0}, NEW cur \in Nat, init <= cur,
         NEW num0 \in Nat, cur <= num0, IsFrom(old, b, init, cur, num0),
         NEW n \in Nat, num0 < n, NEW num \in Nat, FeedsNum = 1 => n = num0 + 1 /\ num = n,
         log[n].book = b, NEW bk, Taken(old, log[n], RptSeq(b, n), bk)
  PROVE  IsFrom(bk, b, init, n, num)
<1>1. init - 1 \in Nat /\ init - 1 <= cur /\ cur < n
  OBVIOUS
<1>2. /\ LevelsFrom(old, b, init - 1, cur)
      /\ CountIs(old, b, cur)
      /\ FeedsNum = 1 => \A k \in (cur + 1)..num0 : log[k] = NoEntry
  BY DEF IsFrom
<1>3. \A k \in (cur + 1)..(n - 1) : log[k].book # b
  <2>1. CASE FeedsNum = 1
    <3>1. n - 1 = num0
      BY <2>1
    <3>2. \A k \in (cur + 1)..(n - 1) : log[k] = NoEntry
      BY <1>2, <2>1, <3>1
    <3>3. NoEntry.book # b
      BY ConstantsAre DEF NoEntry
    <3> QED BY <3>2, <3>3
  <2>2. CASE FeedsNum # 1
    <3>1. old.rptseq = RptSeq(b, cur) /\ old.rptseq # 0
      BY <1>2, <2>2 DEF CountIs
    <3>2. RptSeq(b, n) = RptSeq(b, cur) + 1
      BY <3>1 DEF Taken
    <3> QED BY <1>1, <3>2, NoneBetween
  <2> QED BY <2>1, <2>2
<1>4. /\ LevelsFrom(bk, b, init - 1, n)
      /\ bk.rptseq = RptSeq(b, n) /\ RptSeq(b, n) # 0
  <2>1. PICK a : a = init - 1
    OBVIOUS
  <2>2. a \in Nat /\ a <= cur
    BY <1>1, <2>1
  <2>3. LevelsFrom(old, b, a, cur)
    BY <1>2, <2>1
  <2>4. /\ LevelsFrom(bk, b, a, n)
        /\ bk.rptseq = RptSeq(b, n) /\ RptSeq(b, n) # 0
    BY <1>1, <1>3, <2>2, <2>3, FromNext
  <2> QED BY <2>1, <2>4
<1>5. FeedsNum = 1 => \A k \in (n + 1)..num : FALSE
  OBVIOUS
<1> QED BY <1>4, <1>5 DEF IsFrom, CountIs

\* With one feed, a message that has no entry, or one of another book.
LEMMA OtherIsFrom ==
  ASSUME FeedsNum = 1, NEW bk, NEW b \in Books, NEW num \in Nat, NEW n \in Nat \ {0}, num = n - 1 \/ num = 0,
         log[n].book # b, NEW init \in Nat, NEW cur \in Nat, init <= cur, cur <= num,
         IF init = 0 THEN Unread(bk) ELSE IsFrom(bk, b, init, cur, num)
  PROVE  /\ init = 0 => IsFrom(bk, b, n, n, n)
         /\ init # 0 => IsFrom(bk, b, init, n, n)
<1>1. \A k \in (n + 1)..n : FALSE
  OBVIOUS
<1>2. CASE init = 0
  <2>1. n - 1 \in Nat /\ n - 1 <= n /\ \A k \in ((n - 1) + 1)..n : k = n
    OBVIOUS
  <2>2. LevelsFrom(bk, b, n - 1, n - 1)
    BY <1>2, <2>1, UnreadFrom
  <2>3. \A l : ~Touched(b, l, n - 1, n)
    BY <2>1 DEF Touched
  <2>4. LevelsFrom(bk, b, n - 1, n)
    BY <2>1, <2>2, <2>3, LevelOn DEF LevelsFrom
  <2>5. bk.rptseq = 0
    BY <1>2 DEF Unread
  <2> QED BY <1>1, <1>2, <2>4, <2>5 DEF IsFrom, CountIs
<1>3. CASE init # 0
  <2>1. IsFrom(bk, b, init, cur, num) /\ init - 1 \in Nat /\ init - 1 <= cur /\ cur <= n
    BY <1>3
  <2>2. num = n - 1
    BY <1>3
  <2>3. NoEntry.book # b
    BY ConstantsAre DEF NoEntry
  <2>4. \A k \in (cur + 1)..n : k \in (cur + 1)..num \/ k = n
    BY <2>2
  <2>5. \A k \in (cur + 1)..n : log[k].book # b
    BY <2>1, <2>3, <2>4 DEF IsFrom
  <2>6. \A l : ~Touched(b, l, cur, n)
    BY <2>5 DEF Touched
  <2>7. LevelsFrom(bk, b, init - 1, n)
    BY <2>1, <2>6, LevelOn DEF IsFrom, LevelsFrom
  <2>8. RptSeq(b, cur) = RptSeq(b, n)
    BY <2>1, <2>5, RptSeqGrows
  <2>9. CountIs(bk, b, n)
    BY <2>1, <2>8 DEF IsFrom, CountIs
  <2> QED BY <1>1, <1>3, <2>7, <2>9 DEF IsFrom
<1> QED BY <1>2, <1>3

-----------------------------------------------------------------------------
(***************************************************************************)
(* One call of next_increment and apply_increment: f is what the feeds are *)
(* after it, a the books and whether apply_increment succeeded.            *)
(***************************************************************************)
Cur(f) == IF f.next = 0 THEN msg_num_cur ELSE f.next
First(f) == IF msg_num_init = 0 THEN Cur(f) ELSE msg_num_init

LEMMA NumbersAre ==
  ASSUME Ranges, NEW f, NextIs(f)
  PROVE  /\ Len(log) \in Nat /\ f.num \in Nat /\ f.num <= Len(log) /\ f.next \in Nat /\ f.next <= f.num
         /\ inc_msg_num \in Nat /\ inc_msg_num <= f.num /\ inc_msg_num <= Len(log)
         /\ Cur(f) \in Nat /\ First(f) \in Nat /\ First(f) <= Cur(f) /\ Cur(f) <= f.num
         /\ First(f) = 0 <=> Cur(f) = 0
         /\ f.next # 0 => f.next \in 1..Len(log) /\ inc_msg_num < f.next /\ msg_num_cur < f.next
<1>1. Len(log) \in Nat
  BY LenProperties DEF Ranges
<1>2. /\ f.num \in Nat /\ f.num <= Len(log) /\ f.next \in Nat /\ f.next <= f.num
      /\ inc_msg_num \in Nat /\ inc_msg_num <= f.num /\ inc_msg_num <= Len(log)
  BY <1>1 DEF NextIs, Feed, Ranges
<1>3. /\ msg_num_init \in Nat /\ msg_num_cur \in Nat
      /\ msg_num_init <= msg_num_cur /\ msg_num_cur <= inc_msg_num
      /\ msg_num_init = 0 <=> msg_num_cur = 0
  BY DEF Ranges
<1>4. f.next # 0 => f.next \in 1..Len(log) /\ inc_msg_num < f.next /\ msg_num_cur < f.next
  BY <1>1, <1>2, <1>3 DEF NextIs
<1>5. CASE f.next = 0
  BY <1>1, <1>2, <1>3, <1>5 DEF Cur, First
<1>6. CASE f.next # 0
  BY <1>1, <1>2, <1>3, <1>4, <1>6 DEF Cur, First
<1> QED BY <1>5, <1>6

Kept(f, a) ==
  /\ a.ok \in BOOLEAN /\ a.books \in [Books -> Book]
  /\ \A b \in Books : /\ a.books[b].active = books[b].active /\ a.books[b].join = books[b].join
                      /\ Sound(a.books[b], b, f.num)
                      /\ ~Takes(books[b]) => a.books[b] = books[b]
  /\ pc = "join" => Tally(a.books[joining], joining, f.num)
  /\ pc = "join" /\ First(f) = 0 => Unread(a.books[joining])

LEMMA IncrementKeeps ==
  ASSUME FeedsInv, NEW f, NextIs(f), NEW a, a = ApplyIfAny(f.next)
  PROVE  Kept(f, a)
<1>0. Ranges /\ books \in [Books -> Book] /\ joining \in Books
  BY DEF FeedsInv, Ranges
<1>1. /\ f.num \in Nat /\ f.next \in Nat /\ f.next <= f.num
      /\ inc_msg_num \in Nat /\ inc_msg_num <= f.num
      /\ f.next # 0 => f.next \in 1..Len(log) /\ inc_msg_num < f.next
  BY <1>0, NumbersAre
<1>2. ASSUME NEW b \in Books, NEW bk, Tally(bk, b, inc_msg_num), bk.rptseq \in Nat
      PROVE  Tally(bk, b, f.num)
  <2>1. RptSeq(b, inc_msg_num) <= RptSeq(b, f.num)
    BY <1>1, RptSeqGrows
  <2>2. RptSeq(b, inc_msg_num) \in Nat /\ RptSeq(b, f.num) \in Nat
    BY <1>1, RptSeqIs
  <2> QED BY <1>2, <2>1, <2>2 DEF Tally
<1>3. ASSUME NEW b \in Books PROVE Sound(books[b], b, f.num) /\ books[b].rptseq \in Nat
  BY <1>0, <1>2, BookFields DEF FeedsInv, Tallied, Sound
<1>4. pc = "join" => Tally(books[joining], joining, f.num)
  BY <1>0, <1>2, <1>3 DEF FeedsInv, Tallied
<1>5. CASE f.next = 0
  <2>1. a.ok = TRUE /\ a.books = books
    BY <1>5 DEF ApplyIfAny
  <2>2. First(f) = 0 => msg_num_init = 0
    BY <1>5 DEF First
  <2>3. pc = "join" /\ First(f) = 0 => Unread(books[joining])
    BY <2>2 DEF FeedsInv, Tallied
  <2> QED BY <1>0, <1>3, <1>4, <2>1, <2>3 DEF Kept
<1>6. CASE f.next # 0
  <2>1. f.next \in 1..Len(log) /\ log[f.next] \in Entries
    BY <1>1, <1>6 DEF NextIs
  <2>2. a = ApplyIncrement(f.next)
    BY <1>6 DEF ApplyIfAny
  <2>3. PICK e : e = log[f.next]
    OBVIOUS
  <2>4. PICK n : n = f.next
    OBVIOUS
  <2>5. /\ e.book \in Books /\ a.ok \in BOOLEAN /\ a.books \in [Books -> Book]
        /\ \A c \in Books : c # e.book => a.books[c] = books[c]
        /\ ~Takes(books[e.book]) => a.ok /\ a.books = books
        /\ Takes(books[e.book]) => Applies(books[e.book], e, RptSeq(e.book, n), a.ok, a.books[e.book])
    BY <1>0, <2>1, <2>2, <2>3, <2>4, ApplyIs
  <2>6. First(f) # 0
    BY <1>0, <1>6, NumbersAre DEF Cur
  <2>7. CASE ~Takes(books[e.book])
    BY <1>0, <1>3, <1>4, <2>5, <2>6, <2>7 DEF Kept
  <2>8. CASE Takes(books[e.book])
    <3>1. PICK b : b = e.book
      OBVIOUS
    <3>2. PICK old, bk : old = books[b] /\ bk = a.books[b]
      OBVIOUS
    <3>3. PICK rpt : rpt = RptSeq(b, n)
      OBVIOUS
    <3>4. /\ b \in Books /\ Applies(old, e, rpt, a.ok, bk) /\ old \in Book /\ bk \in Book
          /\ old.active \in BOOLEAN /\ old.rptseq \in Nat
          /\ \A c \in Books : c # b => a.books[c] = books[c]
      BY <1>0, <2>5, <2>8, <3>1, <3>2, <3>3, BookFields
    <3>5. n \in Nat /\ inc_msg_num < n /\ n <= f.num /\ log[n].book = b
      BY <1>1, <1>6, <2>3, <2>4, <3>1
    <3>6. /\ RptSeq(b, inc_msg_num) < rpt /\ rpt <= RptSeq(b, f.num)
          /\ RptSeq(b, inc_msg_num) \in Nat /\ rpt \in Nat /\ RptSeq(b, f.num) \in Nat
      BY <1>1, <3>3, <3>5, RptSeqPast, RptSeqGrows, RptSeqIs
    <3>7. bk.rptseq = IF old.rptseq = 0 THEN rpt ELSE old.rptseq + 1
      BY <3>4 DEF Applies
    <3>8. Tally(old, b, inc_msg_num) => Tally(bk, b, f.num)
      BY <3>4, <3>6, <3>7 DEF Tally
    <3>9. ASSUME old.active PROVE Sound(bk, b, f.num)
      <4>1. Tally(old, b, inc_msg_num) /\ NoEmpty(old)
        BY <3>2, <3>4, <3>9 DEF FeedsInv, Tallied, Sound
      <4>2. NoEmpty(bk)
        <5>1. CASE ~a.ok
          BY <3>4, <4>1, <5>1 DEF Applies, Refused, NoEmpty
        <5>2. CASE a.ok
          <6>1. \A l \in Levels : bk.ob[l] = IF l = e.level THEN LevelAfter(old, e, rpt) ELSE old.ob[l]
            BY <3>4, <5>2 DEF Applies, Taken
          <6>2. rpt # 0
            BY <3>6
          <6>3. LevelAfter(old, e, rpt).size = 0 => Absent(LevelAfter(old, e, rpt))
            BY <3>9, <6>2 DEF LevelAfter, Absent, NoLevel
          <6> QED BY <4>1, <6>1, <6>3 DEF NoEmpty
        <5> QED BY <2>5, <5>1, <5>2
      <4> QED BY <3>8, <4>1, <4>2 DEF Sound
    <3>10. bk.active = old.active /\ bk.join = old.join
      BY <3>4 DEF Applies
    <3>11. Sound(bk, b, f.num)
      BY <3>4, <3>9, <3>10 DEF Sound
    <3>12. pc = "join" => Tally(a.books[joining], joining, f.num)
      <4>1. CASE joining = b
        BY <3>2, <3>8, <4>1 DEF FeedsInv, Tallied
      <4>2. CASE joining # b
        BY <1>0, <1>4, <3>4, <4>2
      <4> QED BY <4>1, <4>2
    <3>13. ASSUME NEW c \in Books
           PROVE  /\ a.books[c].active = books[c].active /\ a.books[c].join = books[c].join
                  /\ Sound(a.books[c], c, f.num)
                  /\ ~Takes(books[c]) => a.books[c] = books[c]
      <4>1. CASE c = b
        BY <2>8, <3>1, <3>2, <3>10, <3>11, <4>1
      <4>2. CASE c # b
        BY <1>3, <3>4, <4>2
      <4> QED BY <4>1, <4>2
    <3> QED BY <2>5, <2>6, <3>12, <3>13 DEF Kept
  <2> QED BY <2>7, <2>8
<1> QED BY <1>5, <1>6

ExactAfter(f, a) ==
  /\ \A b \in Books : books[b].active =>
       \E m \in 1..f.num : /\ IsAt(a.books[b], b, m, f.num)
                           /\ a.ok => CountIs(a.books[b], b, m)
  /\ pc = "join" /\ a.ok /\ First(f) # 0 =>
       IsFrom(a.books[joining], joining, First(f), Cur(f), f.num)
  /\ FeedsNum = 1 /\ pc = "update" => a.ok

LEMMA IncrementExact ==
  ASSUME FeedsInv, Exact, Safe, pc \in {"join", "update"}, NEW f, NextIs(f),
         NEW a, a = ApplyIfAny(f.next)
  PROVE  ExactAfter(f, a)
<1>0. Ranges /\ books \in [Books -> Book] /\ joining \in Books /\ Order
  BY DEF FeedsInv, Ranges
<1>1. /\ f.num \in Nat /\ f.next \in Nat /\ f.next <= f.num
      /\ inc_msg_num \in Nat /\ inc_msg_num <= f.num
      /\ f.next # 0 => f.next \in 1..Len(log) /\ inc_msg_num < f.next
  BY <1>0, NumbersAre
<1>2. /\ msg_num_init \in Nat /\ msg_num_cur \in Nat /\ msg_num_init <= msg_num_cur
      /\ msg_num_cur <= inc_msg_num
  BY <1>0 DEF Ranges
<1>3. ASSUME NEW c \in Books, books[c].active
      PROVE  \E m \in 1..inc_msg_num : IsAt(books[c], c, m, inc_msg_num) /\ CountIs(books[c], c, m)
  BY <1>3 DEF Exact
<1>4. \A c \in Books : NoEntry.book # c
  BY ConstantsAre DEF NoEntry
<1>5. pc = "join" /\ msg_num_init # 0 =>
        IsFrom(books[joining], joining, msg_num_init, msg_num_cur, inc_msg_num)
  BY DEF Exact
<1>6. CASE f.next = 0
  <2>1. a.ok = TRUE /\ a.books = books
    BY <1>6 DEF ApplyIfAny
  <2>2. ASSUME FeedsNum = 1 PROVE inc_msg_num # 0 => \A k \in (inc_msg_num + 1)..f.num : log[k] = NoEntry
    <3>1. CASE f.num = inc_msg_num
      BY <1>1, <3>1
    <3>2. CASE f.num # inc_msg_num
      <4>1. /\ inc_msg_num = 0 \/ f.num = inc_msg_num + 1
            /\ f.next = IF log[f.num] = NoEntry THEN 0 ELSE f.num
            /\ f.num > inc_msg_num
        BY <2>2, <3>2 DEF NextIs
      <4>2. log[f.num] = NoEntry
        BY <1>1, <1>6, <4>1
      <4>3. inc_msg_num # 0 => \A k \in (inc_msg_num + 1)..f.num : k = f.num
        BY <1>1, <4>1
      <4> QED BY <4>2, <4>3
    <3> QED BY <3>1, <3>2
  <2>3. ASSUME NEW b \in Books, books[b].active
        PROVE  \E m \in 1..f.num : IsAt(books[b], b, m, f.num) /\ CountIs(books[b], b, m)
    <3>1. PICK m \in 1..inc_msg_num : IsAt(books[b], b, m, inc_msg_num) /\ CountIs(books[b], b, m)
      BY <1>3, <2>3
    <3>2. inc_msg_num # 0
      BY <1>1
    <3>3. FeedsNum = 1 => \A k \in (inc_msg_num + 1)..f.num : log[k].book # b
      BY <1>4, <2>2, <3>2
    <3>4. PICK bk : bk = books[b]
      OBVIOUS
    <3> QED BY <1>1, <3>1, <3>3, <3>4, IsAtOn
  <2>4. ASSUME pc = "join", First(f) # 0
        PROVE  IsFrom(books[joining], joining, First(f), Cur(f), f.num)
    <3>1. First(f) = msg_num_init /\ Cur(f) = msg_num_cur /\ msg_num_init # 0
      BY <1>0, <1>6, <2>4, NumbersAre DEF First, Cur, Ranges
    <3>2. IsFrom(books[joining], joining, msg_num_init, msg_num_cur, inc_msg_num)
      BY <1>5, <2>4, <3>1
    <3>3. inc_msg_num # 0
      BY <1>1, <1>2, <3>1
    <3>4. \A k \in (msg_num_cur + 1)..f.num :
            k \in (msg_num_cur + 1)..inc_msg_num \/ k \in (inc_msg_num + 1)..f.num
      BY <1>1, <1>2
    <3>5. FeedsNum = 1 => \A k \in (msg_num_cur + 1)..f.num : log[k] = NoEntry
      BY <2>2, <3>2, <3>3, <3>4 DEF IsFrom
    <3> QED BY <3>1, <3>2, <3>5 DEF IsFrom
  <2> QED BY <2>1, <2>3, <2>4 DEF ExactAfter
<1>7. CASE f.next # 0
  <2>1. f.next \in 1..Len(log) /\ log[f.next] \in Entries
    BY <1>1, <1>7 DEF NextIs
  <2>2. a = ApplyIncrement(f.next)
    BY <1>7 DEF ApplyIfAny
  <2>3. PICK n : n = f.next
    OBVIOUS
  <2>4. PICK b : b = log[n].book
    OBVIOUS
  <2>5. /\ b \in Books /\ a.ok \in BOOLEAN /\ a.books \in [Books -> Book]
        /\ \A c \in Books : c # b => a.books[c] = books[c]
        /\ ~Takes(books[b]) => a.ok /\ a.books = books
        /\ Takes(books[b]) => Applies(books[b], log[n], RptSeq(b, n), a.ok, a.books[b])
    BY <1>0, <2>1, <2>2, <2>3, <2>4, ApplyIs
  <2>6. /\ n \in Nat \ {0} /\ n \in 1..Len(log) /\ log[n] \in Entries /\ inc_msg_num < n /\ n <= f.num
        /\ n \in 1..f.num
    BY <1>1, <1>7, <2>1, <2>3
  <2>7. ASSUME FeedsNum = 1 PROVE f.num = n /\ (inc_msg_num = 0 \/ n = inc_msg_num + 1)
    <3>1. /\ inc_msg_num = 0 \/ f.num = inc_msg_num + 1
          /\ f.next = IF log[f.num] = NoEntry THEN 0 ELSE f.num
      BY <1>7, <2>7 DEF NextIs
    <3> QED BY <1>7, <2>3, <3>1
  <2>8. ASSUME NEW c \in Books, c # b, books[c].active
        PROVE  \E m \in 1..f.num : IsAt(a.books[c], c, m, f.num) /\ CountIs(a.books[c], c, m)
    <3>1. PICK m \in 1..inc_msg_num : IsAt(books[c], c, m, inc_msg_num) /\ CountIs(books[c], c, m)
      BY <1>3, <2>8
    <3>2. FeedsNum = 1 => \A k \in (inc_msg_num + 1)..f.num : k = n
      BY <1>1, <2>6, <2>7
    <3>3. FeedsNum = 1 => \A k \in (inc_msg_num + 1)..f.num : log[k].book # c
      BY <2>4, <2>8, <3>2
    <3>4. PICK bk : bk = books[c]
      OBVIOUS
    <3>5. a.books[c] = bk
      BY <2>5, <2>8, <3>4
    <3> QED BY <1>1, <3>1, <3>3, <3>4, <3>5, IsAtOn
  <2>9. ASSUME books[b].active
        PROVE  /\ \E m \in 1..f.num : /\ IsAt(a.books[b], b, m, f.num)
                                      /\ a.ok => CountIs(a.books[b], b, m)
               /\ FeedsNum = 1 => a.ok
    <3>1. PICK m \in 1..inc_msg_num : IsAt(books[b], b, m, inc_msg_num) /\ CountIs(books[b], b, m)
      BY <1>3, <2>5, <2>9
    <3>2. Takes(books[b])
      BY <2>9 DEF Takes
    <3>3. PICK old, bk, ok : old = books[b] /\ bk = a.books[b] /\ ok = a.ok
      OBVIOUS
    <3>4. old \in Book /\ old.active /\ ok \in BOOLEAN /\ Applies(old, log[n], RptSeq(b, n), ok, bk)
      BY <1>0, <2>5, <2>9, <3>2, <3>3
    <3>5. IsAt(old, b, m, inc_msg_num) /\ CountIs(old, b, m)
      BY <3>1, <3>3
    <3>6. FeedsNum = 1 => n = inc_msg_num + 1 /\ f.num = n
      BY <1>1, <2>7
    <3>7. PICK num, num2 : num = inc_msg_num /\ num2 = f.num
      OBVIOUS
    <3>8. Follows(n, num, num2) /\ m \in 1..num
      BY <1>1, <2>6, <3>6, <3>7 DEF Follows
    <3>9. IsAt(old, b, m, num)
      BY <3>5, <3>7
    <3>10. log[n].book = b /\ b \in Books
      BY <2>4, <2>5, <2>6
    <3>11. ASSUME ok PROVE IsAt(bk, b, n, num2) /\ CountIs(bk, b, n)
      <4>1. Taken(old, log[n], RptSeq(b, n), bk)
        BY <3>4, <3>11 DEF Applies
      <4> QED BY <3>4, <3>5, <3>8, <3>9, <3>10, <4>1, IsAtNext
    <3>12. ASSUME ~ok PROVE FeedsNum # 1 /\ IsAt(bk, b, m, num2)
      <4>1. Refused(old, RptSeq(b, n), bk)
        BY <3>4, <3>12 DEF Applies
      <4> QED BY <3>4, <3>5, <3>8, <3>9, <3>10, <4>1, IsAtRefused
    <3>13. m \in 1..f.num
      BY <1>1
    <3> QED BY <2>6, <3>3, <3>4, <3>7, <3>11, <3>12, <3>13
  <2>10. FeedsNum = 1 /\ pc = "update" => a.ok
    BY <1>0, <2>5, <2>9 DEF Order
  <2>11. ASSUME pc = "join", a.ok
         PROVE  IsFrom(a.books[joining], joining, First(f), Cur(f), f.num)
    <3>1. books[joining].join /\ ~books[joining].active
      <4>1. joining >= joining
        BY <1>0, ConstantsAre
      <4> QED BY <1>0, <2>11, <4>1 DEF Order
    <3>2. /\ msg_num_init = 0 => First(f) = n
          /\ msg_num_init # 0 => First(f) = msg_num_init
          /\ Cur(f) = n
      BY <1>7, <2>3 DEF First, Cur
    <3>3. msg_num_init = 0 => Unread(books[joining])
      BY <2>11 DEF FeedsInv, Tallied
    <3>4. CASE joining = b
      <4>1. PICK old, bk : old = books[b] /\ bk = a.books[b]
        OBVIOUS
      <4>2. old \in Book /\ ~old.active /\ Taken(old, log[n], RptSeq(b, n), bk)
        BY <1>0, <2>5, <2>11, <3>1, <3>4, <4>1 DEF Takes, Applies
      <4>3. CASE msg_num_init = 0
        <5>1. Unread(old) /\ (FeedsNum = 1 => f.num = n) /\ log[n].book = b
          BY <2>4, <2>7, <3>3, <3>4, <4>1, <4>3
        <5>2. IsFrom(bk, b, n, n, f.num)
          BY <1>1, <2>5, <2>6, <4>2, <5>1, FirstIsFrom
        <5> QED BY <3>2, <3>4, <4>1, <4>3, <5>2
      <4>4. CASE msg_num_init # 0
        <5>1. PICK init, cur, num0, num : /\ init = msg_num_init /\ cur = msg_num_cur
                                          /\ num0 = inc_msg_num /\ num = f.num
          OBVIOUS
        <5>2. IsFrom(old, b, init, cur, num0)
          BY <1>5, <2>11, <3>4, <4>1, <4>4, <5>1
        <5>3. /\ init \in Nat \ {0} /\ cur \in Nat /\ num0 \in Nat /\ num \in Nat
              /\ init <= cur /\ cur <= num0 /\ num0 < n /\ n \in Nat
              /\ FeedsNum = 1 => n = num0 + 1 /\ num = n
          BY <1>1, <1>2, <2>6, <2>7, <4>4, <5>1
        <5>4. log[n].book = b
          BY <2>4
        <5>5. IsFrom(bk, b, init, n, num)
          BY <2>5, <4>2, <5>2, <5>3, <5>4, NextIsFrom
        <5> QED BY <3>2, <3>4, <4>1, <4>4, <5>1, <5>5
      <4> QED BY <4>3, <4>4
    <3>5. CASE joining # b
      <4>1. FeedsNum = 1
        <5>1. BooksNum = 1 => joining = 1 /\ b = 1
          BY <1>0, <2>5 DEF Books
        <5> QED BY <3>5, <5>1 DEF Safe
      <4>2. PICK bk, c, num, init, cur :
               /\ bk = books[joining] /\ c = joining /\ num = inc_msg_num
               /\ init = msg_num_init /\ cur = msg_num_cur
        OBVIOUS
      <4>3. /\ c \in Books /\ num \in Nat /\ (num = n - 1 \/ num = 0) /\ init \in Nat /\ cur \in Nat
            /\ init <= cur /\ cur <= num /\ f.num = n
        BY <1>0, <1>1, <1>2, <2>6, <2>7, <4>1, <4>2
      <4>4. log[n].book # c
        BY <2>4, <3>5, <4>2
      <4>5. IF init = 0 THEN Unread(bk) ELSE IsFrom(bk, c, init, cur, num)
        BY <1>5, <2>11, <3>3, <4>2
      <4>6. init = 0 => IsFrom(bk, c, n, n, n)
        BY <2>6, <4>1, <4>3, <4>4, <4>5, OtherIsFrom
      <4>7. init # 0 => IsFrom(bk, c, init, n, n)
        BY <2>6, <4>1, <4>3, <4>4, <4>5, OtherIsFrom
      <4>8. a.books[joining] = bk /\ First(f) = IF init = 0 THEN n ELSE init
        BY <1>0, <2>5, <3>2, <3>5, <4>2
      <4>9. IsFrom(bk, c, First(f), n, n)
        BY <4>6, <4>7, <4>8
      <4>10. IsFrom(a.books[joining], joining, First(f), Cur(f), f.num)
        BY ONLY <3>2, <4>2, <4>3, <4>8, <4>9
      <4> QED BY <4>10
    <3> QED BY <3>4, <3>5
  <2>12. ASSUME NEW c \in Books, books[c].active
         PROVE  \E m \in 1..f.num : IsAt(a.books[c], c, m, f.num) /\ (a.ok => CountIs(a.books[c], c, m))
    BY <2>8, <2>9, <2>12
  <2> QED BY <2>10, <2>11, <2>12 DEF ExactAfter
<1> QED BY <1>6, <1>7

-----------------------------------------------------------------------------
(***************************************************************************)
(* The snapshot that ends a join.                                          *)
(***************************************************************************)
LEMMA SizeAtNat ==
  ASSUME NEW b, NEW k \in Nat
  PROVE  BookAt(b, k) \in [Levels -> Nat] /\ \A l \in Levels : BookAt(b, k)[l] = SizeAt(b, l, k)
<1>1. ASSUME NEW l \in Levels PROVE SizeAt(b, l, k) \in Nat
  <2>1. CASE OfLevel(b, l, k) = {}
    BY <2>1, SizeAtIs DEF SizeOn
  <2>2. CASE OfLevel(b, l, k) # {}
    <3>1. PICK n \in 1..k : log[n].book = b /\ log[n].level = l /\ ~Touched(b, l, n, k)
      BY <2>2, SomeLast
    <3>2. SizeAt(b, l, k) = IF log[n].delete THEN 0 ELSE RptSeq(b, n)
      BY <3>1, SizeOf
    <3> QED BY <3>2, RptSeqIs
  <2> QED BY <2>1, <2>2
<1> QED BY <1>1 DEF BookAt

LEMMA MergeIs ==
  ASSUME NEW bk \in Book, NEW at \in [Levels -> Nat], NEW rpt \in Nat, NEW l \in Levels
  PROVE  LET new == Activated(bk, at, rpt).ob[l] IN
         /\ bk.ob[l].size # 0 /\ ~Absent(bk.ob[l]) => new = bk.ob[l]
         /\ bk.ob[l].size = 0 /\ ~Absent(bk.ob[l]) => new = NoLevel
         /\ bk.ob[l] = NoLevel => new = IF at[l] = 0 THEN NoLevel ELSE [seq_num |-> rpt, size |-> at[l]]
         /\ new.size = 0 => Absent(new)
         /\ new \in Level
<1>1. PICK ob : ob = Merged(bk, at, rpt)
  OBVIOUS
<1>2. Activated(bk, at, rpt).ob = Swept(ob)
  BY <1>1 DEF Activated, Book
<1>3. Swept(ob)[l] = IF ob[l].size = 0 THEN NoLevel ELSE ob[l]
  BY DEF Swept
<1>4. ob[l] = IF at[l] # 0 /\ Absent(bk.ob[l]) THEN [seq_num |-> rpt, size |-> at[l]] ELSE bk.ob[l]
  BY <1>1 DEF Merged
<1>5. bk.ob[l] \in Level
  BY DEF Book
<1>6. ob[l] \in Level
  BY <1>4, <1>5 DEF Level
<1> QED BY <1>2, <1>3, <1>4, <1>6, NoLevelIs DEF Absent, NoLevel, Level

LEMMA ActivatedIs ==
  ASSUME NEW bk \in Book, NEW at \in [Levels -> Nat], NEW rpt \in Nat
  PROVE  LET new == Activated(bk, at, rpt) IN
         /\ new \in Book /\ new.active = TRUE /\ new.join = FALSE /\ new.rptseq = bk.rptseq
         /\ NoEmpty(new)
<1>0. PICK new : new = Activated(bk, at, rpt)
  OBVIOUS
<1>1. PICK ob : ob = Swept(Merged(bk, at, rpt))
  OBVIOUS
<1>2. new = [bk EXCEPT !.active = TRUE, !.join = FALSE, !.empty = FALSE, !.snpseq = rpt, !.ob = ob]
  BY <1>0, <1>1 DEF Activated
<1>3. ob = [l \in Levels |-> ob[l]]
  BY <1>1 DEF Swept
<1>4. new.ob = ob
  BY <1>2 DEF Book
<1>5. \A l \in Levels : ob[l] \in Level /\ (ob[l].size = 0 => Absent(ob[l]))
  BY <1>0, <1>4, MergeIs
<1>6. ob \in [Levels -> Level]
  BY <1>3, <1>5
<1>7. new \in Book /\ new.active = TRUE /\ new.join = FALSE /\ new.rptseq = bk.rptseq
  BY <1>2, <1>6 DEF Book
<1> QED BY <1>0, <1>4, <1>5, <1>7 DEF NoEmpty

\* The snapshot taken after message k, merged with what came after a up to cur.
Merges(lv, b, l, k, cur) ==
  \/ lv = NoLevel /\ SizeAt(b, l, k) = SizeAt(b, l, cur)
  \/ /\ lv.seq_num # 0 /\ lv.seq_num <= RptSeq(b, cur) /\ lv.size = SizeAt(b, l, cur)
     /\ lv.seq_num > RptSeq(b, k) \/ lv.size = SizeAt(b, l, k)

LEMMA LevelMerged ==
  ASSUME NEW lv, NEW b, NEW l, NEW a \in Nat, NEW cur \in Nat, NEW k \in Nat,
         a < k, k <= cur,
         LevelFrom(lv, b, l, a, cur)
  PROVE  Merges(lv, b, l, k, cur)
<1>1. CASE lv = NoLevel /\ ~Touched(b, l, a, cur)
  <2>1. \A n \in (k + 1)..cur : n \in (a + 1)..cur
    OBVIOUS
  <2>2. ~Touched(b, l, k, cur)
    BY <1>1, <2>1 DEF Touched
  <2> QED BY <1>1, <2>2, SizeSame DEF Merges
<1>2. CASE ~(lv = NoLevel /\ ~Touched(b, l, a, cur))
  <2>1. PICK n \in (a + 1)..cur :
          /\ log[n].book = b /\ log[n].level = l /\ ~Touched(b, l, n, cur)
          /\ lv = [seq_num |-> RptSeq(b, n), size |-> SizeAt(b, l, n)]
    BY <1>2 DEF LevelFrom
  <2>2. n \in Nat /\ n <= cur /\ 0 < n
    OBVIOUS
  <2>3. SizeAt(b, l, n) = SizeAt(b, l, cur)
    BY <2>1, <2>2, SizeSame
  <2>4. RptSeq(b, n) <= RptSeq(b, cur)
    BY <2>2, RptSeqGrows
  <2>5. RptSeq(b, 0) < RptSeq(b, n) /\ RptSeq(b, 0) \in Nat /\ RptSeq(b, n) \in Nat
    BY <2>1, <2>2, RptSeqPast, RptSeqIs
  <2>6. RptSeq(b, n) # 0
    BY <2>5
  <2>7. CASE n > k
    <3>1. RptSeq(b, k) < RptSeq(b, n) /\ RptSeq(b, k) \in Nat
      BY <2>1, <2>2, <2>7, RptSeqPast, RptSeqIs
    <3> QED BY <2>1, <2>3, <2>4, <2>5, <2>6, <3>1 DEF Merges
  <2>8. CASE n <= k
    <3>1. \A m \in (n + 1)..k : m \in (n + 1)..cur
      OBVIOUS
    <3>2. ~Touched(b, l, n, k)
      BY <2>1, <3>1 DEF Touched
    <3>3. SizeAt(b, l, n) = SizeAt(b, l, k)
      BY <2>2, <2>8, <3>2, SizeSame
    <3> QED BY <2>1, <2>3, <2>4, <2>6, <3>3 DEF Merges
  <2> QED BY <2>2, <2>7, <2>8
<1> QED BY <1>1, <1>2

LEMMA JoinIs ==
  ASSUME NEW bk \in Book, NEW b \in Books, NEW init \in Nat \ {0}, NEW cur \in Nat, NEW k \in init..cur,
         NEW num \in Nat, cur <= num, IsFrom(bk, b, init, cur, num), NEW new,
         new = Activated(bk, BookAt(b, k), RptSeq(b, k))
  PROVE  /\ SnapshotOk(bk, BookAt(b, k), RptSeq(b, k))
         /\ \E m \in 1..num : IsAt(new, b, m, num) /\ CountIs(new, b, m)
<1>0. k \in Nat /\ k <= cur /\ cur \in 1..num /\ cur \in Nat
  OBVIOUS
<1>1. PICK at, rpt : at = BookAt(b, k) /\ rpt = RptSeq(b, k)
  OBVIOUS
<1>2. at \in [Levels -> Nat] /\ rpt \in Nat /\ \A l \in Levels : at[l] = SizeAt(b, l, k)
  BY <1>0, <1>1, SizeAtNat, RptSeqIs
<1>3. rpt <= RptSeq(b, cur) /\ RptSeq(b, cur) \in Nat
  BY <1>0, <1>1, RptSeqGrows, RptSeqIs
<1>4. new = Activated(bk, at, rpt)
  BY <1>1
<1>5. new.rptseq = bk.rptseq
  <2>1. Activated(bk, at, rpt).rptseq = bk.rptseq
    BY <1>2, ActivatedIs, Zenon
  <2> QED BY <1>4, <2>1
<1>6. ASSUME NEW l \in Levels
      PROVE  /\ Agrees(bk.ob[l], at[l], rpt)
             /\ new.ob[l].size = SizeAt(b, l, cur) /\ new.ob[l].seq_num <= RptSeq(b, cur)
  <2>1. LevelFrom(bk.ob[l], b, l, init - 1, cur)
    BY DEF IsFrom, LevelsFrom
  <2>2. PICK lv : lv = bk.ob[l]
    OBVIOUS
  <2>3. \/ lv = NoLevel /\ SizeAt(b, l, k) = SizeAt(b, l, cur)
        \/ /\ lv.seq_num # 0 /\ lv.seq_num <= RptSeq(b, cur) /\ lv.size = SizeAt(b, l, cur)
           /\ lv.seq_num > RptSeq(b, k) \/ lv.size = SizeAt(b, l, k)
    <3>1. PICK a : a = init - 1
      OBVIOUS
    <3>2. a \in Nat /\ a < k /\ LevelFrom(lv, b, l, a, cur)
      BY <2>1, <2>2, <3>1
    <3>3. Merges(lv, b, l, k, cur)
      BY <1>0, <3>2, LevelMerged
    <3> QED BY <3>3 DEF Merges
  <2>4. PICK nl : nl = new.ob[l]
    OBVIOUS
  <2>5. /\ lv.size # 0 /\ ~Absent(lv) => nl = lv
        /\ lv.size = 0 /\ ~Absent(lv) => nl = NoLevel
        /\ lv = NoLevel => nl = IF at[l] = 0 THEN NoLevel ELSE [seq_num |-> rpt, size |-> at[l]]
    BY <1>2, <1>4, <2>2, <2>4, MergeIs
  <2>6. CASE lv = NoLevel /\ SizeAt(b, l, k) = SizeAt(b, l, cur)
    <3>1. nl = IF at[l] = 0 THEN NoLevel ELSE [seq_num |-> rpt, size |-> at[l]]
      BY <2>5, <2>6
    <3>2. at[l] = SizeAt(b, l, cur)
      BY <1>2, <2>6
    <3>3. nl.size = SizeAt(b, l, cur) /\ nl.seq_num <= RptSeq(b, cur)
      BY <1>3, <3>1, <3>2 DEF NoLevel
    <3> QED BY <2>2, <2>4, <2>6, <3>3 DEF Agrees, Absent, NoLevel
  <2>7. CASE ~(lv = NoLevel /\ SizeAt(b, l, k) = SizeAt(b, l, cur))
    <3>1. /\ lv.seq_num # 0 /\ lv.seq_num <= RptSeq(b, cur) /\ lv.size = SizeAt(b, l, cur)
          /\ lv.seq_num > rpt \/ lv.size = at[l]
      BY <1>1, <1>2, <2>3, <2>7
    <3>2. nl = IF lv.size = 0 THEN NoLevel ELSE lv
      BY <2>5, <3>1 DEF Absent
    <3>3. nl.size = SizeAt(b, l, cur) /\ nl.seq_num <= RptSeq(b, cur)
      BY <1>3, <3>1, <3>2 DEF NoLevel
    <3> QED BY <2>2, <2>4, <3>1, <3>3 DEF Agrees
  <2> QED BY <2>6, <2>7
<1>7. SnapshotOk(bk, BookAt(b, k), RptSeq(b, k))
  BY <1>1, <1>6 DEF SnapshotOk
<1>8. CountIs(new, b, cur)
  BY <1>5 DEF IsFrom, CountIs
<1>9. CASE FeedsNum # 1
  <2>1. IsAt(new, b, cur, num)
    BY <1>6, <1>9 DEF IsAt
  <2> QED BY <1>0, <1>7, <1>8, <2>1
<1>10. CASE FeedsNum = 1
  <2>1. NoEntry.book # b
    BY ConstantsAre DEF NoEntry
  <2>2. \A n \in (cur + 1)..num : log[n].book # b
    BY <1>10, <2>1 DEF IsFrom
  <2>3. IsAt(new, b, cur, cur)
    BY <1>6 DEF IsAt
  <2>4. cur \in 1..cur
    BY <1>0
  <2> QED BY <1>0, <1>7, <1>8, <2>2, <2>3, <2>4, IsAtOn
<1> QED BY <1>7, <1>9, <1>10

-----------------------------------------------------------------------------
(***************************************************************************)
(* What is said of a log stays true as the log grows.  The last two parts  *)
(* of the invariant are first said of values, which are then the state     *)
(* after a step.                                                           *)
(***************************************************************************)
TalliedAt(bks, num, p, j, init) ==
  /\ \A b \in Books : Sound(bks[b], b, num)
  /\ p = "join" => Tally(bks[j], j, num)
  /\ p = "join" /\ init = 0 => Unread(bks[j])

ExactAt(bks, num, p, j, init, cur) ==
  /\ \A b \in Books : bks[b].active =>
       \E m \in 1..num : IsAt(bks[b], b, m, num) /\ (p # "failed" => CountIs(bks[b], b, m))
  /\ p = "join" /\ init # 0 => IsFrom(bks[j], j, init, cur, num)
  /\ FeedsNum = 1 /\ p = "failed" => \E b \in Books : ~bks[b].active

LEMMA NowAre ==
  /\ TalliedAt(books, inc_msg_num, pc, joining, msg_num_init) <=> Tallied
  /\ ExactAt(books, inc_msg_num, pc, joining, msg_num_init, msg_num_cur) <=> Exact
BY DEF TalliedAt, Tallied, ExactAt, Exact, OnlySubscribingFails

LEMMA LevelLasts ==
  ASSUME NEW k \in Nat, \A n \in 1..k : log'[n] = log[n], NEW lv, NEW b, NEW l,
         NEW a \in Nat, NEW m \in Nat, m <= k
  PROVE  LevelFrom(lv, b, l, a, m)' <=> LevelFrom(lv, b, l, a, m)
<1>1. \A n \in (a + 1)..m : n \in Nat /\ n \in 1..k /\ n <= k /\ \A i \in 1..n : log'[i] = log[i]
  OBVIOUS
<1>2. Touched(b, l, a, m)' <=> Touched(b, l, a, m)
  BY <1>1 DEF Touched
<1>3. ASSUME NEW n \in (a + 1)..m
      PROVE  /\ Touched(b, l, n, m)' <=> Touched(b, l, n, m)
             /\ RptSeq(b, n)' = RptSeq(b, n) /\ SizeAt(b, l, n)' = SizeAt(b, l, n)
             /\ log'[n] = log[n]
  <2>1. \A i \in (n + 1)..m : i \in (a + 1)..m
    OBVIOUS
  <2>2. Touched(b, l, n, m)' <=> Touched(b, l, n, m)
    BY <1>1, <2>1 DEF Touched
  <2> QED BY <1>1, <2>2, PastStays
<1> QED BY <1>2, <1>3 DEF LevelFrom

LEMMA IsFromLasts ==
  ASSUME NEW k \in Nat, \A n \in 1..k : log'[n] = log[n], NEW bk, NEW b,
         NEW init \in Nat \ {0}, NEW cur \in Nat, cur <= k, NEW num \in Nat, num <= k
  PROVE  IsFrom(bk, b, init, cur, num) => IsFrom(bk, b, init, cur, num)'
<1>1. init - 1 \in Nat
  OBVIOUS
<1>2. \A l \in Levels : LevelFrom(bk.ob[l], b, l, init - 1, cur)' <=> LevelFrom(bk.ob[l], b, l, init - 1, cur)
  <2>1. PICK a : a = init - 1
    OBVIOUS
  <2>2. ASSUME NEW l \in Levels
        PROVE  LevelFrom(bk.ob[l], b, l, a, cur)' <=> LevelFrom(bk.ob[l], b, l, a, cur)
    <3>1. PICK lv : lv = bk.ob[l]
      OBVIOUS
    <3>2. LevelFrom(lv, b, l, a, cur)' <=> LevelFrom(lv, b, l, a, cur)
      BY <1>1, <2>1, LevelLasts
    <3> QED BY <3>1, <3>2 DEF LevelFrom, Touched
  <2> QED BY <2>1, <2>2 DEF LevelFrom, Touched
<1>3. LevelsFrom(bk, b, init - 1, cur)' <=> LevelsFrom(bk, b, init - 1, cur)
  BY <1>2 DEF LevelsFrom
<1>4. \A n \in 1..cur : n \in 1..k
  OBVIOUS
<1>5. RptSeq(b, cur)' = RptSeq(b, cur)
  BY <1>4, PastStays
<1>6. CountIs(bk, b, cur)' <=> CountIs(bk, b, cur)
  BY <1>5 DEF CountIs
<1>7. \A n \in (cur + 1)..num : n \in 1..k
  OBVIOUS
<1> QED BY <1>3, <1>6, <1>7 DEF IsFrom

LEMMA TalliedLasts ==
  ASSUME NEW num \in Nat, \A n \in 1..num : log'[n] = log[n],
         NEW bks, NEW p, NEW j, NEW init, TalliedAt(bks, num, p, j, init)
  PROVE  TalliedAt(bks, num, p, j, init)'
<1>1. \A b : RptSeq(b, num)' = RptSeq(b, num)
  BY PastStays
<1> QED BY <1>1 DEF TalliedAt, Sound, Tally, NoEmpty, Absent, Unread

LEMMA ExactLasts ==
  ASSUME NEW num \in Nat, \A n \in 1..num : log'[n] = log[n],
         NEW bks, NEW p, NEW j, NEW init \in Nat, NEW cur \in Nat, cur <= num,
         ExactAt(bks, num, p, j, init, cur)
  PROVE  ExactAt(bks, num, p, j, init, cur)'
<1>1. ASSUME NEW b \in Books, NEW bk, NEW m \in 1..num
      PROVE  /\ IsAt(bk, b, m, num)' <=> IsAt(bk, b, m, num)
             /\ CountIs(bk, b, m)' <=> CountIs(bk, b, m)
  <2>1. m \in Nat /\ \A n \in 1..m : n \in 1..num
    OBVIOUS
  <2>2. RptSeq(b, m)' = RptSeq(b, m) /\ \A l : SizeAt(b, l, m)' = SizeAt(b, l, m)
    BY <2>1, PastStays
  <2> QED BY <2>2 DEF IsAt, CountIs
<1>2. ASSUME NEW b \in Books, bks[b].active
      PROVE  \E m \in 1..num : IsAt(bks[b], b, m, num)' /\ (p # "failed" => CountIs(bks[b], b, m)')
  <2>1. PICK m \in 1..num : IsAt(bks[b], b, m, num) /\ (p # "failed" => CountIs(bks[b], b, m))
    BY <1>2 DEF ExactAt
  <2>2. PICK bk : bk = bks[b]
    OBVIOUS
  <2>3. IsAt(bk, b, m, num)' /\ (p # "failed" => CountIs(bk, b, m)')
    BY <1>1, <2>1, <2>2
  <2> QED BY <2>2, <2>3 DEF IsAt, CountIs
<1>3. p = "join" /\ init # 0 => IsFrom(bks[j], j, init, cur, num)'
  <2> SUFFICES ASSUME p = "join", init # 0 PROVE IsFrom(bks[j], j, init, cur, num)'
    OBVIOUS
  <2>1. PICK bk : bk = bks[j]
    OBVIOUS
  <2>2. IsFrom(bk, j, init, cur, num)
    BY <2>1 DEF ExactAt
  <2>3. IsFrom(bk, j, init, cur, num)'
    BY <2>2, IsFromLasts
  <2> QED BY <2>1, <2>3
<1> QED BY <1>2, <1>3 DEF ExactAt

LEMMA ThenTallied ==
  ASSUME NEW bks, NEW num \in Nat, NEW p, NEW j, NEW init,
         bks = books', num = inc_msg_num', p = pc', j = joining', init = msg_num_init',
         \A n \in 1..num : log'[n] = log[n], TalliedAt(bks, num, p, j, init)
  PROVE  Tallied'
<1>1. TalliedAt(bks, num, p, j, init)'
  BY TalliedLasts
<1>2. TalliedAt(books, inc_msg_num, pc, joining, msg_num_init)'
  BY <1>1 DEF TalliedAt, Sound, Tally, NoEmpty, Absent, Unread, RptSeq, Touches
<1> QED BY <1>2 DEF TalliedAt, Tallied

LEMMA ThenExact ==
  ASSUME NEW bks, NEW num \in Nat, NEW p, NEW j, NEW init \in Nat, NEW cur \in Nat, cur <= num,
         bks = books', num = inc_msg_num', p = pc', j = joining', init = msg_num_init', cur = msg_num_cur',
         \A n \in 1..num : log'[n] = log[n], ExactAt(bks, num, p, j, init, cur)
  PROVE  Exact'
<1>1. ExactAt(bks, num, p, j, init, cur)'
  BY ExactLasts
<1>2. \A b \in Books : books'[b].active =>
        \E m \in 1..inc_msg_num' : /\ IsAt(books[b], b, m, inc_msg_num)'
                                   /\ pc' # "failed" => CountIs(books[b], b, m)'
  BY <1>1 DEF ExactAt, IsAt, CountIs
<1>3. ASSUME pc' = "join", msg_num_init' # 0
      PROVE  IsFrom(books[joining], joining, msg_num_init, msg_num_cur, inc_msg_num)'
  <2>1. IsFrom(bks[j], j, init, cur, num)'
    BY <1>1, <1>3 DEF ExactAt
  <2>2. IsFrom(books[joining], j, init, cur, num)'
    <3>1. bks[j].ob = books'[joining'].ob /\ bks[j].rptseq = books'[joining'].rptseq
      OBVIOUS
    <3>2. ASSUME NEW l \in Levels PROVE LevelFrom(books[joining].ob[l], j, l, init - 1, cur)'
      <4>1. LevelFrom(bks[j].ob[l], j, l, init - 1, cur)'
        BY <2>1 DEF IsFrom, LevelsFrom
      <4>2. bks[j].ob[l] = books'[joining'].ob[l]
        BY <3>1
      <4> QED BY <4>1, <4>2 DEF LevelFrom
    <3>3. CountIs(books[joining], j, cur)'
      <4>1. CountIs(bks[j], j, cur)'
        BY <2>1 DEF IsFrom
      <4> QED BY <3>1, <4>1 DEF CountIs
    <3>4. (FeedsNum = 1 => \A n \in (cur + 1)..num : log[n] = NoEntry)'
      BY <2>1 DEF IsFrom
    <3> QED BY <3>2, <3>3, <3>4 DEF IsFrom, LevelsFrom
  <2>3. \A l, n : SizeAt(joining, l, n)' = SizeAt(j, l, n)'
    BY DEF SizeAt, Touches, RptSeq
  <2>4. \A n : RptSeq(joining, n)' = RptSeq(j, n)'
    BY DEF Touches, RptSeq
  <2>5. \A l, a, m : Touched(joining, l, a, m)' <=> Touched(j, l, a, m)'
    BY DEF Touched
  <2>6. RptSeq(joining, msg_num_cur)' = RptSeq(j, cur)'
    BY DEF Touches, RptSeq
  <2>7. CountIs(books[joining], joining, msg_num_cur)'
    BY <2>2, <2>6 DEF IsFrom, CountIs
  <2>8. ASSUME NEW l \in Levels
        PROVE  LevelFrom(books[joining].ob[l], joining, l, msg_num_init - 1, msg_num_cur)'
    <3>1. LevelFrom(books[joining].ob[l], j, l, init - 1, cur)'
      BY <2>2 DEF IsFrom, LevelsFrom
    <3>2. Touched(joining, l, msg_num_init - 1, msg_num_cur)' <=> Touched(j, l, init - 1, cur)'
      BY DEF Touched
    <3>3. \A n : Touched(joining, l, n, msg_num_cur)' <=> Touched(j, l, n, cur)'
      BY DEF Touched
    <3> QED BY <2>3, <2>4, <3>1, <3>2, <3>3 DEF LevelFrom
  <2> QED BY <2>2, <2>7, <2>8 DEF IsFrom, LevelsFrom
<1>4. FeedsNum = 1 => OnlySubscribingFails'
  BY <1>1 DEF ExactAt, OnlySubscribingFails
<1> QED BY <1>2, <1>3, <1>4 DEF Exact

-----------------------------------------------------------------------------
(***************************************************************************)
(* The steps.                                                              *)
(***************************************************************************)
LEMMA JoinsIs ==
  ASSUME NEW bk \in Book
  PROVE  /\ Joins(bk) \in Book /\ Joins(bk).active = FALSE /\ Joins(bk).join = TRUE
         /\ Joins(bk).ob = bk.ob /\ Joins(bk).rptseq = bk.rptseq
         /\ Cleared(bk) \in Book /\ Unread(Cleared(bk)) /\ Unread(Joins(Cleared(bk)))
<1>1. ASSUME NEW k \in Book
      PROVE  /\ Joins(k) \in Book /\ Joins(k).active = FALSE /\ Joins(k).join = TRUE
             /\ Joins(k).ob = k.ob /\ Joins(k).rptseq = k.rptseq
  BY DEF Joins, Book
<1>2. Cleared(bk) \in Book /\ Cleared(bk).ob = NewBook.ob /\ Cleared(bk).rptseq = 0
  BY NoLevelIs DEF Cleared, Book
<1> QED BY <1>1, <1>2 DEF Unread

LEMMA InitKeeps == Init => IInv
<1> SUFFICES ASSUME Init PROVE IInv
  OBVIOUS
<1>1. log = <<>> /\ Len(log) = 0 /\ log \in Seq(Entries \cup {NoEntry})
  BY EmptySeq DEF Init
<1>2. \A b \in Books : books[b] = NewBook /\ books[b].active = FALSE
  BY DEF Init, NewBook
<1>3. Ranges
  <2>1. 0 \in 0..Len(log) /\ 0 \in 0..BooksNum
    BY <1>1, ConstantsAre
  <2>2. books \in [Books -> Book] /\ recv_num \in [Feeds -> 0..Len(log)]
    BY <2>1, NoLevelIs DEF Init
  <2>3. NoSnapshot \in [book : 0..BooksNum, last : 0..Len(log)]
    BY <2>1 DEF NoSnapshot
  <2>4. /\ inc_msg_num = 0 /\ inc_gap_mode = FALSE /\ pc = "subscribe" /\ joining = 1
        /\ recovering = FALSE /\ msg_num_init = 0 /\ msg_num_cur = 0 /\ snapshot = NoSnapshot
    BY DEF Init
  <2>5. 1 \in Books
    BY ConstantsAre
  <2>6. inc_msg_num \in 0..Len(log) /\ snapshot \in [book : 0..BooksNum, last : 0..Len(log)]
    BY <2>1, <2>3, <2>4
  <2>7. /\ msg_num_init \in Nat /\ msg_num_cur \in Nat
        /\ msg_num_init <= msg_num_cur /\ msg_num_cur <= inc_msg_num
    BY <2>4
  <2> QED BY <1>1, <2>2, <2>4, <2>5, <2>6, <2>7 DEF Ranges
<1>4. Order
  BY <1>2, ConstantsAre DEF Init, Order, Books
<1>5. Tallied
  BY <1>2 DEF Init, Tallied, Sound
<1>6. SomeRead
  BY ConstantsAre DEF Init, SomeRead
<1>7. Exact
  BY <1>2 DEF Init, Exact, OnlySubscribingFails
<1> QED BY <1>3, <1>4, <1>5, <1>6, <1>7 DEF IInv, FeedsInv

LEMMA SubscribeKeeps ==
  ASSUME FeedsInv, Subscribe
  PROVE  FeedsInv' /\ (Exact => Exact')
<1>0. Ranges /\ Order /\ Tallied /\ SomeRead
  BY DEF FeedsInv
<1>1. /\ pc = "subscribe" /\ pc' = "join" /\ joining' = joining /\ recovering' = recovering
      /\ books' = [books EXCEPT ![joining] = Joins(@)] /\ log' = log
      /\ recv_num' = recv_num /\ inc_msg_num' = inc_msg_num /\ inc_gap_mode' = inc_gap_mode
      /\ msg_num_init' = 0 /\ msg_num_cur' = 0 /\ snapshot' = NoSnapshot
  BY DEF Subscribe, ResetLocals, feeds
<1>2. joining \in Books /\ books \in [Books -> Book] /\ Len(log) \in Nat /\ inc_msg_num \in Nat
  BY <1>0, LenProperties DEF Ranges
<1>3. joining >= joining /\ \A b \in Books : b \in Nat
  BY <1>2, ConstantsAre
<1>4. /\ ~recovering /\ \A b \in Books : b >= joining => books[b] = NewBook
      /\ \A b \in Books : b < joining => books[b].active
  BY <1>0, <1>1 DEF Order
<1>5. /\ NewBook.active = FALSE /\ NewBook.rptseq = 0 /\ Unread(NewBook)
  BY DEF NewBook, Unread
<1>6. PICK bks : bks = books'
  OBVIOUS
<1>7. /\ bks \in [Books -> Book] /\ \A b \in Books : b # joining => bks[b] = books[b]
      /\ bks[joining] = Joins(books[joining])
  BY <1>1, <1>2, <1>6, JoinsIs
<1>8. /\ bks[joining].active = FALSE /\ bks[joining].join = TRUE /\ bks[joining].rptseq = 0
      /\ Unread(bks[joining])
  <2>1. books[joining] = NewBook
    BY <1>2, <1>3, <1>4
  <2>2. PICK bk : bk = NewBook
    OBVIOUS
  <2>3. /\ Joins(bk).active = FALSE /\ Joins(bk).join = TRUE
        /\ Joins(bk).ob = bk.ob /\ Joins(bk).rptseq = bk.rptseq
    BY <2>2, NoLevelIs, JoinsIs
  <2> QED BY <1>5, <1>7, <2>1, <2>2, <2>3 DEF Unread
<1>9. Ranges'
  BY <1>0, <1>1, <1>2, <1>6, <1>7, ConstantsAre DEF Ranges, NoSnapshot
<1>10. Order'
  <2>1. \A b \in Books : b > joining => bks[b] = NewBook
    BY <1>2, <1>3, <1>4, <1>7
  <2>2. \A b \in Books : b >= joining <=> ~bks[b].active
    BY <1>2, <1>3, <1>4, <1>5, <1>7, <1>8
  <2>3. inc_msg_num = 0 => \A b \in Books : ~bks[b].active
    BY <1>0, <1>7, <1>8 DEF Order
  <2> QED BY <1>1, <1>6, <1>8, <2>1, <2>2, <2>3 DEF Order
<1>11. Tallied'
  <2>1. \A b \in Books : Sound(bks[b], b, inc_msg_num)
    BY <1>0, <1>7, <1>8 DEF Tallied, Sound
  <2>2. Tally(bks[joining], joining, inc_msg_num)
    BY <1>2, <1>8, RptSeqIs DEF Tally
  <2>3. PICK num, j : num = inc_msg_num /\ j = joining
    OBVIOUS
  <2>4. TalliedAt(bks, num, "join", j, 0)
    BY <1>8, <2>1, <2>2, <2>3 DEF TalliedAt
  <2> QED BY <1>1, <1>2, <1>6, <2>3, <2>4, ThenTallied
<1>12. SomeRead'
  BY <1>0, <1>1 DEF SomeRead
<1>13. ASSUME Exact PROVE Exact'
  <2>1. ASSUME NEW b \in Books, bks[b].active
        PROVE  \E m \in 1..inc_msg_num : IsAt(bks[b], b, m, inc_msg_num) /\ CountIs(bks[b], b, m)
    BY <1>1, <1>7, <1>8, <1>13, <2>1 DEF Exact
  <2>2. PICK num, j, p, init, cur :
          num = inc_msg_num /\ j = joining /\ p = "join" /\ init = 0 /\ cur = 0
    OBVIOUS
  <2>3. ExactAt(bks, num, p, j, init, cur) /\ init \in Nat /\ cur \in Nat /\ cur <= num /\ num \in Nat
    BY <1>2, <2>1, <2>2 DEF ExactAt
  <2> QED BY <1>1, <1>2, <1>6, <2>2, <2>3, ThenExact
<1> QED BY <1>9, <1>10, <1>11, <1>12, <1>13 DEF FeedsInv

\* fast_books_recover leaves every book and joins the first.
LEMMA RecoverKeeps ==
  ASSUME Ranges, NEW bks \in [Books -> Book], Recover(bks), UNCHANGED log
  PROVE  FeedsInv' /\ Exact'
<1>1. /\ recv_num' = [f \in Feeds |-> 0] /\ inc_msg_num' = 0 /\ inc_gap_mode' = FALSE
      /\ pc' = "join" /\ joining' = 1 /\ recovering' = TRUE /\ log' = log
      /\ msg_num_init' = 0 /\ msg_num_cur' = 0 /\ snapshot' = NoSnapshot
      /\ books' = [Deactivated(bks) EXCEPT ![1] = Joins(Cleared(@))]
  BY DEF Recover, ResetLocals
<1>2. Len(log) \in Nat /\ 1 \in Books /\ 1 \in Feeds /\ log \in Seq(Entries \cup {NoEntry})
  BY ConstantsAre, LenProperties DEF Ranges
<1>3. PICK new, left : new = books' /\ left = Deactivated(bks)
  OBVIOUS
<1>4. \A b \in Books : [bks[b] EXCEPT !.active = FALSE] \in Book /\ [bks[b] EXCEPT !.active = FALSE].active = FALSE
  BY DEF Book
<1>5. left \in [Books -> Book] /\ \A b \in Books : left[b].active = FALSE
  BY <1>3, <1>4 DEF Deactivated
<1>6. PICK one : one = left[1]
  OBVIOUS
<1>7. /\ Joins(Cleared(one)) \in Book /\ Joins(Cleared(one)).active = FALSE
      /\ Joins(Cleared(one)).join = TRUE /\ Unread(Joins(Cleared(one)))
  <2>1. one \in Book
    BY <1>2, <1>5, <1>6
  <2>2. PICK k : k = Cleared(one)
    OBVIOUS
  <2>3. k \in Book /\ Unread(Joins(k))
    BY <2>1, <2>2, JoinsIs
  <2> QED BY <2>2, <2>3, JoinsIs
<1>8. new = [left EXCEPT ![1] = Joins(Cleared(one))]
  BY <1>1, <1>3, <1>6
<1>9. /\ new \in [Books -> Book] /\ \A b \in Books : new[b].active = FALSE
      /\ new[1].join = TRUE /\ Unread(new[1])
  BY <1>2, <1>5, <1>7, <1>8
<1>10. Ranges'
  <2>1. 0 \in 0..Len(log) /\ 0 \in 0..BooksNum
    BY <1>2, ConstantsAre
  <2>2. recv_num' \in [Feeds -> 0..Len(log)] /\ NoSnapshot \in [book : 0..BooksNum, last : 0..Len(log)]
    BY <1>1, <2>1 DEF NoSnapshot
  <2>3. /\ inc_msg_num' \in 0..Len(log) /\ inc_gap_mode' \in BOOLEAN
        /\ snapshot' \in [book : 0..BooksNum, last : 0..Len(log)] /\ recovering' \in BOOLEAN
    BY <1>1, <2>1, <2>2
  <2>4. /\ msg_num_init' \in Nat /\ msg_num_cur' \in Nat
        /\ msg_num_init' <= msg_num_cur' /\ msg_num_cur' <= inc_msg_num'
    BY <1>1
  <2> QED BY <1>1, <1>2, <1>3, <1>9, <2>2, <2>3, <2>4 DEF Ranges
<1>11. Order'
  <2>1. \A b \in Books : b >= 1
    BY DEF Books
  <2> QED BY <1>1, <1>3, <1>9, <2>1 DEF Order
<1>12. \A n \in 1..0 : FALSE
  OBVIOUS
<1>13. Tallied'
  <2>1. Tally(new[1], 1, 0)
    <3>1. RptSeq(1, 0) \in Nat
      BY RptSeqIs
    <3> QED BY <1>9, <3>1 DEF Tally, Unread
  <2>2. PICK num, j, p, init : num = 0 /\ j = 1 /\ p = "join" /\ init = 0
    OBVIOUS
  <2>3. TalliedAt(new, num, p, j, init) /\ num \in Nat /\ \A n \in 1..num : log'[n] = log[n]
    BY <1>9, <1>12, <2>1, <2>2 DEF TalliedAt, Sound
  <2> QED BY <1>1, <1>3, <2>2, <2>3, ThenTallied
<1>14. SomeRead'
  BY <1>1, <1>2 DEF SomeRead
<1>15. Exact'
  BY <1>1, <1>3, <1>9 DEF Exact, OnlySubscribingFails
<1> QED BY <1>10, <1>11, <1>13, <1>14, <1>15 DEF FeedsInv

\* What the feeds become.
LEMMA FeedsAre ==
  ASSUME Ranges, NEW f, NextIs(f), FeedsBecome(f), UNCHANGED log
  PROVE  /\ recv_num' \in [Feeds -> 0..Len(log)] /\ inc_msg_num' \in 0..Len(log)
         /\ inc_gap_mode' \in BOOLEAN /\ inc_msg_num' = f.num
         /\ ~GapLost(f) => SomeRead'
         /\ Len(log) \in Nat
<1>1. recv_num' = f.recv /\ inc_msg_num' = f.num /\ inc_gap_mode' = f.gap
  BY DEF FeedsBecome
<1> QED BY <1>1, LenProperties DEF NextIs, Feed, SomeRead, Ranges

\* A join or an update fails.
LEMMA FailKeeps ==
  ASSUME FeedsInv, NEW f, NextIs(f), FeedsBecome(f), UNCHANGED <<log, join>>,
         pc' = "failed", NEW bks \in [Books -> Book], books' = bks,
         \A b \in Books : bks[b].active = books[b].active /\ Sound(bks[b], b, f.num)
  PROVE  /\ FeedsInv'
         /\ (FeedsNum = 1 => \E b \in Books : ~books[b].active) /\
            (\A b \in Books : books[b].active => \E m \in 1..f.num : IsAt(bks[b], b, m, f.num))
              => Exact'
<1>0. Ranges /\ Order
  BY DEF FeedsInv
<1>1. /\ recv_num' \in [Feeds -> 0..Len(log)] /\ inc_msg_num' \in 0..Len(log)
      /\ inc_gap_mode' \in BOOLEAN /\ inc_msg_num' = f.num
  BY <1>0, FeedsAre
<1>2. /\ joining' = joining /\ recovering' = recovering /\ msg_num_init' = msg_num_init
      /\ msg_num_cur' = msg_num_cur /\ snapshot' = snapshot /\ log' = log
  BY DEF join
<1>3. /\ f.num \in Nat /\ inc_msg_num \in Nat /\ inc_msg_num <= f.num
      /\ msg_num_init \in Nat /\ msg_num_cur \in Nat /\ msg_num_cur <= f.num
  BY <1>0, NumbersAre DEF Ranges
<1>4. Ranges'
  BY <1>0, <1>1, <1>2, <1>3 DEF Ranges
<1>5. Order'
  <2>1. inc_msg_num' = 0 => inc_msg_num = 0
    BY <1>1, <1>3
  <2> QED BY <1>0, <2>1 DEF Order
<1>6. PICK num, p, j, init, cur : /\ num = f.num /\ p = "failed" /\ j = joining
                                  /\ init = msg_num_init /\ cur = msg_num_cur
  OBVIOUS
<1>7. /\ num \in Nat /\ init \in Nat /\ cur \in Nat /\ cur <= num /\ \A n \in 1..num : log'[n] = log[n]
  BY <1>2, <1>3, <1>6
<1>8. Tallied'
  <2>1. TalliedAt(bks, num, p, j, init)
    BY <1>6 DEF TalliedAt
  <2> QED BY <1>1, <1>2, <1>6, <1>7, <2>1, ThenTallied
<1>9. SomeRead'
  BY DEF SomeRead
<1>10. ASSUME FeedsNum = 1 => \E b \in Books : ~books[b].active,
              \A b \in Books : books[b].active => \E m \in 1..f.num : IsAt(bks[b], b, m, f.num)
       PROVE  Exact'
  <2>1. ExactAt(bks, num, p, j, init, cur)
    BY <1>6, <1>10 DEF ExactAt
  <2> QED BY <1>1, <1>2, <1>6, <1>7, <2>1, ThenExact
<1> QED BY <1>4, <1>5, <1>8, <1>9, <1>10 DEF FeedsInv

\* A join goes on.
LEMMA GoKeeps ==
  ASSUME FeedsInv, pc = "join", NEW f, NextIs(f), ~GapLost(f), NEW a, Kept(f, a), FeedsBecome(f),
         UNCHANGED <<log, pc, joining, recovering>>, books' = a.books,
         msg_num_init' = First(f), msg_num_cur' = Cur(f),
         snapshot' \in [book : 0..BooksNum, last : 0..Len(log)],
         snapshot' # NoSnapshot => snapshot'.book = joining /\ First(f) \in 1..snapshot'.last
  PROVE  FeedsInv' /\ (a.ok /\ ExactAfter(f, a) => Exact')
<1>0. Ranges /\ Order
  BY DEF FeedsInv
<1>1. /\ recv_num' \in [Feeds -> 0..Len(log)] /\ inc_msg_num' \in 0..Len(log)
      /\ inc_gap_mode' \in BOOLEAN /\ inc_msg_num' = f.num /\ SomeRead'
  BY <1>0, FeedsAre
<1>2. /\ f.num \in Nat /\ inc_msg_num \in Nat /\ inc_msg_num <= f.num /\ First(f) \in Nat /\ Cur(f) \in Nat
      /\ First(f) <= Cur(f) /\ Cur(f) <= f.num /\ (First(f) = 0 <=> Cur(f) = 0)
  BY <1>0, NumbersAre
<1>3. PICK bks : bks = a.books
  OBVIOUS
<1>4. /\ bks \in [Books -> Book] /\ joining \in Books
      /\ \A b \in Books : /\ bks[b].active = books[b].active /\ bks[b].join = books[b].join
                          /\ Sound(bks[b], b, f.num)
                          /\ ~Takes(books[b]) => bks[b] = books[b]
      /\ Tally(bks[joining], joining, f.num)
      /\ First(f) = 0 => Unread(bks[joining])
  BY <1>0, <1>3 DEF Kept, Ranges
<1>5. Ranges'
  BY <1>0, <1>1, <1>2, <1>3, <1>4 DEF Ranges
<1>6. Order'
  <2>1. inc_msg_num' = 0 => inc_msg_num = 0
    BY <1>1, <1>2
  <2>2. ~Takes(NewBook)
    BY DEF NewBook, Takes
  <2>3. ~recovering => \A b \in Books : b > joining => bks[b] = NewBook
    BY <1>0, <1>4, <2>2 DEF Order
  <2> QED BY <1>0, <1>3, <1>4, <2>1, <2>3 DEF Order
<1>7. PICK num, p, j, init, cur : /\ num = f.num /\ p = "join" /\ j = joining
                                  /\ init = First(f) /\ cur = Cur(f)
  OBVIOUS
<1>8. /\ num \in Nat /\ init \in Nat /\ cur \in Nat /\ cur <= num /\ \A n \in 1..num : log'[n] = log[n]
  BY <1>2, <1>7
<1>9. Tallied'
  <2>1. TalliedAt(bks, num, p, j, init)
    BY <1>4, <1>7 DEF TalliedAt
  <2> QED BY <1>1, <1>3, <1>7, <1>8, <2>1, ThenTallied
<1>10. ASSUME a.ok, ExactAfter(f, a) PROVE Exact'
  <2>1. \A b \in Books : bks[b].active =>
          \E m \in 1..num : IsAt(bks[b], b, m, num) /\ CountIs(bks[b], b, m)
    BY <1>3, <1>4, <1>7, <1>10 DEF ExactAfter
  <2>2. init # 0 => IsFrom(bks[j], j, init, cur, num)
    BY <1>3, <1>7, <1>10 DEF ExactAfter
  <2>3. ExactAt(bks, num, p, j, init, cur)
    BY <1>7, <2>1, <2>2 DEF ExactAt
  <2> QED BY <1>1, <1>3, <1>7, <1>8, <2>3, ThenExact
<1> QED BY <1>1, <1>5, <1>6, <1>9, <1>10 DEF FeedsInv

\* A join is done: its book is bk from now on.
LEMMA DoneKeeps ==
  ASSUME FeedsInv, pc = "join", NEW f, NextIs(f), ~GapLost(f), NEW a, Kept(f, a), FeedsBecome(f),
         UNCHANGED log, First(f) # 0, NEW bk \in Book, bk.active = TRUE, Sound(bk, joining, f.num),
         NEW bks, bks = [a.books EXCEPT ![joining] = bk], JoinDone(bks)
  PROVE  /\ FeedsInv'
         /\ a.ok /\ ExactAfter(f, a) /\
            (\E m \in 1..f.num : IsAt(bk, joining, m, f.num) /\ CountIs(bk, joining, m))
              => Exact'
<1>0. Ranges /\ Order
  BY DEF FeedsInv
<1>1. /\ recv_num' \in [Feeds -> 0..Len(log)] /\ inc_msg_num' \in 0..Len(log)
      /\ inc_gap_mode' \in BOOLEAN /\ inc_msg_num' = f.num /\ SomeRead' /\ Len(log) \in Nat
  BY <1>0, FeedsAre
<1>2. f.num \in Nat /\ f.num # 0
  BY <1>0, NumbersAre
<1>3. /\ joining \in Books /\ joining \in Nat /\ BooksNum \in Nat /\ joining <= BooksNum
      /\ joining # BooksNum => joining + 1 \in Books /\ joining < BooksNum
      /\ joining = BooksNum => ~(joining < BooksNum)
      /\ \A b \in Books : b \in Nat /\ b <= BooksNum
  BY <1>0, SetAssumption DEF Ranges, Books
<1>4. /\ a.books \in [Books -> Book]
      /\ \A b \in Books : /\ a.books[b].active = books[b].active
                          /\ Sound(a.books[b], b, f.num)
                          /\ ~Takes(books[b]) => a.books[b] = books[b]
  BY <1>0 DEF Kept
<1>5. /\ bks \in [Books -> Book] /\ bks[joining] = bk
      /\ \A b \in Books : b # joining => bks[b] = a.books[b]
  BY <1>3, <1>4
<1>6. \A b \in Books : Sound(bks[b], b, f.num)
  BY <1>4, <1>5
<1>7. \A b \in Books : b > joining <=> ~bks[b].active
  <2>1. \A b \in Books : b >= joining <=> ~books[b].active
    BY <1>0 DEF Order
  <2>2. ASSUME NEW b \in Books PROVE b > joining <=> ~bks[b].active
    <3>1. CASE b = joining
      BY <1>3, <1>5, <3>1
    <3>2. CASE b # joining
      <4>1. bks[b].active = books[b].active
        BY <1>4, <1>5, <3>2
      <4>2. b > joining <=> b >= joining
        BY <1>3, <3>2
      <4> QED BY <2>1, <4>1, <4>2
    <3> QED BY <3>1, <3>2
  <2> QED BY <2>2
<1>8. /\ joining' = IF joining = BooksNum THEN joining ELSE joining + 1
      /\ recovering' = (recovering /\ joining < BooksNum)
      /\ pc' = IF joining = BooksNum THEN "update"
               ELSE IF recovering THEN "join" ELSE "subscribe"
      /\ books' = IF recovering /\ joining < BooksNum
                  THEN [bks EXCEPT ![joining + 1] = Joins(Cleared(@))] ELSE bks
      /\ msg_num_init' = 0 /\ msg_num_cur' = 0 /\ snapshot' = NoSnapshot /\ log' = log
  BY DEF JoinDone, ResetLocals
<1>9. PICK new : new = books'
  OBVIOUS
<1>10. ASSUME recovering, joining # BooksNum
       PROVE  /\ new \in [Books -> Book] /\ \A b \in Books : b # joining + 1 => new[b] = bks[b]
              /\ new[joining + 1].active = FALSE /\ new[joining + 1].join = TRUE
              /\ Unread(new[joining + 1])
  <2>1. PICK one, k : one = bks[joining + 1] /\ k = Cleared(one)
    OBVIOUS
  <2>2. new = [bks EXCEPT ![joining + 1] = Joins(k)]
    BY <1>3, <1>8, <1>9, <1>10, <2>1
  <2>3. one \in Book
    BY <1>3, <1>5, <1>10, <2>1
  <2>4. k \in Book /\ Unread(Joins(k))
    BY <2>1, <2>3, JoinsIs
  <2>5. Joins(k) \in Book /\ Joins(k).active = FALSE /\ Joins(k).join = TRUE
    BY <2>4, JoinsIs
  <2> QED BY <1>3, <1>5, <1>10, <2>2, <2>4, <2>5
<1>11. ASSUME ~(recovering /\ joining # BooksNum) PROVE new = bks
  BY <1>3, <1>8, <1>9, <1>11
<1>12. new \in [Books -> Book]
  BY <1>5, <1>10, <1>11
<1>13. \A b \in Books : /\ new[b].active = bks[b].active
                        /\ new[b].active => new[b] = bks[b]
  <2> TAKE b \in Books
  <2>1. CASE recovering /\ joining # BooksNum
    <3>1. CASE b = joining + 1
      <4>1. b > joining
        BY <1>3, <3>1
      <4>2. ~bks[b].active /\ bks[b].active \in BOOLEAN
        BY <1>5, <1>7, <4>1 DEF Book
      <4> QED BY <1>10, <2>1, <3>1, <4>2
    <3>2. CASE b # joining + 1
      BY <1>10, <2>1, <3>2
    <3> QED BY <3>1, <3>2
  <2>2. CASE ~(recovering /\ joining # BooksNum)
    BY <1>11, <2>2
  <2> QED BY <2>1, <2>2
<1>14. Ranges'
  <2>1. 0 \in 0..Len(log) /\ 0 \in 0..BooksNum
    BY <1>1, <1>3
  <2>2. snapshot' \in [book : 0..BooksNum, last : 0..Len(log)]
    BY <1>8, <2>1 DEF NoSnapshot
  <2>3. /\ msg_num_init' \in Nat /\ msg_num_cur' \in Nat
        /\ msg_num_init' <= msg_num_cur' /\ msg_num_cur' <= inc_msg_num'
    BY <1>1, <1>2, <1>8
  <2>4. joining' \in Books /\ recovering' \in BOOLEAN /\ pc' \in {"subscribe", "join", "update", "failed"}
    BY <1>3, <1>8
  <2> QED BY <1>0, <1>1, <1>8, <1>9, <1>12, <2>2, <2>3, <2>4 DEF Ranges
<1>15. Order'
  <2>0. inc_msg_num' # 0
    BY <1>1, <1>2
  <2>1. CASE joining = BooksNum
    <3>1. pc' = "update" /\ \A b \in Books : new[b].active
      BY <1>3, <1>7, <1>8, <1>13, <2>1
    <3> QED BY <1>9, <2>0, <3>1 DEF Order
  <2>2. CASE joining # BooksNum /\ recovering
    <3>1. pc' = "join" /\ joining' = joining + 1 /\ recovering' = TRUE
      BY <1>3, <1>8, <2>2
    <3>2. \A b \in Books : b >= joining + 1 <=> b > joining
      BY <1>3
    <3> QED BY <1>7, <1>9, <1>10, <1>13, <2>0, <2>2, <3>1, <3>2 DEF Order
  <2>3. CASE joining # BooksNum /\ ~recovering
    <3>1. pc' = "subscribe" /\ joining' = joining + 1 /\ recovering' = FALSE
      BY <1>3, <1>8, <2>3
    <3>2. \A b \in Books : (b >= joining + 1 <=> b > joining) /\ (b < joining + 1 <=> ~(b > joining))
      BY <1>3
    <3>3. ~Takes(NewBook)
      BY DEF NewBook, Takes
    <3>4. ASSUME NEW b \in Books, b > joining PROVE new[b] = NewBook
      <4>1. books[b] = NewBook
        BY <1>0, <2>3, <3>4 DEF Order
      <4>2. b # joining
        BY <1>3, <3>4
      <4> QED BY <1>4, <1>5, <1>11, <2>3, <3>3, <4>1, <4>2
    <3>5. \A b \in Books : b < joining + 1 => new[b].active
      BY <1>7, <1>13, <3>2
    <3> QED BY <1>9, <2>0, <3>1, <3>2, <3>4, <3>5 DEF Order
  <2> QED BY <2>1, <2>2, <2>3
<1>16. PICK num, p, j, init, cur : num = f.num /\ p = pc' /\ j = joining' /\ init = 0 /\ cur = 0
  OBVIOUS
<1>17. /\ num \in Nat /\ init \in Nat /\ cur \in Nat /\ cur <= num /\ \A n \in 1..num : log'[n] = log[n]
  BY <1>2, <1>8, <1>16
<1>18. Tallied'
  <2>1. \A b \in Books : Sound(new[b], b, num)
    BY <1>6, <1>13, <1>16 DEF Sound
  <2>2. p = "join" => Tally(new[j], j, num) /\ Unread(new[j])
    <3>1. p = "join" => j = joining + 1 /\ recovering /\ joining # BooksNum
      BY <1>8, <1>16
    <3>2. p = "join" => Unread(new[j])
      BY <1>10, <3>1
    <3>3. RptSeq(j, num) \in Nat
      BY <1>17, RptSeqIs
    <3> QED BY <3>2, <3>3 DEF Unread, Tally
  <2>3. TalliedAt(new, num, p, j, init)
    BY <2>1, <2>2 DEF TalliedAt
  <2> QED BY <1>1, <1>8, <1>9, <1>16, <1>17, <2>3, ThenTallied
<1>19. ASSUME a.ok, ExactAfter(f, a),
              \E m \in 1..f.num : IsAt(bk, joining, m, f.num) /\ CountIs(bk, joining, m)
       PROVE  Exact'
  <2>1. ASSUME NEW b \in Books, new[b].active
        PROVE  \E m \in 1..num : IsAt(new[b], b, m, num) /\ CountIs(new[b], b, m)
    <3>1. new[b] = bks[b] /\ bks[b].active
      BY <1>13, <2>1
    <3>2. CASE b = joining
      BY <1>5, <1>16, <1>19, <3>1, <3>2
    <3>3. CASE b # joining
      <4>1. new[b] = a.books[b] /\ books[b].active
        BY <1>4, <1>5, <3>1, <3>3
      <4> QED BY <1>16, <1>19, <4>1 DEF ExactAfter
    <3> QED BY <3>2, <3>3
  <2>2. p # "failed"
    BY <1>8, <1>16
  <2>3. ExactAt(new, num, p, j, init, cur)
    BY <1>16, <2>1, <2>2 DEF ExactAt
  <2> QED BY <1>1, <1>8, <1>9, <1>16, <1>17, <2>3, ThenExact
<1> QED BY <1>1, <1>14, <1>15, <1>18, <1>19 DEF FeedsInv

\* When the gap is lost, the feeds have gone on, the books have not.
LEMMA GapKeeps ==
  ASSUME FeedsInv, NEW f, NextIs(f), GapLost(f)
  PROVE  /\ \A b \in Books : Sound(books[b], b, f.num)
         /\ Exact => \A b \in Books : books[b].active => \E m \in 1..f.num : IsAt(books[b], b, m, f.num)
<1>0. Ranges
  BY DEF FeedsInv
<1>1. f.num \in Nat /\ inc_msg_num \in Nat /\ inc_msg_num <= f.num
  BY <1>0, NumbersAre
<1>2. ASSUME NEW b \in Books PROVE Sound(books[b], b, f.num)
  <2>1. /\ RptSeq(b, inc_msg_num) <= RptSeq(b, f.num)
        /\ RptSeq(b, inc_msg_num) \in Nat /\ RptSeq(b, f.num) \in Nat
    BY <1>1, RptSeqGrows, RptSeqIs
  <2>2. books[b].rptseq \in Nat
    BY <1>0, BookFields
  <2>3. Sound(books[b], b, inc_msg_num)
    BY DEF FeedsInv, Tallied
  <2> QED BY <2>1, <2>2, <2>3 DEF Sound, Tally
<1>3. ASSUME Exact, NEW b \in Books, books[b].active
      PROVE  \E m \in 1..f.num : IsAt(books[b], b, m, f.num)
  <2>1. PICK m \in 1..inc_msg_num : IsAt(books[b], b, m, inc_msg_num)
    BY <1>3 DEF Exact
  <2>2. FeedsNum = 1 => f.num = inc_msg_num
    BY DEF NextIs, GapLost
  <2>3. IsAt(books[b], b, m, f.num)
    BY <2>1, <2>2 DEF IsAt
  <2>4. m \in 1..f.num
    BY <1>1
  <2> QED BY <2>3, <2>4
<1> QED BY <1>2, <1>3

LEMMA UpdateKeeps ==
  ASSUME FeedsInv, Update
  PROVE  FeedsInv' /\ (Safe /\ Exact => Exact')
<1>0. Ranges /\ Order /\ SomeRead /\ pc = "update" /\ log' = log
  BY DEF FeedsInv, Update
<1>1. PICK f \in Deliveries : \E a :
        /\ a = ApplyIfAny(f.next)
        /\ IF GapLost(f) THEN Recover(books)
           ELSE /\ FeedsBecome(f) /\ books' = a.books
                /\ pc' = IF a.ok THEN "update" ELSE "failed"
                /\ UNCHANGED join
  BY DEF Update
<1>2. PICK a :
        /\ a = ApplyIfAny(f.next)
        /\ IF GapLost(f) THEN Recover(books)
           ELSE /\ FeedsBecome(f) /\ books' = a.books
                /\ pc' = IF a.ok THEN "update" ELSE "failed"
                /\ UNCHANGED join
  BY <1>1
<1>3. NextIs(f)
  BY <1>0, DeliveriesAre
<1>4. Kept(f, a)
  BY <1>2, <1>3, IncrementKeeps
<1>5. Safe /\ Exact => ExactAfter(f, a)
  BY <1>0, <1>2, <1>3, IncrementExact
<1>6. CASE GapLost(f)
  <2>1. Recover(books) /\ books \in [Books -> Book]
    BY <1>0, <1>2, <1>6 DEF Ranges
  <2> QED BY <1>0, <2>1, RecoverKeeps
<1>7. PICK bks : bks = a.books
  OBVIOUS
<1>8. /\ bks \in [Books -> Book] /\ a.ok \in BOOLEAN
      /\ \A b \in Books : bks[b].active = books[b].active /\ Sound(bks[b], b, f.num)
  BY <1>4, <1>7 DEF Kept
<1>9. CASE ~GapLost(f) /\ ~a.ok
  <2>1. FeedsBecome(f) /\ books' = bks /\ pc' = "failed" /\ UNCHANGED join
    BY <1>2, <1>7, <1>9
  <2>2. ASSUME Safe, Exact
        PROVE  /\ FeedsNum = 1 => \E b \in Books : ~books[b].active
               /\ \A b \in Books : books[b].active => \E m \in 1..f.num : IsAt(bks[b], b, m, f.num)
    BY <1>0, <1>5, <1>7, <1>9, <2>2 DEF ExactAfter
  <2> QED BY <1>0, <1>3, <1>8, <2>1, <2>2, FailKeeps
<1>10. CASE ~GapLost(f) /\ a.ok
  <2>1. FeedsBecome(f) /\ books' = bks /\ pc' = "update"
    BY <1>2, <1>7, <1>10
  <2>2. /\ joining' = joining /\ recovering' = recovering /\ msg_num_init' = msg_num_init
        /\ msg_num_cur' = msg_num_cur /\ snapshot' = snapshot
    BY <1>2, <1>10 DEF join
  <2>3. /\ recv_num' \in [Feeds -> 0..Len(log)] /\ inc_msg_num' \in 0..Len(log)
        /\ inc_gap_mode' \in BOOLEAN /\ inc_msg_num' = f.num /\ SomeRead'
    BY <1>0, <1>3, <1>10, <2>1, FeedsAre
  <2>4. /\ f.num \in Nat /\ inc_msg_num \in Nat /\ inc_msg_num <= f.num
        /\ msg_num_init \in Nat /\ msg_num_cur \in Nat /\ msg_num_cur <= f.num
    BY <1>0, <1>3, NumbersAre DEF Ranges
  <2>5. Ranges'
    BY <1>0, <1>8, <2>1, <2>2, <2>3, <2>4 DEF Ranges
  <2>6. Order'
    <3>1. inc_msg_num' = 0 => inc_msg_num = 0
      BY <2>3, <2>4
    <3> QED BY <1>0, <1>8, <2>1, <3>1 DEF Order
  <2>7. PICK num, p, j, init, cur : /\ num = f.num /\ p = "update" /\ j = joining
                                    /\ init = msg_num_init /\ cur = msg_num_cur
    OBVIOUS
  <2>8. /\ num \in Nat /\ init \in Nat /\ cur \in Nat /\ cur <= num /\ \A k \in 1..num : log'[k] = log[k]
    BY <1>0, <2>4, <2>7
  <2>9. Tallied'
    <3>1. TalliedAt(bks, num, p, j, init)
      BY <1>8, <2>7 DEF TalliedAt
    <3> QED BY <2>1, <2>2, <2>3, <2>7, <2>8, <3>1, ThenTallied
  <2>10. ASSUME Safe, Exact PROVE Exact'
    <3>1. ExactAt(bks, num, p, j, init, cur)
      BY <1>5, <1>7, <1>8, <1>10, <2>7, <2>10 DEF ExactAt, ExactAfter
    <3> QED BY <2>1, <2>2, <2>3, <2>7, <2>8, <3>1, ThenExact
  <2> QED BY <2>3, <2>5, <2>6, <2>9, <2>10 DEF FeedsInv
<1> QED BY <1>6, <1>8, <1>9, <1>10

LEMMA ExchangeKeeps ==
  ASSUME FeedsInv, Exchange
  PROVE  FeedsInv' /\ (Exact => Exact')
<1>0. Ranges /\ Order /\ SomeRead
  BY DEF FeedsInv
<1>1. PICK e \in Entries \cup {NoEntry} : log' = Append(log, e)
  BY DEF Exchange
<1>2. /\ books' = books /\ recv_num' = recv_num /\ inc_msg_num' = inc_msg_num
      /\ inc_gap_mode' = inc_gap_mode /\ pc' = pc /\ joining' = joining /\ recovering' = recovering
      /\ msg_num_init' = msg_num_init /\ msg_num_cur' = msg_num_cur /\ snapshot' = snapshot
  BY DEF Exchange, feeds, join
<1>3. /\ log' \in Seq(Entries \cup {NoEntry}) /\ Len(log') = Len(log) + 1 /\ Len(log) \in Nat
      /\ \A n \in 1..Len(log) : log'[n] = log[n]
  BY <1>0, <1>1, AppendProperties, LenProperties DEF Ranges
<1>4. 0..Len(log) \subseteq 0..Len(log')
  BY <1>3
<1>5. /\ recv_num' \in [Feeds -> 0..Len(log')] /\ inc_msg_num' \in 0..Len(log')
      /\ snapshot' \in [book : 0..BooksNum, last : 0..Len(log')]
  BY <1>0, <1>2, <1>4 DEF Ranges
<1>6. Ranges'
  BY <1>0, <1>2, <1>3, <1>5 DEF Ranges
<1>7. Order'
  BY <1>0, <1>2 DEF Order
<1>8. PICK bks, num, p, j, init, cur :
        /\ bks = books /\ num = inc_msg_num /\ p = pc /\ j = joining
        /\ init = msg_num_init /\ cur = msg_num_cur
  OBVIOUS
<1>9. /\ num \in Nat /\ init \in Nat /\ cur \in Nat /\ cur <= num /\ num <= Len(log)
      /\ \A n \in 1..num : log'[n] = log[n]
  BY <1>0, <1>3, <1>8 DEF Ranges
<1>10. Tallied'
  <2>1. TalliedAt(bks, num, p, j, init)
    BY <1>8, NowAre DEF FeedsInv
  <2> QED BY <1>2, <1>8, <1>9, <2>1, ThenTallied
<1>11. ASSUME Exact PROVE Exact'
  <2>1. ExactAt(bks, num, p, j, init, cur)
    BY <1>8, <1>11, NowAre
  <2> QED BY <1>2, <1>8, <1>9, <2>1, ThenExact
<1>12. SomeRead'
  BY <1>0, <1>2 DEF SomeRead
<1> QED BY <1>6, <1>7, <1>10, <1>11, <1>12 DEF FeedsInv

\* A join that fails, with the books bks.
LEMMA JoinFailKeeps ==
  ASSUME FeedsInv, pc = "join", NEW f, NextIs(f), NEW bks \in [Books -> Book], UNCHANGED log,
         \A b \in Books : bks[b].active = books[b].active /\ Sound(bks[b], b, f.num),
         JoinFails(bks, f)
  PROVE  /\ FeedsInv'
         /\ (\A b \in Books : books[b].active => \E m \in 1..f.num : IsAt(bks[b], b, m, f.num)) => Exact'
<1>0. Ranges /\ Order /\ joining \in Books
  BY DEF FeedsInv, Ranges
<1>1. CASE recovering
  <2>1. Recover(bks)
    BY <1>1 DEF JoinFails
  <2> QED BY <1>0, <2>1, RecoverKeeps
<1>2. CASE ~recovering
  <2>1. books' = bks /\ FeedsBecome(f) /\ pc' = "failed" /\ UNCHANGED join
    BY <1>2 DEF JoinFails
  <2>2. \E b \in Books : ~books[b].active
    <3>1. joining >= joining
      BY <1>0, ConstantsAre
    <3> QED BY <1>0, <3>1 DEF Order
  <2> QED BY <2>1, <2>2, FailKeeps
<1> QED BY <1>1, <1>2

\* The snapshot s is at hand after increment f.
LEMMA UseKeeps ==
  ASSUME FeedsInv, pc = "join", NEW f, NextIs(f), ~GapLost(f), NEW a, Kept(f, a), a.ok,
         FeedsBecome(f), UNCHANGED log, NEW s \in [book : 0..BooksNum, last : 0..Len(log)],
         UseSnapshot(s, a.books, First(f), Cur(f))
  PROVE  FeedsInv' /\ (ExactAfter(f, a) => Exact')
<1>0. Ranges
  BY DEF FeedsInv
<1>1. /\ Len(log) \in Nat /\ f.num \in Nat /\ First(f) \in Nat /\ Cur(f) \in Nat /\ Cur(f) <= f.num
  BY <1>0, NumbersAre
<1>2. PICK init, cur, bk, at, rpt :
        /\ init = First(f) /\ cur = Cur(f) /\ bk = a.books[joining]
        /\ at = BookAt(joining, s.last) /\ rpt = RptSeq(joining, s.last)
  OBVIOUS
<1>3. /\ joining \in Books /\ s.last \in Nat /\ bk \in Book /\ at \in [Levels -> Nat] /\ rpt \in Nat
      /\ a.books \in [Books -> Book]
  BY <1>0, <1>1, <1>2, SizeAtNat, RptSeqIs DEF Kept, Ranges
<1>4. NoSnapshot \in [book : 0..BooksNum, last : 0..Len(log)]
  BY <1>1, SetAssumption DEF NoSnapshot
<1>5. Useful(s, init) => s.book = joining /\ init # 0 /\ s.last >= init /\ First(f) \in 1..s.last
  BY <1>1, <1>2, <1>3 DEF Useful
<1>6. \/ /\ books' = a.books /\ snapshot' \in {NoSnapshot, s} /\ (snapshot' # NoSnapshot => Useful(s, init))
         /\ msg_num_init' = init /\ msg_num_cur' = cur /\ UNCHANGED <<pc, joining, recovering>>
      \/ /\ books' = [a.books EXCEPT ![joining].snpseq = rpt, ![joining].empty = TRUE]
         /\ snapshot' = NoSnapshot
         /\ msg_num_init' = init /\ msg_num_cur' = cur /\ UNCHANGED <<pc, joining, recovering>>
      \/ /\ Useful(s, init) /\ s.last <= cur
         /\ JoinDone([a.books EXCEPT ![joining] = Activated(bk, at, rpt)])
  <2>1. s.last > cur <=> ~(s.last <= cur)
    BY <1>1, <1>2, <1>3
  <2>2. CASE ~Useful(s, init)
    BY <1>2, <2>2 DEF UseSnapshot
  <2>3. CASE Useful(s, init) /\ s.last > cur
    BY <1>2, <2>1, <2>3 DEF UseSnapshot
  <2>4. CASE Useful(s, init) /\ s.last <= cur /\ at = EmptyBook
    BY <1>2, <2>1, <2>4 DEF UseSnapshot
  <2>5. CASE Useful(s, init) /\ s.last <= cur /\ at # EmptyBook
    BY <1>2, <2>1, <2>5 DEF UseSnapshot
  <2> QED BY <2>1, <2>2, <2>3, <2>4, <2>5
<1>7. CASE /\ books' = a.books /\ snapshot' \in {NoSnapshot, s} /\ (snapshot' # NoSnapshot => Useful(s, init))
           /\ msg_num_init' = init /\ msg_num_cur' = cur /\ UNCHANGED <<pc, joining, recovering>>
  <2>1. /\ snapshot' \in [book : 0..BooksNum, last : 0..Len(log)]
        /\ snapshot' # NoSnapshot => snapshot'.book = joining /\ First(f) \in 1..snapshot'.last
    BY <1>4, <1>5, <1>7
  <2>2. books' = a.books /\ msg_num_init' = First(f) /\ msg_num_cur' = Cur(f)
    BY <1>2, <1>7
  <2> QED BY <1>7, <2>1, <2>2, GoKeeps
<1>8. CASE /\ books' = [a.books EXCEPT ![joining].snpseq = rpt, ![joining].empty = TRUE]
           /\ snapshot' = NoSnapshot
           /\ msg_num_init' = init /\ msg_num_cur' = cur /\ UNCHANGED <<pc, joining, recovering>>
  <2>1. PICK k : k = [bk EXCEPT !.snpseq = rpt, !.empty = TRUE]
    OBVIOUS
  <2>2. k \in Book /\ k.active = bk.active /\ k.join = bk.join /\ k.rptseq = bk.rptseq /\ k.ob = bk.ob
    BY <1>3, <2>1 DEF Book
  <2>3. PICK c : c = [ok |-> TRUE, books |-> [a.books EXCEPT ![joining] = k]]
    OBVIOUS
  <2>4. /\ c.ok = TRUE /\ c.books \in [Books -> Book] /\ c.books[joining] = k
        /\ \A b \in Books : b # joining => c.books[b] = a.books[b]
    BY <1>3, <2>2, <2>3
  <2>5. books' = c.books
    BY <1>2, <1>3, <1>8, <2>1, <2>3
  <2>6. Kept(f, c)
    <3>1. books[joining].join
      BY DEF FeedsInv, Order
    <3>2. Takes(books[joining])
      BY <3>1 DEF Takes
    <3>3. ASSUME NEW b \in Books
          PROVE  /\ c.books[b].active = books[b].active /\ c.books[b].join = books[b].join
                 /\ Sound(c.books[b], b, f.num)
                 /\ ~Takes(books[b]) => c.books[b] = books[b]
      <4>1. CASE b # joining
        BY <2>4, <4>1 DEF Kept
      <4>2. CASE b = joining
        BY <1>2, <2>2, <2>4, <3>2, <4>2 DEF Kept, Sound, Tally, NoEmpty
      <4> QED BY <4>1, <4>2
    <3> QED BY <1>2, <2>2, <2>4, <3>3 DEF Kept, Tally, Unread
  <2>7. /\ snapshot' \in [book : 0..BooksNum, last : 0..Len(log)]
        /\ msg_num_init' = First(f) /\ msg_num_cur' = Cur(f)
    BY <1>2, <1>4, <1>8
  <2>8. ASSUME ExactAfter(f, a) PROVE ExactAfter(f, c)
    <3>1. ASSUME NEW b \in Books, books[b].active
          PROVE  \E m \in 1..f.num : IsAt(c.books[b], b, m, f.num) /\ CountIs(c.books[b], b, m)
      <4>1. PICK m \in 1..f.num : IsAt(a.books[b], b, m, f.num) /\ CountIs(a.books[b], b, m)
        BY <2>8, <3>1 DEF ExactAfter
      <4>2. c.books[b].ob = a.books[b].ob /\ c.books[b].rptseq = a.books[b].rptseq
        BY <1>2, <2>2, <2>4
      <4> QED BY <4>1, <4>2 DEF IsAt, CountIs
    <3>2. First(f) # 0 => IsFrom(k, joining, First(f), Cur(f), f.num)
      <4>1. First(f) # 0 => IsFrom(bk, joining, First(f), Cur(f), f.num)
        BY <1>2, <2>8 DEF ExactAfter
      <4> QED BY <2>2, <4>1 DEF IsFrom, LevelsFrom, CountIs
    <3> QED BY <2>4, <3>1, <3>2 DEF ExactAfter
  <2> QED BY <1>8, <2>4, <2>5, <2>6, <2>7, <2>8, GoKeeps
<1>9. CASE /\ Useful(s, init) /\ s.last <= cur
           /\ JoinDone([a.books EXCEPT ![joining] = Activated(bk, at, rpt)])
  <2>1. PICK new : new = Activated(bk, at, rpt)
    OBVIOUS
  <2>2. /\ Activated(bk, at, rpt) \in Book /\ Activated(bk, at, rpt).active = TRUE
        /\ Activated(bk, at, rpt).rptseq = bk.rptseq /\ NoEmpty(Activated(bk, at, rpt))
    BY <1>3, ActivatedIs, Zenon
  <2>3. new \in Book /\ new.active = TRUE /\ new.rptseq = bk.rptseq /\ NoEmpty(new)
    BY <2>1, <2>2
  <2>4. Sound(new, joining, f.num)
    BY <1>2, <2>3 DEF Kept, Sound, Tally
  <2>5. PICK bks : bks = [a.books EXCEPT ![joining] = new]
    OBVIOUS
  <2>6. JoinDone(bks)
    BY <1>9, <2>1, <2>5
  <2>7. First(f) # 0
    BY <1>2, <1>5, <1>9
  <2>8. ASSUME ExactAfter(f, a)
        PROVE  \E m \in 1..f.num : IsAt(new, joining, m, f.num) /\ CountIs(new, joining, m)
    <3>1. PICK k, num : k = s.last /\ num = f.num
      OBVIOUS
    <3>2. IsFrom(bk, joining, init, cur, num)
      BY <1>2, <2>7, <2>8, <3>1 DEF ExactAfter
    <3>3. /\ init \in Nat \ {0} /\ cur \in Nat /\ num \in Nat /\ cur <= num /\ k \in init..cur
      BY <1>1, <1>2, <1>3, <1>5, <1>9, <3>1
    <3>4. PICK j : j = joining
      OBVIOUS
    <3>5. new = Activated(bk, BookAt(j, k), RptSeq(j, k)) /\ IsFrom(bk, j, init, cur, num) /\ j \in Books
      BY <1>2, <1>3, <2>1, <3>1, <3>2, <3>4
    <3>6. \E m \in 1..num : IsAt(new, j, m, num) /\ CountIs(new, j, m)
      BY <1>3, <3>3, <3>5, JoinIs
    <3> QED BY <3>1, <3>4, <3>6
  <2> QED BY <2>3, <2>4, <2>5, <2>6, <2>7, <2>8, DoneKeeps
<1> QED BY <1>6, <1>7, <1>8, <1>9

LEMMA JoinRoundKeeps ==
  ASSUME FeedsInv, JoinRound
  PROVE  FeedsInv' /\ (Safe /\ Exact => Exact')
<1>0. Ranges /\ Order /\ SomeRead /\ pc = "join" /\ log' = log
  BY DEF FeedsInv, JoinRound
<1>1. PICK f \in Deliveries :
        \E s \in IF snapshot = NoSnapshot THEN Snapshots ELSE {snapshot} :
          Join(f, ApplyIfAny(f.next), s)
  BY DEF JoinRound
<1>1a. PICK s \in IF snapshot = NoSnapshot THEN Snapshots ELSE {snapshot} :
         Join(f, ApplyIfAny(f.next), s)
  BY <1>1
<1>2. s \in [book : 0..BooksNum, last : 0..Len(log)]
  <2>1. Len(log) \in Nat /\ BooksNum \in Nat
    BY <1>0, SetAssumption, LenProperties DEF Ranges
  <2>2. Snapshots \subseteq [book : 0..BooksNum, last : 0..Len(log)]
    BY <2>1 DEF Snapshots, NoSnapshot, Books
  <2> QED BY <1>0, <2>2 DEF Ranges
<1>3. PICK a : a = ApplyIfAny(f.next)
  OBVIOUS
<1>4. NextIs(f)
  BY <1>0, DeliveriesAre
<1>5. Kept(f, a)
  BY <1>3, <1>4, IncrementKeeps
<1>6. Safe /\ Exact => ExactAfter(f, a)
  BY <1>0, <1>3, <1>4, IncrementExact
<1>7. \/ GapLost(f) /\ JoinFails(books, f)
      \/ ~GapLost(f) /\ JoinFails(a.books, f)
      \/ ~GapLost(f) /\ a.ok /\ FeedsBecome(f) /\ UseSnapshot(s, a.books, First(f), Cur(f))
  BY <1>1a, <1>3 DEF Join, First, Cur
<1>8. CASE GapLost(f) /\ JoinFails(books, f)
  <2>1. PICK bks : bks = books
    OBVIOUS
  <2>2. /\ bks \in [Books -> Book]
        /\ \A b \in Books : bks[b].active = books[b].active /\ Sound(bks[b], b, f.num)
        /\ JoinFails(bks, f)
    BY <1>0, <1>4, <1>8, <2>1, GapKeeps DEF Ranges
  <2>3. Exact => \A b \in Books : books[b].active => \E m \in 1..f.num : IsAt(bks[b], b, m, f.num)
    BY <1>4, <1>8, <2>1, GapKeeps
  <2> QED BY <1>0, <1>4, <2>2, <2>3, JoinFailKeeps
<1>9. CASE ~GapLost(f) /\ JoinFails(a.books, f)
  <2>1. PICK bks : bks = a.books
    OBVIOUS
  <2>2. /\ bks \in [Books -> Book]
        /\ \A b \in Books : bks[b].active = books[b].active /\ Sound(bks[b], b, f.num)
        /\ JoinFails(bks, f)
    BY <1>5, <1>9, <2>1 DEF Kept
  <2>3. Safe /\ Exact =>
          \A b \in Books : books[b].active => \E m \in 1..f.num : IsAt(bks[b], b, m, f.num)
    BY <1>6, <2>1 DEF ExactAfter
  <2> QED BY <1>0, <1>4, <2>2, <2>3, JoinFailKeeps
<1>10. CASE ~GapLost(f) /\ a.ok /\ FeedsBecome(f) /\ UseSnapshot(s, a.books, First(f), Cur(f))
  BY <1>0, <1>2, <1>4, <1>5, <1>6, <1>10, UseKeeps
<1> QED BY <1>7, <1>8, <1>9, <1>10

LEMMA StepKeeps == IInv /\ [Next]_vars => IInv'
<1> SUFFICES ASSUME IInv, [Next]_vars PROVE IInv'
  OBVIOUS
<1>1. FeedsInv /\ (Safe => Exact)
  BY DEF IInv
<1>2. CASE Subscribe
  BY <1>1, <1>2, SubscribeKeeps DEF IInv, Safe
<1>3. CASE JoinRound
  BY <1>1, <1>3, JoinRoundKeeps DEF IInv, Safe
<1>4. CASE Update
  BY <1>1, <1>4, UpdateKeeps DEF IInv, Safe
<1>5. CASE Exchange
  BY <1>1, <1>5, ExchangeKeeps DEF IInv, Safe
<1>6. CASE UNCHANGED vars
  <2>1. /\ books' = books /\ recv_num' = recv_num /\ inc_msg_num' = inc_msg_num /\ log' = log
        /\ inc_gap_mode' = inc_gap_mode /\ pc' = pc /\ joining' = joining /\ recovering' = recovering
        /\ msg_num_init' = msg_num_init /\ msg_num_cur' = msg_num_cur /\ snapshot' = snapshot
    BY <1>6 DEF vars
  <2>2. PICK bks, num, p, j, init, cur :
          /\ bks = books /\ num = inc_msg_num /\ p = pc /\ j = joining
          /\ init = msg_num_init /\ cur = msg_num_cur
    OBVIOUS
  <2>3. /\ num \in Nat /\ init \in Nat /\ cur \in Nat /\ cur <= num
        /\ \A n \in 1..num : log'[n] = log[n]
    BY <1>1, <2>1, <2>2, LenProperties DEF FeedsInv, Ranges
  <2>4. TalliedAt(bks, num, p, j, init)
    BY <1>1, <2>2, NowAre DEF FeedsInv
  <2>5. Tallied'
    BY <2>1, <2>2, <2>3, <2>4, ThenTallied
  <2>6. ASSUME Exact PROVE Exact'
    <3>1. ExactAt(bks, num, p, j, init, cur)
      BY <2>2, <2>6, NowAre
    <3> QED BY <2>1, <2>2, <2>3, <3>1, ThenExact
  <2>7. Ranges' /\ Order' /\ SomeRead'
    BY <1>1, <2>1 DEF FeedsInv, Ranges, Order, SomeRead
  <2> QED BY <1>1, <2>5, <2>6, <2>7 DEF IInv, FeedsInv, Safe
<1> QED BY <1>2, <1>3, <1>4, <1>5, <1>6 DEF Next

LEMMA InvariantHolds == Spec => []IInv
BY InitKeeps, StepKeeps, PTL DEF Spec

-----------------------------------------------------------------------------
(***************************************************************************)
(* What the runs check, for every set of levels, number of books and       *)
(* length of the log.                                                      *)
(***************************************************************************)
\* fast_books_subscribe, fast_books_update and fast_books_recover keep every
\* number in its range, and no active book counts an entry that did not come.
THEOREM TypeCorrect == Spec => []TypeOK
<1>1. ASSUME IInv PROVE TypeOK
  <2>1. Ranges /\ Tallied
    BY <1>1 DEF IInv, FeedsInv
  <2>2. Len(log) \in Nat /\ inc_msg_num \in Nat /\ inc_msg_num <= Len(log)
    BY <2>1, LenProperties DEF Ranges
  <2>3. ASSUME NEW b \in Books
        PROVE  books[b] \in Book /\ (books[b].active => books[b].rptseq <= RptSeq(b, Len(log)))
    <3>1. /\ RptSeq(b, inc_msg_num) <= RptSeq(b, Len(log))
          /\ RptSeq(b, inc_msg_num) \in Nat /\ RptSeq(b, Len(log)) \in Nat
      BY <2>2, RptSeqGrows, RptSeqIs
    <3>2. books[b] \in Book /\ books[b].rptseq \in Nat
      BY <2>1, BookFields
    <3> QED BY <2>1, <3>1, <3>2 DEF Tallied, Sound, Tally
  <2> QED BY <2>1, <2>3 DEF Ranges, TypeOK, Book, Level
<1> QED BY <1>1, InvariantHolds, PTL

\* next_increment never waits for ever with every feed ahead: whenever
\* fast_books_update calls it, recv_increment may still read some feed.
THEOREM FeedsRead == Spec => []SomeFeedIsRead
<1>1. ASSUME IInv PROVE SomeFeedIsRead
  <2> SUFFICES ASSUME pc = "update" PROVE \E f \in Feeds : ~Ahead(FeedState, f)
    BY DEF SomeFeedIsRead
  <2>1. PICK f \in Feeds : recv_num[f] <= inc_msg_num
    BY <1>1 DEF IInv, FeedsInv, SomeRead
  <2>2. recv_num[f] \in Nat /\ inc_msg_num \in Nat
    BY <1>1, LenProperties DEF IInv, FeedsInv, Ranges
  <2>3. ~(recv_num[f] > inc_msg_num)
    BY <2>1, <2>2
  <2> QED BY <2>3 DEF Ahead, FeedState
<1> QED BY <1>1, InvariantHolds, PTL

\* A level deleted while its book joins is gone once fast_books_join has made
\* the book active: ob_level_delete and the sweep leave none without a size.
THEOREM LevelsHaveSizes == Spec => []NoEmptyLevels
<1>1. IInv => NoEmptyLevels
  BY DEF IInv, FeedsInv, Tallied, Sound, NoEmpty, NoEmptyLevels
<1> QED BY <1>1, InvariantHolds, PTL

\* With one feed the books fast_books_join has made active are the exchange's
\* after the last message taken, whatever the feeds lose, repeat and reorder.
THEOREM BooksUpToDate ==
  ASSUME FeedsNum = 1
  PROVE  Spec => []UpToDate
<1>1. ASSUME IInv PROVE UpToDate
  <2> SUFFICES ASSUME NEW b \in Books, books[b].active PROVE Content(b) = BookAt(b, inc_msg_num)
    BY DEF UpToDate
  <2>1. PICK m \in 1..inc_msg_num : IsAt(books[b], b, m, inc_msg_num)
    BY <1>1 DEF IInv, Safe, Exact
  <2>2. m = inc_msg_num /\ \A l \in Levels : books[b].ob[l].size = SizeAt(b, l, inc_msg_num)
    BY <2>1 DEF IsAt
  <2> QED BY <2>2 DEF Content, BookAt
<1> QED BY <1>1, InvariantHolds, PTL

\* With one feed no entry apply_increment takes is out of its turn once all
\* books are active: message numbers show a hole before a RptSeq does.
THEOREM UpdatesNeverFail ==
  ASSUME FeedsNum = 1
  PROVE  Spec => []OnlySubscribingFails
<1>1. IInv => OnlySubscribingFails
  BY DEF IInv, Safe, Exact
<1> QED BY <1>1, InvariantHolds, PTL

\* With two feeds and one book, or one feed, an active book is one the exchange
\* had: next_increment may drop a message, but apply_increment notices.
THEOREM BooksArePast == Spec => []PastBook
<1>1. ASSUME IInv PROVE PastBook
  <2> SUFFICES ASSUME Safe, NEW b \in Books, books[b].active
               PROVE  \E k \in 0..Len(log) : Content(b) = BookAt(b, k)
    BY DEF PastBook, Safe
  <2>1. PICK m \in 1..inc_msg_num : IsAt(books[b], b, m, inc_msg_num)
    BY <1>1 DEF IInv, Exact
  <2>2. m \in 0..Len(log)
    BY <1>1, LenProperties DEF IInv, FeedsInv, Ranges
  <2>3. Content(b) = BookAt(b, m)
    BY <2>1 DEF IsAt, Content, BookAt
  <2> QED BY <2>2, <2>3
<1> QED BY <1>1, InvariantHolds, PTL

\* The snapshots that a round of a join may use agree with its increments.
SnapshotsAgree ==
  pc = "join" =>
    \A f \in Deliveries, s \in [book : Books, last : 0..Len(log)] :
      LET a == ApplyIfAny(f.next)
      IN  a.ok /\ Useful(s, First(f)) /\ s.last <= Cur(f) =>
            SnapshotOk(a.books[joining], BookAt(joining, s.last), RptSeq(joining, s.last))

\* md_snapshot never meets a level of a size other than the snapshot's: with
\* one feed, or one book, that error of fast_books_join does not happen.
THEOREM SnapshotsNeverDisagree ==
  ASSUME FeedsNum = 1 \/ BooksNum = 1
  PROVE  Spec => []SnapshotsAgree
<1>1. ASSUME IInv PROVE SnapshotsAgree
  <2> SUFFICES ASSUME pc = "join", NEW f \in Deliveries, NEW a, a = ApplyIfAny(f.next), NEW s \in [book : Books, last : 0..Len(log)],
                      a.ok, Useful(s, First(f)), s.last <= Cur(f)
               PROVE  SnapshotOk(a.books[joining], BookAt(joining, s.last), RptSeq(joining, s.last))
    BY DEF SnapshotsAgree
  <2>1. FeedsInv /\ Ranges /\ SomeRead /\ Safe /\ Exact
    BY <1>1 DEF IInv, FeedsInv, Safe
  <2>2. NextIs(f)
    BY <2>1, DeliveriesAre
  <2>3. Kept(f, a) /\ ExactAfter(f, a)
    BY <2>1, <2>2, IncrementKeeps, IncrementExact
  <2>4. PICK bk, b, k, init, cur, num :
          /\ bk = a.books[joining] /\ b = joining /\ k = s.last
          /\ init = First(f) /\ cur = Cur(f) /\ num = f.num
    OBVIOUS
  <2>5. /\ init \in Nat \ {0} /\ cur \in Nat /\ num \in Nat /\ cur <= num /\ k \in init..cur
        /\ bk \in Book /\ b \in Books
    <3>1. Len(log) \in Nat /\ init # 0 /\ k >= init /\ k <= cur
      BY <2>1, <2>2, <2>4, NumbersAre DEF Useful
    <3>2. /\ init \in Nat /\ cur \in Nat /\ num \in Nat /\ cur <= num
      BY <2>1, <2>2, <2>4, NumbersAre
    <3>3. k \in Nat
      BY <2>4, <3>1
    <3> QED BY <2>1, <2>3, <2>4, <3>1, <3>2, <3>3 DEF Kept, Ranges
  <2>6. IsFrom(bk, b, init, cur, num)
    BY <2>3, <2>4, <2>5 DEF ExactAfter
  <2>7. SnapshotOk(bk, BookAt(b, k), RptSeq(b, k))
    <3>1. PICK new : new = Activated(bk, BookAt(b, k), RptSeq(b, k))
      OBVIOUS
    <3> QED BY <2>5, <2>6, <3>1, JoinIs
  <2> QED BY <2>4, <2>7
<1> QED BY <1>1, InvariantHolds, PTL
=============================================================================
