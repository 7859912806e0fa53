------------------------------ MODULE FastBook ------------------------------
(***************************************************************************)
(* Order books kept from multicast feeds, after lib/proto/fast_book.c and  *)
(* lib/order_book.c.  The exchange numbers its incremental messages and    *)
(* sends them on one or two feeds; a snapshot feed says what a book was    *)
(* after some message.  Datagrams are lost, repeated and reordered: any    *)
(* message sent so far may come, or none.                                  *)
(*                                                                         *)
(* An increment carries at most one entry: book, level and whether the     *)
(* level goes.  Its RptSeq is its rank among the entries of its book, and  *)
(* stands for the new size too, so no two states of a level look alike.    *)
(* A level is a price of one side.                                         *)
(***************************************************************************)
EXTENDS Integers, Sequences, FiniteSets

CONSTANTS
  Levels,     \* (side, price) pairs of a book
  BooksNum,   \* set->books_num
  FeedsNum,   \* set->inc_feeds_num, at most FAST_FEED_NUM
  MaxSent     \* bound on the messages of the exchange

ASSUME SetAssumption ==
  /\ BooksNum \in Nat \ {0}
  /\ FeedsNum \in {1, 2}
  /\ MaxSent \in Nat

Books == 1..BooksNum
Feeds == 1..FeedsNum

VARIABLES
  log,           \* the exchange: every incremental message so far
  books,         \* set->books
  recv_num,      \* per feed: the number it delivered last
  inc_msg_num,   \* the number of the last message taken (0: none yet)
  inc_gap_mode,  \* a feed has delivered a number too high
  pc,            \* "subscribe", "join", "update" or "failed"
  joining,       \* the book being subscribed, joined or recovered
  recovering,    \* the join is part of fast_books_recover
  msg_num_init,  \* join: the number of its first increment (0: none yet)
  msg_num_cur,   \* join: and of its last
  snapshot       \* join: the snapshot it holds on to, or NoSnapshot

feeds == <<recv_num, inc_msg_num, inc_gap_mode>>
join == <<joining, recovering, msg_num_init, msg_num_cur, snapshot>>
vars == <<log, books, recv_num, inc_msg_num, inc_gap_mode, pc,
          joining, recovering, msg_num_init, msg_num_cur, snapshot>>

\* An entry of an increment; a message without one is a Heartbeat or a status.
Entries == [book : Books, level : Levels, delete : BOOLEAN]
NoEntry == [book |-> 0]

\* What the exchange's book b is after its first k messages.
Touches(b, k) == {n \in 1..k : log[n].book = b}
RptSeq(b, k) == Cardinality(Touches(b, k))
SizeAt(b, l, k) ==
  LET ns == {n \in Touches(b, k) : log[n].level = l}
  IN  IF ns = {} THEN 0
      ELSE LET last == CHOOSE n \in ns : \A m \in ns : m <= n
           IN  IF log[last].delete THEN 0 ELSE RptSeq(b, last)
BookAt(b, k) == [l \in Levels |-> SizeAt(b, l, k)]
EmptyBook == [l \in Levels |-> 0]

\* A level that is not in the book has seq_num 0, which no entry has.
NoLevel == [seq_num |-> 0, size |-> 0]
Absent(level) == level.seq_num = 0
NewBook == [active |-> FALSE, join |-> FALSE, empty |-> FALSE,
            rptseq |-> 0, snpseq |-> 0, ob |-> [l \in Levels |-> NoLevel]]
NoSnapshot == [book |-> 0, last |-> 0]

Init ==
  /\ log = <<>>
  /\ books = [b \in Books |-> NewBook]
  /\ recv_num = [f \in Feeds |-> 0]
  /\ inc_msg_num = 0 /\ inc_gap_mode = FALSE
  /\ pc = "subscribe" /\ joining = 1 /\ recovering = FALSE
  /\ msg_num_init = 0 /\ msg_num_cur = 0 /\ snapshot = NoSnapshot

-----------------------------------------------------------------------------
(***************************************************************************)
(* recv_increment and next_increment: every feed that is not ahead is read *)
(* once.  n is what the feed has: a message number, or 0 for nothing.      *)
(***************************************************************************)
FeedState == [recv |-> recv_num, num |-> inc_msg_num, gap |-> inc_gap_mode,
              next |-> 0]

\* Of two increments that come in one call the first is handed on.
FirstOf(next, n) == IF next = 0 /\ log[n] # NoEntry THEN n ELSE next

Ahead(s, f) == s.recv[f] > s.num
Continues(s, n) == s.num = 0 \/ s.num + 1 = n
RecvIncrement(s, f, n) ==
  IF Ahead(s, f) \/ n = 0 THEN s
  ELSE LET r == [s EXCEPT !.recv[f] = n]
       IN  IF Continues(s, n)
           THEN [r EXCEPT !.num = n, !.gap = FALSE, !.next = FirstOf(@, n)]
           ELSE [r EXCEPT !.gap = @ \/ s.num < n]

NextIncrement(n) ==
  LET one == RecvIncrement(FeedState, 1, n[1])
  IN  IF FeedsNum = 1 THEN one ELSE RecvIncrement(one, 2, n[2])

\* What it may come back with: every feed has any message sent so far, or none.
Deliveries == {NextIncrement(n) : n \in [Feeds -> 0..Len(log)]}

\* As a bug: a feed that is just one ahead is taken to have that message still.
GapLostLate(s) == s.gap /\ \A f \in Feeds : s.recv[f] > s.num + 1
\* No feed can deliver the missing message anymore.
GapLost(s) == s.gap /\ \A f \in Feeds : Ahead(s, f)

FeedsBecome(s) ==
  /\ recv_num' = s.recv
  /\ inc_msg_num' = s.num
  /\ inc_gap_mode' = s.gap

-----------------------------------------------------------------------------
(***************************************************************************)
(* Increments.  A book takes them while it is active or joining; while it  *)
(* joins, a deleted level stays with size 0.                               *)
(***************************************************************************)
\* ob_level_modify succeeds on a level that is absent or older.
Modifies(bk, l, seq) == bk.ob[l].seq_num < seq
Modify(bk, l, seq, size) ==
  [bk EXCEPT !.ob[l] = [seq_num |-> seq, size |-> size]]

\* The level is marked with the count of the book; its size, for which the
\* entry's own RptSeq rpt stands, comes with the entry.
MdIncrement(bk, e, rpt) ==
  IF e.delete /\ bk.active THEN [bk EXCEPT !.ob[e.level] = NoLevel]
  ELSE Modify(bk, e.level, bk.rptseq, IF e.delete THEN 0 ELSE rpt)
MdIncrementOk(bk, e) ==
  (e.delete /\ bk.active) \/ Modifies(bk, e.level, bk.rptseq)

\* The first entry a book takes sets where its RptSeq starts.
Counted(bk, rpt) ==
  [bk EXCEPT !.rptseq = IF @ = 0 THEN rpt ELSE @ + 1, !.empty = FALSE]

\* A join that fails leaves its book joining: while fast_books_recover starts
\* again with the first book, a later one still takes increments, out of order.
Takes(bk) == bk.active \/ bk.join
\* As a bug: a repeated or skipped entry is not noticed.
InSequenceAlways(bk, rpt) == TRUE
InSequence(bk, rpt) == bk.rptseq = rpt

\* apply_increment on message n: the books after it, and whether it succeeded.
ApplyIncrement(n) ==
  LET e == log[n]
      b == e.book
      rpt == RptSeq(b, n)
      bk == Counted(books[b], rpt)
  IN  IF ~Takes(books[b]) THEN [ok |-> TRUE, books |-> books]
      ELSE IF InSequence(bk, rpt) /\ MdIncrementOk(bk, e)
      THEN [ok |-> TRUE, books |-> [books EXCEPT ![b] = MdIncrement(bk, e, rpt)]]
      ELSE [ok |-> FALSE, books |-> [books EXCEPT ![b] = bk]]

ApplyIfAny(n) ==
  IF n = 0 THEN [ok |-> TRUE, books |-> books] ELSE ApplyIncrement(n)

-----------------------------------------------------------------------------
(***************************************************************************)
(* Joining a book: increments are applied from the first that comes, until *)
(* there is a snapshot taken not before it and not after the last one.     *)
(***************************************************************************)
\* fast_books_subscribe, and fast_books_recover for the next book.
Joins(bk) == [bk EXCEPT !.active = FALSE, !.join = TRUE]
\* As a bug: the book is emptied, but its numbers stay.
ClearedLevels(bk) == [bk EXCEPT !.ob = NewBook.ob]
Cleared(bk) ==
  [bk EXCEPT !.rptseq = 0, !.snpseq = 0, !.ob = NewBook.ob]

ResetLocals ==
  /\ msg_num_init' = 0 /\ msg_num_cur' = 0 /\ snapshot' = NoSnapshot

Subscribe ==
  /\ pc = "subscribe"
  /\ books' = [books EXCEPT ![joining] = Joins(@)]
  /\ pc' = "join"
  /\ ResetLocals
  /\ UNCHANGED <<log, feeds, joining, recovering>>

\* fast_books_recover from its start: all books are left, the first rejoins.
Deactivated(bks) == [b \in Books |-> [bks[b] EXCEPT !.active = FALSE]]
Recover(bks) ==
  /\ recv_num' = [f \in Feeds |-> 0]
  /\ inc_msg_num' = 0 /\ inc_gap_mode' = FALSE
  /\ books' = [Deactivated(bks) EXCEPT ![1] = Joins(Cleared(@))]
  /\ pc' = "join" /\ joining' = 1 /\ recovering' = TRUE
  /\ ResetLocals

\* A join that fails ends the program, or starts the recovery again.
JoinFails(bks, s) ==
  IF recovering THEN Recover(bks)
  ELSE /\ books' = bks
       /\ FeedsBecome(s)
       /\ pc' = "failed"
       /\ UNCHANGED join

\* md_snapshot on every level of the snapshot: an absent level is added, one
\* that is not newer than the snapshot must agree with it.
Agrees(level, size, rpt) ==
  size = 0 \/ Absent(level) \/ level.seq_num > rpt \/ level.size = size
SnapshotOk(bk, at, rpt) == \A l \in Levels : Agrees(bk.ob[l], at[l], rpt)
\* As a bug: the snapshot replaces levels that are newer.
MergedOver(bk, at, rpt) ==
  [l \in Levels |-> IF at[l] # 0 THEN [seq_num |-> rpt, size |-> at[l]]
                    ELSE bk.ob[l]]
Merged(bk, at, rpt) ==
  [l \in Levels |-> IF at[l] # 0 /\ Absent(bk.ob[l])
                    THEN [seq_num |-> rpt, size |-> at[l]] ELSE bk.ob[l]]

\* As a bug: the deleted levels stay.
SweptNever(ob) == ob
\* The levels deleted while joining go when the book becomes active.
Swept(ob) == [l \in Levels |-> IF ob[l].size = 0 THEN NoLevel ELSE ob[l]]

Activated(bk, at, rpt) ==
  [bk EXCEPT !.active = TRUE, !.join = FALSE, !.empty = FALSE,
             !.snpseq = rpt, !.ob = Swept(Merged(bk, at, rpt))]

\* After the last book the program updates; before it, the next one joins.
JoinDone(bks) ==
  /\ joining' = IF joining = BooksNum THEN joining ELSE joining + 1
  /\ recovering' = (recovering /\ joining < BooksNum)
  /\ pc' = IF joining = BooksNum THEN "update"
           ELSE IF recovering THEN "join" ELSE "subscribe"
  /\ books' = IF recovering /\ joining < BooksNum
              THEN [bks EXCEPT ![joining + 1] = Joins(Cleared(@))] ELSE bks
  /\ ResetLocals

\* As a bug: a snapshot is held on to before the first increment.
UsefulEarly(s, init) == s.book = joining /\ s.last >= init

\* A snapshot is of use if it is of the book, was taken with or after the
\* first increment of the join, and that increment has come.
Useful(s, init) == s.book = joining /\ init # 0 /\ s.last >= init

\* The snapshot s is at hand, bks and the numbers are after the increment.
UseSnapshot(s, bks, init, cur) ==
  LET bk == bks[joining]
      at == BookAt(joining, s.last)
      rpt == RptSeq(joining, s.last)
      Go(held) == /\ snapshot' = held
                  /\ msg_num_init' = init /\ msg_num_cur' = cur
                  /\ UNCHANGED <<pc, joining, recovering>>
  IN  CASE ~Useful(s, init) -> books' = bks /\ Go(NoSnapshot)
        [] Useful(s, init) /\ s.last > cur -> books' = bks /\ Go(s)
        [] Useful(s, init) /\ s.last <= cur /\ at = EmptyBook ->
             /\ books' = [bks EXCEPT ![joining].snpseq = rpt,
                                     ![joining].empty = TRUE]
             /\ Go(NoSnapshot)
        [] Useful(s, init) /\ s.last <= cur /\ at # EmptyBook ->
             JoinDone([bks EXCEPT ![joining] = Activated(@, at, rpt)])

\* What the snapshot feed may have: nothing, or a book after any message.
Snapshots ==
  {NoSnapshot} \cup [book : Books, last : 1..Len(log)]

\* One round of the loop of fast_books_join: f is what the feeds delivered, a
\* what applying it did.
Join(f, a, s) ==
  LET cur == IF f.next = 0 THEN msg_num_cur ELSE f.next
      init == IF msg_num_init = 0 THEN cur ELSE msg_num_init
      at == BookAt(joining, s.last)
      rpt == RptSeq(joining, s.last)
  IN  IF GapLost(f) THEN JoinFails(books, f)
      ELSE IF ~a.ok THEN JoinFails(a.books, f)
      ELSE IF /\ Useful(s, init) /\ s.last <= cur
              /\ ~SnapshotOk(a.books[joining], at, rpt)
      THEN JoinFails(a.books, f)
      ELSE FeedsBecome(f) /\ UseSnapshot(s, a.books, init, cur)

\* A bound: the retries of a recovery count a book up without end, see Takes.
Counting == \A b \in Books : books[b].rptseq <= MaxSent + 1

JoinRound ==
  /\ pc = "join" /\ Counting
  /\ \E f \in Deliveries :
       LET a == ApplyIfAny(f.next)
       IN  \E s \in IF snapshot = NoSnapshot THEN Snapshots ELSE {snapshot} :
             Join(f, a, s)
  /\ UNCHANGED log

-----------------------------------------------------------------------------
(***************************************************************************)
(* fast_books_update, and the exchange.                                    *)
(***************************************************************************)
Update ==
  /\ pc = "update"
  /\ \E f \in Deliveries :
       LET a == ApplyIfAny(f.next)
       IN  IF GapLost(f) THEN Recover(books)
           ELSE /\ FeedsBecome(f)
                /\ books' = a.books
                /\ pc' = IF a.ok THEN "update" ELSE "failed"
                /\ UNCHANGED join
  /\ UNCHANGED log

Exchange ==
  /\ Len(log) < MaxSent
  /\ \E e \in Entries \cup {NoEntry} : log' = Append(log, e)
  /\ UNCHANGED <<books, feeds, pc, join>>

Next == Subscribe \/ JoinRound \/ Update \/ Exchange

Spec == Init /\ [][Next]_vars

-----------------------------------------------------------------------------
Content(b) == [l \in Levels |-> books[b].ob[l].size]

\* The numbers of the books, feeds and the join are in their ranges: a join
\* never holds on to a snapshot of another book or from before its start.
TypeOK ==
  /\ log \in Seq(Entries \cup {NoEntry})
  /\ \A b \in Books :
       /\ books[b] \in [active : BOOLEAN, join : BOOLEAN, empty : BOOLEAN,
                        rptseq : Nat, snpseq : Nat,
                        ob : [Levels -> [seq_num : Nat, size : Nat]]]
       /\ books[b].active => books[b].rptseq <= RptSeq(b, Len(log))
  /\ recv_num \in [Feeds -> 0..Len(log)]
  /\ inc_msg_num \in 0..Len(log) /\ inc_gap_mode \in BOOLEAN
  /\ pc \in {"subscribe", "join", "update", "failed"}
  /\ joining \in Books /\ recovering \in BOOLEAN
  /\ msg_num_init <= msg_num_cur /\ msg_num_cur <= inc_msg_num
  /\ snapshot # NoSnapshot =>
       snapshot.book = joining /\ msg_num_init \in 1..snapshot.last

\* An active book is the exchange's book after the last message taken: the
\* increments of the join and the snapshot that came in between were merged
\* without a hole, a level twice, or one that had gone.
UpToDate ==
  pc # "failed" =>
    \A b \in Books : books[b].active => Content(b) = BookAt(b, inc_msg_num)

\* An active book is one the exchange had at some time, even when two feeds
\* deliver in one call and one of the messages is dropped: the RptSeq of its
\* next entry tells.  It tells nothing to a book without a RptSeq, and one that
\* joins while the first entries are another book's is active without.
PastBook ==
  FeedsNum = 1 \/ BooksNum = 1 =>
    \A b \in Books : books[b].active =>
      \E k \in 0..Len(log) : Content(b) = BookAt(b, k)

\* An active book has no level without a size, which the program would show.
NoEmptyLevels ==
  \A b \in Books : books[b].active =>
    \A l \in Levels : books[b].ob[l].size = 0 => Absent(books[b].ob[l])

\* Losing, repeating and reordering datagrams never ends the program once it
\* has subscribed: every hole is noticed by the message numbers and recovered
\* from before the RptSeq of a book notices it.
OnlySubscribingFails == pc = "failed" => \E b \in Books : ~books[b].active

\* While books are updated, some feed is read: the feeds are never all ahead
\* of a message that will not come.
SomeFeedIsRead == pc = "update" => \E f \in Feeds : ~Ahead(FeedState, f)
=============================================================================
