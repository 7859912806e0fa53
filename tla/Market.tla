------------------------------- MODULE Market -------------------------------
(***************************************************************************)
(* The simulator's market, after tools/sim/market.c and market.h: one      *)
(* libevent loop that accepts connections, gives each a trader slot with a *)
(* FIX session, takes one message per readable event, and hands orders to  *)
(* the matching engine (MatchingEngine).                                   *)
(*                                                                         *)
(* A peer sends the messages of its script over TCP, which neither loses   *)
(* nor reorders but may deliver a message in two halves, or several at     *)
(* once.  Peers number their messages as trader.c does, so that            *)
(* fix_session_admin expects every number; FixSession has the other cases. *)
(* Sends of the market succeed, and its session objects are allocated.     *)
(***************************************************************************)
EXTENDS Integers, Sequences, FiniteSetsExt

CONSTANTS
  ConnsNum,    \* bound on the connections
  MaxTraders,  \* MAX_TRADERS
  Scripts      \* what peers may send: per connection, a sequence of Kinds

\* Order: with all its fields; Bad: an order that lacks one or has another
\* side; Admin: what fix_session_admin handles itself.
Kinds == {"Logon", "Order", "Bad", "Admin", "Logout"}

ASSUME MarketAssumption ==
  /\ {ConnsNum, MaxTraders} \subseteq Nat \ {0}
  /\ \A s \in Scripts : /\ DOMAIN s = 1..ConnsNum
                       /\ \A c \in 1..ConnsNum : \A k \in 1..Len(s[c]) : s[c][k] \in Kinds

Conns == 1..ConnsNum
Fds == Conns  \* enough for all of them

VARIABLES
  script,   \* per connection: the messages its peer sends, in order
  peer,     \* per connection: "away", "open" or "shut"
  sent,     \* per connection: how many messages it has sent
  read,     \* per connection: how many halves of them the market has read
  fd,       \* per connection: the market's descriptor (0: none)
  events,   \* per descriptor: the events libevent keeps for it
  armed,    \* the connections the kernel reports as readable
  traders,  \* market->traders up to market->traders_num
  running,  \* event_base_dispatch has not returned
  answers,  \* per connection: the messages the market sent
  handed    \* history: the calls of do_limit

peers == <<script, peer, sent>>
vars == <<script, peer, sent, read, fd, events, armed, traders, running,
          answers, handed>>

Init ==
  /\ script \in Scripts
  /\ peer = [c \in Conns |-> "away"]
  /\ sent = [c \in Conns |-> 0]
  /\ read = [c \in Conns |-> 0]
  /\ fd = [c \in Conns |-> 0]
  /\ events = [f \in Fds |-> 0]
  /\ armed = {}
  /\ traders = <<>>
  /\ running = TRUE
  /\ answers = [c \in Conns |-> <<>>]
  /\ handed = <<>>

-----------------------------------------------------------------------------
(***************************************************************************)
(* Peers and the event loop.                                               *)
(***************************************************************************)
SendNext(c) ==
  /\ peer[c] = "open" /\ sent[c] < Len(script[c])
  /\ sent' = [sent EXCEPT ![c] = @ + 1]
  /\ UNCHANGED <<script, peer, read, fd, events, armed, traders, running,
                 answers, handed>>

Shut(c) ==
  /\ peer[c] = "open"
  /\ peer' = [peer EXCEPT ![c] = "shut"]
  /\ UNCHANGED <<script, sent, read, fd, events, armed, traders, running,
                 answers, handed>>

FreeFds == Fds \ {fd[c] : c \in Conns}

\* accept takes the lowest free descriptor.  An event is never deleted, so
\* libevent may still have one for it from a connection that was closed: it
\* then only counts one more and does not ask the kernel again.
Accept(c) ==
  /\ running
  /\ peer[c] = "away" /\ \A d \in 1..(c - 1) : peer[d] # "away"
  /\ peer' = [peer EXCEPT ![c] = "open"]
  /\ \E f \in {Min(FreeFds)} :
       /\ fd' = [fd EXCEPT ![c] = f]
       /\ events' = [events EXCEPT ![f] = @ + 1]
       /\ armed' = IF events[f] = 0 THEN armed \cup {c} ELSE armed
  /\ UNCHANGED <<script, sent, read, traders, running, answers, handed>>

\* accept_error_cb: without a descriptor or memory for a connection, which
\* other processes may have taken, the loop ends.
AcceptFails(c) ==
  /\ running /\ peer[c] = "away"
  /\ running' = FALSE
  /\ UNCHANGED <<peers, read, fd, events, armed, traders, answers, handed>>

-----------------------------------------------------------------------------
(***************************************************************************)
(* Trader slots.  A slot without a session has fd 0.  The buffer of its    *)
(* session holds halves of messages.                                       *)
(***************************************************************************)
NewTrader(f) == [fd |-> f, active |-> FALSE, buffer |-> <<>>]
\* As a bug: the session is kept.
FreedLater(t) == [t EXCEPT !.active = FALSE]
Freed(t) == NewTrader(0)

HasRoom(i) == i <= MaxTraders

\* As a bug: any session will do.
HasSockAny(i, f) == traders[i].fd # 0
HasSock(i, f) == traders[i].fd = f

\* trader_by_sock, or the slot trader_new would take.
SlotFor(f) ==
  LET found == {i \in 1..Len(traders) : HasSock(i, f)}
  IN  IF found = {} THEN Len(traders) + 1 ELSE Min(found)

\* The halves of the messages c has sent, from the n-th on.
Half(c, n) == [conn |-> c, msg |-> (n + 1) \div 2]
Halves(c, n, m) == [k \in 1..(m - n) |-> Half(c, n + k)]

Whole(buffer) == Len(buffer) >= 2
\* As a bug: what is behind the message is lost.
RestOfNone(buffer) == <<>>
RestOf(buffer) == SubSeq(buffer, 3, Len(buffer))

Close(c) ==
  /\ fd' = [fd EXCEPT ![c] = 0]
  /\ armed' = armed \ {c}

StaysOpen == UNCHANGED <<fd, armed>>
Answer(c, type) == answers' = [answers EXCEPT ![c] = Append(@, type)]

\* market->traders with t in slot i, which may be new.
Put(i, t) == traders' = [j \in 1..Max({i, Len(traders)}) |->
                           IF j = i THEN t ELSE traders[j]]

Logout(c, i, t) ==
  /\ Answer(c, "Logout") /\ Put(i, Freed(t)) /\ Close(c)
  /\ UNCHANGED handed

\* do_income from the message m on: t is the trader without its bytes.
DoIncome(c, i, t, m) ==
  LET kind == script[m.conn][m.msg]
  IN  \/ /\ ~t.active /\ kind = "Logon"
         /\ Answer(c, "Logon") /\ Put(i, [t EXCEPT !.active = TRUE])
         /\ StaysOpen /\ UNCHANGED handed
      \/ /\ IF t.active THEN kind = "Logout" ELSE kind # "Logon"
         /\ Logout(c, i, t)
      \/ /\ t.active /\ kind = "Order"
         /\ handed' = Append(handed, [trader |-> i, conn |-> m.conn, msg |-> m.msg])
         /\ Put(i, t) /\ StaysOpen /\ UNCHANGED answers
      \/ /\ t.active /\ kind \in {"Logon", "Bad", "Admin"}
         /\ Put(i, t) /\ StaysOpen /\ UNCHANGED <<answers, handed>>

\* fix_session_recv returned a message if there is a whole one, else nothing.
Handle(c, i, t) ==
  IF Whole(t.buffer)
  THEN DoIncome(c, i, [t EXCEPT !.buffer = RestOf(@)], t.buffer[1])
  ELSE Put(i, t) /\ StaysOpen /\ UNCHANGED <<answers, handed>>

\* As a bug: the socket is read although a whole message is there, and
\* nothing more on it is taken for nothing at all.
ReadsFirst(t, c) == TRUE
\* fix_session_recv reads the socket only if its buffer has no whole message.
Reads(t, c) == ~Whole(t.buffer)

\* Of the halves on the socket, recv takes some: at the end of the stream none.
Recv(c, i, t) ==
  IF ~Reads(t, c) THEN Handle(c, i, t) /\ UNCHANGED read
  ELSE \E n \in read[c]..(2 * sent[c]) :
         /\ n = read[c] => n = 2 * sent[c]
         /\ read' = [read EXCEPT ![c] = n]
         /\ IF n = read[c]
            THEN Put(i, t) /\ StaysOpen /\ UNCHANGED <<answers, handed>>
            ELSE Handle(c, i, [t EXCEPT !.buffer = @ \o Halves(c, read[c], n)])

Readable(c) == read[c] < 2 * sent[c] \/ peer[c] = "shut"

\* ev_cb: the trader of the socket, a new one, or none left.
Event(c) ==
  /\ running /\ c \in armed /\ Readable(c)
  /\ \E i \in {SlotFor(fd[c])} :
       \/ /\ i <= Len(traders) /\ Recv(c, i, traders[i])
       \/ /\ i > Len(traders) /\ HasRoom(i) /\ Recv(c, i, NewTrader(fd[c]))
       \/ /\ i > Len(traders) /\ ~HasRoom(i)
          /\ Close(c) /\ UNCHANGED <<traders, read, answers, handed>>
  /\ UNCHANGED <<peers, events, running>>

Next == \E c \in Conns :
          SendNext(c) \/ Shut(c) \/ Accept(c) \/ AcceptFails(c) \/ Event(c)

Spec == Init /\ [][Next]_vars

\* Every round of the loop serves all descriptors that are readable.
FairSpec == Spec /\ \A c \in Conns : WF_vars(Event(c))

-----------------------------------------------------------------------------
\* A session belongs to one open connection, all its bytes are that one's,
\* and they are those read last: no slot outlives its socket, no socket has
\* two slots, and there are no more than MAX_TRADERS.
BoundToOpen ==
  /\ Len(traders) <= MaxTraders
  /\ \A i \in 1..Len(traders) : traders[i].fd # 0 =>
       \E c \in Conns :
         /\ fd[c] = traders[i].fd
         /\ traders[i].buffer = Halves(c, read[c] - Len(traders[i].buffer), read[c])
         /\ \A j \in 1..Len(traders) : traders[j].fd = fd[c] => j = i

\* The orders of connection c that count, of the first n messages: those after
\* a Logon that was the first message and before a Logout.
Orders(c, n) ==
  {k \in 1..n : /\ script[c][k] = "Order" /\ script[c][1] = "Logon"
                /\ \A j \in 1..k : script[c][j] # "Logout"}

\* The engine is handed each peer's orders in the order they were sent, none
\* twice or left out, none without a Logon, and under an id that no other
\* connection has, whatever pieces they come in and whoever else connects.
InOrder ==
  /\ \A h \in 1..Len(handed) : LET c == handed[h].conn IN
       /\ handed[h].msg \in Orders(c, sent[c])
       /\ \A g \in 1..(h - 1) : handed[g].conn = c => handed[g].msg < handed[h].msg
       /\ \A n \in Orders(c, handed[h].msg) :
            \E g \in 1..h : handed[g].conn = c /\ handed[g].msg = n
  /\ \A h, g \in 1..Len(handed) :
       handed[h].trader = handed[g].trader <=> handed[h].conn = handed[g].conn

\* Messages that came together wait in the session's buffer for the next
\* event.  When the peer has closed, the socket stays readable, and all its
\* orders get through unless the market has no slot for it or ends.
HandedOf(c) == SelectSeq(handed, LAMBDA h : h.conn = c)
Refused(c) == fd[c] = 0 /\ answers[c] = <<>>
Drained ==
  \A c \in Conns :
    peer[c] = "shut" /\ c \in armed ~>
      \/ Len(HandedOf(c)) = Cardinality(Orders(c, sent[c]))
      \/ Refused(c) \/ ~running
=============================================================================
