---------------------------- MODULE FixFraming -----------------------------
(***************************************************************************)
(* The receive path of a FIX session, after fix_session_recv of            *)
(* lib/proto/fix_session.c, fix_message_parse, and lib/buffer.c: bytes     *)
(* come in pieces of any size into one buffer that is parsed in place and  *)
(* compacted when it is nearly full.                                       *)
(*                                                                         *)
(* The peer sends whole messages, messages cut short by a send that wrote  *)
(* only a part (fix_message_send does not go on with the rest), and        *)
(* messages that some field makes unreadable.                              *)
(***************************************************************************)
EXTENDS FixWire, SequencesExt

CONSTANTS
  Capacity,     \* RECV_BUFFER_SIZE
  MaxMessage,   \* FIX_MAX_MESSAGE_SIZE
  Texts,        \* lengths a text may have
  Kinds,        \* what may be wrong with a message
  Cuts,         \* the symbols of a message that was cut
  MaxSent,      \* bound on the messages sent
  MaxBroken     \* and on those with something wrong

ASSUME SizeAssumption ==
  /\ MaxMessage \in Nat \ {0} /\ Capacity \in Nat /\ Capacity > MaxMessage
  /\ Texts \subseteq Nat /\ Cuts \subseteq Nat
  /\ Kinds \subseteq {"cut", "sum", "long", "short", "type", "tag"}

\* The sender's tx_body_buffer has FIX_MAX_BODY_LEN bytes (fix_session.h:16),
\* less than FIX_MAX_MESSAGE_SIZE (fix_message.h:62): no body is longer than
\* parse_body_length takes.
ASSUME FitAssumption == \A text \in Texts : text + 11 <= MaxMessage

VARIABLES
  sent,       \* the messages sent
  wire,       \* bytes on their way
  start,      \* rx_buffer->start
  unread,     \* the bytes of rx_buffer from start to end
  delivered   \* the messages fix_session_recv returned

vars == <<sent, wire, start, unread, delivered>>

Messages(n) ==
  [kind : {"whole"}, seq : {n}, text : Texts, cut : {0}]
    \cup [kind : Kinds \ {"cut"}, seq : {n}, text : Texts, cut : {0}]
    \cup [kind : Kinds \cap {"cut"}, seq : {n}, text : Texts, cut : Cuts]
Broken(m) == m.kind # "whole"

Bytes(m) ==
  LET raw == Unparse(Val(0),
                     IF m.kind = "type" THEN Val(9) ELSE Known,
                     m.seq,
                     IF m.kind = "tag" THEN Val(9) ELSE Tag(Text),
                     m.text,
                     CASE m.kind = "long" -> 5 [] m.kind = "short" -> -5
                       [] OTHER -> 0)
  IN  CASE m.kind = "cut" -> SubSeq(raw, 1, m.cut)
        [] m.kind = "sum" -> [raw EXCEPT ![Len(raw) - 1] = CheckSumOf(<<>>)]
        [] OTHER -> raw

Init == sent = <<>> /\ wire = <<>> /\ start = 0 /\ unread = <<>> /\ delivered = <<>>

Send ==
  /\ Len(sent) < MaxSent
  /\ \E m \in Messages(Len(sent) + 1) :
       /\ Len(SelectSeq(Append(sent, m), Broken)) <= MaxBroken
       /\ sent' = Append(sent, m)
       /\ wire' = wire \o Bytes(m)
  /\ UNCHANGED <<start, unread, delivered>>

\* The buffer holds bytes up to `end`; garbled ones are behind its start.
Remaining(st, u) == Capacity - (st + Len(u))
From(u, i) == SubSeq(u, i, Len(u))
\* Room is kept for a message.
Full(st, u) == Remaining(st, u) <= MaxMessage
\* As bugs: no compaction; free room counted as if the bytes began at 0.
CompactNever(st, u) == st
Compact(st, u) == IF Full(st, u) THEN 0 ELSE st
RoomFromZero(st, u) == Capacity - Len(u) - MaxMessage
Room(st, u) == Remaining(st, u) - MaxMessage

Deliver(p) == delivered' = IF p.got THEN Append(delivered, p.msg) ELSE delivered
BufferBecomes(st, u, p) ==
  /\ start' = st + p.at - 1
  /\ unread' = From(u, p.at)

\* fix_session_recv: a message that is there already is returned; otherwise
\* the buffer takes n bytes more (n = 0: there are none, or no room).
TakeParsed(p) == BufferBecomes(start, unread, p) /\ Deliver(p) /\ UNCHANGED wire
Receive(st, u, n) ==
  LET more == u \o SubSeq(wire, 1, n)
  IN  /\ wire' = From(wire, n + 1)
      /\ \E q \in {Parse(more, MaxMessage)} : BufferBecomes(st, more, q) /\ Deliver(q)
MayRead(n, room) ==
  /\ n <= IF room > 0 THEN room ELSE 0
  /\ n = 0 <=> (wire = <<>> \/ room <= 0)
Recv ==
  /\ \E p \in {Parse(unread, MaxMessage)} :
       IF p.got THEN TakeParsed(p)
       ELSE LET rest == From(unread, p.at)
                st == Compact(start + p.at - 1, rest)
            IN  \E n \in 0..Len(wire) :
                  MayRead(n, Room(st, rest)) /\ Receive(st, rest, n)
  /\ UNCHANGED sent

Next == Send \/ Recv

Spec == Init /\ [][Next]_vars

-----------------------------------------------------------------------------
Numbers == [i \in 1..Len(delivered) |-> delivered[i].seq]

\* The buffer stays within its capacity, and its bytes are the last the peer
\* sent before those on the wire.
TypeOK ==
  /\ start \in 0..Capacity /\ start + Len(unread) <= Capacity
  /\ IsSuffix(unread \o wire, FlattenSeq([i \in 1..Len(sent) |-> Bytes(sent[i])]))

\* However the bytes are cut and whatever is broken, a delivered message was
\* sent, with that text, and none is delivered twice or after a later one.
OnlySent ==
  /\ \A i \in 1..Len(delivered) :
       LET d == delivered[i]
       IN  /\ d.seq \in 1..Len(sent)
           /\ IF Broken(sent[d.seq]) THEN d.text = <<>>
              ELSE d.text = <<sent[d.seq].text>>
  /\ \A i, j \in 1..Len(delivered) : i < j => Numbers[i] < Numbers[j]

\* There is always room to receive, once the next call has compacted: neither
\* the bytes read nor a message that waits for its rest fill the buffer.
NeverStuck == Room(Compact(start, unread), unread) > 0

\* Once nothing is on its way and no call returns a message anymore, every
\* message before the first broken one has been returned.  A broken one may
\* cost any number of those behind it: when the bytes end in a field that is
\* passed over, next_tag eats the first half of it, and the rest of it with
\* the BeginString of the next message then looks like one garbled field.
Excused(n) == \E m \in 1..n : Broken(sent[m])
AtRest == wire = <<>> /\ ~Parse(unread, MaxMessage).got
AllArrived ==
  AtRest => \A n \in 1..Len(sent) :
              Excused(n) \/ \E i \in 1..Len(delivered) : delivered[i].seq = n
=============================================================================
