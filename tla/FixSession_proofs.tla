-------------------------- MODULE FixSession_proofs --------------------------
(***************************************************************************)
(* Proofs about a FIX session, for every bound on the numbers, on the      *)
(* sends that fail and on the resets, and for both dialects.               *)
(***************************************************************************)
EXTENDS FixSession, SequenceTheorems, FunctionTheorems, FiniteSetTheorems, TLAPS

Message == [type : Types, seq : Nat, id : Nat, from : Nat, to : Nat, gap : BOOLEAN]

-----------------------------------------------------------------------------
(***************************************************************************)
(* Requests on a wire.                                                     *)
(***************************************************************************)
Requests(w) == {i \in 1..Len(w) : w[i].type = "ResendRequest"}
IsOf(m, type) == IF m.type = type THEN 1 ELSE 0

LEMMA RequestsFinite ==
  ASSUME NEW w \in Seq(Message)
  PROVE  IsFiniteSet(Requests(w)) /\ Cardinality(Requests(w)) \in Nat
<1>1. IsFiniteSet(1..Len(w))
  BY LenProperties, FS_Interval
<1>2. Requests(w) \in SUBSET (1..Len(w))
  BY DEF Requests
<1> QED BY <1>1, <1>2, FS_Subset, FS_CardinalityType

LEMMA RequestsOfAppend ==
  ASSUME NEW w \in Seq(Message), NEW m \in Message
  PROVE  Cardinality(Requests(Append(w, m)))
           = Cardinality(Requests(w)) + IsOf(m, "ResendRequest")
<1>1. /\ Len(w) \in Nat /\ Len(Append(w, m)) = Len(w) + 1
      /\ \A i \in 1..Len(w) : Append(w, m)[i] = w[i]
      /\ Append(w, m)[Len(w) + 1] = m
  BY LenProperties, AppendProperties
<1>2. CASE m.type = "ResendRequest"
  <2>1. Requests(Append(w, m)) = Requests(w) \cup {Len(w) + 1}
    BY <1>1, <1>2 DEF Requests
  <2>2. Len(w) + 1 \notin Requests(w)
    BY <1>1 DEF Requests
  <2> QED BY <1>2, <2>1, <2>2, RequestsFinite, FS_AddElement DEF IsOf
<1>3. CASE m.type # "ResendRequest"
  <2>1. Requests(Append(w, m)) = Requests(w)
    BY <1>1, <1>3 DEF Requests
  <2> QED BY <1>3, <2>1, RequestsFinite DEF IsOf
<1> QED BY <1>2, <1>3

LEMMA RequestsOfTail ==
  ASSUME NEW w \in Seq(Message), w # <<>>
  PROVE  Cardinality(Requests(Tail(w)))
           = Cardinality(Requests(w)) - IsOf(Head(w), "ResendRequest")
<1> DEFINE t == Tail(w)
           later == Requests(w) \ {1}
           f == [i \in Requests(t) |-> i + 1]
<1>1. /\ Len(w) \in Nat \ {0} /\ t \in Seq(Message) /\ Len(t) = Len(w) - 1
      /\ Head(w) = w[1] /\ \A i \in 1..Len(t) : t[i] = w[i + 1]
  BY LenProperties, EmptySeq, HeadTailProperties
<1> HIDE DEF t
<1>2. \A i \in Requests(t) : i \in Nat \ {0} /\ i + 1 \in later
  BY <1>1 DEF Requests
<1>3. \A i \in later : i - 1 \in Requests(t) /\ (i - 1) + 1 = i
  <2> TAKE i \in later
  <2>1. i \in 1..Len(w) /\ i # 1 /\ w[i].type = "ResendRequest"
    BY DEF Requests
  <2>2. i - 1 \in 1..Len(t) /\ (i - 1) + 1 = i
    BY <1>1, <2>1
  <2>3. t[i - 1] = w[i]
    BY <1>1, <2>2
  <2> QED BY <2>1, <2>2, <2>3 DEF Requests
<1>4. f \in Bijection(Requests(t), later)
  <2>1. f \in [Requests(t) -> later]
    BY <1>2
  <2>2. \A a, b \in Requests(t) : f[a] = f[b] => a = b
    BY <1>2
  <2>3. \A b \in later : \E a \in Requests(t) : f[a] = b
    <3> TAKE b \in later
    <3>1. b - 1 \in Requests(t) /\ f[b - 1] = b
      BY <1>3
    <3> QED BY <3>1
  <2> HIDE DEF f, later
  <2> QED BY <2>1, <2>2, <2>3, Fun_IsBij
<1>5. ExistsBijection(Requests(t), later)
  BY <1>4 DEF ExistsBijection
<1>6. Cardinality(later) = Cardinality(Requests(t))
  <2> HIDE DEF later
  <2> QED BY <1>1, <1>5, RequestsFinite, FS_Bijection
<1>7. Cardinality(later) = IF 1 \in Requests(w) THEN Cardinality(Requests(w)) - 1
                           ELSE Cardinality(Requests(w))
  BY RequestsFinite, FS_RemoveElement
<1>8. 1 \in Requests(w) <=> Head(w).type = "ResendRequest"
  BY <1>1 DEF Requests
<1> QED BY <1>6, <1>7, <1>8, RequestsFinite DEF IsOf, t

-----------------------------------------------------------------------------
(***************************************************************************)
(* Messages and what a handler decides.                                    *)
(***************************************************************************)
LEMMA MsgIs ==
  ASSUME NEW type \in Types
  PROVE  /\ Msg(type) \in Message /\ Msg(type).type = type /\ Msg(type) # NoMsg
BY DEF Msg, Message, NoMsg, Types

LEMMA HeartbeatIs ==
  ASSUME NEW id \in Nat
  PROVE  /\ Heartbeat(id) \in Message /\ Heartbeat(id).type = "Heartbeat"
         /\ TestRequest(id) \in Message /\ TestRequest(id).type = "TestRequest"
         /\ Heartbeat(id) # NoMsg
BY DEF Heartbeat, TestRequest, Msg, Message, NoMsg, Types

LEMMA RequestIs ==
  ASSUME NEW b \in Nat, NEW e \in Nat
  PROVE  LET r == ResendRequest(b, e) IN
         /\ r \in Message /\ r.type = "ResendRequest" /\ r.from = b /\ r.to = e
         /\ r # NoMsg
BY DEF ResendRequest, Msg, Message, NoMsg, Types

LEMMA ResetIs ==
  ASSUME NEW n \in Nat, NEW new \in Nat, NEW gap \in BOOLEAN
  PROVE  LET r == SequenceReset(n, new, gap) IN
         /\ r \in Message /\ r.type = "SequenceReset" /\ r.seq = n /\ r.to = new
         /\ r.gap = gap /\ r # NoMsg
BY DEF SequenceReset, Msg, Message, NoMsg, Types

\* The next number, which all messages but SequenceReset take.
LEMMA NumberedIs ==
  ASSUME NEW p \in Peers, NEW m \in Message, out_msg_seq_num[p] \in Nat
  PROVE  /\ Numbered(p, m) \in Message /\ Numbered(p, m).type = m.type
         /\ Numbered(p, m).from = m.from /\ Numbered(p, m).to = m.to
         /\ Numbered(p, m).seq = IF m.type = "SequenceReset" THEN m.seq
                                 ELSE out_msg_seq_num[p]
BY DEF Numbered, Preserves, Message

\* What every receiver's outcome o satisfies, with n the number that the
\* message m would have next.  A message in turn is counted, another one not
\* or not as itself, and a message is requested again only if it is ahead.
Sound(n, m, o) ==
  /\ o.in \in Nat /\ n - 1 <= o.in
  /\ o.reply # NoMsg => o.reply \in Message /\ o.reply.type # "Order"
  /\ ~Preserves(m) => o.in \in {n - 1, n}
  /\ ~Preserves(m) /\ m.seq = n => o.in = n /\ o.reply.type # "ResendRequest"
  /\ o.reply.type = "SequenceReset" =>
       m.type = "ResendRequest" /\ o.reply.seq = m.from /\ o.reply.to = m.to + 1
  /\ o.reply.type = "ResendRequest" =>
       /\ o.in = n - 1 /\ o.reply.from = n
       /\ ~Preserves(m) => o.reply.to = EndAsked
  /\ Preserves(m) /\ m.to = 1 /\ m.seq <= n =>
       o.in <= n /\ o.reply.type # "ResendRequest"

\* What fix_session_admin adds to it: it counts a message only in its turn,
\* and leaves an order to its caller then and only then.
Judged(n, m, o) ==
  /\ Sound(n, m, o)
  /\ LogsOut(o) => o.handled
  /\ ~Preserves(m) /\ o.in = n => m.seq = n
  /\ m.type = "Order" => (o.handled <=> m.seq # n)

LEMMA NoMsgIs == NoMsg.type = "None"
BY DEF NoMsg, Msg

LEMMA EndAskedIs == EndAsked \in Nat /\ (~legacy => EndAsked = 0)
BY BoundsAreNumbers DEF EndAsked

LEMMA UnexpectedIsJudged ==
  ASSUME NEW n \in Nat \ {0}, NEW m \in Message, m.type # "SequenceReset", m.seq # n
  PROVE  Judged(n, m, Unexpected(n, m))
<1>1. m.seq \in Nat /\ ~Preserves(m)
  BY DEF Message, Preserves
<1>2. CASE m.seq > n
  <2>1. Unexpected(n, m) = Outcome(n - 1, ResendRequest(n, EndAsked), TRUE)
    BY <1>2 DEF Unexpected
  <2> DEFINE r == ResendRequest(n, EndAsked)
  <2>2. r \in Message /\ r.type = "ResendRequest" /\ r.from = n /\ r.to = EndAsked
    BY RequestIs, EndAskedIs
  <2> HIDE DEF r
  <2> QED BY <1>1, <1>2, <2>1, <2>2 DEF Judged, Sound, Outcome, LogsOut, r
<1>3. CASE ~(m.seq > n)
  <2>1. Unexpected(n, m) = Outcome(n - 1, Msg("Logout"), TRUE)
    BY <1>3 DEF Unexpected
  <2>2. Msg("Logout") \in Message /\ Msg("Logout").type = "Logout"
    BY MsgIs DEF Types
  <2> QED BY <1>1, <1>3, <2>1, <2>2 DEF Judged, Sound, Outcome, LogsOut
<1> QED BY <1>2, <1>3

\* Both forms of a SequenceReset: it is never counted below what was counted.
LEMMA ResetIsJudged ==
  ASSUME NEW n \in Nat \ {0}, NEW m \in Message, m.type = "SequenceReset"
  PROVE  Judged(n, m, GapFilled(n, m)) /\ Judged(n, m, Reset(n, m))
<1>1. m.seq \in Nat /\ m.to \in Nat /\ Preserves(m)
  BY DEF Message, Preserves
<1>2. /\ Msg("Logout") \in Message /\ Msg("Logout").type = "Logout"
      /\ Msg("Reject") \in Message /\ Msg("Reject").type = "Reject"
      /\ NoMsg.type = "None"
  BY MsgIs, NoMsgIs DEF Types
<1>3. Judged(n, m, GapFilled(n, m))
  <2>1. CASE m.seq > n
    <3>0. /\ (m.seq > n)
          /\ ~(m.seq < n)
          /\ ~(m.seq = n)
      BY <1>1, <2>1
    <3>1. GapFilled(n, m) = Outcome(n - 1, ResendRequest(n, m.seq), TRUE)
      BY <3>0, Zenon DEF GapFilled
    <3> DEFINE r == ResendRequest(n, m.seq)
    <3>2. r \in Message /\ r.type = "ResendRequest" /\ r.from = n
      BY <1>1, RequestIs
    <3> HIDE DEF r
    <3> QED BY <1>1, <2>1, <3>1, <3>2 DEF Judged, Sound, Outcome, LogsOut, r
  <2>2. CASE m.seq < n
    <3>0. /\ ~(m.seq > n)
          /\ (m.seq < n)
          /\ ~(m.seq = n)
      BY <1>1, <2>2
    <3>1. GapFilled(n, m) = Outcome(n - 1, Msg("Logout"), TRUE)
      BY <3>0, Zenon DEF GapFilled
    <3> QED BY <1>1, <1>2, <3>1 DEF Judged, Sound, Outcome, LogsOut
  <2>3. CASE m.seq = n /\ m.to > m.seq
    <3>0. /\ ~(m.seq > n)
          /\ ~(m.seq < n)
          /\ (m.seq = n)
          /\ (m.to > m.seq)
          /\ ~(m.to <= m.seq)
      BY <1>1, <2>3
    <3>1. GapFilled(n, m) = Outcome(m.to - 1, NoMsg, TRUE)
      BY <3>0, Zenon DEF GapFilled
    <3> QED BY <1>1, <1>2, <2>3, <3>1 DEF Judged, Sound, Outcome, LogsOut
  <2>4. CASE m.seq = n /\ m.to <= m.seq
    <3>0. /\ ~(m.seq > n)
          /\ ~(m.seq < n)
          /\ (m.seq = n)
          /\ ~(m.to > m.seq)
          /\ (m.to <= m.seq)
      BY <1>1, <2>4
    <3>1. GapFilled(n, m) = Outcome(n, Msg("Reject"), TRUE)
      BY <3>0, Zenon DEF GapFilled
    <3> QED BY <1>1, <1>2, <3>1 DEF Judged, Sound, Outcome, LogsOut
  <2> QED BY <1>1, <2>1, <2>2, <2>3, <2>4
<1>4. Judged(n, m, Reset(n, m))
  <2>1. CASE m.to > n
    <3>0. /\ (m.to > n)
          /\ ~(m.to < n)
          /\ ~(m.to = n)
      BY <1>1, <2>1
    <3>1. Reset(n, m) = Outcome(m.to - 1, NoMsg, TRUE)
      BY <3>0, Zenon DEF Reset
    <3> QED BY <1>1, <1>2, <2>1, <3>1 DEF Judged, Sound, Outcome, LogsOut
  <2>2. CASE m.to < n
    <3>0. /\ ~(m.to > n)
          /\ (m.to < n)
          /\ ~(m.to = n)
      BY <1>1, <2>2
    <3>1. Reset(n, m) = Outcome(n - 1, Msg("Reject"), TRUE)
      BY <3>0, Zenon DEF Reset
    <3> QED BY <1>1, <1>2, <3>1 DEF Judged, Sound, Outcome, LogsOut
  <2>3. CASE m.to = n
    <3>0. /\ ~(m.to > n)
          /\ ~(m.to < n)
          /\ (m.to = n)
      BY <1>1, <2>3
    <3>1. Reset(n, m) = Outcome(n, NoMsg, TRUE)
      BY <3>0, Zenon DEF Reset
    <3> QED BY <1>1, <1>2, <3>1 DEF Judged, Sound, Outcome, LogsOut
  <2> QED BY <1>1, <2>1, <2>2, <2>3
<1> QED BY <1>3, <1>4

\* fix_session_admin
LEMMA AdminIsJudged ==
  ASSUME NEW n \in Nat \ {0}, NEW m \in Message
  PROVE  Judged(n, m, Admin(n, m))
<1>1. /\ m.seq \in Nat /\ m.to \in Nat /\ m.from \in Nat /\ m.id \in Nat
      /\ m.gap \in BOOLEAN /\ NoMsg.type = "None"
      /\ Preserves(m) <=> m.type = "SequenceReset"
  BY NoMsgIs DEF Message, Preserves
<1>2. CASE ~Expected(n, m)
  <2>1. Admin(n, m) = Unexpected(n, m) /\ m.type # "SequenceReset" /\ m.seq # n
    BY <1>2 DEF Admin, Expected
  <2> QED BY <2>1, UnexpectedIsJudged
<1>3. CASE m.type = "SequenceReset"
  <2>1. Admin(n, m) = IF m.gap THEN GapFilled(n, m) ELSE Reset(n, m)
    BY <1>3 DEF Admin, Expected
  <2> QED BY <1>3, <2>1, ResetIsJudged
<1>4. CASE Expected(n, m) /\ m.type # "SequenceReset"
  <2>0. m.seq = n
    BY <1>4 DEF Expected
  <2>1. CASE m.type = "TestRequest"
    <3>1. Admin(n, m) = Outcome(n, Heartbeat(m.id), TRUE)
      BY <1>4, <2>1 DEF Admin, TestReply
    <3>2. Heartbeat(m.id) \in Message /\ Heartbeat(m.id).type = "Heartbeat"
      BY <1>1, HeartbeatIs
    <3> QED BY <1>1, <1>4, <2>0, <2>1, <3>1, <3>2 DEF Judged, Sound, Outcome, LogsOut
  <2>2. CASE m.type = "ResendRequest"
    <3> DEFINE r == SequenceReset(m.from, m.to + 1, TRUE)
    <3>1. Admin(n, m) = Outcome(n, r, TRUE)
      BY <1>4, <2>2 DEF Admin, Resent
    <3>2. r \in Message /\ r.type = "SequenceReset" /\ r.seq = m.from /\ r.to = m.to + 1
      <4>1. m.from \in Nat /\ m.to + 1 \in Nat /\ TRUE \in BOOLEAN
        BY <1>1
      <4>2. \A a, b \in Nat :
              LET s == SequenceReset(a, b, TRUE) IN
              s \in Message /\ s.type = "SequenceReset" /\ s.seq = a /\ s.to = b
        BY ResetIs
      <4> QED BY <4>1, <4>2
    <3> HIDE DEF r
    <3>3. PICK out : out = Outcome(n, r, TRUE)
      OBVIOUS
    <3>4. out.in = n /\ out.reply = r /\ out.handled
      BY <3>3 DEF Outcome
    <3>5. Sound(n, m, out)
      BY <1>1, <1>4, <2>0, <2>2, <3>2, <3>4 DEF Sound
    <3> QED BY <2>0, <2>2, <3>1, <3>2, <3>3, <3>4, <3>5 DEF Judged, LogsOut
  <2>3. CASE m.type = "Heartbeat"
    <3>1. Admin(n, m) = Outcome(n, NoMsg, TRUE)
      BY <1>4, <2>3 DEF Admin
    <3> QED BY <1>1, <1>4, <2>0, <2>3, <3>1 DEF Judged, Sound, Outcome, LogsOut
  <2>4. CASE m.type \notin {"TestRequest", "ResendRequest", "Heartbeat"}
    <3>1. Admin(n, m) = Outcome(n, NoMsg, FALSE)
      BY <1>4, <2>4 DEF Admin
    <3> QED BY <1>1, <1>4, <2>0, <2>4, <3>1 DEF Judged, Sound, Outcome, LogsOut
  <2> QED BY <2>1, <2>2, <2>3, <2>4
<1> QED BY <1>2, <1>3, <1>4

\* fix_session_logon
LEMMA LogonAdminIsSound ==
  ASSUME NEW n \in Nat \ {0}, NEW m \in Message
  PROVE  LET o == LogonAdmin(n, m) IN Sound(n, m, o) /\ (LogsOut(o) => o.handled)
<1>1. /\ m.seq \in Nat /\ NoMsg.type = "None"
      /\ Preserves(m) <=> m.type = "SequenceReset"
  BY NoMsgIs DEF Message, Preserves
<1>2. CASE ~Expected(n, m)
  <2>1. LogonAdmin(n, m) = Unexpected(n, m) /\ m.type # "SequenceReset" /\ m.seq # n
    BY <1>2 DEF LogonAdmin, Expected
  <2> QED BY <2>1, UnexpectedIsJudged DEF Judged
<1>3. CASE Expected(n, m) /\ m.type = "Logon"
  <2>1. LogonAdmin(n, m) = Outcome(n, NoMsg, FALSE)
    BY <1>3 DEF LogonAdmin
  <2> QED BY <1>1, <1>3, <2>1 DEF Sound, Outcome, LogsOut
<1>4. CASE Expected(n, m) /\ m.type # "Logon"
  <2>1. LogonAdmin(n, m) = Outcome(n, Msg("Logout"), TRUE)
    BY <1>4 DEF LogonAdmin
  <2>2. Msg("Logout") \in Message /\ Msg("Logout").type = "Logout"
    BY MsgIs DEF Types
  <2> QED BY <1>1, <1>4, <2>1, <2>2 DEF Sound, Outcome, LogsOut
<1> QED BY <1>2, <1>3, <1>4

\* Those that count any message: fix_server_logon, a script that does not
\* match, fix_server_logout.
LEMMA CountingIsSound ==
  ASSUME NEW n \in Nat \ {0}, NEW m \in Message,
         NEW r \in {NoMsg, Msg("Logon"), Msg("Logout")}
  PROVE  Sound(n, m, Outcome(n, r, TRUE))
<1>1. r.type \in {"None", "Logon", "Logout"} /\ (r # NoMsg => r \in Message)
  BY NoMsgIs, MsgIs DEF Types
<1> QED BY <1>1 DEF Sound, Outcome
-----------------------------------------------------------------------------
(***************************************************************************)
(* The inductive invariant.  What concerns the connection is stated of a   *)
(* wire w and the counted numbers inn, so that it can be said in the       *)
(* middle of a handler: a message is taken off the wire and counted, and   *)
(* the reply r of the peer p is still to be sent.                          *)
(***************************************************************************)
Carried(w) == {w[i] : i \in 1..Len(w)}

\* All that SequenceResets moved a peer past, announced or not.
Moved == [p \in Peers |-> skipped[p] \cup unannounced[p]]
Histories ==
  skipped \in [Peers -> SUBSET Nat] /\ unannounced \in [Peers -> SUBSET Nat]

Ranges ==
  /\ TypeOK
  /\ legacy \in BOOLEAN
  /\ wire \in [Peers -> Seq(Message)]
  /\ lost \in [Peers -> SUBSET Nat] /\ Histories

\* A number is taken once: by a message that is on its way or was lost.
NumberingOn(w) == \A p \in Peers :
  /\ \A n \in lost[p] : n < out_msg_seq_num[p]
  /\ \A m \in Carried(w[Other(p)]) :
       ~Preserves(m) => m.seq < out_msg_seq_num[p] /\ m.seq \notin lost[p]
Numbering == NumberingOn(wire)

\* The Logon has number 1, and an order, which only the client sends, is known
\* by its number.
OrdersOn(w) ==
  /\ out_msg_seq_num[Client] > 1
  /\ \A n \in ordered : n \in Nat /\ n < out_msg_seq_num[Client]
  /\ \A n \in ordered \cup lost[Client] : n > 1
  /\ \A m \in Carried(w[Server]) :
       ~Preserves(m) => (m.seq \in ordered <=> m.type = "Order")
  /\ \A m \in Carried(w[Client]) : m.type # "Order"
Orders == OrdersOn(wire)

\* While nothing failed, each message has the number its receiver expects.
InOrderOn(inn, w) ==
  failed = 0 /\ resets = 0 => \A p \in Peers :
    /\ inn[p] + Len(w[p]) = out_msg_seq_num[Other(p)] - 1
    /\ \A i \in 1..Len(w[p]) :
         /\ w[p][i].seq = inn[p] + i
         /\ w[p][i].type \notin {"SequenceReset", "ResendRequest"}
InOrder == InOrderOn(in_msg_seq_num, wire)

\* A gap fill asks for one number more than its sender gave, and is owed to a
\* ResendRequest, which took the place of a message that was not counted.
Awaited(w, type, r) == Cardinality(Requests(w)) + IsOf(r, type)
Modest(m, theirs, own) ==
  /\ m.type = "SequenceReset" => m.to = 1 /\ m.seq <= theirs + 1
  /\ m.type = "ResendRequest" => m.to = 0 /\ m.from <= own + 1
OwedOn(inn, w, p, r) ==
  ~legacy /\ resets = 0 =>
    /\ inn[p] + Len(w[p]) + Awaited(w[Other(p)], "ResendRequest", r)
         < out_msg_seq_num[Other(p)]
    /\ inn[Other(p)] + Len(w[Other(p)]) + Awaited(w[p], "SequenceReset", r)
         < out_msg_seq_num[p]
    /\ \A q \in Peers : \A m \in Carried(w[q]) : Modest(m, inn[q], inn[Other(q)])
    /\ Modest(r, inn[Other(p)], inn[p])
Owed == \A p \in Peers : OwedOn(in_msg_seq_num, wire, p, NoMsg)

LinkOn(inn, w, p, r) ==
  NumberingOn(w) /\ OrdersOn(w) /\ InOrderOn(inn, w) /\ OwedOn(inn, w, p, r)
Link == Numbering /\ Orders /\ InOrder /\ Owed

\* What the server has counted, delivered and moved past.
Counted ==
  /\ phase[Server] = "logon" => in_msg_seq_num[Server] = 0
  /\ phase[Server] \in {"logon", "grace"} => ~active[Server]
  /\ \A n \in delivered :
       n \in Nat /\ n <= in_msg_seq_num[Server] /\ n < out_msg_seq_num[Client]
  /\ \A n \in Moved[Server] : n <= in_msg_seq_num[Server]
  /\ active[Server] /\ phase[Server] = "up" =>
       \A n \in Nat :
         out_msg_seq_num[Client] <= n /\ n <= in_msg_seq_num[Server]
           => n \in Moved[Server]

AllAccounted ==
  active[Server] /\ phase[Server] = "up" =>
    \A n \in ordered \cup lost[Client] :
      n <= in_msg_seq_num[Server] => n \in delivered \cup Moved[Server]
NoneTwice == delivered \cap (Moved[Server] \cup lost[Client]) = {}

IInv == Ranges /\ Link /\ Counted /\ AllAccounted /\ NoneTwice

LEMMA MovedStays ==
  ASSUME UNCHANGED <<skipped, unannounced>>
  PROVE  Moved' = Moved /\ (Histories => Histories')
BY DEF Moved, Histories

LEMMA MovedIs ==
  ASSUME Histories
  PROVE  /\ Moved \in [Peers -> SUBSET Nat]
         /\ \A p \in Peers : Moved[p] = skipped[p] \cup unannounced[p]
<1>1. ASSUME NEW p \in Peers PROVE skipped[p] \cup unannounced[p] \in SUBSET Nat
  BY DEF Histories
<1> QED BY <1>1 DEF Moved

LEMMA CarriedIs ==
  ASSUME NEW w \in Seq(Message)
  PROVE  /\ Carried(w) \subseteq Message
         /\ w # <<>> => /\ Head(w) \in Carried(w) /\ Head(w) = w[1]
                        /\ Tail(w) \in Seq(Message) /\ Len(w) \in Nat \ {0}
                        /\ Carried(Tail(w)) \subseteq Carried(w)
                        /\ Len(Tail(w)) = Len(w) - 1
                        /\ \A i \in 1..Len(Tail(w)) : Tail(w)[i] = w[i + 1]
         /\ \A m \in Message : /\ Carried(Append(w, m)) = Carried(w) \cup {m}
                               /\ Append(w, m) \in Seq(Message)
                               /\ Len(Append(w, m)) = Len(w) + 1
                               /\ \A i \in 1..Len(w) : Append(w, m)[i] = w[i]
                               /\ Append(w, m)[Len(w) + 1] = m
         /\ Len(w) \in Nat
<1>0. Len(w) \in Nat
  BY LenProperties
<1>1. Carried(w) \subseteq Message
  BY ElementOfSeq DEF Carried
<1>2. ASSUME w # <<>>
      PROVE  /\ Head(w) \in Carried(w) /\ Head(w) = w[1]
             /\ Tail(w) \in Seq(Message) /\ Len(w) \in Nat \ {0}
             /\ Carried(Tail(w)) \subseteq Carried(w)
             /\ Len(Tail(w)) = Len(w) - 1
             /\ \A i \in 1..Len(Tail(w)) : Tail(w)[i] = w[i + 1]
  <2>1. Len(w) # 0
    BY <1>2, EmptySeq
  <2>2. /\ Tail(w) \in Seq(Message) /\ Len(Tail(w)) = Len(w) - 1
        /\ Head(w) = w[1]
        /\ \A i \in 1..Len(Tail(w)) : Tail(w)[i] = w[i + 1]
    BY <1>2, HeadTailProperties
  <2>3. Head(w) \in Carried(w)
    BY <1>0, <2>1, <2>2 DEF Carried
  <2>4. Carried(Tail(w)) \subseteq Carried(w)
    <3> SUFFICES ASSUME NEW i \in 1..Len(Tail(w)) PROVE Tail(w)[i] \in Carried(w)
      BY DEF Carried
    <3>1. i + 1 \in 1..Len(w)
      BY <1>0, <2>2
    <3> QED BY <2>2, <3>1 DEF Carried
  <2> QED BY <1>0, <2>1, <2>2, <2>3, <2>4
<1>3. ASSUME NEW m \in Message
      PROVE  /\ Carried(Append(w, m)) = Carried(w) \cup {m}
             /\ Append(w, m) \in Seq(Message)
             /\ Len(Append(w, m)) = Len(w) + 1
             /\ \A i \in 1..Len(w) : Append(w, m)[i] = w[i]
             /\ Append(w, m)[Len(w) + 1] = m
  <2>1. /\ Append(w, m) \in Seq(Message) /\ Len(Append(w, m)) = Len(w) + 1
        /\ \A i \in 1..Len(w) : Append(w, m)[i] = w[i]
        /\ Append(w, m)[Len(w) + 1] = m
    BY AppendProperties
  <2>2. 1..(Len(w) + 1) = (1..Len(w)) \cup {Len(w) + 1}
    BY <1>0
  <2>3. Carried(Append(w, m)) = Carried(w) \cup {m}
    BY <2>1, <2>2 DEF Carried
  <2> QED BY <2>1, <2>3
<1> QED BY <1>0, <1>1, <1>2, <1>3

LEMMA LastOrBefore == \A n \in Nat : \A i \in 1..(n + 1) : i = n + 1 \/ i \in 1..n
OBVIOUS

LEMMA OtherIs ==
  ASSUME NEW p \in Peers
  PROVE  /\ Other(p) \in Peers /\ Other(p) # p /\ Other(Other(p)) = p
         /\ \A q \in Peers : q = p \/ q = Other(p)
         /\ p = Client => Other(p) = Server
         /\ p = Server => Other(p) = Client
BY PeersDiffer DEF Peers, Other

-----------------------------------------------------------------------------
(***************************************************************************)
(* Sending: r is the message or the reply, w the wire without the message  *)
(* being handled.                                                          *)
(***************************************************************************)
Takes(r) == IF r = NoMsg \/ Preserves(r) THEN 0 ELSE 1

Silent(p, r, w) ==
  /\ r = NoMsg /\ wire'[Other(p)] = w[Other(p)]
  /\ failed' = failed /\ lost'[p] = lost[p]
Sent(p, r, w) ==
  /\ r # NoMsg /\ wire'[Other(p)] = Append(w[Other(p)], Numbered(p, r))
  /\ failed' = failed /\ lost'[p] = lost[p]
Failed(p, r, w) ==
  /\ r # NoMsg /\ wire'[Other(p)] = w[Other(p)]
  /\ failed' = failed + 1
  /\ lost'[p] = IF Preserves(r) THEN lost[p]
                ELSE lost[p] \cup {out_msg_seq_num[p]}

LEMMA SendIs ==
  ASSUME NEW p \in Peers, NEW r, r = NoMsg \/ r \in Message,
         NEW w \in [Peers -> Seq(Message)], Ranges, SendIfAny(p, r, w)
  PROVE  /\ out_msg_seq_num' \in [Peers -> 1..(MaxSeq + 1)]
         /\ lost' \in [Peers -> SUBSET Nat] /\ wire' \in [Peers -> Seq(Message)]
         /\ failed' \in 0..MaxFailed
         /\ out_msg_seq_num'[Other(p)] = out_msg_seq_num[Other(p)]
         /\ lost'[Other(p)] = lost[Other(p)] /\ wire'[p] = w[p]
         /\ out_msg_seq_num'[p] = out_msg_seq_num[p] + Takes(r)
         /\ Silent(p, r, w) \/ Sent(p, r, w) \/ Failed(p, r, w)
<1>0. /\ out_msg_seq_num \in [Peers -> 1..(MaxSeq + 1)] /\ failed \in 0..MaxFailed
      /\ lost \in [Peers -> SUBSET Nat] /\ MaxSeq \in Nat /\ MaxFailed \in Nat
  BY BoundsAreNumbers DEF Ranges, TypeOK
<1>1. Other(p) \in Peers /\ Other(p) # p
  BY OtherIs
<1>2. CASE r = NoMsg
  <2>1. wire' = w /\ UNCHANGED <<out_msg_seq_num, failed, lost>>
    BY <1>2 DEF SendIfAny
  <2> QED BY <1>0, <1>1, <1>2, <2>1 DEF Takes, Silent
<1>3. CASE r # NoMsg
  <2>1. r \in Message /\ Send(p, r, w)
    BY <1>3 DEF SendIfAny
  <2>2. /\ out_msg_seq_num' \in [Peers -> 1..(MaxSeq + 1)]
        /\ out_msg_seq_num'[Other(p)] = out_msg_seq_num[Other(p)]
        /\ out_msg_seq_num'[p] = out_msg_seq_num[p] + Takes(r)
    <3>1. /\ out_msg_seq_num[p] <= MaxSeq
          /\ out_msg_seq_num' =
               [out_msg_seq_num EXCEPT ![p] = IF Preserves(r) THEN @ ELSE @ + 1]
      BY <2>1 DEF Send
    <3> QED BY <1>0, <1>1, <1>3, <3>1 DEF Takes
  <2>3. CASE /\ wire' = [w EXCEPT ![Other(p)] = Append(@, Numbered(p, r))]
             /\ UNCHANGED <<failed, lost>>
    <3>1. Numbered(p, r) \in Message
      BY <1>0, <2>1, NumberedIs
    <3>2. Append(w[Other(p)], Numbered(p, r)) \in Seq(Message)
      BY <1>1, <3>1, AppendProperties
    <3> QED BY <1>0, <1>1, <1>3, <2>2, <2>3, <3>2 DEF Sent
  <2>4. CASE /\ failed < MaxFailed /\ failed' = failed + 1 /\ wire' = w
             /\ lost' = [lost EXCEPT ![p] =
                           IF Preserves(r) THEN @ ELSE @ \cup {out_msg_seq_num[p]}]
    BY <1>0, <1>1, <1>3, <2>2, <2>4 DEF Failed
  <2> QED BY <2>1, <2>3, <2>4 DEF Send
<1> QED BY <1>2, <1>3

\* A message that is sent, and a number that is lost, are new.
LEMMA SendKeepsNumbering ==
  ASSUME NEW p \in Peers, NEW r, r = NoMsg \/ r \in Message,
         NEW w \in [Peers -> Seq(Message)], Ranges, SendIfAny(p, r, w),
         NumberingOn(w)
  PROVE  Numbering'
<1> DEFINE o == Other(p)
           x == Numbered(p, r)
<1>0. /\ out_msg_seq_num[p] \in Nat /\ out_msg_seq_num[o] \in Nat
      /\ lost[p] \subseteq Nat /\ MaxSeq \in Nat
  <2>1. MaxSeq \in Nat /\ o \in Peers
    BY OtherIs, BoundsAreNumbers
  <2> HIDE DEF o
  <2> QED BY <2>1 DEF Ranges, TypeOK
<1>1. o \in Peers /\ o # p /\ Other(o) = p /\ \A q \in Peers : q = p \/ q = o
  BY OtherIs
<1>2. r # NoMsg => /\ x \in Message /\ (Preserves(x) <=> Preserves(r))
                   /\ ~Preserves(r) => x.seq = out_msg_seq_num[p]
  BY <1>0, NumberedIs DEF Preserves
<1>3. w[o] \in Seq(Message) /\ w[p] \in Seq(Message)
  BY <1>1
<1>3a. \A m \in Carried(w[o]) : m \in Message
  BY <1>3, CarriedIs
<1> HIDE DEF o, x
<1>4. /\ \A n \in lost[p] : n < out_msg_seq_num[p]
      /\ \A m \in Carried(w[o]) :
           ~Preserves(m) => m.seq < out_msg_seq_num[p] /\ m.seq \notin lost[p]
  BY <1>1 DEF NumberingOn, o
<1>5. /\ \A n \in lost[o] : n < out_msg_seq_num[o]
      /\ \A m \in Carried(w[p]) :
           ~Preserves(m) => m.seq < out_msg_seq_num[o] /\ m.seq \notin lost[o]
  BY <1>1 DEF NumberingOn
<1>6. /\ \A n \in lost'[o] : n < out_msg_seq_num'[o]
      /\ \A m \in Carried(wire'[p]) :
           ~Preserves(m) => m.seq < out_msg_seq_num'[o] /\ m.seq \notin lost'[o]
  BY <1>5, SendIs DEF o
<1>7. /\ \A n \in lost'[p] : n < out_msg_seq_num'[p]
      /\ \A m \in Carried(wire'[o]) :
           ~Preserves(m) => m.seq < out_msg_seq_num'[p] /\ m.seq \notin lost'[p]
  <2>1. out_msg_seq_num'[p] = out_msg_seq_num[p] + Takes(r) /\ Takes(r) \in {0, 1}
    BY SendIs DEF Takes
  <2>2. CASE wire'[o] = w[o] /\ lost'[p] = lost[p]
    BY <1>0, <1>3a, <1>4, <2>1, <2>2 DEF Message
  <2>3. CASE r # NoMsg /\ lost'[p] = lost[p] /\ wire'[o] = Append(w[o], x)
    <3>1. Carried(wire'[o]) = Carried(w[o]) \cup {x}
      BY <1>2, <1>3, <2>3, CarriedIs
    <3>2. \A n \in lost'[p] : n < out_msg_seq_num'[p]
      BY <1>0, <1>4, <2>1, <2>3
    <3>3. ASSUME NEW m \in Carried(w[o]), ~Preserves(m)
          PROVE  m.seq < out_msg_seq_num'[p] /\ m.seq \notin lost'[p]
      <4>1. m.seq \in Nat
        BY <1>3a DEF Message
      <4> QED BY <1>0, <1>4, <2>1, <2>3, <3>3, <4>1
    <3>4. ~Preserves(x) => x.seq < out_msg_seq_num'[p] /\ x.seq \notin lost'[p]
      BY <1>0, <1>2, <1>4, <2>1, <2>3 DEF Takes
    <3> QED BY <3>1, <3>2, <3>3, <3>4
  <2>4. CASE /\ r # NoMsg /\ wire'[o] = w[o]
             /\ lost'[p] = IF Preserves(r) THEN lost[p]
                           ELSE lost[p] \cup {out_msg_seq_num[p]}
    <3>1. ASSUME NEW m \in Carried(w[o]), ~Preserves(m)
          PROVE  m.seq < out_msg_seq_num'[p] /\ m.seq \notin lost'[p]
      <4>1. m.seq \in Nat
        BY <1>3a DEF Message
      <4> QED BY <1>0, <1>4, <2>1, <2>4, <3>1, <4>1
    <3> QED BY <1>0, <1>4, <2>1, <2>4, <3>1 DEF Takes
  <2>5. Silent(p, r, w) \/ Sent(p, r, w) \/ Failed(p, r, w)
    BY SendIs
  <2> QED BY <2>2, <2>3, <2>4, <2>5 DEF Silent, Sent, Failed, o, x
<1>8. NumberingOn(wire)'
  <2> SUFFICES ASSUME NEW q \in Peers
               PROVE  /\ \A n \in lost'[q] : n < out_msg_seq_num'[q]
                      /\ \A m \in Carried(wire'[Other(q)]) :
                           ~Preserves(m) => m.seq < out_msg_seq_num'[q]
                                            /\ m.seq \notin lost'[q]
    BY DEF NumberingOn
  <2>1. CASE q = p
    BY <1>7, <2>1 DEF o
  <2>2. CASE q = o
    BY <1>1, <1>6, <2>2
  <2> QED BY <1>1, <2>1, <2>2
<1> QED BY <1>8 DEF Numbering

\* Only the client sends orders, and remembers those that went out.
Remembers(p, r) ==
  /\ r.type = "Order" => p = Client
  /\ ordered' = IF r.type = "Order" /\ failed' = failed
                THEN ordered \cup {out_msg_seq_num[Client]} ELSE ordered

LEMMA SendKeepsOrders ==
  ASSUME NEW p \in Peers, NEW r, r = NoMsg \/ r \in Message,
         NEW w \in [Peers -> Seq(Message)], Ranges, SendIfAny(p, r, w),
         NumberingOn(w), OrdersOn(w), Remembers(p, r)
  PROVE  Orders'
<1> DEFINE x == Numbered(p, r)
           next == out_msg_seq_num[Client]
<1>0. /\ Client \in Peers /\ Server \in Peers
      /\ out_msg_seq_num[Client] \in Nat /\ out_msg_seq_num[p] \in Nat
      /\ failed \in Nat /\ lost[Client] \subseteq Nat
      /\ NoMsg.type = "None" /\ MaxSeq \in Nat /\ MaxFailed \in Nat
  <2>1. Client \in Peers /\ Server \in Peers
    BY DEF Peers
  <2>2. /\ out_msg_seq_num \in [Peers -> 1..(MaxSeq + 1)] /\ failed \in 0..MaxFailed
        /\ lost \in [Peers -> SUBSET Nat]
    BY DEF Ranges, TypeOK
  <2>3. MaxSeq \in Nat /\ MaxFailed \in Nat
    BY BoundsAreNumbers
  <2> QED BY <2>1, <2>2, <2>3, NoMsgIs
<1>1. /\ \A n \in ordered : n \in Nat /\ n < next
      /\ \A n \in ordered \cup lost[Client] : n > 1
      /\ \A m \in Carried(w[Server]) :
           ~Preserves(m) => (m.seq \in ordered <=> m.type = "Order")
      /\ \A m \in Carried(w[Client]) : m.type # "Order"
      /\ next > 1
  BY DEF OrdersOn
<1>2. \A m \in Carried(w[Server]) : ~Preserves(m) => m.seq \in Nat /\ m.seq < next
  <2>1. Server = Other(Client) /\ w[Server] \in Seq(Message)
    BY <1>0, OtherIs
  <2>2. \A m \in Carried(w[Server]) : m \in Message
    BY <2>1, CarriedIs
  <2> QED BY <1>0, <2>1, <2>2 DEF NumberingOn, Message
<1>3. OrdersOn(wire)'
  <2>1. CASE p = Server
    <3>1. Other(p) = Client /\ p # Client
      BY <2>1, OtherIs, PeersDiffer
    <3>2. ordered' = ordered
      BY <3>1 DEF Remembers
    <3>3. /\ out_msg_seq_num'[Client] = next /\ lost'[Client] = lost[Client]
          /\ wire'[Server] = w[Server]
      BY <2>1, <3>1, SendIs
    <3>4. \A m \in Carried(wire'[Client]) : m.type # "Order"
      <4>1. CASE wire'[Client] = w[Client]
        BY <1>1, <4>1
      <4>2. CASE Sent(p, r, w)
        <5>1. wire'[Client] = Append(w[Client], x) /\ r \in Message /\ r.type # "Order"
          BY <3>1, <4>2 DEF Sent, Remembers
        <5>2. x \in Message /\ x.type = r.type
          BY <1>0, <5>1, NumberedIs
        <5>3. Carried(wire'[Client]) = Carried(w[Client]) \cup {x}
          BY <1>0, <5>1, <5>2, CarriedIs
        <5> QED BY <1>1, <5>1, <5>2, <5>3
      <4> QED BY <3>1, <4>1, <4>2, SendIs DEF Silent, Failed
    <3> HIDE DEF next
    <3> QED BY <1>1, <3>2, <3>3, <3>4 DEF OrdersOn
  <2>2. CASE p = Client
    <3>1. Other(p) = Server /\ wire'[Client] = w[Client]
      BY <2>2, OtherIs, SendIs
    <3>1a. \A m \in Carried(wire'[Client]) : m.type # "Order"
      BY <1>1, <3>1
    <3>2. out_msg_seq_num'[Client] = next + Takes(r) /\ Takes(r) \in {0, 1}
      BY <2>2, SendIs DEF Takes
    <3>3. CASE Silent(p, r, w)
      <4>1. wire'[Server] = w[Server] /\ lost'[Client] = lost[Client] /\ r = NoMsg
        BY <2>2, <3>1, <3>3 DEF Silent
      <4>2. ordered' = ordered
        BY <1>0, <4>1 DEF Remembers
      <4> HIDE DEF next
      <4> QED BY <1>0, <1>1, <3>1a, <3>2, <4>1, <4>2 DEF OrdersOn, next
    <3>4. CASE Failed(p, r, w)
      <4>1. /\ wire'[Server] = w[Server] /\ failed' # failed
            /\ lost'[Client] \subseteq lost[Client] \cup {next}
        BY <1>0, <2>2, <3>1, <3>4 DEF Failed
      <4>2. ordered' = ordered
        BY <4>1 DEF Remembers
      <4> QED BY <1>0, <1>1, <3>1a, <3>2, <4>1, <4>2 DEF OrdersOn
    <3>5. CASE Sent(p, r, w)
      <4>1. /\ wire'[Server] = Append(w[Server], x) /\ failed' = failed
            /\ lost'[Client] = lost[Client] /\ r \in Message
        BY <2>2, <3>1, <3>5 DEF Sent
      <4>2. /\ x \in Message /\ x.type = r.type
            /\ ~Preserves(r) => x.seq = next
        BY <1>0, <2>2, <4>1, NumberedIs DEF Preserves
      <4>3. Carried(wire'[Server]) = Carried(w[Server]) \cup {x}
        BY <1>0, <4>1, <4>2, CarriedIs
      <4>4. ordered' = IF r.type = "Order" THEN ordered \cup {next} ELSE ordered
        BY <4>1 DEF Remembers
      <4>5. r.type = "Order" => Takes(r) = 1
        BY <3>5 DEF Takes, Preserves, Sent
      <4> HIDE DEF x, next
      <4>6. \A n \in ordered' : n \in Nat /\ n < next + Takes(r)
        BY <1>0, <1>1, <3>2, <4>4, <4>5 DEF next
      <4>7. \A m \in Carried(w[Server]) :
              ~Preserves(m) => (m.seq \in ordered' <=> m.type = "Order")
        <5> TAKE m \in Carried(w[Server])
        <5>1. ~Preserves(m) => m.seq # next
          BY <1>0, <1>2 DEF next
        <5> QED BY <1>1, <4>4, <5>1
      <4>8. ~Preserves(x) => (x.seq \in ordered' <=> x.type = "Order")
        <5>1. next \notin ordered
          BY <1>0, <1>1 DEF next
        <5> QED BY <4>2, <4>4, <5>1 DEF Preserves
      <4>9. \A n \in ordered' \cup lost'[Client] : n > 1
        BY <1>0, <1>1, <4>1, <4>4 DEF next
      <4>10. out_msg_seq_num'[Client] > 1
        BY <1>0, <1>1, <3>2 DEF next
      <4> QED BY <3>1a, <3>2, <4>3, <4>6, <4>7, <4>8, <4>9, <4>10 DEF OrdersOn
    <3> QED BY <3>3, <3>4, <3>5, SendIs
  <2> QED BY <2>1, <2>2 DEF Peers
<1> QED BY <1>3 DEF Orders

LEMMA SendKeepsInOrder ==
  ASSUME NEW p \in Peers, NEW r, r = NoMsg \/ r \in Message,
         NEW w \in [Peers -> Seq(Message)], Ranges, SendIfAny(p, r, w),
         NEW inn \in [Peers -> Nat], in_msg_seq_num' = inn,
         resets' = 0 => resets = 0, InOrderOn(inn, w),
         failed = 0 /\ resets' = 0 => r.type \notin {"SequenceReset", "ResendRequest"}
  PROVE  InOrder'
<1> DEFINE o == Other(p)
           x == Numbered(p, r)
<1>0. /\ out_msg_seq_num[p] \in Nat /\ out_msg_seq_num[o] \in Nat
      /\ failed \in Nat /\ inn[p] \in Nat /\ inn[o] \in Nat
      /\ o \in Peers /\ Other(o) = p /\ \A q \in Peers : q = p \/ q = o
      /\ w[p] \in Seq(Message) /\ w[o] \in Seq(Message) /\ MaxSeq \in Nat
      /\ Len(w[o]) \in Nat /\ Len(w[p]) \in Nat
  <2>1. o \in Peers /\ Other(o) = p /\ \A q \in Peers : q = p \/ q = o
    BY OtherIs
  <2>2. out_msg_seq_num \in [Peers -> 1..(MaxSeq + 1)] /\ failed \in 0..MaxFailed
    BY DEF Ranges, TypeOK
  <2>3. MaxSeq \in Nat /\ MaxFailed \in Nat
    BY BoundsAreNumbers
  <2>4. Len(w[o]) \in Nat /\ Len(w[p]) \in Nat
    BY <2>1, LenProperties
  <2> QED BY <2>1, <2>2, <2>3, <2>4
<1> SUFFICES ASSUME failed' = 0, resets' = 0, NEW q \in Peers
             PROVE  /\ inn[q] + Len(wire'[q]) = out_msg_seq_num'[Other(q)] - 1
                    /\ \A i \in 1..Len(wire'[q]) :
                         /\ wire'[q][i].seq = inn[q] + i
                         /\ wire'[q][i].type \notin {"SequenceReset", "ResendRequest"}
  BY DEF InOrder, InOrderOn
<1>1. failed = 0 /\ ~Failed(p, r, w)
  <2>1. CASE Silent(p, r, w) \/ Sent(p, r, w)
    BY <1>0, <2>1 DEF Silent, Sent, Failed
  <2>2. CASE Failed(p, r, w)
    BY <1>0, <2>2 DEF Failed
  <2> QED BY <2>1, <2>2, SendIs
<1>2. \A s \in Peers :
        /\ inn[s] + Len(w[s]) = out_msg_seq_num[Other(s)] - 1
        /\ \A i \in 1..Len(w[s]) :
             /\ w[s][i].seq = inn[s] + i
             /\ w[s][i].type \notin {"SequenceReset", "ResendRequest"}
  BY <1>1 DEF InOrderOn
<1>3. /\ wire'[p] = w[p] /\ out_msg_seq_num'[o] = out_msg_seq_num[o]
      /\ out_msg_seq_num'[p] = out_msg_seq_num[p] + Takes(r)
  BY SendIs
<1>4. CASE q = p
  BY <1>0, <1>2, <1>3, <1>4
<1>5. CASE q = o
  <2>1. CASE Silent(p, r, w)
    <3>1. wire'[o] = w[o] /\ Takes(r) = 0
      BY <2>1 DEF Silent, Takes
    <3> HIDE DEF o
    <3> QED BY <1>0, <1>2, <1>3, <1>5, <3>1
  <2>2. CASE Sent(p, r, w)
    <3>1. r.type \notin {"SequenceReset", "ResendRequest"} /\ r # NoMsg /\ r \in Message
      BY <1>1, <2>2 DEF Sent
    <3>2. Takes(r) = 1
      BY <3>1 DEF Takes, Preserves
    <3>3. x \in Message /\ x.type = r.type /\ x.seq = out_msg_seq_num[p]
      BY <1>0, <3>1, NumberedIs
    <3>4. wire'[o] = Append(w[o], x)
      BY <2>2 DEF Sent
    <3> HIDE DEF o, x
    <3>5. /\ Len(wire'[o]) = Len(w[o]) + 1
          /\ \A i \in 1..Len(w[o]) : wire'[o][i] = w[o][i]
          /\ wire'[o][Len(w[o]) + 1] = x
      BY <1>0, <3>3, <3>4, CarriedIs
    <3>6. inn[o] + Len(w[o]) + 1 = out_msg_seq_num[p]
      BY <1>0, <1>2
    <3>7. \A i \in 1..Len(wire'[o]) :
            /\ wire'[o][i].seq = inn[o] + i
            /\ wire'[o][i].type \notin {"SequenceReset", "ResendRequest"}
      <4> TAKE i \in 1..Len(wire'[o])
      <4>1. CASE i = Len(w[o]) + 1
        <5>1. wire'[o][i] = x
          BY <3>5, <4>1
        <5>2. x.seq = inn[o] + i
          BY <1>0, <3>3, <3>6, <4>1
        <5> QED BY <3>1, <3>3, <5>1, <5>2
      <4>2. CASE i \in 1..Len(w[o])
        <5>1. wire'[o][i] = w[o][i]
          BY <3>5, <4>2
        <5>2. /\ w[o][i].seq = inn[o] + i
              /\ w[o][i].type \notin {"SequenceReset", "ResendRequest"}
          BY <1>0, <1>2, <4>2
        <5> QED BY <5>1, <5>2
      <4>3. i = Len(w[o]) + 1 \/ i \in 1..Len(w[o])
        BY <1>0, <3>5, LastOrBefore
      <4> QED BY <4>1, <4>2, <4>3
    <3> QED BY <1>0, <1>3, <1>5, <3>2, <3>5, <3>6, <3>7
  <2> QED BY <1>1, <2>1, <2>2, SendIs
<1> QED BY <1>0, <1>4, <1>5

LEMMA SendKeepsOwed ==
  ASSUME NEW p \in Peers, NEW r, r = NoMsg \/ r \in Message,
         NEW w \in [Peers -> Seq(Message)], Ranges, SendIfAny(p, r, w),
         NEW inn \in [Peers -> Nat], in_msg_seq_num' = inn, legacy' = legacy,
         resets' = 0 => resets = 0 /\ OwedOn(inn, w, p, r)
  PROVE  Owed'
<1> DEFINE o == Other(p)
           x == Numbered(p, r)
           asked(v) == Cardinality(Requests(v))
<1>a. /\ o \in Peers /\ Other(o) = p /\ \A q \in Peers : q = p \/ q = o
      /\ w[p] \in Seq(Message) /\ w[o] \in Seq(Message) /\ NoMsg.type = "None"
      /\ inn[p] \in Nat /\ inn[o] \in Nat /\ MaxSeq \in Nat
  BY OtherIs, BoundsAreNumbers, NoMsgIs
<1>b. out_msg_seq_num[p] \in Nat /\ out_msg_seq_num[o] \in Nat
  BY <1>a DEF Ranges, TypeOK
<1>c. /\ Len(w[o]) \in Nat /\ Len(w[p]) \in Nat
      /\ asked(w[o]) \in Nat /\ asked(w[p]) \in Nat
  BY <1>a, LenProperties, RequestsFinite
<1>0. /\ out_msg_seq_num[p] \in Nat /\ out_msg_seq_num[o] \in Nat
      /\ inn[p] \in Nat /\ inn[o] \in Nat /\ MaxSeq \in Nat
      /\ o \in Peers /\ Other(o) = p /\ \A q \in Peers : q = p \/ q = o
      /\ w[p] \in Seq(Message) /\ w[o] \in Seq(Message) /\ NoMsg.type = "None"
      /\ Len(w[o]) \in Nat /\ Len(w[p]) \in Nat
      /\ asked(w[o]) \in Nat /\ asked(w[p]) \in Nat
  BY <1>a, <1>b, <1>c
<1> SUFFICES ASSUME ~legacy, resets' = 0, NEW q \in Peers
             PROVE  /\ inn[q] + Len(wire'[q])
                         + Awaited(wire'[Other(q)], "ResendRequest", NoMsg)
                       < out_msg_seq_num'[Other(q)]
                    /\ inn[Other(q)] + Len(wire'[Other(q)])
                         + Awaited(wire'[q], "SequenceReset", NoMsg)
                       < out_msg_seq_num'[q]
                    /\ \A s \in Peers : \A m \in Carried(wire'[s]) :
                         Modest(m, inn[s], inn[Other(s)])
                    /\ Modest(NoMsg, inn[Other(q)], inn[q])
  BY DEF Owed, OwedOn
<1>1. /\ inn[p] + Len(w[p]) + Awaited(w[o], "ResendRequest", r) < out_msg_seq_num[o]
      /\ inn[o] + Len(w[o]) + Awaited(w[p], "SequenceReset", r) < out_msg_seq_num[p]
      /\ \A u \in Peers : \A m \in Carried(w[u]) : Modest(m, inn[u], inn[Other(u)])
      /\ Modest(r, inn[o], inn[p])
  BY DEF OwedOn
<1>2. /\ wire'[p] = w[p] /\ out_msg_seq_num'[o] = out_msg_seq_num[o]
      /\ out_msg_seq_num'[p] = out_msg_seq_num[p] + Takes(r) /\ Takes(r) \in {0, 1}
  BY SendIs DEF Takes
<1>3. /\ inn[p] + Len(wire'[p]) + asked(wire'[o]) < out_msg_seq_num'[o]
      /\ inn[o] + Len(wire'[o]) + asked(wire'[p]) < out_msg_seq_num'[p]
      /\ \A m \in Carried(wire'[o]) : Modest(m, inn[o], inn[p])
  <2>1. CASE wire'[o] = w[o]
    <3>1. /\ Awaited(w[o], "ResendRequest", r) \in {asked(w[o]), asked(w[o]) + 1}
          /\ Awaited(w[p], "SequenceReset", r) \in {asked(w[p]), asked(w[p]) + 1}
      BY <1>0 DEF Awaited, IsOf
    <3> HIDE DEF o, asked
    <3>2. inn[p] + Len(wire'[p]) + asked(wire'[o]) < out_msg_seq_num'[o]
      <4>1. inn[p] + Len(w[p]) + asked(w[o]) < out_msg_seq_num[o]
        <5>1. /\ inn[p] + Len(w[p]) + Awaited(w[o], "ResendRequest", r) < out_msg_seq_num[o]
              /\ Awaited(w[o], "ResendRequest", r) \in {asked(w[o]), asked(w[o]) + 1}
          BY <1>1, <3>1
        <5>2. /\ inn[p] \in Nat /\ Len(w[p]) \in Nat /\ asked(w[o]) \in Nat
              /\ out_msg_seq_num[o] \in Nat
          BY <1>0
        <5> QED BY <5>1, <5>2
      <4> QED BY <1>2, <2>1, <4>1
    <3>3. inn[o] + Len(wire'[o]) + asked(wire'[p]) < out_msg_seq_num'[p]
      <4>1. inn[o] + Len(w[o]) + asked(w[p]) < out_msg_seq_num[p]
        <5>1. /\ inn[o] + Len(w[o]) + Awaited(w[p], "SequenceReset", r) < out_msg_seq_num[p]
              /\ Awaited(w[p], "SequenceReset", r) \in {asked(w[p]), asked(w[p]) + 1}
          BY <1>1, <3>1
        <5>2. /\ inn[o] \in Nat /\ Len(w[o]) \in Nat /\ asked(w[p]) \in Nat
              /\ out_msg_seq_num[p] \in Nat
          BY <1>0
        <5> QED BY <5>1, <5>2
      <4>2. out_msg_seq_num'[p] >= out_msg_seq_num[p]
        BY <1>0, <1>2
      <4>3. wire'[o] = w[o] /\ wire'[p] = w[p] /\ out_msg_seq_num'[p] \in Nat
        BY <1>0, <1>2, <2>1
      <4> QED BY <1>0, <4>1, <4>2, <4>3
    <3>4. \A m \in Carried(wire'[o]) : Modest(m, inn[o], inn[p])
      BY <1>0, <1>1, <2>1
    <3> QED BY <3>2, <3>3, <3>4
  <2>2. CASE Sent(p, r, w)
    <3>1. r # NoMsg /\ r \in Message /\ wire'[o] = Append(w[o], x)
      BY <2>2 DEF Sent
    <3>2. x \in Message /\ x.type = r.type /\ x.from = r.from /\ x.to = r.to
      BY <1>0, <3>1, NumberedIs
    <3>3. x.type = "SequenceReset" => x.seq = r.seq
      <4>1. x.seq = IF r.type = "SequenceReset" THEN r.seq ELSE out_msg_seq_num[p]
        BY <1>0, <3>1, NumberedIs
      <4> QED BY <3>2, <4>1
    <3>4. Takes(r) = IF r.type = "SequenceReset" THEN 0 ELSE 1
      BY <3>1 DEF Takes, Preserves
    <3> HIDE DEF x
    <3>5. asked(wire'[o]) = asked(w[o]) + IsOf(r, "ResendRequest")
      BY <1>0, <3>1, <3>2, RequestsOfAppend DEF IsOf
    <3>6. Len(wire'[o]) = Len(w[o]) + 1 /\ Carried(wire'[o]) = Carried(w[o]) \cup {x}
      BY <1>0, <3>1, <3>2, CarriedIs
    <3>7. Modest(x, inn[o], inn[p])
      BY <1>1, <3>2, <3>3 DEF Modest
    <3>8. /\ Awaited(w[o], "ResendRequest", r) = asked(w[o]) + IsOf(r, "ResendRequest")
          /\ Awaited(w[p], "SequenceReset", r) = asked(w[p]) + IsOf(r, "SequenceReset")
          /\ IsOf(r, "ResendRequest") \in {0, 1}
          /\ IsOf(r, "SequenceReset") = 1 - Takes(r)
      BY <3>4 DEF Awaited, IsOf
    <3> HIDE DEF o, asked
    <3>9. inn[p] + Len(wire'[p]) + asked(wire'[o]) < out_msg_seq_num'[o]
      <4>1. asked(wire'[o]) = Awaited(w[o], "ResendRequest", r)
        BY <3>5, <3>8
      <4> QED BY <1>1, <1>2, <4>1
    <3>10. inn[o] + Len(wire'[o]) + asked(wire'[p]) < out_msg_seq_num'[p]
      <4>1. asked(wire'[p]) = asked(w[p])
        BY <1>2
      <4>2. Awaited(w[p], "SequenceReset", r) = asked(w[p]) + 1 - Takes(r)
        BY <1>0, <1>2, <3>8
      <4>3. Len(wire'[o]) = Len(w[o]) + 1
        BY <3>6
      <4>4. \A i, l, c, b \in Nat : \A t \in {0, 1} :
              i + l + (c + 1 - t) < b => i + (l + 1) + c < b + t
        OBVIOUS
      <4>5. inn[o] + (Len(w[o]) + 1) + asked(w[p]) < out_msg_seq_num[p] + Takes(r)
        BY <1>0, <1>1, <1>2, <4>2, <4>4
      <4> QED BY <1>2, <4>1, <4>3, <4>5
    <3> QED BY <1>0, <1>1, <3>6, <3>7, <3>9, <3>10
  <2> QED BY <2>1, <2>2, SendIs DEF Silent, Failed
<1>4. \A u \in Peers : \A m \in Carried(wire'[u]) : Modest(m, inn[u], inn[Other(u)])
  BY <1>0, <1>1, <1>2, <1>3
<1>5. /\ asked(wire'[p]) \in Nat /\ asked(wire'[o]) \in Nat
      /\ \A s \in Peers : /\ Awaited(wire'[s], "ResendRequest", NoMsg) = asked(wire'[s])
                          /\ Awaited(wire'[s], "SequenceReset", NoMsg) = asked(wire'[s])
      /\ \A a, b : Modest(NoMsg, a, b)
  <2>1. wire'[p] \in Seq(Message) /\ wire'[o] \in Seq(Message)
    BY <1>0, SendIs
  <2>2. asked(wire'[p]) \in Nat /\ asked(wire'[o]) \in Nat
    BY <2>1, RequestsFinite
  <2>3. IsOf(NoMsg, "ResendRequest") = 0 /\ IsOf(NoMsg, "SequenceReset") = 0
    BY <1>0 DEF IsOf
  <2> HIDE DEF o
  <2>4. \A s \in Peers : /\ Awaited(wire'[s], "ResendRequest", NoMsg) = asked(wire'[s])
                        /\ Awaited(wire'[s], "SequenceReset", NoMsg) = asked(wire'[s])
    <3> TAKE s \in Peers
    <3>1. asked(wire'[s]) \in Nat
      BY <1>0, <2>2
    <3> QED BY <2>3, <3>1 DEF Awaited
  <2>5. \A a, b : Modest(NoMsg, a, b)
    BY <1>0 DEF Modest
  <2> QED BY <2>2, <2>4, <2>5
<1>6. CASE q = p
  <2>1. Other(q) = o
    BY <1>6
  <2> HIDE DEF o, asked
  <2>2. Modest(NoMsg, inn[Other(q)], inn[q])
    BY <1>5
  <2> QED BY <1>0, <1>2, <1>3, <1>4, <1>5, <1>6, <2>1, <2>2
<1>7. CASE q = o
  <2>1. Other(q) = p
    BY <1>0, <1>7
  <2> HIDE DEF o, asked
  <2>2. Modest(NoMsg, inn[Other(q)], inn[q])
    BY <1>5
  <2> QED BY <1>0, <1>2, <1>3, <1>4, <1>5, <1>7, <2>1, <2>2
<1> QED BY <1>0, <1>6, <1>7

-----------------------------------------------------------------------------
(***************************************************************************)
(* Taking a message off the wire and counting it as a sound outcome o says. *)
(***************************************************************************)
LEMMA TakeKeepsLink ==
  ASSUME NEW p \in Peers, wire[p] # <<>>, Ranges, Link,
         NEW o, Sound(in_msg_seq_num[p] + 1, First(p), o),
         NEW inn, inn = [in_msg_seq_num EXCEPT ![p] = o.in],
         NEW w, w = Drained(p)
  PROVE  /\ w \in [Peers -> Seq(Message)] /\ inn \in [Peers -> Nat]
         /\ LinkOn(inn, w, p, o.reply)
         /\ failed = 0 /\ resets = 0 =>
              o.reply.type \notin {"SequenceReset", "ResendRequest"}
<1> DEFINE q == Other(p)
           m == First(p)
           n == in_msg_seq_num[p] + 1
           asked(v) == Cardinality(Requests(v))
<1>0. /\ q \in Peers /\ q # p /\ Other(q) = p /\ \A s \in Peers : s = p \/ s = q
      /\ wire \in [Peers -> Seq(Message)] /\ in_msg_seq_num \in [Peers -> Nat]
      /\ wire[p] \in Seq(Message) /\ wire[q] \in Seq(Message)
      /\ in_msg_seq_num[p] \in Nat /\ in_msg_seq_num[q] \in Nat /\ n \in Nat \ {0}
  BY OtherIs DEF Ranges, TypeOK
<1>0a. out_msg_seq_num[p] \in Nat /\ out_msg_seq_num[q] \in Nat
  <2>1. MaxSeq \in Nat
    BY BoundsAreNumbers
  <2>2. out_msg_seq_num \in [Peers -> 1..(MaxSeq + 1)]
    BY DEF Ranges, TypeOK
  <2> HIDE DEF q
  <2> QED BY <1>0, <2>1, <2>2
<1>1. /\ m = wire[p][1] /\ m \in Carried(wire[p]) /\ m \in Message
      /\ Len(wire[p]) \in Nat \ {0} /\ Len(wire[q]) \in Nat
      /\ Tail(wire[p]) \in Seq(Message) /\ Carried(Tail(wire[p])) \subseteq Carried(wire[p])
      /\ Len(Tail(wire[p])) = Len(wire[p]) - 1
      /\ \A i \in 1..Len(Tail(wire[p])) : Tail(wire[p])[i] = wire[p][i + 1]
  BY <1>0, CarriedIs DEF First
<1>2. /\ w \in [Peers -> Seq(Message)] /\ w[p] = Tail(wire[p]) /\ w[q] = wire[q]
      /\ \A s \in Peers : Carried(w[s]) \subseteq Carried(wire[s])
  BY <1>0, <1>1 DEF Drained
<1>3. /\ o.in \in Nat /\ n - 1 <= o.in
      /\ inn \in [Peers -> Nat] /\ inn[p] = o.in /\ inn[q] = in_msg_seq_num[q]
  BY <1>0 DEF Sound
<1>4. NumberingOn(w)
  <2> SUFFICES ASSUME NEW s \in Peers
               PROVE  /\ \A k \in lost[s] : k < out_msg_seq_num[s]
                      /\ \A x \in Carried(w[Other(s)]) :
                           ~Preserves(x) => x.seq < out_msg_seq_num[s]
                                            /\ x.seq \notin lost[s]
    BY DEF NumberingOn
  <2>1. Carried(w[Other(s)]) \subseteq Carried(wire[Other(s)])
    BY <1>2, OtherIs
  <2> QED BY <2>1 DEF Link, Numbering, NumberingOn
<1>5. OrdersOn(w)
  <2>1. Carried(w[Server]) \subseteq Carried(wire[Server])
    BY <1>2 DEF Peers
  <2>2. Carried(w[Client]) \subseteq Carried(wire[Client])
    BY <1>2 DEF Peers
  <2> QED BY <2>1, <2>2 DEF Link, Orders, OrdersOn
<1>6. m.seq \in Nat /\ m.to \in Nat /\ NoMsg.type = "None"
  BY <1>1, NoMsgIs DEF Message
<1>7. ASSUME failed = 0, resets = 0
      PROVE  /\ o.reply.type \notin {"SequenceReset", "ResendRequest"}
             /\ \A s \in Peers :
                  /\ inn[s] + Len(w[s]) = out_msg_seq_num[Other(s)] - 1
                  /\ \A i \in 1..Len(w[s]) :
                       /\ w[s][i].seq = inn[s] + i
                       /\ w[s][i].type \notin {"SequenceReset", "ResendRequest"}
  <2>1. \A s \in Peers :
          /\ in_msg_seq_num[s] + Len(wire[s]) = out_msg_seq_num[Other(s)] - 1
          /\ \A i \in 1..Len(wire[s]) :
               /\ wire[s][i].seq = in_msg_seq_num[s] + i
               /\ wire[s][i].type \notin {"SequenceReset", "ResendRequest"}
    BY <1>7 DEF Link, InOrder, InOrderOn
  <2>2. 1 \in 1..Len(wire[p])
    BY <1>1
  <2>3. m.seq = n /\ m.type \notin {"SequenceReset", "ResendRequest"}
    BY <1>1, <2>1, <2>2
  <2>4. o.in = n /\ o.reply.type \notin {"SequenceReset", "ResendRequest"}
    BY <2>3 DEF Sound, Preserves
  <2>5. /\ inn[p] + Len(w[p]) = out_msg_seq_num[q] - 1
        /\ inn[q] + Len(w[q]) = out_msg_seq_num[p] - 1
    <3>1. in_msg_seq_num[p] + Len(wire[p]) = out_msg_seq_num[q] - 1
      BY <2>1
    <3>2. in_msg_seq_num[q] + Len(wire[q]) = out_msg_seq_num[p] - 1
      BY <1>0, <2>1
    <3>3. Len(w[p]) = Len(wire[p]) - 1
      BY <1>1, <1>2
    <3> HIDE DEF q
    <3> QED BY <1>0, <1>0a, <1>1, <1>2, <1>3, <2>4, <3>1, <3>2, <3>3
  <2>6. ASSUME NEW i \in 1..Len(w[p])
        PROVE  /\ w[p][i].seq = inn[p] + i
               /\ w[p][i].type \notin {"SequenceReset", "ResendRequest"}
    <3>1. i + 1 \in 1..Len(wire[p]) /\ w[p][i] = wire[p][i + 1]
      BY <1>1, <1>2
    <3>2. wire[p][i + 1].seq = in_msg_seq_num[p] + (i + 1)
      BY <2>1, <3>1
    <3>3. inn[p] + i = in_msg_seq_num[p] + (i + 1)
      BY <1>0, <1>3, <2>4
    <3> QED BY <2>1, <3>1, <3>2, <3>3
  <2>7. \A i \in 1..Len(w[q]) :
          /\ w[q][i].seq = inn[q] + i
          /\ w[q][i].type \notin {"SequenceReset", "ResendRequest"}
    <3>1. q \in Peers /\ w[q] = wire[q] /\ inn[q] = in_msg_seq_num[q]
      BY <1>0, <1>2, <1>3
    <3> HIDE DEF q
    <3> QED BY <2>1, <3>1
  <2> HIDE DEF n, m
  <2> QED BY <1>0, <2>4, <2>5, <2>6, <2>7
<1>8. ASSUME ~legacy, resets = 0
      PROVE  /\ inn[p] + Len(w[p]) + Awaited(w[q], "ResendRequest", o.reply)
                  < out_msg_seq_num[q]
             /\ inn[q] + Len(w[q]) + Awaited(w[p], "SequenceReset", o.reply)
                  < out_msg_seq_num[p]
             /\ \A s \in Peers : \A x \in Carried(w[s]) : Modest(x, inn[s], inn[Other(s)])
             /\ Modest(o.reply, inn[q], inn[p])
  <2>1. /\ in_msg_seq_num[p] + Len(wire[p]) + asked(wire[q]) < out_msg_seq_num[q]
        /\ in_msg_seq_num[q] + Len(wire[q]) + asked(wire[p]) < out_msg_seq_num[p]
        /\ \A s \in Peers : \A x \in Carried(wire[s]) :
             Modest(x, in_msg_seq_num[s], in_msg_seq_num[Other(s)])
    <3>1. OwedOn(in_msg_seq_num, wire, p, NoMsg)
      BY DEF Link, Owed
    <3>2. /\ in_msg_seq_num[p] + Len(wire[p]) + Awaited(wire[q], "ResendRequest", NoMsg)
               < out_msg_seq_num[q]
          /\ in_msg_seq_num[q] + Len(wire[q]) + Awaited(wire[p], "SequenceReset", NoMsg)
               < out_msg_seq_num[p]
          /\ \A s \in Peers : \A x \in Carried(wire[s]) :
               Modest(x, in_msg_seq_num[s], in_msg_seq_num[Other(s)])
      BY <1>8, <3>1 DEF OwedOn
    <3>3. /\ Awaited(wire[q], "ResendRequest", NoMsg) = asked(wire[q])
          /\ Awaited(wire[p], "SequenceReset", NoMsg) = asked(wire[p])
      <4>1. asked(wire[q]) \in Nat /\ asked(wire[p]) \in Nat
        BY <1>0, RequestsFinite
      <4> HIDE DEF q
      <4> QED BY <1>6, <4>1 DEF Awaited, IsOf
    <3> QED BY <3>2, <3>3
  <2>2. /\ asked(wire[q]) \in Nat /\ asked(wire[p]) \in Nat
        /\ asked(w[p]) = asked(wire[p]) - IsOf(m, "ResendRequest")
        /\ IsOf(m, "ResendRequest") \in {0, 1}
    BY <1>0, <1>2, RequestsFinite, RequestsOfTail DEF First, IsOf
  <2>3. /\ m.type = "SequenceReset" => m.to = 1 /\ m.seq <= in_msg_seq_num[p] + 1
        /\ m.type = "ResendRequest" => m.to = 0 /\ m.from <= in_msg_seq_num[q] + 1
    BY <1>1, <2>1 DEF Modest
  <2>4. o.in <= n
    BY <1>0, <1>3, <2>3 DEF Sound, Preserves
  <2>5. o.reply.type = "ResendRequest" =>
          ~Preserves(m) /\ o.in = n - 1 /\ o.reply.from = n /\ o.reply.to = 0
    BY <1>8, <2>3, EndAskedIs DEF Sound, Preserves
  <2>6. o.reply.type = "SequenceReset" =>
          m.type = "ResendRequest" /\ o.reply.seq = m.from /\ o.reply.to = m.to + 1
    BY DEF Sound
  <2>7. /\ IsOf(o.reply, "ResendRequest") \in {0, 1}
        /\ IsOf(o.reply, "SequenceReset") \in {0, 1}
        /\ IsOf(o.reply, "ResendRequest") = 1 => o.in = n - 1
        /\ IsOf(o.reply, "SequenceReset") <= IsOf(m, "ResendRequest")
    BY <2>2, <2>5, <2>6 DEF IsOf
  <2>8. Modest(o.reply, inn[q], inn[p])
    <3>1. ASSUME o.reply.type = "SequenceReset"
          PROVE  o.reply.to = 1 /\ o.reply.seq <= inn[q] + 1
      BY <1>3, <2>3, <2>6, <3>1
    <3>2. ASSUME o.reply.type = "ResendRequest"
          PROVE  o.reply.to = 0 /\ o.reply.from <= inn[p] + 1
      BY <1>0, <1>3, <2>5, <3>2
    <3> QED BY <3>1, <3>2 DEF Modest
  <2>9. \A s \in Peers : \A x \in Carried(w[s]) : Modest(x, inn[s], inn[Other(s)])
    <3> TAKE s \in Peers
    <3> TAKE x \in Carried(w[s])
    <3>1. Modest(x, in_msg_seq_num[s], in_msg_seq_num[Other(s)])
      BY <1>2, <2>1
    <3>2. in_msg_seq_num[s] <= inn[s] /\ in_msg_seq_num[Other(s)] <= inn[Other(s)]
      <4>1. \A t \in Peers : in_msg_seq_num[t] <= inn[t]
        BY <1>0, <1>3
      <4> QED BY <4>1, OtherIs
    <3>3. x \in Message
      <4>1. wire[s] \in Seq(Message) /\ x \in Carried(wire[s])
        BY <1>0, <1>2
      <4> QED BY <4>1, CarriedIs
    <3>4. /\ x.seq \in Nat /\ x.from \in Nat
          /\ in_msg_seq_num[s] \in Nat /\ in_msg_seq_num[Other(s)] \in Nat
          /\ inn[s] \in Nat /\ inn[Other(s)] \in Nat
      BY <1>0, <1>3, <3>3, OtherIs DEF Message
    <3> QED BY <3>1, <3>2, <3>4 DEF Modest
  <2>10. inn[p] + Len(w[p]) + Awaited(w[q], "ResendRequest", o.reply)
           < out_msg_seq_num[q]
    <3>1. Awaited(w[q], "ResendRequest", o.reply)
            = asked(wire[q]) + IsOf(o.reply, "ResendRequest")
      BY <1>2 DEF Awaited
    <3>2. Len(w[p]) = Len(wire[p]) - 1
      BY <1>1, <1>2
    <3>3. o.in + IsOf(o.reply, "ResendRequest") <= in_msg_seq_num[p] + 1
      BY <1>0, <1>3, <2>4, <2>7
    <3>4. IsOf(o.reply, "ResendRequest") \in Nat
      BY <2>7
    <3>5. \A a, e, i, l, c, b \in Nat :
            a + e <= i + 1 /\ i + l + c < b => a + (l - 1) + (c + e) < b
      OBVIOUS
    <3> HIDE DEF q, m, asked, n
    <3>6. o.in + (Len(wire[p]) - 1) + (asked(wire[q]) + IsOf(o.reply, "ResendRequest"))
            < out_msg_seq_num[q]
      BY <1>0, <1>0a, <1>1, <1>3, <2>1, <2>2, <3>3, <3>4, <3>5
    <3> QED BY <1>3, <3>1, <3>2, <3>6
  <2>11. inn[q] + Len(w[q]) + Awaited(w[p], "SequenceReset", o.reply)
           < out_msg_seq_num[p]
    <3>1. Awaited(w[p], "SequenceReset", o.reply)
            = asked(w[p]) + IsOf(o.reply, "SequenceReset")
      BY DEF Awaited
    <3>2. asked(w[p]) + IsOf(o.reply, "SequenceReset") <= asked(wire[p])
      BY <2>2, <2>7
    <3>3. inn[q] = in_msg_seq_num[q] /\ w[q] = wire[q]
      BY <1>2, <1>3
    <3>4. /\ in_msg_seq_num[q] \in Nat /\ Len(wire[q]) \in Nat
          /\ out_msg_seq_num[p] \in Nat
          /\ asked(w[p]) + IsOf(o.reply, "SequenceReset") \in Int
          /\ asked(wire[p]) \in Nat
      <4>1. /\ in_msg_seq_num[q] \in Nat /\ Len(wire[q]) \in Nat
            /\ out_msg_seq_num[p] \in Nat
        BY <1>0, <1>0a, <1>1
      <4>2. asked(wire[p]) \in Nat /\ asked(w[p]) \in Int
        <5> HIDE DEF asked, m
        <5> QED BY <2>2
      <4>3. IsOf(o.reply, "SequenceReset") \in Nat
        BY <2>7
      <4> HIDE DEF asked
      <4> QED BY <4>1, <4>2, <4>3
    <3>5. \A i, l, c, e, b \in Int : c <= e /\ i + l + e < b => i + l + c < b
      OBVIOUS
    <3> HIDE DEF q, m, asked
    <3>6. in_msg_seq_num[q] + Len(wire[q])
            + (asked(w[p]) + IsOf(o.reply, "SequenceReset")) < out_msg_seq_num[p]
      BY <2>1, <2>2, <3>2, <3>4, <3>5
    <3> QED BY <3>1, <3>3, <3>6
  <2> QED BY <2>8, <2>9, <2>10, <2>11
<1>9. InOrderOn(inn, w)
  BY <1>7 DEF InOrderOn
<1>10. OwedOn(inn, w, p, o.reply)
  BY <1>8 DEF OwedOn
<1> QED BY <1>2, <1>3, <1>4, <1>5, <1>7, <1>9, <1>10 DEF LinkOn

-----------------------------------------------------------------------------
(***************************************************************************)
(* What a step does to the connection: a receive, a send of the client, or *)
(* nothing.                                                                *)
(***************************************************************************)
Receives(p, o) ==
  /\ wire[p] # <<>> /\ Sound(in_msg_seq_num[p] + 1, First(p), o)
  /\ in_msg_seq_num' = [in_msg_seq_num EXCEPT ![p] = o.in]
  /\ SendIfAny(p, o.reply, Drained(p))
  /\ resets' = resets /\ ordered' = ordered
Sends(m) ==
  /\ m \in Message /\ m.type # "ResendRequest"
  /\ SendIfAny(Client, m, wire)
  /\ in_msg_seq_num' = in_msg_seq_num
  /\ resets' \in 0..MaxResets
  /\ resets' = IF m.type = "SequenceReset" THEN resets + 1 ELSE resets
  /\ Remembers(Client, m)
Waits ==
  /\ in_msg_seq_num' = in_msg_seq_num /\ out_msg_seq_num' = out_msg_seq_num
  /\ wire' = wire /\ lost' = lost /\ failed' = failed
  /\ resets' = resets /\ ordered' = ordered

\* What each of them preserves, and what a step of p leaves of both peers.
Moves(p) ==
  /\ in_msg_seq_num' \in [Peers -> Nat]
  /\ out_msg_seq_num' \in [Peers -> 1..(MaxSeq + 1)]
  /\ wire' \in [Peers -> Seq(Message)] /\ lost' \in [Peers -> SUBSET Nat]
  /\ failed' \in 0..MaxFailed /\ resets' \in 0..MaxResets
  /\ Link'
  /\ out_msg_seq_num'[Other(p)] = out_msg_seq_num[Other(p)]
  /\ lost'[Other(p)] = lost[Other(p)]
  /\ in_msg_seq_num'[Other(p)] = in_msg_seq_num[Other(p)]
  /\ out_msg_seq_num'[p] >= out_msg_seq_num[p]
  /\ lost'[p] \subseteq lost[p] \cup {out_msg_seq_num[p]}
  /\ in_msg_seq_num'[p] >= in_msg_seq_num[p]

LEMMA SendMoves ==
  ASSUME NEW p \in Peers, NEW r, r = NoMsg \/ r \in Message,
         NEW w \in [Peers -> Seq(Message)], Ranges, SendIfAny(p, r, w)
  PROVE  /\ out_msg_seq_num'[p] >= out_msg_seq_num[p]
         /\ lost'[p] \subseteq lost[p] \cup {out_msg_seq_num[p]}
<1>1. out_msg_seq_num'[p] = out_msg_seq_num[p] + Takes(r) /\ Takes(r) \in {0, 1}
  BY SendIs DEF Takes
<1>2. out_msg_seq_num[p] \in Nat
  BY DEF Ranges, TypeOK
<1>3. lost'[p] \subseteq lost[p] \cup {out_msg_seq_num[p]}
  BY SendIs DEF Silent, Sent, Failed
<1> QED BY <1>1, <1>2, <1>3

LEMMA ReceiveMoves ==
  ASSUME NEW p \in Peers, NEW o, Ranges, Link, legacy' = legacy, Receives(p, o)
  PROVE  Moves(p)
<1>1. PICK inn : inn = [in_msg_seq_num EXCEPT ![p] = o.in]
  OBVIOUS
<1>2. PICK w : w = Drained(p)
  OBVIOUS
<1>3. /\ wire[p] # <<>> /\ Sound(in_msg_seq_num[p] + 1, First(p), o)
      /\ in_msg_seq_num' = inn /\ SendIfAny(p, o.reply, w)
      /\ resets' = resets /\ ordered' = ordered
  BY <1>1, <1>2 DEF Receives
<1>4. /\ w \in [Peers -> Seq(Message)] /\ inn \in [Peers -> Nat]
      /\ LinkOn(inn, w, p, o.reply)
      /\ failed = 0 /\ resets = 0 =>
           o.reply.type \notin {"SequenceReset", "ResendRequest"}
  BY <1>1, <1>2, <1>3, TakeKeepsLink
<1>5. PICK r : r = o.reply
  OBVIOUS
<1>6. (r = NoMsg \/ r \in Message) /\ r.type # "Order"
  BY <1>3, <1>5, NoMsgIs DEF Sound
<1>7. Remembers(p, r)
  BY <1>3, <1>6 DEF Remembers
<1>8. NumberingOn(w) /\ OrdersOn(w) /\ InOrderOn(inn, w) /\ OwedOn(inn, w, p, r)
  BY <1>4, <1>5 DEF LinkOn
<1>9. SendIfAny(p, r, w)
  BY <1>3, <1>5
<1>10. Numbering'
  BY <1>4, <1>6, <1>8, <1>9, SendKeepsNumbering
<1>11. Orders'
  BY <1>4, <1>6, <1>7, <1>8, <1>9, SendKeepsOrders
<1>12. InOrder'
  BY <1>3, <1>4, <1>5, <1>6, <1>8, <1>9, SendKeepsInOrder
<1>13. Owed'
  BY <1>3, <1>4, <1>6, <1>8, <1>9, SendKeepsOwed
<1>14. Link'
  BY <1>10, <1>11, <1>12, <1>13 DEF Link
<1>15. /\ out_msg_seq_num' \in [Peers -> 1..(MaxSeq + 1)]
       /\ lost' \in [Peers -> SUBSET Nat] /\ wire' \in [Peers -> Seq(Message)]
       /\ failed' \in 0..MaxFailed
       /\ out_msg_seq_num'[Other(p)] = out_msg_seq_num[Other(p)]
       /\ lost'[Other(p)] = lost[Other(p)]
  BY <1>4, <1>6, <1>9, SendIs
<1>16. /\ out_msg_seq_num'[p] >= out_msg_seq_num[p]
       /\ lost'[p] \subseteq lost[p] \cup {out_msg_seq_num[p]}
  BY <1>4, <1>6, <1>9, SendMoves
<1>17. in_msg_seq_num \in [Peers -> Nat] /\ resets \in 0..MaxResets
  BY DEF Ranges, TypeOK
<1>18. /\ in_msg_seq_num'[Other(p)] = in_msg_seq_num[Other(p)]
       /\ in_msg_seq_num'[p] >= in_msg_seq_num[p]
  BY <1>1, <1>3, <1>17, OtherIs DEF Sound
<1> QED BY <1>3, <1>4, <1>14, <1>15, <1>16, <1>17, <1>18 DEF Moves

LEMMA SendsMoves ==
  ASSUME NEW m, Ranges, Link, legacy' = legacy, Sends(m)
  PROVE  Moves(Client)
<1>1. PICK w : w = wire
  OBVIOUS
<1>2. PICK inn : inn = in_msg_seq_num
  OBVIOUS
<1>3. /\ Client \in Peers /\ w \in [Peers -> Seq(Message)] /\ inn \in [Peers -> Nat]
      /\ m \in Message /\ m.type # "ResendRequest" /\ resets \in Nat /\ NoMsg.type = "None"
  BY <1>1, <1>2, BoundsAreNumbers, NoMsgIs DEF Ranges, TypeOK, Sends, Peers
<1>4. /\ in_msg_seq_num' = inn /\ SendIfAny(Client, m, w) /\ Remembers(Client, m)
      /\ resets' = IF m.type = "SequenceReset" THEN resets + 1 ELSE resets
      /\ resets' \in 0..MaxResets
  BY <1>1, <1>2 DEF Sends
<1>5. resets' = 0 => resets = 0 /\ m.type # "SequenceReset"
  BY <1>3, <1>4
<1>6. NumberingOn(w) /\ OrdersOn(w) /\ InOrderOn(inn, w)
  BY <1>1, <1>2 DEF Link, Numbering, Orders, InOrder
<1>7. resets' = 0 => OwedOn(inn, w, Client, m)
  <2>1. OwedOn(inn, w, Client, NoMsg)
    BY <1>1, <1>2, <1>3 DEF Link, Owed
  <2>2. ASSUME resets' = 0
        PROVE  /\ \A v, t : t \in {"ResendRequest", "SequenceReset"} =>
                            Awaited(v, t, m) = Awaited(v, t, NoMsg)
               /\ Modest(m, inn[Other(Client)], inn[Client])
    BY <1>3, <1>5, <2>2 DEF Awaited, IsOf, Modest
  <2>3. \A v : resets' = 0 =>
          /\ Awaited(v, "ResendRequest", m) = Awaited(v, "ResendRequest", NoMsg)
          /\ Awaited(v, "SequenceReset", m) = Awaited(v, "SequenceReset", NoMsg)
    BY <2>2
  <2> QED BY <2>1, <2>2, <2>3 DEF OwedOn
<1>8. Numbering'
  BY <1>3, <1>4, <1>6, SendKeepsNumbering
<1>9. Orders'
  BY <1>3, <1>4, <1>6, SendKeepsOrders
<1>10. InOrder'
  BY <1>3, <1>4, <1>5, <1>6, SendKeepsInOrder
<1>11. Owed'
  BY <1>3, <1>4, <1>5, <1>7, SendKeepsOwed
<1>12. Link'
  BY <1>8, <1>9, <1>10, <1>11 DEF Link
<1>13. /\ out_msg_seq_num' \in [Peers -> 1..(MaxSeq + 1)]
       /\ lost' \in [Peers -> SUBSET Nat] /\ wire' \in [Peers -> Seq(Message)]
       /\ failed' \in 0..MaxFailed
       /\ out_msg_seq_num'[Other(Client)] = out_msg_seq_num[Other(Client)]
       /\ lost'[Other(Client)] = lost[Other(Client)]
  BY <1>3, <1>4, SendIs
<1>14. /\ out_msg_seq_num'[Client] >= out_msg_seq_num[Client]
       /\ lost'[Client] \subseteq lost[Client] \cup {out_msg_seq_num[Client]}
  BY <1>3, <1>4, SendMoves
<1>15. in_msg_seq_num' \in [Peers -> Nat] /\ in_msg_seq_num' = in_msg_seq_num
  BY <1>2, <1>3, <1>4
<1>16. \A p \in Peers : in_msg_seq_num'[p] >= in_msg_seq_num[p]
  BY <1>15
<1> QED BY <1>3, <1>4, <1>12, <1>13, <1>14, <1>15, <1>16 DEF Moves

LEMMA WaitMoves ==
  ASSUME NEW p \in Peers, Ranges, Link, legacy' = legacy, Waits
  PROVE  Moves(p)
<1>1. Link'
  BY DEF Link, Waits, Numbering, NumberingOn, Orders, OrdersOn, InOrder, InOrderOn,
         Owed, OwedOn
<1>2. /\ in_msg_seq_num \in [Peers -> Nat]
      /\ out_msg_seq_num \in [Peers -> 1..(MaxSeq + 1)]
      /\ wire \in [Peers -> Seq(Message)] /\ lost \in [Peers -> SUBSET Nat]
      /\ failed \in 0..MaxFailed /\ resets \in 0..MaxResets /\ MaxSeq \in Nat
  BY BoundsAreNumbers DEF Ranges, TypeOK
<1>3. out_msg_seq_num[p] \in Nat /\ in_msg_seq_num[p] \in Nat
  BY <1>2
<1> QED BY <1>1, <1>2, <1>3 DEF Moves, Waits

-----------------------------------------------------------------------------
(***************************************************************************)
(* Where the programs are: which phases nest logouts.                      *)
(***************************************************************************)
Modes ==
  /\ active \in [Peers -> BOOLEAN]
  /\ testreqid \in Nat /\ tr_pending \in BOOLEAN
  /\ phase \in [Peers -> Phases] /\ depth \in [Peers -> Nat]
  /\ \A p \in Peers : (phase[p] = "grace") <=> (depth[p] > 0)
  /\ Histories

LEMMA ModesOfRanges == Ranges => Modes
BY DEF Ranges, TypeOK, Modes

LEMMA MovesKeepsRanges ==
  ASSUME NEW p \in Peers, Ranges, legacy' = legacy, Moves(p), Modes'
  PROVE  Ranges'
<1>1. \A q \in Peers : \A i \in 1..Len(wire'[q]) :
        wire'[q][i].type \in Types /\ wire'[q][i].seq \in Nat
  <2> TAKE q \in Peers
  <2> TAKE i \in 1..Len(wire'[q])
  <2>1. wire'[q] \in Seq(Message)
    BY DEF Moves
  <2>2. wire'[q][i] \in Message
    BY <2>1, ElementOfSeq
  <2> QED BY <2>2 DEF Message
<1> QED BY <1>1 DEF Ranges, TypeOK, Modes, Moves

LEMMA FirstIs ==
  ASSUME NEW p \in Peers, Ranges, wire[p] # <<>>
  PROVE  /\ First(p) \in Message /\ First(p) \in Carried(wire[p])
         /\ in_msg_seq_num[p] \in Nat /\ in_msg_seq_num[p] + 1 \in Nat \ {0}
<1>1. wire[p] \in Seq(Message) /\ in_msg_seq_num[p] \in Nat
  BY DEF Ranges, TypeOK
<1>2. First(p) \in Carried(wire[p]) /\ First(p) \in Message
  BY <1>1, CarriedIs DEF First
<1> QED BY <1>1, <1>2

LEMMA TakeReceives ==
  ASSUME NEW p \in Peers, NEW o, NEW next, Ranges, wire[p] # <<>>,
         Sound(in_msg_seq_num[p] + 1, First(p), o), Take(p, o, next)
  PROVE  Receives(p, o)
BY DEF Take, Receives

\* The phase and the history of skipped numbers after a receive.
LEMMA TakeIs ==
  ASSUME NEW p \in Peers, NEW o, NEW next \in Phases, Ranges, wire[p] # <<>>,
         Sound(in_msg_seq_num[p] + 1, First(p), o), Take(p, o, next)
  PROVE  /\ phase' \in [Peers -> Phases]
         /\ phase'[p] = IF LogsOut(o) THEN "grace" ELSE next
         /\ phase'[Other(p)] = phase[Other(p)]
         /\ Histories'
         /\ Moved'[Other(p)] = Moved[Other(p)]
         /\ Moved'[p] = IF Preserves(First(p))
                          THEN Moved[p] \cup (in_msg_seq_num[p] + 1)..o.in
                          ELSE Moved[p]
<1>1. /\ phase \in [Peers -> Phases] /\ Histories
      /\ Other(p) \in Peers /\ Other(p) # p /\ "grace" \in Phases
  BY OtherIs DEF Ranges, TypeOK, Phases
<1>1a. /\ skipped \in [Peers -> SUBSET Nat] /\ unannounced \in [Peers -> SUBSET Nat]
       /\ \A q \in Peers : Moved[q] = skipped[q] \cup unannounced[q]
  BY <1>1, MovedIs DEF Histories
<1>2. in_msg_seq_num[p] \in Nat /\ o.in \in Nat
  BY FirstIs DEF Sound
<1>3. (in_msg_seq_num[p] + 1)..o.in \subseteq Nat
  BY <1>2
<1>4. /\ phase' = [phase EXCEPT ![p] = IF LogsOut(o) THEN "grace" ELSE next]
      /\ ~Preserves(First(p)) => UNCHANGED <<skipped, unannounced>>
      /\ Preserves(First(p)) =>
           \/ /\ skipped' = [skipped EXCEPT ![p] = @ \cup Passed(p, o)]
              /\ unannounced' = unannounced
           \/ /\ unannounced' = [unannounced EXCEPT ![p] = @ \cup Passed(p, o)]
              /\ skipped' = skipped
  BY DEF Take, Preserves
<1>5. /\ phase' \in [Peers -> Phases]
      /\ phase'[p] = IF LogsOut(o) THEN "grace" ELSE next
      /\ phase'[Other(p)] = phase[Other(p)]
  BY <1>1, <1>4
<1>6. CASE ~Preserves(First(p))
  BY <1>1, <1>4, <1>5, <1>6, MovedStays
<1>7. CASE Preserves(First(p))
  <2>1. PICK P : P = Passed(p, o)
    OBVIOUS
  <2>2. P \subseteq Nat /\ P = (in_msg_seq_num[p] + 1)..o.in
    BY <1>3, <2>1 DEF Passed
  <2>3. \/ /\ skipped' = [skipped EXCEPT ![p] = @ \cup P]
           /\ unannounced' = unannounced
        \/ /\ unannounced' = [unannounced EXCEPT ![p] = @ \cup P]
           /\ skipped' = skipped
    BY <1>4, <1>7, <2>1
  <2>4. Histories' /\ skipped'[p] \cup unannounced'[p] = Moved[p] \cup P
    BY <1>1, <1>1a, <2>2, <2>3 DEF Histories
  <2>5. skipped'[Other(p)] \cup unannounced'[Other(p)] = Moved[Other(p)]
    BY <1>1, <1>1a, <2>3
  <2>6. \A q \in Peers : Moved'[q] = skipped'[q] \cup unannounced'[q]
    BY DEF Moved
  <2> QED BY <1>1, <1>5, <1>7, <2>2, <2>4, <2>5, <2>6
<1> QED BY <1>6, <1>7

\* fix_session_logout nests where the caller was not in it already.
LEMMA NestIs ==
  ASSUME NEW p \in Peers, NEW o, Modes, depth[p] = 0, NestsLogout(p, o)
  PROVE  /\ active' \in [Peers -> BOOLEAN] /\ depth' \in [Peers -> Nat]
         /\ active'[Other(p)] = active[Other(p)] /\ depth'[Other(p)] = depth[Other(p)]
         /\ active'[p] = IF LogsOut(o) THEN FALSE ELSE active[p]
         /\ depth'[p] = IF LogsOut(o) THEN 1 ELSE 0
<1>1. /\ active \in [Peers -> BOOLEAN] /\ depth \in [Peers -> Nat]
      /\ Other(p) \in Peers /\ Other(p) # p
  BY OtherIs DEF Modes
<1>2. CASE LogsOut(o)
  <2>1. /\ active' = [active EXCEPT ![p] = FALSE]
        /\ depth' = [depth EXCEPT ![p] = @ + 1]
    BY <1>2 DEF NestsLogout
  <2> QED BY <1>1, <1>2, <2>1
<1>3. CASE ~LogsOut(o)
  <2>1. active' = active /\ depth' = depth
    BY <1>3 DEF NestsLogout
  <2> QED BY <1>1, <1>3, <2>1
<1> QED BY <1>2, <1>3

LEMMA AwaitLogonMoves ==
  ASSUME Ranges, Link, legacy' = legacy, AwaitLogon
  PROVE  /\ Moves(Client) /\ Modes'
         /\ active'[Server] = active[Server] /\ phase'[Server] = phase[Server]
         /\ Moved'[Server] = Moved[Server]
         /\ delivered' = delivered /\ ordered' = ordered
<1> DEFINE m == First(Client)
           o == LogonAdmin(in_msg_seq_num[Client] + 1, m)
           next == IF o.handled THEN "logon" ELSE "up"
<1>1. /\ phase[Client] = "logon" /\ wire[Client] # <<>> /\ Take(Client, o, next)
      /\ NestsLogout(Client, o)
      /\ testreqid' = testreqid /\ tr_pending' = tr_pending /\ delivered' = delivered
  BY DEF AwaitLogon
<1>2. Client \in Peers /\ Other(Client) = Server /\ Modes /\ next \in Phases
      /\ next # "grace"
  BY OtherIs, ModesOfRanges DEF Peers, Phases
<1>3. Sound(in_msg_seq_num[Client] + 1, m, o) /\ (LogsOut(o) => o.handled)
  BY <1>1, <1>2, FirstIs, LogonAdminIsSound
<1>4. depth[Client] = 0
  BY <1>1, <1>2 DEF Modes
<1> HIDE DEF m, o, next
<1>5. Receives(Client, o)
  BY <1>1, <1>2, <1>3, TakeReceives DEF m
<1>6. Moves(Client)
  BY <1>2, <1>5, ReceiveMoves
<1>7. /\ phase' \in [Peers -> Phases]
      /\ phase'[Client] = IF LogsOut(o) THEN "grace" ELSE next
      /\ phase'[Server] = phase[Server]
      /\ Histories' /\ Moved'[Server] = Moved[Server]
  BY <1>1, <1>2, <1>3, TakeIs DEF m
<1>8. /\ active' \in [Peers -> BOOLEAN] /\ depth' \in [Peers -> Nat]
      /\ active'[Server] = active[Server] /\ depth'[Server] = depth[Server]
      /\ depth'[Client] = IF LogsOut(o) THEN 1 ELSE 0
  BY <1>1, <1>2, <1>4, NestIs
<1>9. \A p \in Peers : (phase'[p] = "grace") <=> (depth'[p] > 0)
  BY <1>2, <1>7, <1>8 DEF Modes, Peers
<1>10. Modes'
  BY <1>1, <1>2, <1>7, <1>8, <1>9 DEF Modes
<1>11. ordered' = ordered
  BY <1>1 DEF Take
<1> QED BY <1>1, <1>6, <1>7, <1>8, <1>10, <1>11

LEMMA AcceptLogonMoves ==
  ASSUME Ranges, Link, legacy' = legacy, AcceptLogon
  PROVE  /\ Moves(Server) /\ Modes' /\ wire[Server] # <<>>
         /\ in_msg_seq_num'[Server] = in_msg_seq_num[Server] + 1
         /\ phase[Server] = "logon" /\ phase'[Server] \in {"up", "closed"}
         /\ Moved'[Server] = IF Preserves(First(Server))
                               THEN Moved[Server] \cup
                                      (in_msg_seq_num[Server] + 1)..in_msg_seq_num'[Server]
                               ELSE Moved[Server]
         /\ delivered' = delivered /\ ordered' = ordered
<1> DEFINE m == First(Server)
           r == LogonReply(m)
           n == in_msg_seq_num[Server] + 1
           next == IF m.type = "Logon" THEN "up" ELSE "closed"
<1>1. /\ phase[Server] = "logon" /\ wire[Server] # <<>>
      /\ Take(Server, Outcome(n, r, TRUE), next)
      /\ active' = [active EXCEPT ![Server] = m.type = "Logon"]
      /\ testreqid' = testreqid /\ tr_pending' = tr_pending /\ delivered' = delivered
      /\ depth' = depth
  BY DEF AcceptLogon
<1>2. Server \in Peers /\ Other(Server) = Client /\ Modes /\ next \in Phases
      /\ next \in {"up", "closed"} /\ in_msg_seq_num \in [Peers -> Nat]
  BY OtherIs, ModesOfRanges DEF Peers, Phases, Ranges, TypeOK
<1>3. r \in {NoMsg, Msg("Logon"), Msg("Logout")} /\ r.type # "Logout"
  BY MsgIs, NoMsgIs DEF LogonReply, Types
<1> DEFINE o == Outcome(n, r, TRUE)
<1>4. Sound(n, m, o) /\ ~LogsOut(o) /\ o.in = n
  <2>1. Sound(n, m, o)
    BY <1>1, <1>2, <1>3, FirstIs, CountingIsSound
  <2> QED BY <1>3, <2>1 DEF LogsOut, Outcome
<1> HIDE DEF m, o, next, r
<1>5. Receives(Server, o)
  BY <1>1, <1>2, <1>4, TakeReceives DEF m, o
<1>6. Moves(Server)
  BY <1>2, <1>5, ReceiveMoves
<1>7. Take(Server, o, next)
  BY <1>1 DEF o
<1>8. /\ phase' \in [Peers -> Phases] /\ phase'[Server] = next
      /\ phase'[Client] = phase[Client]
      /\ Histories'
      /\ Moved'[Server] = IF Preserves(m)
                            THEN Moved[Server] \cup (in_msg_seq_num[Server] + 1)..o.in
                            ELSE Moved[Server]
  BY <1>1, <1>2, <1>4, <1>7, TakeIs DEF m
<1>9. in_msg_seq_num'[Server] = n
  BY <1>2, <1>4, <1>7 DEF Take
<1>10. active' \in [Peers -> BOOLEAN]
  BY <1>1, <1>2 DEF Modes
<1>11. depth[Server] = 0
  BY <1>1, <1>2 DEF Modes
<1>12. \A p \in Peers : (phase'[p] = "grace") <=> (depth'[p] > 0)
  BY <1>1, <1>2, <1>8, <1>11 DEF Modes, Peers
<1>13. Modes'
  BY <1>1, <1>2, <1>8, <1>10, <1>12 DEF Modes
<1>14. ordered' = ordered
  BY <1>1 DEF Take
<1> QED BY <1>1, <1>2, <1>4, <1>6, <1>8, <1>9, <1>13, <1>14 DEF m

LEMMA MismatchMoves ==
  ASSUME Ranges, Link, legacy' = legacy, Mismatch
  PROVE  /\ Moves(Server) /\ Modes'
         /\ in_msg_seq_num'[Server] = in_msg_seq_num[Server] + 1
         /\ phase'[Server] = "closed"
         /\ Moved'[Server] \subseteq Moved[Server] \cup
              (in_msg_seq_num[Server] + 1)..in_msg_seq_num'[Server]
         /\ delivered' = delivered /\ ordered' = ordered
<1> DEFINE m == First(Server)
           n == in_msg_seq_num[Server] + 1
           o == Outcome(n, NoMsg, TRUE)
<1>1. /\ phase[Server] = "up" /\ wire[Server] # <<>> /\ Take(Server, o, "closed")
      /\ testreqid' = testreqid /\ tr_pending' = tr_pending /\ delivered' = delivered
      /\ active' = active /\ depth' = depth
  BY DEF Mismatch
<1>2. Server \in Peers /\ Other(Server) = Client /\ Modes /\ "closed" \in Phases
      /\ in_msg_seq_num \in [Peers -> Nat]
  BY OtherIs, ModesOfRanges DEF Peers, Phases, Ranges, TypeOK
<1>4. Sound(n, m, o) /\ ~LogsOut(o) /\ o.in = n
  <2>1. Sound(n, m, o)
    BY <1>1, <1>2, FirstIs, CountingIsSound
  <2> QED BY <2>1, NoMsgIs DEF LogsOut, Outcome
<1> HIDE DEF m, o
<1>5. Receives(Server, o)
  BY <1>1, <1>2, <1>4, TakeReceives DEF m
<1>6. Moves(Server)
  BY <1>2, <1>5, ReceiveMoves
<1>7. /\ phase' \in [Peers -> Phases] /\ phase'[Server] = "closed"
      /\ phase'[Client] = phase[Client]
      /\ Histories'
      /\ Moved'[Server] = IF Preserves(m)
                            THEN Moved[Server] \cup (in_msg_seq_num[Server] + 1)..o.in
                            ELSE Moved[Server]
  BY <1>1, <1>2, <1>4, TakeIs DEF m
<1>8. in_msg_seq_num'[Server] = n
  BY <1>1, <1>2, <1>4 DEF Take
<1>9. depth[Server] = 0
  BY <1>1, <1>2 DEF Modes
<1>10. \A p \in Peers : (phase'[p] = "grace") <=> (depth'[p] > 0)
  BY <1>1, <1>2, <1>7, <1>9 DEF Modes, Peers
<1>11. Modes'
  BY <1>1, <1>2, <1>7, <1>10 DEF Modes
<1>12. ordered' = ordered
  BY <1>1 DEF Take
<1> QED BY <1>1, <1>2, <1>4, <1>6, <1>7, <1>8, <1>11, <1>12

\* One of the two loops takes m, and its handler decides on o.
TakesInLoop(p, m, o) ==
  /\ Moves(p) /\ Modes' /\ Judged(in_msg_seq_num[p] + 1, m, o)
  /\ m \in Message /\ m \in Carried(wire[p])
  /\ in_msg_seq_num'[p] = o.in
  /\ phase[p] = "up" /\ phase'[p] # "logon"
  /\ phase'[p] = "grace" => ~active'[p]
  /\ active'[p] => active[p]
  /\ active'[Other(p)] = active[Other(p)] /\ phase'[Other(p)] = phase[Other(p)]
  /\ Moved'[Other(p)] = Moved[Other(p)]
  /\ Moved'[p] = IF Preserves(m)
                   THEN Moved[p] \cup (in_msg_seq_num[p] + 1)..o.in
                   ELSE Moved[p]
  /\ delivered' = IF m.type = "Order" /\ ~o.handled
                  THEN delivered \cup {m.seq} ELSE delivered
  /\ ordered' = ordered

LEMMA LoopTakesMoves ==
  ASSUME NEW p \in Peers, Ranges, Link, legacy' = legacy, LoopTakes(p),
         NEW m, m = First(p), NEW o, o = Admin(in_msg_seq_num[p] + 1, m)
  PROVE  TakesInLoop(p, m, o)
<1> DEFINE next == IF o.handled THEN "up" ELSE AfterUnhandled(p, m)
<1>1. /\ phase[p] = "up" /\ wire[p] # <<>> /\ Take(p, o, next)
      /\ NestsLogout(p, o) /\ testreqid' = testreqid
      /\ tr_pending' = (tr_pending /\ ~Answers(p, m))
      /\ delivered' = IF m.type = "Order" /\ ~o.handled
                      THEN delivered \cup {m.seq} ELSE delivered
  BY DEF LoopTakes
<1>2. /\ Modes /\ next \in Phases /\ next \notin {"grace", "logon"}
      /\ in_msg_seq_num \in [Peers -> Nat] /\ Other(p) \in Peers
      /\ \A q \in Peers : q = p \/ q = Other(p)
  BY OtherIs, ModesOfRanges DEF Peers, Phases, Ranges, TypeOK, AfterUnhandled
<1>3. /\ m \in Message /\ m \in Carried(wire[p])
      /\ in_msg_seq_num[p] + 1 \in Nat \ {0}
  BY <1>1, FirstIs
<1>4. Judged(in_msg_seq_num[p] + 1, m, o)
  BY <1>3, AdminIsJudged
<1>5. Sound(in_msg_seq_num[p] + 1, First(p), o) /\ (LogsOut(o) => o.handled)
  BY <1>4 DEF Judged
<1>6. depth[p] = 0
  BY <1>1, <1>2 DEF Modes
<1> HIDE DEF next
<1>7. Moves(p)
  BY <1>1, <1>5, TakeReceives, ReceiveMoves
<1>8. /\ phase' \in [Peers -> Phases]
      /\ phase'[p] = IF LogsOut(o) THEN "grace" ELSE next
      /\ phase'[Other(p)] = phase[Other(p)]
      /\ Histories'
      /\ Moved'[Other(p)] = Moved[Other(p)]
      /\ Moved'[p] = IF Preserves(m)
                       THEN Moved[p] \cup (in_msg_seq_num[p] + 1)..o.in
                       ELSE Moved[p]
  BY <1>1, <1>2, <1>5, TakeIs
<1>9. /\ active' \in [Peers -> BOOLEAN] /\ depth' \in [Peers -> Nat]
      /\ active'[Other(p)] = active[Other(p)] /\ depth'[Other(p)] = depth[Other(p)]
      /\ active'[p] = IF LogsOut(o) THEN FALSE ELSE active[p]
      /\ depth'[p] = IF LogsOut(o) THEN 1 ELSE 0
  BY <1>1, <1>2, <1>6, NestIs
<1>10. \A q \in Peers : (phase'[q] = "grace") <=> (depth'[q] > 0)
  <2>1. (phase'[p] = "grace") <=> (depth'[p] > 0)
    BY <1>2, <1>8, <1>9
  <2>2. (phase'[Other(p)] = "grace") <=> (depth'[Other(p)] > 0)
    BY <1>2, <1>8, <1>9 DEF Modes
  <2> QED BY <1>2, <2>1, <2>2
<1>11. tr_pending' \in BOOLEAN
  BY <1>1
<1>12. Modes'
  BY <1>1, <1>2, <1>8, <1>9, <1>10, <1>11 DEF Modes
<1>13. in_msg_seq_num'[p] = o.in /\ ordered' = ordered
  BY <1>1, <1>2 DEF Take
<1>14. phase'[p] # "logon" /\ (phase'[p] = "grace" => ~active'[p]) /\ (active'[p] => active[p])
  BY <1>2, <1>8, <1>9
<1> QED BY <1>1, <1>3, <1>4, <1>7, <1>8, <1>9, <1>12, <1>13, <1>14 DEF TakesInLoop

LEMMA GraceTakesMoves ==
  ASSUME NEW p \in Peers, Ranges, Link, legacy' = legacy, GraceTakes(p)
  PROVE  /\ Moves(p) /\ Modes'
         /\ phase[p] = "grace" /\ phase'[p] # "logon" /\ active' = active
         /\ phase'[Other(p)] = phase[Other(p)] /\ Moved'[Other(p)] = Moved[Other(p)]
         /\ Moved'[p] \subseteq Moved[p] \cup
              (in_msg_seq_num[p] + 1)..in_msg_seq_num'[p]
         /\ delivered' = delivered /\ ordered' = ordered
<1>a. PICK m : m = First(p)
  OBVIOUS
<1>b. PICK o : o = Admin(in_msg_seq_num[p] + 1, m)
  OBVIOUS
<1> DEFINE next == IF o.handled \/ depth[p] > 1 THEN "grace" ELSE AfterGrace(p)
           nested == IF LogsOut(o) THEN depth[p] + 1
                     ELSE IF o.handled THEN depth[p] ELSE depth[p] - 1
<1>1. /\ phase[p] = "grace" /\ wire[p] # <<>> /\ Take(p, o, next)
      /\ testreqid' = testreqid /\ active' = active /\ delivered' = delivered
      /\ tr_pending' = (tr_pending /\ ~Answers(p, m))
      /\ depth' = [depth EXCEPT ![p] = nested]
  BY <1>a, <1>b DEF GraceTakes
<1>2. /\ Modes /\ next \in Phases /\ next # "logon"
      /\ in_msg_seq_num \in [Peers -> Nat] /\ Other(p) \in Peers /\ Other(p) # p
      /\ \A q \in Peers : q = p \/ q = Other(p)
  BY OtherIs, ModesOfRanges DEF Peers, Phases, Ranges, TypeOK, AfterGrace
<1>3. m \in Message /\ in_msg_seq_num[p] + 1 \in Nat \ {0}
  BY <1>1, <1>a, FirstIs
<1>4. Judged(in_msg_seq_num[p] + 1, m, o)
  BY <1>b, <1>3, AdminIsJudged
<1>5. Sound(in_msg_seq_num[p] + 1, First(p), o) /\ (LogsOut(o) => o.handled)
  BY <1>a, <1>4 DEF Judged
<1>6. depth[p] \in Nat \ {0} /\ nested \in Nat
  BY <1>1, <1>2 DEF Modes
<1>6a. (IF LogsOut(o) THEN "grace" ELSE next) = "grace" <=> nested > 0
  <2>1. CASE LogsOut(o)
    BY <1>5, <1>6, <2>1
  <2>2. CASE ~LogsOut(o) /\ o.handled
    BY <1>6, <2>2
  <2>3. CASE ~LogsOut(o) /\ ~o.handled
    BY <1>6, <2>3 DEF AfterGrace
  <2> QED BY <2>1, <2>2, <2>3
<1> HIDE DEF next, nested
<1>7. Moves(p)
  BY <1>1, <1>5, TakeReceives, ReceiveMoves
<1>8. /\ phase' \in [Peers -> Phases]
      /\ phase'[p] = IF LogsOut(o) THEN "grace" ELSE next
      /\ phase'[Other(p)] = phase[Other(p)]
      /\ Histories'
      /\ Moved'[Other(p)] = Moved[Other(p)]
      /\ Moved'[p] \subseteq Moved[p] \cup (in_msg_seq_num[p] + 1)..o.in
  BY <1>1, <1>2, <1>5, TakeIs
<1>9. /\ depth' \in [Peers -> Nat] /\ depth'[p] = nested
      /\ depth'[Other(p)] = depth[Other(p)]
  BY <1>1, <1>2, <1>6 DEF Modes
<1>10. \A q \in Peers : (phase'[q] = "grace") <=> (depth'[q] > 0)
  <2>1. (phase'[p] = "grace") <=> (depth'[p] > 0)
    BY <1>6a, <1>8, <1>9
  <2>2. (phase'[Other(p)] = "grace") <=> (depth'[Other(p)] > 0)
    BY <1>2, <1>8, <1>9 DEF Modes
  <2> QED BY <1>2, <2>1, <2>2
<1>11. tr_pending' \in BOOLEAN
  BY <1>1
<1>12. Modes'
  BY <1>1, <1>2, <1>8, <1>9, <1>10, <1>11 DEF Modes
<1>13. in_msg_seq_num'[p] = o.in /\ ordered' = ordered
  BY <1>1, <1>2 DEF Take
<1>14. phase'[p] # "logon"
  BY <1>2, <1>8
<1> QED BY <1>1, <1>7, <1>8, <1>12, <1>13, <1>14

\* fix_server_logout
LEMMA ServerLogsOutMoves ==
  ASSUME Ranges, Link, legacy' = legacy, ServerLogsOut
  PROVE  /\ Moves(Server) /\ Modes'
         /\ phase'[Server] = "closed" /\ Moved' = Moved
         /\ delivered' = delivered /\ ordered' = ordered
<1> DEFINE m == First(Server)
           n == in_msg_seq_num[Server] + 1
           o == Outcome(n, Msg("Logout"), TRUE)
<1>1. /\ phase[Server] = "bye" /\ wire[Server] # <<>>
      /\ in_msg_seq_num' = [in_msg_seq_num EXCEPT ![Server] = n]
      /\ Send(Server, Msg("Logout"), Drained(Server))
      /\ phase' = [phase EXCEPT ![Server] = "closed"]
      /\ UNCHANGED <<active, testreqid, tr_pending, depth, resets, ordered, delivered>>
      /\ Moved' = Moved /\ (Histories => Histories')
  BY MovedStays DEF ServerLogsOut, history
<1>2. Server \in Peers /\ Other(Server) = Client /\ Modes /\ "closed" \in Phases
      /\ in_msg_seq_num \in [Peers -> Nat]
  BY OtherIs, ModesOfRanges DEF Peers, Phases, Ranges, TypeOK
<1>3. Sound(n, m, o)
  BY <1>1, <1>2, FirstIs, CountingIsSound
<1>4. o.in = n /\ o.reply = Msg("Logout") /\ Msg("Logout") # NoMsg
  BY MsgIs DEF Outcome, Types
<1>5. Receives(Server, o)
  BY <1>1, <1>3, <1>4 DEF Receives, SendIfAny
<1>6. Moves(Server)
  BY <1>2, <1>5, ReceiveMoves
<1>7. phase' \in [Peers -> Phases] /\ phase'[Server] = "closed"
      /\ phase'[Client] = phase[Client]
  BY <1>1, <1>2, OtherIs DEF Modes, Peers
<1>8. \A p \in Peers : (phase'[p] = "grace") <=> (depth'[p] > 0)
  BY <1>1, <1>2, <1>7 DEF Modes, Peers
<1>9. Modes'
  BY <1>1, <1>2, <1>7, <1>8 DEF Modes
<1> QED BY <1>1, <1>6, <1>7, <1>9

-----------------------------------------------------------------------------
(***************************************************************************)
(* What the users start, and the steps that send nothing.                  *)
(***************************************************************************)
ClientActs ==
  \/ SendOrder \/ KeepaliveTests \/ KeepaliveBeats \/ ClientLogsOut
  \/ \E new \in 1..(MaxOwn + 1) : SendReset(new)

LEMMA RemembersAll ==
  ASSUME NEW m, m.type # "Order", ordered' = ordered
  PROVE  Remembers(Client, m)
BY DEF Remembers

LEMMA ClientActsMoves ==
  ASSUME Ranges, Link, legacy' = legacy, ClientActs
  PROVE  /\ Moves(Client) /\ Modes'
         /\ active'[Server] = active[Server] /\ phase'[Server] = phase[Server]
         /\ Moved' = Moved /\ delivered' = delivered
         /\ ordered' \subseteq ordered \cup {out_msg_seq_num[Client]}
<1>1. /\ Modes /\ Client \in Peers /\ Client # Server /\ Server \in Peers
      /\ resets \in 0..MaxResets
      /\ MaxResets \in Nat /\ MaxOwn \in Nat /\ testreqid \in Nat
      /\ out_msg_seq_num[Client] \in Nat
  <2>1. Modes /\ Client # Server
    BY ModesOfRanges, PeersDiffer
  <2>2. Client \in Peers /\ Server \in Peers
    BY DEF Peers
  <2>3. MaxResets \in Nat /\ MaxOwn \in Nat /\ MaxSeq \in Nat
    BY BoundsAreNumbers
  <2>4. /\ testreqid \in Nat /\ resets \in 0..MaxResets
        /\ out_msg_seq_num \in [Peers -> 1..(MaxSeq + 1)]
    BY DEF Ranges, TypeOK
  <2> QED BY <2>1, <2>2, <2>3, <2>4
<1>2. ASSUME NEW m \in Message, Initiates(m)
      PROVE  /\ SendIfAny(Client, m, wire)
             /\ UNCHANGED <<in_msg_seq_num, active, phase, depth, skipped, unannounced,
                            delivered>>
  <2>1. m # NoMsg
    BY NoMsgIs DEF Message, Types
  <2> QED BY <1>2, <2>1 DEF Initiates, SendIfAny
<1>3. ASSUME NEW m, Sends(m),
             UNCHANGED <<active, phase, depth, skipped, unannounced, delivered>>,
             testreqid' \in Nat, tr_pending' \in BOOLEAN
      PROVE  /\ Moves(Client) /\ Modes'
             /\ active'[Server] = active[Server] /\ phase'[Server] = phase[Server]
             /\ Moved' = Moved /\ delivered' = delivered
             /\ ordered' \subseteq ordered \cup {out_msg_seq_num[Client]}
  <2>1. Moves(Client)
    BY <1>3, SendsMoves
  <2>2. Modes' /\ Moved' = Moved
    BY <1>1, <1>3, MovedStays DEF Modes
  <2>3. ordered' \subseteq ordered \cup {out_msg_seq_num[Client]}
    BY <1>3 DEF Sends, Remembers
  <2> QED BY <1>3, <2>1, <2>2, <2>3
<1>4. CASE SendOrder
  <2>1. Msg("Order") \in Message /\ Msg("Order").type = "Order"
    BY MsgIs DEF Types
  <2>2. Initiates(Msg("Order")) /\ UNCHANGED <<testreqid, tr_pending, resets>>
        /\ ordered' = IF failed' = failed
                      THEN ordered \cup {out_msg_seq_num[Client]} ELSE ordered
    BY <1>4 DEF SendOrder
  <2>3. Remembers(Client, Msg("Order"))
    BY <2>1, <2>2 DEF Remembers
  <2>4. Sends(Msg("Order"))
    BY <1>1, <1>2, <2>1, <2>2, <2>3 DEF Sends
  <2> QED BY <1>1, <1>2, <1>3, <2>1, <2>2, <2>4 DEF Modes
<1>5. CASE KeepaliveTests
  <2> DEFINE m == TestRequest(testreqid + 1)
  <2>1. m \in Message /\ m.type = "TestRequest" /\ testreqid + 1 \in Nat
    <3>1. testreqid + 1 \in Nat
      BY <1>1
    <3> QED BY <3>1, HeartbeatIs
  <2>2. Initiates(m) /\ testreqid' = testreqid + 1 /\ tr_pending' = TRUE
        /\ UNCHANGED <<resets, ordered>>
    BY <1>5 DEF KeepaliveTests
  <2> HIDE DEF m
  <2>3. Remembers(Client, m)
    BY <2>1, <2>2, RemembersAll
  <2>4. Sends(m)
    BY <1>1, <1>2, <2>1, <2>2, <2>3 DEF Sends
  <2> QED BY <1>1, <1>2, <1>3, <2>1, <2>2, <2>4
<1>6. CASE KeepaliveBeats
  <2> DEFINE m == Heartbeat(0)
  <2>1. m \in Message /\ m.type = "Heartbeat"
    BY HeartbeatIs
  <2>2. Initiates(m) /\ UNCHANGED <<testreqid, tr_pending, resets, ordered>>
    BY <1>6 DEF KeepaliveBeats
  <2> HIDE DEF m
  <2>3. Remembers(Client, m)
    BY <2>1, <2>2, RemembersAll
  <2>4. Sends(m)
    BY <1>1, <1>2, <2>1, <2>2, <2>3 DEF Sends
  <2> QED BY <1>1, <1>2, <1>3, <2>1, <2>2, <2>4 DEF Modes
<1>7. CASE \E new \in 1..(MaxOwn + 1) : SendReset(new)
  <2>0. PICK new \in 1..(MaxOwn + 1) : SendReset(new)
    BY <1>7
  <2> DEFINE m == SequenceReset(out_msg_seq_num[Client], new, FALSE)
  <2>1. m \in Message /\ m.type = "SequenceReset"
    <3>1. new \in Nat
      BY <1>1
    <3>2. out_msg_seq_num[Client] \in Nat /\ FALSE \in BOOLEAN
      BY <1>1
    <3> QED BY <3>1, <3>2, ResetIs
  <2>2. Initiates(m) /\ UNCHANGED <<testreqid, tr_pending, ordered>>
        /\ resets < MaxResets /\ resets' = resets + 1
    BY <2>0 DEF SendReset
  <2> HIDE DEF m
  <2>3. Remembers(Client, m)
    BY <2>1, <2>2, RemembersAll
  <2>4. resets' \in 0..MaxResets
    BY <1>1, <2>2
  <2>5. Sends(m)
    BY <1>2, <2>1, <2>2, <2>3, <2>4 DEF Sends
  <2> QED BY <1>1, <1>2, <1>3, <2>1, <2>2, <2>5 DEF Modes
<1>8. CASE ClientLogsOut
  <2> DEFINE m == Msg("Logout")
  <2>1. m \in Message /\ m.type = "Logout" /\ m # NoMsg
    BY MsgIs DEF Types
  <2>2. /\ Send(Client, m, wire) /\ phase[Client] = "stop"
        /\ active' = [active EXCEPT ![Client] = FALSE]
        /\ phase' = [phase EXCEPT ![Client] = "grace"]
        /\ depth' = [depth EXCEPT ![Client] = 1]
        /\ UNCHANGED <<in_msg_seq_num, testreqid, tr_pending, resets, ordered, delivered>>
        /\ Moved' = Moved /\ (Histories => Histories')
    BY <1>8, MovedStays DEF ClientLogsOut, history
  <2> HIDE DEF m
  <2>3. Remembers(Client, m)
    BY <2>1, <2>2, RemembersAll
  <2>4. Sends(m)
    BY <1>1, <2>1, <2>2, <2>3 DEF Sends, SendIfAny
  <2>5. Moves(Client)
    BY <2>4, SendsMoves
  <2>6. active' \in [Peers -> BOOLEAN] /\ active'[Server] = active[Server]
    BY <1>1, <2>2 DEF Modes
  <2>7. /\ phase' \in [Peers -> Phases] /\ phase'[Server] = phase[Server]
        /\ phase'[Client] = "grace"
    BY <1>1, <2>2 DEF Modes, Phases
  <2>8. depth' \in [Peers -> Nat] /\ depth'[Server] = depth[Server] /\ depth'[Client] = 1
    BY <1>1, <2>2 DEF Modes
  <2>9. \A p \in Peers : (phase'[p] = "grace") <=> (depth'[p] > 0)
    BY <1>1, <2>7, <2>8 DEF Modes, Peers
  <2>10. Modes'
    BY <1>1, <2>2, <2>6, <2>7, <2>8, <2>9 DEF Modes
  <2> QED BY <2>2, <2>5, <2>6, <2>7, <2>10
<1> QED BY <1>4, <1>5, <1>6, <1>7, <1>8 DEF ClientActs

LEMMA GraceExpiresMoves ==
  ASSUME NEW p \in Peers, Ranges, Link, legacy' = legacy, GraceExpires(p)
  PROVE  /\ Moves(p) /\ Waits /\ Modes'
         /\ phase[p] = "grace" /\ phase'[p] \in {"up", "closed"} /\ active' = active
         /\ phase'[Other(p)] = phase[Other(p)]
         /\ Moved' = Moved /\ delivered' = delivered
<1>1. /\ phase[p] = "grace" /\ phase' = [phase EXCEPT ![p] = AfterGrace(p)]
      /\ depth' = [depth EXCEPT ![p] = 0] /\ Waits
      /\ UNCHANGED <<active, testreqid, tr_pending, delivered>>
      /\ Moved' = Moved /\ (Histories => Histories')
  BY MovedStays DEF GraceExpires, numbers, history, Waits
<1>2. /\ Modes /\ AfterGrace(p) \in {"up", "closed"} /\ AfterGrace(p) \in Phases
      /\ Other(p) \in Peers /\ Other(p) # p /\ \A q \in Peers : q = p \/ q = Other(p)
  BY OtherIs, ModesOfRanges DEF AfterGrace, Phases
<1>3. /\ phase' \in [Peers -> Phases] /\ phase'[p] = AfterGrace(p)
      /\ phase'[Other(p)] = phase[Other(p)]
  BY <1>1, <1>2 DEF Modes
<1>4. /\ depth' \in [Peers -> Nat] /\ depth'[p] = 0
      /\ depth'[Other(p)] = depth[Other(p)]
  BY <1>1, <1>2 DEF Modes
<1>5. \A q \in Peers : (phase'[q] = "grace") <=> (depth'[q] > 0)
  <2>1. (phase'[p] = "grace") <=> (depth'[p] > 0)
    BY <1>2, <1>3, <1>4
  <2>2. (phase'[Other(p)] = "grace") <=> (depth'[Other(p)] > 0)
    BY <1>2, <1>3, <1>4 DEF Modes
  <2> QED BY <1>2, <2>1, <2>2
<1>6. Modes'
  BY <1>1, <1>2, <1>3, <1>4, <1>5 DEF Modes
<1>7. Moves(p)
  BY <1>1, WaitMoves
<1> QED BY <1>1, <1>2, <1>3, <1>6, <1>7

LEMMA LeavesMoves ==
  ASSUME Ranges, Link, legacy' = legacy, ClientStops \/ ScriptEnds
  PROVE  /\ Moves(Client) /\ Waits /\ Modes' /\ active' = active
         /\ phase'[Server] \in {phase[Server], "bye", "closed"}
         /\ Moved' = Moved /\ delivered' = delivered
<1>1. PICK p \in Peers, next \in {"stop", "bye", "closed"} :
        /\ phase[p] = "up" /\ phase' = [phase EXCEPT ![p] = next]
        /\ next = "stop" => p = Client
  <2>1. CASE ClientStops
    BY <2>1 DEF ClientStops, Peers
  <2>2. CASE ScriptEnds
    BY <2>2 DEF ScriptEnds, Peers
  <2> QED BY <2>1, <2>2
<1>2. /\ UNCHANGED <<active, testreqid, tr_pending, depth, delivered>>
      /\ Waits
      /\ Moved' = Moved /\ (Histories => Histories')
  BY MovedStays DEF ClientStops, ScriptEnds, link, history, Waits
<1>3. /\ Modes /\ next \in Phases /\ next # "grace" /\ Client # Server
      /\ Server \in Peers /\ Client \in Peers
  BY ModesOfRanges, PeersDiffer DEF Phases, Peers
<1>4. /\ phase' \in [Peers -> Phases]
      /\ \A q \in Peers : phase'[q] = IF q = p THEN next ELSE phase[q]
  BY <1>1, <1>3 DEF Modes
<1>5. \A q \in Peers : (phase'[q] = "grace") <=> (depth'[q] > 0)
  BY <1>1, <1>2, <1>3, <1>4 DEF Modes
<1>6. Modes'
  BY <1>2, <1>3, <1>4, <1>5 DEF Modes
<1>7. Moves(Client)
  BY <1>2, <1>3, WaitMoves
<1>8. phase'[Server] \in {phase[Server], "bye", "closed"}
  BY <1>1, <1>3, <1>4
<1> QED BY <1>2, <1>6, <1>7, <1>8

-----------------------------------------------------------------------------
(***************************************************************************)
(* What the server has counted, delivered and skipped.                     *)
(***************************************************************************)
History == Counted /\ AllAccounted /\ NoneTwice

\* A step of the client gives out at most one number, which the server has
\* neither delivered nor, if it is past it, left unaccounted for.
LEMMA ClientKeepsHistory ==
  ASSUME Ranges, History, Moves(Client),
         active'[Server] = active[Server], phase'[Server] = phase[Server],
         Moved'[Server] = Moved[Server], delivered' = delivered,
         ordered' \subseteq ordered \cup {out_msg_seq_num[Client]}
  PROVE  History'
<1> DEFINE next == out_msg_seq_num[Client]
<1>1. /\ in_msg_seq_num[Server] \in Nat /\ next \in Nat /\ Client \in Peers
      /\ Other(Client) = Server
  BY OtherIs DEF Ranges, TypeOK, Peers
<1>2. /\ in_msg_seq_num'[Server] = in_msg_seq_num[Server]
      /\ out_msg_seq_num'[Client] >= next /\ out_msg_seq_num'[Client] \in Nat
      /\ lost'[Client] \subseteq lost[Client] \cup {next}
  BY <1>1 DEF Moves
<1> HIDE DEF next
<1>3. /\ phase[Server] = "logon" => in_msg_seq_num[Server] = 0
      /\ phase[Server] \in {"logon", "grace"} => ~active[Server]
      /\ \A n \in delivered : n \in Nat /\ n <= in_msg_seq_num[Server] /\ n < next
      /\ \A n \in Moved[Server] : n <= in_msg_seq_num[Server]
      /\ active[Server] /\ phase[Server] = "up" =>
           \A n \in Nat : next <= n /\ n <= in_msg_seq_num[Server] => n \in Moved[Server]
  BY DEF History, Counted, next
<1>4. Counted'
  <2>1. \A n \in delivered' : n \in Nat /\ n <= in_msg_seq_num'[Server]
                              /\ n < out_msg_seq_num'[Client]
    BY <1>1, <1>2, <1>3
  <2>2. \A n \in Moved'[Server] : n <= in_msg_seq_num'[Server]
    BY <1>2, <1>3
  <2>3. active'[Server] /\ phase'[Server] = "up" =>
          \A n \in Nat : out_msg_seq_num'[Client] <= n /\ n <= in_msg_seq_num'[Server]
                           => n \in Moved'[Server]
    BY <1>1, <1>2, <1>3
  <2> QED BY <1>2, <1>3, <2>1, <2>2, <2>3 DEF Counted
<1>5. AllAccounted'
  <2> SUFFICES ASSUME active[Server], phase[Server] = "up",
                      NEW n \in ordered' \cup lost'[Client],
                      n <= in_msg_seq_num[Server]
               PROVE  n \in delivered \cup Moved[Server]
    BY <1>2 DEF AllAccounted
  <2>1. CASE n \in ordered \cup lost[Client]
    BY <2>1 DEF History, AllAccounted
  <2>2. CASE n = next
    BY <1>1, <1>3, <2>2
  <2> QED BY <1>2, <2>1, <2>2 DEF next
<1>6. NoneTwice'
  <2>1. next \notin delivered
    BY <1>1, <1>3
  <2> QED BY <1>2, <2>1 DEF History, NoneTwice
<1> QED BY <1>4, <1>5, <1>6 DEF History

\* A step of the server counts up to k.  What it passes it delivers or skips.
LEMMA ServerKeepsHistory ==
  ASSUME Ranges, History, Orders, Moves(Server), ordered' = ordered,
         NEW k, k = in_msg_seq_num'[Server],
         NEW passed, passed = (in_msg_seq_num[Server] + 1)..k,
         Moved'[Server] \subseteq Moved[Server] \cup passed,
         \/ delivered' = delivered
         \/ /\ k = in_msg_seq_num[Server] + 1 /\ delivered' = delivered \cup {k}
            /\ k < out_msg_seq_num[Client] /\ k \notin lost[Client]
            /\ Moved'[Server] = Moved[Server],
         phase'[Server] # "logon", phase'[Server] = "grace" => ~active'[Server],
         active'[Server] /\ phase'[Server] = "up" =>
           /\ (active[Server] /\ phase[Server] = "up") \/ in_msg_seq_num[Server] = 0
           /\ Moved[Server] \subseteq Moved'[Server]
           /\ \A n \in passed :
                n \in ordered \cup lost[Client] \/ out_msg_seq_num[Client] <= n =>
                  \/ n \in Moved'[Server]
                  \/ n \in delivered' /\ n < out_msg_seq_num[Client]
  PROVE  History'
<1> DEFINE n0 == in_msg_seq_num[Server]
           next == out_msg_seq_num[Client]
<1>1. /\ n0 \in Nat /\ next \in Nat /\ Server \in Peers /\ Other(Server) = Client
      /\ next > 1 /\ \A n \in ordered \cup lost[Client] : n > 1
      /\ \A n \in ordered \cup lost[Client] : n \in Nat
  BY OtherIs DEF Ranges, TypeOK, Peers, Orders, OrdersOn
<1>2. /\ k \in Nat /\ k >= n0 /\ out_msg_seq_num'[Client] = next
      /\ lost'[Client] = lost[Client]
  BY <1>1 DEF Moves
<1> HIDE DEF n0, next
<1>3. /\ \A n \in delivered : n \in Nat /\ n <= n0 /\ n < next
      /\ \A n \in Moved[Server] : n <= n0
      /\ active[Server] /\ phase[Server] = "up" =>
           \A n \in Nat : next <= n /\ n <= n0 => n \in Moved[Server]
  BY DEF History, Counted, n0, next
<1>4. /\ passed = (n0 + 1)..k /\ passed \subseteq Nat
      /\ Moved[Server] \subseteq Nat /\ Moved'[Server] \subseteq Nat
  <2>1. passed = (n0 + 1)..k /\ passed \subseteq Nat
    BY <1>1, <1>2 DEF n0
  <2>2. Moved[Server] \subseteq Nat
    BY <1>1, MovedIs DEF Ranges
  <2> QED BY <2>1, <2>2
<1>5. /\ \A n \in delivered' : n \in Nat /\ n <= k /\ n < next
      /\ \A n \in Moved'[Server] : n <= k
  <2>1. \A n \in delivered' : n \in Nat /\ n <= k /\ n < next
    <3>1. CASE delivered' = delivered
      BY <1>1, <1>2, <1>3, <3>1
    <3>2. CASE delivered' = delivered \cup {k} /\ k < next
      BY <1>1, <1>2, <1>3, <3>2
    <3> QED BY <3>1, <3>2 DEF next
  <2>2. \A n \in Moved'[Server] : n <= k
    <3> TAKE n \in Moved'[Server]
    <3>1. CASE n \in Moved[Server]
      BY <1>1, <1>2, <1>3, <1>4, <3>1
    <3>2. CASE n \in passed
      BY <1>1, <1>2, <1>4, <3>2
    <3> QED BY <3>1, <3>2
  <2> QED BY <2>1, <2>2
<1>6. \A n \in Nat : n <= k => n <= n0 \/ n \in passed
  <2> TAKE n \in Nat
  <2>1. n <= k => n <= n0 \/ n \in (n0 + 1)..k
    BY <1>1, <1>2
  <2> QED BY <1>4, <2>1
<1>7. ASSUME active'[Server], phase'[Server] = "up", NEW n \in Nat, n <= k
      PROVE  /\ next <= n => n \in Moved'[Server]
             /\ n \in ordered \cup lost[Client] => n \in delivered' \cup Moved'[Server]
  <2>1. CASE n \in passed
    BY <1>1, <1>7, <2>1 DEF next
  <2>2. CASE n <= n0 /\ active[Server] /\ phase[Server] = "up"
    <3>1. next <= n => n \in Moved[Server]
      BY <1>3, <2>2
    <3>2. n \in ordered \cup lost[Client] => n \in delivered \cup Moved[Server]
      BY <2>2 DEF History, AllAccounted, n0
    <3> QED BY <1>7, <3>1, <3>2
  <2>3. CASE n <= n0 /\ n0 = 0
    <3>1. ~(next <= n) /\ ~(n > 1)
      BY <1>1, <1>7, <2>3
    <3> QED BY <1>1, <3>1
  <2> QED BY <1>6, <1>7, <2>1, <2>2, <2>3 DEF n0
<1>8. Counted'
  <2>1. active'[Server] /\ phase'[Server] = "up" =>
          \A n \in Nat : out_msg_seq_num'[Client] <= n /\ n <= in_msg_seq_num'[Server]
                           => n \in Moved'[Server]
    BY <1>2, <1>7
  <2> QED BY <1>2, <1>5, <2>1 DEF Counted
<1>9. AllAccounted'
  <2> SUFFICES ASSUME active'[Server], phase'[Server] = "up",
                      NEW n \in ordered \cup lost[Client], n <= k
               PROVE  n \in delivered' \cup Moved'[Server]
    BY <1>2 DEF AllAccounted
  <2>1. n \in Nat
    BY <1>1
  <2> QED BY <1>7, <2>1
<1>10. NoneTwice'
  <2>1. \A n \in delivered : n \notin passed
    <3> TAKE n \in delivered
    <3>1. n \in Nat /\ n <= n0
      BY <1>3
    <3>2. n \notin (n0 + 1)..k
      BY <1>1, <1>2, <3>1
    <3> QED BY <1>4, <3>2
  <2>2. delivered \cap (Moved'[Server] \cup lost'[Client]) = {}
    BY <1>2, <2>1 DEF History, NoneTwice
  <2>3. k = n0 + 1 => k \notin Moved[Server]
    BY <1>1, <1>2, <1>3, <1>4
  <2> QED BY <1>2, <2>2, <2>3 DEF NoneTwice, n0
<1> QED BY <1>8, <1>9, <1>10 DEF History

LEMMA AcceptLogonKeepsHistory ==
  ASSUME Ranges, Link, History, legacy' = legacy, AcceptLogon
  PROVE  History'
<1> DEFINE k == in_msg_seq_num'[Server]
           passed == (in_msg_seq_num[Server] + 1)..k
<1>1. /\ Moves(Server) /\ k = in_msg_seq_num[Server] + 1
      /\ phase[Server] = "logon" /\ phase'[Server] \in {"up", "closed"}
      /\ Moved'[Server] = IF Preserves(First(Server))
                            THEN Moved[Server] \cup passed ELSE Moved[Server]
      /\ delivered' = delivered /\ ordered' = ordered
  BY AcceptLogonMoves
<1>2. in_msg_seq_num[Server] = 0 /\ k = 1 /\ passed = 1..1
  BY <1>1 DEF History, Counted
<1>3. /\ \A n \in ordered \cup lost[Client] : n > 1
      /\ out_msg_seq_num[Client] > 1 /\ Orders
  BY DEF Link, Orders, OrdersOn
<1>4. \A n \in passed : n = 1
  BY <1>2
<1>5. out_msg_seq_num[Client] \in Nat
  BY DEF Ranges, TypeOK, Peers
<1>6. \A n \in passed : ~(n \in ordered \cup lost[Client])
                        /\ ~(out_msg_seq_num[Client] <= n)
  BY <1>3, <1>4, <1>5
<1> HIDE DEF k, passed
<1>7. /\ Moved'[Server] \subseteq Moved[Server] \cup passed
      /\ Moved[Server] \subseteq Moved'[Server]
      /\ phase'[Server] # "logon" /\ phase'[Server] # "grace"
  BY <1>1
<1> QED BY <1>1, <1>2, <1>3, <1>6, <1>7, ServerKeepsHistory DEF k, passed

\* The server takes k as counted, after passing over the numbers up to it.
Passes(k, passed) ==
  /\ k = in_msg_seq_num'[Server] /\ passed = (in_msg_seq_num[Server] + 1)..k
  /\ Moved'[Server] \subseteq Moved[Server] \cup passed
  /\ \/ delivered' = delivered
     \/ /\ k = in_msg_seq_num[Server] + 1 /\ delivered' = delivered \cup {k}
        /\ k < out_msg_seq_num[Client] /\ k \notin lost[Client]
        /\ Moved'[Server] = Moved[Server]
  /\ phase'[Server] # "logon" /\ (phase'[Server] = "grace" => ~active'[Server])
  /\ active'[Server] /\ phase'[Server] = "up" =>
       /\ active[Server] /\ phase[Server] = "up"
       /\ Moved[Server] \subseteq Moved'[Server]
       /\ \A n \in passed :
            n \in ordered \cup lost[Client] \/ out_msg_seq_num[Client] <= n =>
              \/ n \in Moved'[Server]
              \/ n \in delivered' /\ n < out_msg_seq_num[Client]

LEMMA PassingKeepsHistory ==
  ASSUME Ranges, History, Orders, Moves(Server), ordered' = ordered,
         NEW k, NEW passed, Passes(k, passed)
  PROVE  History'
BY ServerKeepsHistory DEF Passes

LEMMA LoopTakesKeepsHistory ==
  ASSUME Ranges, Link, History, legacy' = legacy, LoopTakes(Server)
  PROVE  History'
<1>1. PICK m : m = First(Server)
  OBVIOUS
<1>2. PICK o : o = Admin(in_msg_seq_num[Server] + 1, m)
  OBVIOUS
<1>3. PICK k : k = o.in
  OBVIOUS
<1>4. PICK passed : passed = (in_msg_seq_num[Server] + 1)..k
  OBVIOUS
<1>5. Server \in Peers /\ Other(Server) = Client /\ Client \in Peers
  BY OtherIs DEF Peers
<1>6. /\ Moves(Server) /\ Judged(in_msg_seq_num[Server] + 1, m, o)
      /\ m \in Message /\ m \in Carried(wire[Server])
      /\ in_msg_seq_num'[Server] = k /\ phase[Server] = "up"
      /\ phase'[Server] # "logon" /\ (phase'[Server] = "grace" => ~active'[Server])
      /\ (active'[Server] => active[Server])
      /\ Moved'[Server] = IF Preserves(m) THEN Moved[Server] \cup passed
                            ELSE Moved[Server]
      /\ delivered' = IF m.type = "Order" /\ ~o.handled
                      THEN delivered \cup {m.seq} ELSE delivered
      /\ ordered' = ordered
  <2>1. TakesInLoop(Server, m, o)
    BY <1>1, <1>2, <1>5, LoopTakesMoves
  <2> QED BY <1>3, <1>4, <2>1 DEF TakesInLoop
<1>7. /\ in_msg_seq_num[Server] \in Nat /\ out_msg_seq_num[Client] \in Nat
      /\ m.seq \in Nat /\ k \in Nat /\ Orders
  BY <1>3, <1>5, <1>6 DEF Ranges, TypeOK, Message, Judged, Sound, Link
<1>8. CASE Preserves(m)
  <2>1. m.type # "Order"
    BY <1>8 DEF Preserves
  <2>2. /\ delivered' = delivered
        /\ Moved'[Server] = Moved[Server] \cup passed
    BY <1>6, <1>8, <2>1
  <2>3. Passes(k, passed)
    BY <1>4, <1>6, <2>2 DEF Passes
  <2> QED BY <1>6, <1>7, <2>3, PassingKeepsHistory
<1>9. CASE ~Preserves(m)
  <2>1. /\ m.seq < out_msg_seq_num[Client] /\ m.seq \notin lost[Client]
        /\ m.seq \in ordered <=> m.type = "Order"
    <3>1. Numbering /\ Orders
      BY DEF Link
    <3>2. m.seq < out_msg_seq_num[Client] /\ m.seq \notin lost[Client]
      <4>1. Other(Client) = Server
        BY OtherIs, <1>5
      <4> QED BY <1>5, <1>6, <1>9, <3>1, <4>1 DEF Numbering, NumberingOn
    <3>3. m.seq \in ordered <=> m.type = "Order"
      BY <1>6, <1>9, <3>1 DEF Orders, OrdersOn
    <3> QED BY <3>2, <3>3
  <2>2. /\ k \in {in_msg_seq_num[Server], in_msg_seq_num[Server] + 1}
        /\ m.seq = in_msg_seq_num[Server] + 1 => k = in_msg_seq_num[Server] + 1
        /\ k = in_msg_seq_num[Server] + 1 => m.seq = in_msg_seq_num[Server] + 1
        /\ m.type = "Order" => (o.handled <=> m.seq # in_msg_seq_num[Server] + 1)
    <3>1. in_msg_seq_num[Server] + 1 - 1 = in_msg_seq_num[Server]
      BY <1>7
    <3> QED BY <1>3, <1>6, <1>7, <1>9, <3>1 DEF Judged, Sound
  <2>3. Moved'[Server] = Moved[Server]
    BY <1>6, <1>9
  <2>4. CASE k = in_msg_seq_num[Server]
    <3>1. delivered' = delivered
      BY <1>6, <1>7, <2>2, <2>4
    <3>2. passed = {}
      BY <1>4, <1>7, <2>4
    <3>3. Passes(k, passed)
      BY <1>4, <1>6, <2>3, <3>1, <3>2 DEF Passes
    <3> QED BY <1>6, <1>7, <3>3, PassingKeepsHistory
  <2>5. CASE k = in_msg_seq_num[Server] + 1
    <3>1. m.seq = k /\ passed = {k}
      BY <1>4, <1>7, <2>2, <2>5
    <3>2. CASE m.type = "Order"
      <4>1. delivered' = delivered \cup {k}
        BY <1>6, <2>2, <2>5, <3>1, <3>2
      <4>2. k < out_msg_seq_num[Client] /\ k \notin lost[Client]
        BY <2>1, <3>1
      <4>3. Passes(k, passed)
        BY <1>4, <1>6, <2>3, <2>5, <3>1, <4>1, <4>2 DEF Passes
      <4> QED BY <1>6, <1>7, <4>3, PassingKeepsHistory
    <3>3. CASE m.type # "Order"
      <4>1. delivered' = delivered
        BY <1>6, <3>3
      <4>2. k \notin ordered \cup lost[Client] /\ ~(out_msg_seq_num[Client] <= k)
        BY <1>7, <2>1, <3>1, <3>3
      <4>3. Passes(k, passed)
        BY <1>4, <1>6, <2>3, <3>1, <4>1, <4>2 DEF Passes
      <4> QED BY <1>6, <1>7, <4>3, PassingKeepsHistory
    <3> QED BY <3>2, <3>3
  <2> QED BY <2>2, <2>4, <2>5
<1> QED BY <1>8, <1>9

-----------------------------------------------------------------------------
LEMMA InitEstablishes == Init => IInv
<1> SUFFICES ASSUME Init PROVE IInv
  OBVIOUS
<1> DEFINE logon == [Msg("Logon") EXCEPT !.seq = 1]
<1>1. /\ Client \in Peers /\ Server \in Peers /\ Client # Server
      /\ Other(Client) = Server /\ Other(Server) = Client
      /\ MaxSeq \in Nat /\ MaxSeq >= 1 /\ MaxFailed \in Nat /\ MaxResets \in Nat
      /\ Dialects \subseteq BOOLEAN
  BY PeersDiffer, BoundsAreNumbers DEF Peers, Other
<1>2. logon \in Message /\ logon.type = "Logon" /\ logon.seq = 1
  BY MsgIs DEF Message, Types
<1> HIDE DEF logon
<1>3. /\ wire[Server] = <<logon>> /\ wire[Client] = <<>>
      /\ wire \in [Peers -> Seq(Message)]
  <2>1. wire = [p \in Peers |-> IF p = Server THEN <<logon>> ELSE <<>>]
    BY DEF Init, logon
  <2>2. <<logon>> \in Seq(Message) /\ <<>> \in Seq(Message)
    BY <1>2
  <2> QED BY <1>1, <2>1, <2>2
<1>4. /\ Len(wire[Server]) = 1 /\ Len(wire[Client]) = 0 /\ wire[Server][1] = logon
      /\ Carried(wire[Server]) = {logon} /\ Carried(wire[Client]) = {}
  BY <1>3 DEF Carried
<1>5. /\ out_msg_seq_num \in [Peers -> 1..(MaxSeq + 1)]
      /\ out_msg_seq_num[Client] = 2 /\ out_msg_seq_num[Server] = 1
      /\ in_msg_seq_num \in [Peers -> Nat]
      /\ in_msg_seq_num[Client] = 0 /\ in_msg_seq_num[Server] = 0
      /\ lost \in [Peers -> SUBSET Nat] /\ Histories
      /\ \A p \in Peers : lost[p] = {} /\ Moved[p] = {}
      /\ failed = 0 /\ resets = 0 /\ ordered = {} /\ delivered = {}
  BY <1>1 DEF Init, Histories, Moved
<1>6. Ranges
  <2>1. \A p \in Peers : \A i \in 1..Len(wire[p]) :
          wire[p][i].type \in Types /\ wire[p][i].seq \in Nat
    <3> TAKE p \in Peers
    <3> TAKE i \in 1..Len(wire[p])
    <3>1. wire[p] \in Seq(Message)
      BY <1>3
    <3>2. wire[p][i] \in Message
      BY <3>1, ElementOfSeq
    <3> QED BY <3>2 DEF Message
  <2>2. /\ active \in [Peers -> BOOLEAN] /\ testreqid \in Nat /\ tr_pending \in BOOLEAN
        /\ phase \in [Peers -> Phases] /\ depth \in [Peers -> Nat]
        /\ \A p \in Peers : (phase[p] = "grace") <=> (depth[p] > 0)
        /\ legacy \in BOOLEAN
    <3>1. /\ active = [p \in Peers |-> p = Client] /\ testreqid = 0
          /\ tr_pending = FALSE /\ legacy \in Dialects
      BY DEF Init
    <3>2. active \in [Peers -> BOOLEAN]
      BY <3>1
    <3>3. phase = [p \in Peers |-> "logon"] /\ depth = [p \in Peers |-> 0]
      BY DEF Init
    <3>4. /\ phase \in [Peers -> Phases] /\ depth \in [Peers -> Nat]
          /\ \A p \in Peers : (phase[p] = "grace") <=> (depth[p] > 0)
      BY <3>3 DEF Phases
    <3> QED BY <1>1, <3>1, <3>2, <3>4
  <2>3. failed \in 0..MaxFailed /\ resets \in 0..MaxResets
    BY <1>1, <1>5
  <2> QED BY <1>3, <1>5, <2>1, <2>2, <2>3 DEF Ranges, TypeOK
<1>7. Numbering
  BY <1>1, <1>2, <1>4, <1>5 DEF Numbering, NumberingOn, Peers
<1>8. Orders
  BY <1>1, <1>2, <1>4, <1>5 DEF Orders, OrdersOn
<1>9. InOrder
  <2>1. \A i \in 1..Len(wire[Client]) : FALSE
    BY <1>4
  <2>2. \A i \in 1..Len(wire[Server]) : i = 1
    BY <1>4
  <2>3. \A i \in 1..Len(wire[Server]) :
          /\ wire[Server][i].seq = in_msg_seq_num[Server] + i
          /\ wire[Server][i].type \notin {"SequenceReset", "ResendRequest"}
    BY <1>2, <1>4, <1>5, <2>2
  <2>4. /\ in_msg_seq_num[Client] + Len(wire[Client]) = out_msg_seq_num[Server] - 1
        /\ in_msg_seq_num[Server] + Len(wire[Server]) = out_msg_seq_num[Client] - 1
    BY <1>4, <1>5
  <2>5. \A p \in Peers : p = Client \/ p = Server
    BY DEF Peers
  <2> QED BY <1>1, <2>1, <2>3, <2>4, <2>5 DEF InOrder, InOrderOn
<1>10. Owed
  <2>1. /\ Requests(wire[Client]) = {} /\ Requests(wire[Server]) = {}
    BY <1>2, <1>4 DEF Requests
  <2>2. \A p \in Peers : \A t \in {"ResendRequest", "SequenceReset"} :
          Awaited(wire[p], t, NoMsg) = 0
    BY <2>1, NoMsgIs, FS_EmptySet DEF Awaited, IsOf, Peers
  <2>3. \A a, b : Modest(NoMsg, a, b) /\ Modest(logon, a, b)
    BY <1>2, NoMsgIs DEF Modest
  <2>4. \A q \in Peers : \A x \in Carried(wire[q]) :
          Modest(x, in_msg_seq_num[q], in_msg_seq_num[Other(q)])
    BY <1>4, <2>3 DEF Peers
  <2>5. \A p \in Peers : /\ Awaited(wire[p], "ResendRequest", NoMsg) = 0
                         /\ Awaited(wire[p], "SequenceReset", NoMsg) = 0
    BY <2>2
  <2>5a. /\ in_msg_seq_num[Client] + Len(wire[Client]) + 0 < out_msg_seq_num[Server]
         /\ in_msg_seq_num[Server] + Len(wire[Server]) + 0 < out_msg_seq_num[Client]
    BY <1>4, <1>5
  <2>5b. /\ Modest(NoMsg, in_msg_seq_num[Client], in_msg_seq_num[Server])
         /\ Modest(NoMsg, in_msg_seq_num[Server], in_msg_seq_num[Client])
    BY <2>3
  <2>6. OwedOn(in_msg_seq_num, wire, Client, NoMsg)
    BY <1>1, <2>4, <2>5, <2>5a, <2>5b DEF OwedOn
  <2>7. OwedOn(in_msg_seq_num, wire, Server, NoMsg)
    BY <1>1, <2>4, <2>5, <2>5a, <2>5b DEF OwedOn
  <2> QED BY <2>6, <2>7 DEF Owed, Peers
<1>11. Counted
  BY <1>1, <1>5 DEF Counted, Init
<1>12. AllAccounted /\ NoneTwice
  BY <1>1, <1>5 DEF AllAccounted, NoneTwice, Init
<1> QED BY <1>6, <1>7, <1>8, <1>9, <1>10, <1>11, <1>12 DEF IInv, Link

\* What one step does, whichever action it is.
LEMMA StepKeeps ==
  ASSUME IInv, Next, legacy' = legacy
  PROVE  IInv' /\ \E p \in Peers : Moves(p)
<1>0. Ranges /\ Link /\ History /\ Client \in Peers /\ Server \in Peers
      /\ Other(Client) = Server /\ Orders
  BY OtherIs DEF IInv, History, Link, Peers
<1>1. ASSUME NEW p \in Peers, Moves(p), Modes', History'
      PROVE  IInv' /\ \E q \in Peers : Moves(q)
  <2>1. Ranges'
    BY <1>0, <1>1, MovesKeepsRanges
  <2>2. Link'
    BY <1>1 DEF Moves
  <2> QED BY <1>1, <2>1, <2>2 DEF IInv, History
<1>2. CASE AwaitLogon
  <2>1. History'
    BY <1>0, <1>2, AwaitLogonMoves, ClientKeepsHistory
  <2> QED BY <1>0, <1>1, <1>2, <2>1, AwaitLogonMoves
<1>3. CASE AcceptLogon
  BY <1>0, <1>1, <1>3, AcceptLogonMoves, AcceptLogonKeepsHistory
<1>4. CASE Mismatch
  <2>1. /\ Moves(Server) /\ Modes'
        /\ in_msg_seq_num'[Server] = in_msg_seq_num[Server] + 1
        /\ phase'[Server] = "closed"
        /\ Moved'[Server] \subseteq Moved[Server] \cup
             (in_msg_seq_num[Server] + 1)..in_msg_seq_num'[Server]
        /\ delivered' = delivered /\ ordered' = ordered
    BY <1>0, <1>4, MismatchMoves
  <2>2. History'
    BY <1>0, <2>1, ServerKeepsHistory
  <2> QED BY <1>0, <1>1, <2>1, <2>2
<1>5. CASE LoopTakes(Client)
  <2>1. PICK m : m = First(Client)
    OBVIOUS
  <2>2. PICK o : o = Admin(in_msg_seq_num[Client] + 1, m)
    OBVIOUS
  <2>3. /\ Moves(Client) /\ Modes' /\ m \in Carried(wire[Client])
        /\ active'[Server] = active[Server] /\ phase'[Server] = phase[Server]
        /\ Moved'[Server] = Moved[Server] /\ ordered' = ordered
        /\ delivered' = IF m.type = "Order" /\ ~o.handled
                        THEN delivered \cup {m.seq} ELSE delivered
    <3>1. Client \in Peers /\ Other(Client) = Server
      BY OtherIs DEF Peers
    <3>2. TakesInLoop(Client, m, o)
      BY <1>0, <1>5, <2>1, <2>2, <3>1, LoopTakesMoves
    <3> QED BY <3>1, <3>2 DEF TakesInLoop
  <2>4. delivered' = delivered
    BY <1>0, <2>3 DEF Orders, OrdersOn
  <2>5. History'
    BY <1>0, <2>3, <2>4, ClientKeepsHistory
  <2> QED BY <1>0, <1>1, <2>3, <2>5
<1>6. CASE LoopTakes(Server)
  <2>1. Moves(Server) /\ Modes'
    <3>1. PICK m : m = First(Server)
      OBVIOUS
    <3>2. PICK o : o = Admin(in_msg_seq_num[Server] + 1, m)
      OBVIOUS
    <3>3. TakesInLoop(Server, m, o)
      BY <1>0, <1>6, <3>1, <3>2, LoopTakesMoves
    <3> QED BY <3>3 DEF TakesInLoop
  <2> QED BY <1>0, <1>1, <1>6, <2>1, LoopTakesKeepsHistory
<1>7. CASE GraceTakes(Client)
  <2>1. /\ Moves(Client) /\ Modes'
        /\ active'[Server] = active[Server] /\ phase'[Server] = phase[Server]
        /\ Moved'[Server] = Moved[Server] /\ ordered' = ordered
        /\ delivered' = delivered
    BY <1>0, <1>7, GraceTakesMoves
  <2>2. History'
    BY <1>0, <2>1, ClientKeepsHistory
  <2> QED BY <1>0, <1>1, <2>1, <2>2
<1>8. CASE GraceTakes(Server)
  <2>1. /\ Moves(Server) /\ Modes' /\ phase[Server] = "grace"
        /\ phase'[Server] # "logon" /\ active' = active
        /\ Moved'[Server] \subseteq Moved[Server] \cup
             (in_msg_seq_num[Server] + 1)..in_msg_seq_num'[Server]
        /\ delivered' = delivered /\ ordered' = ordered
    BY <1>0, <1>8, GraceTakesMoves
  <2>2. ~active'[Server]
    BY <2>1 DEF IInv, Counted
  <2>3. History'
    BY <1>0, <2>1, <2>2, ServerKeepsHistory
  <2> QED BY <1>0, <1>1, <2>1, <2>3
<1>9. CASE GraceExpires(Client)
  <2>1. /\ Moves(Client) /\ Waits /\ Modes' /\ active' = active
        /\ phase'[Server] = phase[Server] /\ Moved' = Moved
        /\ delivered' = delivered
    BY <1>0, <1>9, GraceExpiresMoves
  <2>2. History'
    BY <1>0, <2>1, ClientKeepsHistory DEF Waits
  <2> QED BY <1>0, <1>1, <2>1, <2>2
<1>10. CASE GraceExpires(Server)
  <2>1. /\ Moves(Server) /\ Waits /\ Modes' /\ phase[Server] = "grace"
        /\ phase'[Server] \in {"up", "closed"} /\ active' = active
        /\ Moved' = Moved /\ delivered' = delivered
    BY <1>0, <1>10, GraceExpiresMoves
  <2>2. ~active'[Server] /\ ordered' = ordered
    BY <2>1 DEF IInv, Counted, Waits
  <2>3. History'
    BY <1>0, <2>1, <2>2, ServerKeepsHistory
  <2> QED BY <1>0, <1>1, <2>1, <2>3
<1>11. CASE ClientActs
  <2>1. History'
    BY <1>0, <1>11, ClientActsMoves, ClientKeepsHistory
  <2> QED BY <1>0, <1>1, <1>11, <2>1, ClientActsMoves
<1>12. CASE ClientStops \/ ScriptEnds
  <2>1. /\ Moves(Client) /\ Waits /\ Modes' /\ active' = active
        /\ phase'[Server] \in {phase[Server], "bye", "closed"}
        /\ Moved' = Moved /\ delivered' = delivered
    BY <1>0, <1>12, LeavesMoves
  <2>2. CASE phase'[Server] = phase[Server]
    <3>1. History'
      BY <1>0, <2>1, <2>2, ClientKeepsHistory DEF Waits
    <3> QED BY <1>0, <1>1, <2>1, <3>1
  <2>3. CASE phase'[Server] \in {"bye", "closed"}
    <3>1. Moves(Server) /\ ordered' = ordered
      BY <1>0, <2>1, WaitMoves DEF Waits
    <3>2. History'
      BY <1>0, <2>1, <2>3, <3>1, ServerKeepsHistory
    <3> QED BY <1>0, <1>1, <2>1, <3>2
  <2> QED BY <2>1, <2>2, <2>3
<1>13. CASE ServerLogsOut
  <2>1. /\ Moves(Server) /\ Modes' /\ phase'[Server] = "closed"
        /\ Moved' = Moved /\ delivered' = delivered /\ ordered' = ordered
    BY <1>0, <1>13, ServerLogsOutMoves
  <2>2. History'
    BY <1>0, <2>1, ServerKeepsHistory
  <2> QED BY <1>0, <1>1, <2>1, <2>2
<1>14. \/ AwaitLogon \/ AcceptLogon \/ Mismatch
       \/ LoopTakes(Client) \/ LoopTakes(Server)
       \/ GraceTakes(Client) \/ GraceTakes(Server)
       \/ GraceExpires(Client) \/ GraceExpires(Server)
       \/ ClientActs \/ ClientStops \/ ScriptEnds \/ ServerLogsOut
  <2>1. CASE \E p \in Peers : LoopTakes(p) \/ GraceTakes(p) \/ GraceExpires(p)
    BY <2>1 DEF Peers
  <2>2. CASE ~ \E p \in Peers : LoopTakes(p) \/ GraceTakes(p) \/ GraceExpires(p)
    BY <2>2 DEF Next, ClientActs
  <2> QED BY <2>1, <2>2
<1> QED BY <1>2, <1>3, <1>4, <1>5, <1>6, <1>7, <1>8, <1>9, <1>10, <1>11, <1>12,
           <1>13, <1>14

LEMMA StutterKeeps ==
  ASSUME IInv, UNCHANGED vars
  PROVE  IInv'
<1>1. /\ legacy' = legacy /\ in_msg_seq_num' = in_msg_seq_num
      /\ out_msg_seq_num' = out_msg_seq_num /\ active' = active
      /\ testreqid' = testreqid /\ tr_pending' = tr_pending /\ phase' = phase
      /\ depth' = depth /\ wire' = wire /\ failed' = failed /\ resets' = resets
      /\ lost' = lost /\ ordered' = ordered /\ delivered' = delivered
      /\ Moved' = Moved /\ (Histories => Histories')
  BY MovedStays DEF vars, state, history
<1>2. Ranges' /\ Counted' /\ AllAccounted' /\ NoneTwice'
  BY <1>1 DEF IInv, Ranges, TypeOK, Counted, AllAccounted, NoneTwice
<1>3. Link'
  BY <1>1 DEF IInv, Link, Numbering, NumberingOn, Orders, OrdersOn, InOrder,
              InOrderOn, Owed, OwedOn
<1> QED BY <1>2, <1>3 DEF IInv

LEMMA InvariantHolds == Spec => []IInv
<1>1. IInv /\ [Next /\ UNCHANGED legacy]_vars => IInv'
  BY StepKeeps, StutterKeeps
<1> QED BY <1>1, InitEstablishes, PTL DEF Spec

-----------------------------------------------------------------------------
(***************************************************************************)
(* What a legacy dialect announces.  As long as its user sends no reset,   *)
(* every request names the numbers it asks for, every gap fill leads past  *)
(* its own number, and nothing is lost silently before the server is done. *)
(***************************************************************************)
Told(m) ==
  /\ m.type = "ResendRequest" => m.from <= m.to
  /\ m.type = "SequenceReset" => m.gap /\ m.seq < m.to
AllTold(w) == \A q \in Peers : \A m \in Carried(w[q]) : Told(m)

Announcing ==
  legacy /\ resets = 0 =>
    /\ AllTold(wire)
    /\ phase[Server] # "closed" => unannounced[Server] = {}

LEMMA MsgIsTold ==
  /\ Told(NoMsg)
  /\ \A type \in Types \ {"ResendRequest", "SequenceReset"} : Told(Msg(type))
  /\ \A id : Told(Heartbeat(id)) /\ Told(TestRequest(id))
BY DEF Told, NoMsg, Msg, Heartbeat, TestRequest, Types

\* What the handlers answer to a message with a number that was taken.
Seen(n, m) ==
  /\ legacy /\ n \in Nat \ {0} /\ m \in Message /\ Told(m)
  /\ ~Preserves(m) => m.seq <= MaxSeq

LEMMA UnexpectedIsTold ==
  ASSUME NEW n, NEW m, Seen(n, m), ~Preserves(m)
  PROVE  Told(Unexpected(n, m).reply)
<1>1. /\ n \in Nat /\ m.seq \in Nat /\ m.seq <= MaxSeq /\ EndAsked = FarSeqNo
      /\ MaxSeq \in Nat /\ FarSeqNo \in Nat /\ MaxSeq < FarSeqNo
  BY BoundsAreNumbers DEF Seen, Message, EndAsked
<1>2. CASE m.seq > n
  <2>1. Unexpected(n, m).reply = ResendRequest(n, FarSeqNo)
    BY <1>1, <1>2 DEF Unexpected, Outcome
  <2>2. n <= FarSeqNo
    BY <1>1, <1>2
  <2> QED BY <2>1, <2>2 DEF Told, ResendRequest, Msg
<1>3. CASE ~(m.seq > n)
  <2>1. Unexpected(n, m).reply = Msg("Logout")
    BY <1>3 DEF Unexpected, Outcome
  <2> QED BY <2>1, MsgIsTold DEF Types
<1> QED BY <1>2, <1>3

\* A gap fill that is not applied is not counted either.
LEMMA GapFilledIsTold ==
  ASSUME NEW n, NEW m, Seen(n, m), m.type = "SequenceReset"
  PROVE  /\ Told(GapFilled(n, m).reply)
         /\ Announces(n, m) \/ GapFilled(n, m).in = n - 1
<1>1. n \in Nat /\ m.seq \in Nat /\ m.to \in Nat /\ m.gap /\ m.seq < m.to
  BY DEF Seen, Message, Told
<1>2. CASE m.seq > n
  <2>1. m.seq > n /\ ~(m.seq < n) /\ ~(m.seq = n) /\ n <= m.seq
    BY <1>1, <1>2
  <2>2. GapFilled(n, m) = Outcome(n - 1, ResendRequest(n, m.seq), TRUE)
    BY <2>1, Zenon DEF GapFilled
  <2>3. GapFilled(n, m).reply = ResendRequest(n, m.seq) /\ GapFilled(n, m).in = n - 1
    BY <2>2 DEF Outcome
  <2>4. Told(ResendRequest(n, m.seq))
    BY <2>1 DEF Told, ResendRequest, Msg
  <2> QED BY <2>3, <2>4
<1>3. CASE m.seq < n
  <2>1. ~(m.seq > n) /\ m.seq < n /\ ~(m.seq = n)
    BY <1>1, <1>3
  <2>2. GapFilled(n, m) = Outcome(n - 1, Msg("Logout"), TRUE)
    BY <2>1, Zenon DEF GapFilled
  <2> QED BY <2>2, MsgIsTold DEF Outcome, Types
<1>4. CASE m.seq = n
  <2>1. ~(m.seq > n) /\ ~(m.seq < n) /\ m.seq = n /\ m.to > m.seq /\ ~(m.to <= m.seq)
    BY <1>1, <1>4
  <2>2. GapFilled(n, m) = Outcome(m.to - 1, NoMsg, TRUE)
    BY <2>1, Zenon DEF GapFilled
  <2>3. Announces(n, m)
    BY <2>1 DEF Announces
  <2> QED BY <2>2, <2>3, MsgIsTold DEF Outcome
<1> QED BY <1>1, <1>2, <1>3, <1>4

LEMMA AdminIsTold ==
  ASSUME NEW n, NEW m, Seen(n, m)
  PROVE  /\ Told(Admin(n, m).reply)
         /\ Preserves(m) /\ ~Announces(n, m) => Admin(n, m).in = n - 1
<1>1. CASE ~Expected(n, m)
  <2>1. ~Preserves(m) /\ Admin(n, m) = Unexpected(n, m)
    BY <1>1 DEF Admin, Expected, Preserves
  <2> QED BY <2>1, UnexpectedIsTold
<1>2. CASE m.type = "SequenceReset"
  <2>1. m.gap
    BY <1>2 DEF Seen, Told
  <2>2. Admin(n, m) = GapFilled(n, m)
    BY <1>2, <2>1 DEF Admin, Expected
  <2> QED BY <1>2, <2>2, GapFilledIsTold
<1>3. CASE Expected(n, m) /\ m.type = "ResendRequest"
  <2>1. Admin(n, m).reply = SequenceReset(m.from, m.to + 1, TRUE) /\ ~Preserves(m)
    BY <1>3 DEF Admin, Resent, Outcome, Preserves
  <2>2. m.from < m.to + 1
    BY <1>3 DEF Seen, Told, Message
  <2> QED BY <2>1, <2>2 DEF Told, SequenceReset, Msg
<1>4. CASE Expected(n, m) /\ m.type \notin {"SequenceReset", "ResendRequest"}
  <2>1. Admin(n, m).reply \in {NoMsg, Heartbeat(m.id)} /\ ~Preserves(m)
    BY <1>4 DEF Admin, TestReply, Outcome, Preserves
  <2> QED BY <2>1, MsgIsTold
<1> QED BY <1>1, <1>2, <1>3, <1>4

LEMMA LogonAdminIsTold ==
  ASSUME NEW n, NEW m, Seen(n, m)
  PROVE  Told(LogonAdmin(n, m).reply)
<1>1. CASE ~Expected(n, m)
  <2>1. ~Preserves(m) /\ LogonAdmin(n, m) = Unexpected(n, m)
    BY <1>1 DEF LogonAdmin, Expected, Preserves
  <2> QED BY <2>1, UnexpectedIsTold
<1>2. CASE Expected(n, m)
  <2>1. LogonAdmin(n, m).reply \in {NoMsg, Msg("Logout")}
    BY <1>2 DEF LogonAdmin, Outcome
  <2> QED BY <2>1, MsgIsTold DEF Types
<1> QED BY <1>1, <1>2

LEMMA FirstIsSeen ==
  ASSUME NEW p \in Peers, Ranges, Numbering, legacy, AllTold(wire), wire[p] # <<>>
  PROVE  Seen(in_msg_seq_num[p] + 1, First(p))
<1>1. /\ First(p) \in Message /\ First(p) \in Carried(wire[p])
      /\ in_msg_seq_num[p] + 1 \in Nat \ {0}
  BY FirstIs
<1>2. Told(First(p))
  BY <1>1 DEF AllTold
<1>3. ~Preserves(First(p)) => First(p).seq < out_msg_seq_num[Other(p)]
  <2>1. Other(p) \in Peers /\ Other(Other(p)) = p
    BY OtherIs
  <2> QED BY <1>1, <2>1 DEF Numbering, NumberingOn
<1>4. /\ out_msg_seq_num[Other(p)] \in 1..(MaxSeq + 1) /\ MaxSeq \in Nat
      /\ First(p).seq \in Nat
  BY <1>1, OtherIs, BoundsAreNumbers DEF Ranges, TypeOK, Message
<1> QED BY <1>1, <1>2, <1>3, <1>4 DEF Seen

LEMMA SendTells ==
  ASSUME NEW p \in Peers, NEW r, r = NoMsg \/ r \in Message, Told(r),
         NEW w \in [Peers -> Seq(Message)], AllTold(w), Ranges, SendIfAny(p, r, w)
  PROVE  AllTold(wire')
<1>1. wire'[p] = w[p] /\ (Silent(p, r, w) \/ Sent(p, r, w) \/ Failed(p, r, w))
  BY SendIs
<1>2. Other(p) \in Peers /\ \A q \in Peers : q = p \/ q = Other(p)
  BY OtherIs
<1>3. ASSUME NEW m \in Carried(wire'[Other(p)]) PROVE Told(m)
  <2>1. CASE wire'[Other(p)] = w[Other(p)]
    BY <1>2, <1>3, <2>1 DEF AllTold
  <2>2. CASE r # NoMsg /\ wire'[Other(p)] = Append(w[Other(p)], Numbered(p, r))
    <3>1. Numbered(p, r) \in Message /\ Told(Numbered(p, r))
      <4>1. r \in Message /\ out_msg_seq_num[p] \in Nat
        BY <2>2 DEF Ranges, TypeOK
      <4>2. Numbered(p, r) \in Message
        BY <4>1, NumberedIs
      <4>3. CASE Preserves(r)
        BY <4>1, <4>3 DEF Numbered
      <4>4. CASE ~Preserves(r)
        <5>1. /\ Numbered(p, r).type = r.type /\ Numbered(p, r).from = r.from
              /\ Numbered(p, r).to = r.to /\ r.type # "SequenceReset"
          BY <4>1, <4>4, NumberedIs DEF Preserves
        <5> QED BY <4>2, <5>1 DEF Told
      <4> QED BY <4>2, <4>3, <4>4
    <3>2. w[Other(p)] \in Seq(Message)
      BY <1>2
    <3>3. m \in Carried(w[Other(p)]) \cup {Numbered(p, r)}
      BY <1>3, <2>2, <3>1, <3>2, CarriedIs
    <3> QED BY <1>2, <3>1, <3>3 DEF AllTold
  <2> QED BY <1>1, <2>1, <2>2 DEF Silent, Sent, Failed
<1>4. ASSUME NEW m \in Carried(wire'[p]) PROVE Told(m)
  BY <1>1, <1>4 DEF AllTold
<1> QED BY <1>2, <1>3, <1>4 DEF AllTold

LEMMA DrainedIsTold ==
  ASSUME NEW p \in Peers, Ranges, AllTold(wire), wire[p] # <<>>
  PROVE  Drained(p) \in [Peers -> Seq(Message)] /\ AllTold(Drained(p))
<1>1. /\ wire \in [Peers -> Seq(Message)]
      /\ Tail(wire[p]) \in Seq(Message) /\ Carried(Tail(wire[p])) \subseteq Carried(wire[p])
  BY CarriedIs DEF Ranges
<1>2. Drained(p) = [wire EXCEPT ![p] = Tail(wire[p])]
  BY DEF Drained
<1>3. PICK w : w = Drained(p)
  OBVIOUS
<1>4. /\ w \in [Peers -> Seq(Message)] /\ w[p] = Tail(wire[p])
      /\ \A q \in Peers : q # p => w[q] = wire[q]
  BY <1>1, <1>2, <1>3
<1>5. AllTold(w)
  BY <1>1, <1>4 DEF AllTold
<1> QED BY <1>3, <1>4, <1>5

\* A receive: told what was told, and nothing unannounced but for its reader.
LEMMA TakeTells ==
  ASSUME NEW p \in Peers, NEW o, NEW next, Ranges, AllTold(wire), wire[p] # <<>>,
         o.reply = NoMsg \/ o.reply \in Message, Told(o.reply), Take(p, o, next)
  PROVE  /\ AllTold(wire') /\ resets' = resets
         /\ phase'[Other(p)] = phase[Other(p)]
         /\ unannounced'[Other(p)] = unannounced[Other(p)]
         /\ (Preserves(First(p)) /\ ~Announces(in_msg_seq_num[p] + 1, First(p))
               => o.in = in_msg_seq_num[p]) => unannounced'[p] = unannounced[p]
<1>1. /\ SendIfAny(p, o.reply, Drained(p)) /\ resets' = resets
      /\ phase' = [phase EXCEPT ![p] = IF LogsOut(o) THEN "grace" ELSE next]
  BY DEF Take
<1>2. AllTold(wire')
  BY <1>1, DrainedIsTold, SendTells
<1>3. /\ unannounced \in [Peers -> SUBSET Nat] /\ phase \in [Peers -> Phases]
      /\ Other(p) \in Peers /\ Other(p) # p /\ in_msg_seq_num[p] \in Nat
  BY OtherIs DEF Ranges, Histories, TypeOK
<1>4. phase'[Other(p)] = phase[Other(p)]
  BY <1>1, <1>3
<1>5. CASE ~Preserves(First(p)) \/ Announces(in_msg_seq_num[p] + 1, First(p))
  <2>1. unannounced' = unannounced
    BY <1>5 DEF Take, Preserves
  <2> QED BY <1>1, <1>2, <1>4, <2>1
<1>6. CASE Preserves(First(p)) /\ ~Announces(in_msg_seq_num[p] + 1, First(p))
  <2>1. PICK P : P = Passed(p, o)
    OBVIOUS
  <2>2. unannounced' = [unannounced EXCEPT ![p] = @ \cup P]
    BY <1>6, <2>1 DEF Take, Preserves
  <2>3. unannounced'[p] = unannounced[p] \cup P
        /\ unannounced'[Other(p)] = unannounced[Other(p)]
    BY <1>3, <2>2
  <2>4. o.in = in_msg_seq_num[p] => P = {}
    BY <1>3, <2>1 DEF Passed
  <2> QED BY <1>1, <1>2, <1>4, <1>6, <2>3, <2>4
<1> QED BY <1>5, <1>6

\* The client's receives concern the server only by what they send.
LEMMA ClientTells ==
  ASSUME NEW o, NEW next, Ranges, AllTold(wire), wire[Client] # <<>>,
         o.reply = NoMsg \/ o.reply \in Message, Told(o.reply), Take(Client, o, next)
  PROVE  /\ AllTold(wire') /\ phase'[Server] = phase[Server]
         /\ unannounced'[Server] = unannounced[Server]
<1>1. Client \in Peers /\ Other(Client) = Server
  BY OtherIs DEF Peers
<1> QED BY <1>1, TakeTells

LEMMA TakesTell ==
  ASSUME NEW p \in Peers, Ranges, Link, legacy, AllTold(wire), wire[p] # <<>>,
         NEW o, o = Admin(in_msg_seq_num[p] + 1, First(p)), NEW next, Take(p, o, next)
  PROVE  /\ AllTold(wire') /\ phase'[Other(p)] = phase[Other(p)]
         /\ unannounced' = unannounced
<1>1. PICK m : m = First(p)
  OBVIOUS
<1>2. PICK n : n = in_msg_seq_num[p] + 1
  OBVIOUS
<1>3. Seen(n, m) /\ m \in Message /\ n \in Nat \ {0} /\ in_msg_seq_num[p] \in Nat
  BY <1>1, <1>2, FirstIs, FirstIsSeen DEF Link
<1>4. Told(o.reply) /\ (Preserves(m) /\ ~Announces(n, m) => o.in = n - 1)
  BY <1>1, <1>2, <1>3, AdminIsTold
<1>5. o.reply = NoMsg \/ o.reply \in Message
  BY <1>1, <1>2, <1>3, AdminIsJudged DEF Judged, Sound
<1>6. n - 1 = in_msg_seq_num[p]
  BY <1>2, <1>3
<1>7. /\ AllTold(wire') /\ phase'[Other(p)] = phase[Other(p)]
      /\ unannounced'[Other(p)] = unannounced[Other(p)]
      /\ unannounced'[p] = unannounced[p]
  BY <1>1, <1>2, <1>4, <1>5, <1>6, TakeTells
<1>8. /\ unannounced \in [Peers -> SUBSET Nat] /\ \A q \in Peers : q = p \/ q = Other(p)
      /\ unannounced' \in [Peers -> SUBSET Nat]
  <2>1. Sound(n, m, o)
    BY <1>1, <1>2, <1>3, AdminIsJudged DEF Judged
  <2>2. unannounced \in [Peers -> SUBSET Nat] /\ o.in \in Nat
    BY <2>1 DEF Ranges, Histories, Sound
  <2>3. Passed(p, o) \subseteq Nat
    BY <1>3, <2>2 DEF Passed
  <2>4. \/ unannounced' = unannounced
        \/ unannounced' = [unannounced EXCEPT ![p] = @ \cup Passed(p, o)]
    BY DEF Take
  <2> QED BY <2>2, <2>3, <2>4, OtherIs
<1> QED BY <1>7, <1>8

LEMMA StepAnnounces ==
  ASSUME IInv, Announcing, Next, legacy' = legacy
  PROVE  Announcing'
<1>0. /\ Ranges /\ Link /\ Client \in Peers /\ Server \in Peers
      /\ Other(Client) = Server /\ Other(Server) = Client /\ Client # Server
      /\ phase \in [Peers -> Phases] /\ resets \in Nat
      /\ wire \in [Peers -> Seq(Message)]
  <2>1. Ranges /\ Link
    BY DEF IInv
  <2>2. Client \in Peers /\ Server \in Peers
    BY DEF Peers
  <2>3. Other(Client) = Server /\ Other(Server) = Client /\ Client # Server
    BY <2>2, OtherIs, PeersDiffer
  <2>4. phase \in [Peers -> Phases] /\ wire \in [Peers -> Seq(Message)]
    BY <2>1 DEF Ranges, TypeOK
  <2>5. resets \in 0..MaxResets /\ MaxResets \in Nat
    BY <2>1, BoundsAreNumbers DEF Ranges, TypeOK
  <2> QED BY <2>1, <2>2, <2>3, <2>4, <2>5
<1>1. resets' = resets \/ resets' = resets + 1
  BY DEF Next, AwaitLogon, AcceptLogon, Mismatch, LoopTakes, GraceTakes, GraceExpires,
         Take, SendOrder, KeepaliveTests, KeepaliveBeats, SendReset, ClientStops,
         ClientLogsOut, ScriptEnds, ServerLogsOut
<1>2. SUFFICES ASSUME legacy, resets = 0, resets' = 0
               PROVE  /\ AllTold(wire')
                      /\ phase'[Server] # "closed" => unannounced'[Server] = {}
  BY <1>0, <1>1 DEF Announcing
<1>3. AllTold(wire) /\ (phase[Server] # "closed" => unannounced[Server] = {})
  BY <1>2 DEF Announcing
<1>4. CASE AwaitLogon
  <2>1. PICK o : o = LogonAdmin(in_msg_seq_num[Client] + 1, First(Client))
    OBVIOUS
  <2>2. PICK next : wire[Client] # <<>> /\ Take(Client, o, next)
    BY <1>4, <2>1 DEF AwaitLogon
  <2>3. Seen(in_msg_seq_num[Client] + 1, First(Client))
    BY <1>0, <1>2, <1>3, <2>2, FirstIsSeen DEF Link
  <2>4. Told(o.reply) /\ (o.reply = NoMsg \/ o.reply \in Message)
    BY <2>1, <2>3, LogonAdminIsTold, LogonAdminIsSound DEF Seen, Sound
  <2> QED BY <1>0, <1>3, <2>2, <2>4, ClientTells
<1>5. ASSUME NEW r \in {NoMsg, Msg("Logon")}, wire[Server] # <<>>, NEW next,
             Take(Server, Outcome(in_msg_seq_num[Server] + 1, r, TRUE), next)
      PROVE  /\ AllTold(wire')
             /\ ~Preserves(First(Server)) => unannounced'[Server] = unannounced[Server]
             /\ next = "closed" => phase'[Server] = "closed"
  <2>1. PICK o : o = Outcome(in_msg_seq_num[Server] + 1, r, TRUE)
    OBVIOUS
  <2>2. o.reply = r /\ Told(r) /\ (r = NoMsg \/ r \in Message) /\ ~LogsOut(o)
    BY <2>1, MsgIs, MsgIsTold, NoMsgIs DEF Outcome, Types, LogsOut
  <2>3. Take(Server, o, next)
    BY <1>5, <2>1
  <2>4. next = "closed" => phase'[Server] = "closed"
    BY <1>0, <2>2, <2>3 DEF Take
  <2> QED BY <1>0, <1>3, <1>5, <2>2, <2>3, <2>4, TakeTells
<1>6. CASE AcceptLogon
  <2>1. PICK m : m = First(Server)
    OBVIOUS
  <2>2. /\ wire[Server] # <<>> /\ phase[Server] = "logon"
        /\ LogonReply(m) \in {NoMsg, Msg("Logon")}
        /\ Take(Server, Outcome(in_msg_seq_num[Server] + 1, LogonReply(m), TRUE),
                IF m.type = "Logon" THEN "up" ELSE "closed")
    BY <1>6, <2>1 DEF AcceptLogon, LogonReply
  <2>3. /\ AllTold(wire')
        /\ ~Preserves(m) => unannounced'[Server] = unannounced[Server]
        /\ m.type # "Logon" => phase'[Server] = "closed"
    BY <1>5, <2>1, <2>2
  <2> QED BY <1>3, <2>2, <2>3 DEF Preserves
<1>7. CASE Mismatch
  <2>1. /\ wire[Server] # <<>>
        /\ Take(Server, Outcome(in_msg_seq_num[Server] + 1, NoMsg, TRUE), "closed")
    BY <1>7 DEF Mismatch
  <2> QED BY <1>5, <2>1
<1>8. CASE \E p \in Peers : LoopTakes(p) \/ GraceTakes(p)
  <2>1. PICK p \in Peers : LoopTakes(p) \/ GraceTakes(p)
    BY <1>8
  <2>2. PICK o : o = Admin(in_msg_seq_num[p] + 1, First(p))
    OBVIOUS
  <2>3. PICK next : wire[p] # <<>> /\ phase[p] # "closed" /\ Take(p, o, next)
    BY <2>1, <2>2 DEF LoopTakes, GraceTakes
  <2>4. /\ AllTold(wire') /\ phase'[Other(p)] = phase[Other(p)]
        /\ unannounced' = unannounced
    BY <1>0, <1>2, <1>3, <2>2, <2>3, TakesTell
  <2>5. p = Client \/ p = Server
    BY DEF Peers
  <2> QED BY <1>0, <1>3, <2>3, <2>4, <2>5
<1>9. CASE \E p \in Peers : GraceExpires(p)
  <2>1. PICK p \in Peers : GraceExpires(p)
    BY <1>9
  <2>2. /\ phase[p] = "grace" /\ phase' = [phase EXCEPT ![p] = AfterGrace(p)]
        /\ wire' = wire /\ unannounced' = unannounced
    BY <2>1 DEF GraceExpires, history
  <2>3. p # Server => phase'[Server] = phase[Server]
    BY <1>0, <2>2
  <2>4. AllTold(wire')
    BY <1>3, <2>2 DEF AllTold
  <2> QED BY <1>3, <2>2, <2>3, <2>4
<1>10. ASSUME NEW m \in Message, Told(m), Send(Client, m, wire)
       PROVE  AllTold(wire')
  <2>1. m # NoMsg
    BY NoMsgIs DEF Message, Types
  <2>2. SendIfAny(Client, m, wire)
    BY <1>10, <2>1 DEF SendIfAny
  <2> QED BY <1>0, <1>3, <1>10, <2>2, SendTells
<1>11. CASE SendOrder \/ KeepaliveTests \/ KeepaliveBeats
  <2>1. PICK m \in Message : Told(m) /\ Initiates(m)
    <3>1. CASE SendOrder
      <4>1. Msg("Order") \in Message /\ Told(Msg("Order"))
        BY MsgIs, MsgIsTold DEF Types
      <4> QED BY <3>1, <4>1 DEF SendOrder
    <3>2. CASE KeepaliveTests
      <4>1. testreqid + 1 \in Nat
        BY <1>0 DEF Ranges, TypeOK
      <4>2. TestRequest(testreqid + 1) \in Message /\ Told(TestRequest(testreqid + 1))
        BY <4>1, HeartbeatIs, MsgIsTold
      <4> QED BY <3>2, <4>2 DEF KeepaliveTests
    <3>3. CASE KeepaliveBeats
      <4>1. Heartbeat(0) \in Message /\ Told(Heartbeat(0))
        BY HeartbeatIs, MsgIsTold
      <4> QED BY <3>3, <4>1 DEF KeepaliveBeats
    <3> QED BY <1>11, <3>1, <3>2, <3>3
  <2>2. Send(Client, m, wire) /\ phase' = phase /\ unannounced' = unannounced
    BY <2>1 DEF Initiates
  <2> QED BY <1>3, <1>10, <2>1, <2>2
<1>12. ~ \E new \in 1..(MaxOwn + 1) : SendReset(new)
  BY <1>2 DEF SendReset
<1>13. CASE ClientStops \/ ScriptEnds
  <2>1. /\ wire' = wire /\ unannounced' = unannounced
        /\ phase'[Server] = phase[Server] \/ phase[Server] = "up"
    BY <1>0, <1>13 DEF ClientStops, ScriptEnds, link, history
  <2>2. AllTold(wire')
    BY <1>3, <2>1 DEF AllTold
  <2> QED BY <1>3, <2>1, <2>2
<1>14. CASE ClientLogsOut
  <2>1. Msg("Logout") \in Message /\ Told(Msg("Logout"))
    BY MsgIs, MsgIsTold DEF Types
  <2>2. /\ Send(Client, Msg("Logout"), wire) /\ unannounced' = unannounced
        /\ phase' = [phase EXCEPT ![Client] = "grace"]
    BY <1>14 DEF ClientLogsOut, history
  <2>3. phase'[Server] = phase[Server]
    BY <1>0, <2>2
  <2> QED BY <1>3, <1>10, <2>1, <2>2, <2>3
<1>15. CASE ServerLogsOut
  <2>1. Msg("Logout") \in Message /\ Told(Msg("Logout")) /\ Msg("Logout") # NoMsg
    BY MsgIs, MsgIsTold DEF Types
  <2>2. /\ wire[Server] # <<>> /\ SendIfAny(Server, Msg("Logout"), Drained(Server))
        /\ phase' = [phase EXCEPT ![Server] = "closed"]
    BY <1>15, <2>1 DEF ServerLogsOut, SendIfAny
  <2>3. AllTold(wire')
    BY <1>0, <1>3, <2>1, <2>2, DrainedIsTold, SendTells
  <2> QED BY <1>0, <2>2, <2>3
<1> QED BY <1>4, <1>6, <1>7, <1>8, <1>9, <1>11, <1>12, <1>13, <1>14, <1>15 DEF Next

LEMMA AnnouncingHolds == Spec => []Announcing
<1>1. Init => Announcing
  <2> SUFFICES ASSUME Init PROVE AllTold(wire) /\ unannounced[Server] = {}
    BY DEF Announcing
  <2>1. /\ Client \in Peers /\ Server \in Peers /\ unannounced[Server] = {}
        /\ \A q \in Peers :
             wire[q] = IF q = Server THEN <<[Msg("Logon") EXCEPT !.seq = 1]>> ELSE <<>>
    BY DEF Init, Peers
  <2>2. \A q \in Peers : \A m \in Carried(wire[q]) : m.type = "Logon"
    BY <2>1 DEF Carried, Msg
  <2> QED BY <2>1, <2>2 DEF AllTold, Told
<1>2. IInv /\ Announcing /\ [Next /\ UNCHANGED legacy]_vars => Announcing'
  <2>1. ASSUME Announcing, UNCHANGED vars PROVE Announcing'
    <3>1. /\ legacy' = legacy /\ resets' = resets /\ wire' = wire /\ phase' = phase
          /\ unannounced' = unannounced
      BY <2>1 DEF vars, state, history
    <3> QED BY <2>1, <3>1 DEF Announcing, AllTold
  <2> QED BY <2>1, StepAnnounces
<1> QED BY <1>1, <1>2, InvariantHolds, PTL DEF Spec

-----------------------------------------------------------------------------
(***************************************************************************)
(* The theorems.                                                           *)
(***************************************************************************)

\* Type correctness: the sessions' numbers, phases and the messages between
\* them stay in their ranges, and fix_session_logout is on a peer's stack
\* exactly while it waits in it, however deep fix_session_admin nests it.
THEOREM TypeCorrect == Spec => []TypeOK
<1>1. IInv => TypeOK
  BY DEF IInv, Ranges
<1> QED BY <1>1, InvariantHolds, PTL

\* Without a failed send or a reset the two fix_session structures never lose
\* step: what one has numbered is what the other has counted and will receive.
THEOREM AlwaysInStep == Spec => []InStep
<1>1. IInv => InStep
  BY DEF IInv, Link, InOrder, InOrderOn, InStep
<1> QED BY <1>1, InvariantHolds, PTL

\* With dialects after FIX 4.1, no mixture of failed sends, ResendRequests and
\* gap fills makes fix_session_admin expect a number that its peer has still to
\* give to a message: in_msg_seq_num stays below the peer's out_msg_seq_num.
THEOREM NeverGetsAhead == Spec => []NeverAhead
<1>1. IInv => NeverAhead
  <2> SUFFICES ASSUME IInv, ~legacy, resets = 0, NEW p \in Peers
               PROVE  in_msg_seq_num[p] < out_msg_seq_num[Other(p)]
    BY DEF NeverAhead
  <2>1. OwedOn(in_msg_seq_num, wire, p, NoMsg)
    BY DEF IInv, Link, Owed
  <2>2. in_msg_seq_num[p] + Len(wire[p]) + Awaited(wire[Other(p)], "ResendRequest", NoMsg)
          < out_msg_seq_num[Other(p)]
    BY <2>1 DEF OwedOn
  <2>3. /\ in_msg_seq_num[p] \in Nat /\ out_msg_seq_num[Other(p)] \in Nat
        /\ Len(wire[p]) \in Nat
        /\ Awaited(wire[Other(p)], "ResendRequest", NoMsg) \in Nat
    <3>1. /\ in_msg_seq_num[p] \in Nat /\ out_msg_seq_num[Other(p)] \in Nat
          /\ wire[p] \in Seq(Message) /\ wire[Other(p)] \in Seq(Message)
      BY OtherIs DEF IInv, Ranges, TypeOK
    <3>2. Cardinality(Requests(wire[Other(p)])) \in Nat
      BY <3>1, RequestsFinite
    <3>3. IsOf(NoMsg, "ResendRequest") \in {0, 1}
      BY DEF IsOf
    <3> QED BY <3>1, <3>2, <3>3, LenProperties DEF Awaited
  <2> QED BY <2>2, <2>3
<1> QED BY <1>1, InvariantHolds, PTL

\* While the server is active in its loop, an order it has counted past, or a
\* number that a failed send took from the client, was handed to its user or
\* announced as skipped by a SequenceReset that it applied.  The exceptions are
\* the numbers counted with a SequenceReset that says nothing of them, a gap fill
\* that fix_session_admin rejects among them; a legacy dialect has none of these
\* unless its user sends a reset.
THEOREM AlwaysAccounted == Spec => []Accounted
<1>1. IInv /\ Announcing => Accounted
  <2> SUFFICES ASSUME IInv, Announcing, active[Server], phase[Server] = "up",
                      NEW n \in ordered \cup lost[Client], n <= in_msg_seq_num[Server]
               PROVE  n \in delivered \cup skipped[Server] \cup Silently
    BY DEF Accounted
  <2>1. n \in delivered \cup Moved[Server]
    BY DEF IInv, AllAccounted
  <2>2. Moved[Server] = skipped[Server] \cup unannounced[Server]
    BY MovedIs DEF IInv, Ranges, Peers
  <2>3. legacy /\ resets = 0 => unannounced[Server] = {}
    BY DEF Announcing
  <2> QED BY <2>1, <2>2, <2>3 DEF Silently
<1> QED BY <1>1, InvariantHolds, AnnouncingHolds, PTL

\* No number is both handed to the user as an order and lost, or counted with a
\* SequenceReset, whether that announces it as skipped or not.
THEOREM AlwaysDeliveredOrSkipped == Spec => []DeliveredOrSkipped
<1>1. IInv => DeliveredOrSkipped
  <2>1. Histories /\ Server \in Peers
        => Moved[Server] = skipped[Server] \cup unannounced[Server]
    BY MovedIs
  <2> QED BY <2>1 DEF IInv, Ranges, Peers, NoneTwice, DeliveredOrSkipped
<1> QED BY <1>1, InvariantHolds, PTL

\* fix_session_recv counts a message before it is judged, and every handler
\* gives back at most that one number: in_msg_seq_num never falls.
THEOREM NumbersNeverFall == Spec => ExpectedNeverFalls
<1>1. ASSUME IInv, [Next /\ UNCHANGED legacy]_vars
      PROVE  [\A p \in Peers : in_msg_seq_num'[p] >= in_msg_seq_num[p]]_vars
  <2>1. CASE UNCHANGED vars
    BY <2>1
  <2>2. CASE Next /\ legacy' = legacy
    <3>1. PICK q \in Peers : Moves(q)
      BY <1>1, <2>2, StepKeeps
    <3>2. \A p \in Peers : in_msg_seq_num[p] \in Nat
      BY <1>1 DEF IInv, Ranges, TypeOK
    <3>3. /\ in_msg_seq_num'[Other(q)] = in_msg_seq_num[Other(q)]
          /\ in_msg_seq_num'[q] >= in_msg_seq_num[q]
      BY <3>1 DEF Moves
    <3>4. \A p \in Peers : p = q \/ p = Other(q)
      BY OtherIs
    <3>5. \A p \in Peers : in_msg_seq_num'[p] >= in_msg_seq_num[p]
      BY <3>2, <3>3, <3>4
    <3> QED BY <3>5
  <2> QED BY <1>1, <2>1, <2>2
<1> QED BY <1>1, InvariantHolds, PTL DEF Spec, ExpectedNeverFalls

\* Only the server's loop hands out orders, each in its turn.
LEMMA DeliversInTurn ==
  ASSUME IInv, Next, legacy' = legacy, delivered' # delivered
  PROVE  in_msg_seq_num[Server] + 1 < out_msg_seq_num[Client]
<1>0. /\ Ranges /\ Link /\ Client \in Peers /\ Server \in Peers
      /\ Other(Client) = Server
  BY OtherIs DEF IInv, Peers
<1>1. PICK p \in Peers : LoopTakes(p)
  <2>1. ~AwaitLogon /\ ~AcceptLogon /\ ~Mismatch /\ ~ServerLogsOut
    BY DEF AwaitLogon, AcceptLogon, Mismatch, ServerLogsOut, history
  <2>2. ~ClientActs
    BY <1>0, ClientActsMoves
  <2>3. \A p \in Peers : ~GraceTakes(p) /\ ~GraceExpires(p)
    BY DEF GraceTakes, GraceExpires, history
  <2>4. ~ClientStops /\ ~ScriptEnds
    BY DEF ClientStops, ScriptEnds, history
  <2> QED BY <2>1, <2>2, <2>3, <2>4 DEF Next, ClientActs
<1>2. PICK m : m = First(p)
  OBVIOUS
<1>3. PICK o : o = Admin(in_msg_seq_num[p] + 1, m)
  OBVIOUS
<1>4. /\ Judged(in_msg_seq_num[p] + 1, m, o) /\ m \in Carried(wire[p])
      /\ delivered' = IF m.type = "Order" /\ ~o.handled
                      THEN delivered \cup {m.seq} ELSE delivered
  <2>1. TakesInLoop(p, m, o)
    BY <1>0, <1>1, <1>2, <1>3, LoopTakesMoves
  <2> QED BY <2>1 DEF TakesInLoop
<1>5. m.type = "Order" /\ ~o.handled
  BY <1>4
<1>6. p = Server
  BY <1>0, <1>4, <1>5 DEF Link, Orders, OrdersOn, Peers
<1>7. m.seq = in_msg_seq_num[Server] + 1
  BY <1>4, <1>5, <1>6 DEF Judged
<1>8. m.seq < out_msg_seq_num[Client]
  BY <1>0, <1>4, <1>5, <1>6 DEF Link, Numbering, NumberingOn, Preserves
<1> QED BY <1>7, <1>8

\* The gap fill up to 999999 that answers a FIX 4.0 or 4.1 ResendRequest ends
\* the flow of orders: once the server has applied it, every number the client
\* can still give is too low, and fix_session_admin hands out no order.
THEOREM FarJumpEndsDelivery == Spec => NothingAfterFarJump
<1>1. ASSUME IInv, [Next /\ UNCHANGED legacy]_vars
      PROVE  [in_msg_seq_num[Server] >= FarSeqNo => delivered' = delivered]_vars
  <2>1. CASE UNCHANGED vars
    BY <2>1
  <2>2. CASE Next /\ legacy' = legacy
    <3>1. /\ in_msg_seq_num[Server] \in Nat /\ out_msg_seq_num[Client] \in 1..(MaxSeq + 1)
          /\ MaxSeq \in Nat /\ FarSeqNo \in Nat /\ MaxSeq < FarSeqNo
      BY <1>1, BoundsAreNumbers DEF IInv, Ranges, TypeOK, Peers
    <3>2. ASSUME delivered' # delivered
          PROVE  in_msg_seq_num[Server] < FarSeqNo
      BY <1>1, <2>2, <3>1, <3>2, DeliversInTurn
    <3> QED BY <3>1, <3>2
  <2> QED BY <1>1, <2>1, <2>2
<1> QED BY <1>1, InvariantHolds, PTL DEF Spec, NothingAfterFarJump
=============================================================================
