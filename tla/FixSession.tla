----------------------------- MODULE FixSession -----------------------------
(***************************************************************************)
(* Two FIX peers on one TCP connection: sequence numbers, administrative   *)
(* messages, logon and logout, as lib/proto/fix_session.c and              *)
(* tools/fix/fix_common.c handle them.  The client is the loop of          *)
(* tools/cert/micex/forts.c (logon, receive and administer, logout), the   *)
(* server that of fix_server_script in tools/fix/fix_server.c, with a      *)
(* script that expects whatever the client happens to send.                *)
(*                                                                         *)
(* The connection neither loses nor reorders.  What puts the peers out of  *)
(* step is a send that fails after it took its number, and a reset of the  *)
(* number by the user.  No peer ever sets PossDupFlag, so a number that is *)
(* too low always ends the session.                                        *)
(***************************************************************************)
EXTENDS Integers, Sequences, FiniteSets

CONSTANTS
  Client, Server,  \* the two peers
  Dialects,        \* the values dialect->version <= FIX_4_1 may have
  FarSeqNo,        \* stands for the EndSeqNo 999999 of legacy dialects
  MaxOwn,          \* bound: the client initiates no message above it
  MaxSeq,          \* bound: no peer takes an own number above it
  MaxFailed,       \* bound on the sends that fail
  MaxResets        \* bound on the SequenceResets the client initiates

ASSUME PeersDiffer == Client # Server
ASSUME BoundsAreNumbers ==
  /\ Dialects \subseteq BOOLEAN
  /\ {FarSeqNo, MaxOwn, MaxSeq, MaxFailed, MaxResets} \subseteq Nat
  /\ MaxOwn < MaxSeq /\ MaxSeq < FarSeqNo

Peers == {Client, Server}
Other(p) == IF p = Client THEN Server ELSE Client

VARIABLES
  legacy,           \* dialect->version <= FIX_4_1, the same for both peers
  in_msg_seq_num,   \* per peer: the number of the last message taken
  out_msg_seq_num,  \* per peer: the number the next message gets
  active,           \* per peer: session->active
  testreqid,        \* the id of the client's last TestRequest (0: none)
  tr_pending,       \* it is not answered yet
  phase,            \* per peer: where its program is, see Phases
  depth,            \* per peer: fix_session_logout calls on its stack
  wire,             \* per peer: the messages on their way to it
  failed,           \* number of sends that failed
  resets,           \* number of SequenceResets the client initiated
  lost,             \* history, per peer: numbers its failed sends took
  skipped,          \* history, per peer: numbers SequenceResets moved it past
  unannounced,      \* history, per peer: numbers it counted with one that does not
  ordered,          \* history: the numbers of the orders that went out
  delivered         \* history: the numbers of the orders the server took

numbers == <<in_msg_seq_num, out_msg_seq_num>>
link == <<out_msg_seq_num, wire, failed, lost>>
history == <<skipped, unannounced, ordered, delivered>>
state == <<in_msg_seq_num, out_msg_seq_num, active, testreqid, tr_pending,
          phase, depth, wire, failed, resets, lost, history>>
vars == <<legacy, state>>

\* logon: waits for a Logon; up: in its loop; stop: the client left its loop;
\* grace: in fix_session_logout; bye: in fix_server_logout; closed: done.
Phases == {"logon", "up", "stop", "grace", "bye", "closed"}

Types == {"Logon", "Logout", "Heartbeat", "TestRequest", "ResendRequest",
          "SequenceReset", "Reject", "Order"}

\* A message: its type, MsgSeqNum, TestReqID (0: absent), BeginSeqNo, EndSeqNo
\* or NewSeqNo, and GapFillFlag.
Msg(type) == [type |-> type, seq |-> 0, id |-> 0,
              from |-> 0, to |-> 0, gap |-> FALSE]
Heartbeat(id) == [Msg("Heartbeat") EXCEPT !.id = id]
TestRequest(id) == [Msg("TestRequest") EXCEPT !.id = id]
ResendRequest(b, e) == [Msg("ResendRequest") EXCEPT !.from = b, !.to = e]
SequenceReset(n, new, gap) ==
  [Msg("SequenceReset") EXCEPT !.seq = n, !.to = new, !.gap = gap]
NoMsg == Msg("None")

\* fix_session_new with the default configuration, and a client that has
\* sent its Logon: fix_session_logon sets `active` before it waits.
Init ==
  /\ legacy \in Dialects
  /\ in_msg_seq_num = [p \in Peers |-> 0]
  /\ out_msg_seq_num = [p \in Peers |-> IF p = Client THEN 2 ELSE 1]
  /\ active = [p \in Peers |-> p = Client]
  /\ testreqid = 0 /\ tr_pending = FALSE
  /\ phase = [p \in Peers |-> "logon"]
  /\ depth = [p \in Peers |-> 0]
  /\ wire = [p \in Peers |-> IF p = Server
                             THEN <<[Msg("Logon") EXCEPT !.seq = 1]>>
                             ELSE <<>>]
  /\ failed = 0 /\ resets = 0
  /\ lost = [p \in Peers |-> {}] /\ skipped = [p \in Peers |-> {}]
  /\ unannounced = [p \in Peers |-> {}]
  /\ ordered = {} /\ delivered = {}

-----------------------------------------------------------------------------
(***************************************************************************)
(* fix_session_send.  A SequenceReset preserves the number it was given,   *)
(* every other message takes the next one, and takes it even if the send   *)
(* fails.  w is the wire without the message being handled.                *)
(***************************************************************************)
PreservesReplies(m) == m.type \in {"SequenceReset", "Heartbeat"}
Preserves(m) == m.type = "SequenceReset"
Numbered(p, m) ==
  IF Preserves(m) THEN m ELSE [m EXCEPT !.seq = out_msg_seq_num[p]]

Send(p, m, w) ==
  /\ out_msg_seq_num[p] <= MaxSeq
  /\ out_msg_seq_num' =
       [out_msg_seq_num EXCEPT ![p] = IF Preserves(m) THEN @ ELSE @ + 1]
  /\ \/ /\ wire' = [w EXCEPT ![Other(p)] = Append(@, Numbered(p, m))]
        /\ UNCHANGED <<failed, lost>>
     \/ /\ failed < MaxFailed
        /\ failed' = failed + 1
        /\ wire' = w
        /\ lost' = [lost EXCEPT ![p] =
                      IF Preserves(m) THEN @ ELSE @ \cup {out_msg_seq_num[p]}]

SendIfAny(p, m, w) ==
  IF m = NoMsg
  THEN wire' = w /\ UNCHANGED <<out_msg_seq_num, failed, lost>>
  ELSE Send(p, m, w)

-----------------------------------------------------------------------------
(***************************************************************************)
(* What a handler decides about a message m, with n the in_msg_seq_num that *)
(* fix_session_recv has already counted it in: the number to go on with,   *)
(* the message to send, and whether the caller is done with m.  A reply    *)
(* that is a Logout is a call of fix_session_logout.                       *)
(***************************************************************************)
Outcome(n, reply, handled) == [in |-> n, reply |-> reply, handled |-> handled]

ExpectedOrLower(n, m) == m.seq <= n \/ m.type = "SequenceReset"
Expected(n, m) == m.seq = n \/ m.type = "SequenceReset"

\* fix_do_unexpected: in both cases m is not counted.
EndAskedSwapped == IF legacy THEN 0 ELSE FarSeqNo
EndAsked == IF legacy THEN FarSeqNo ELSE 0
UnexpectedStaysCounted(n, m) ==
  IF m.seq > n THEN Outcome(n, ResendRequest(n, EndAsked), TRUE)
               ELSE Outcome(n - 1, Msg("Logout"), TRUE)
UnexpectedUncountsTwice(n, m) ==
  IF m.seq > n THEN Outcome(n - 2, ResendRequest(n, EndAsked), TRUE)
               ELSE Outcome(n - 2, Msg("Logout"), TRUE)
Unexpected(n, m) ==
  IF m.seq > n THEN Outcome(n - 1, ResendRequest(n, EndAsked), TRUE)
               ELSE Outcome(n - 1, Msg("Logout"), TRUE)

\* SequenceReset with GapFillFlag = Y.
GapFilledUnchecked(n, m) ==
  CASE m.seq > n -> Outcome(n - 1, ResendRequest(n, m.seq), TRUE)
    [] m.seq < n -> Outcome(n - 1, Msg("Logout"), TRUE)
    [] m.seq = n -> Outcome(m.to - 1, NoMsg, TRUE)
GapFilled(n, m) ==
  CASE m.seq > n -> Outcome(n - 1, ResendRequest(n, m.seq), TRUE)
    [] m.seq < n -> Outcome(n - 1, Msg("Logout"), TRUE)
    [] m.seq = n /\ m.to > m.seq -> Outcome(m.to - 1, NoMsg, TRUE)
    [] m.seq = n /\ m.to <= m.seq -> Outcome(n, Msg("Reject"), TRUE)

\* SequenceReset without it: only NewSeqNo counts.
ResetUnchecked(n, m) == Outcome(m.to - 1, NoMsg, TRUE)
Reset(n, m) ==
  CASE m.to > n -> Outcome(m.to - 1, NoMsg, TRUE)
    [] m.to < n -> Outcome(n - 1, Msg("Reject"), TRUE)
    [] m.to = n -> Outcome(n, NoMsg, TRUE)

\* The answer to a ResendRequest is a gap fill up to EndSeqNo + 1: nothing is
\* sent again.
Resent(m) == SequenceReset(m.from, m.to + 1, TRUE)

\* A TestRequest is answered with its id.
TestReplyWithoutId(m) == Heartbeat(0)
TestReply(m) == Heartbeat(m.id)

Admin(n, m) ==
  IF ~Expected(n, m) THEN Unexpected(n, m)
  ELSE CASE m.type = "Heartbeat" -> Outcome(n, NoMsg, TRUE)
         [] m.type = "TestRequest" -> Outcome(n, TestReply(m), TRUE)
         [] m.type = "ResendRequest" -> Outcome(n, Resent(m), TRUE)
         [] m.type = "SequenceReset" ->
              IF m.gap THEN GapFilled(n, m) ELSE Reset(n, m)
         [] OTHER -> Outcome(n, NoMsg, FALSE)

\* The same for the messages fix_session_logon waits among.
LogonAdmin(n, m) ==
  IF ~Expected(n, m) THEN Unexpected(n, m)
  ELSE IF m.type = "Logon" THEN Outcome(n, NoMsg, FALSE)
  ELSE Outcome(n, Msg("Logout"), TRUE)

LogsOut(o) == o.reply.type = "Logout"

\* An expected Heartbeat with the id of the TestRequest answers it.
Answers(p, m) ==
  /\ p = Client /\ m.type = "Heartbeat" /\ m.id # 0 /\ m.id = testreqid
  /\ Expected(in_msg_seq_num[p] + 1, m)

-----------------------------------------------------------------------------
(***************************************************************************)
(* One message received.  The loops differ in the outcome o they work out  *)
(* and in the phase `next' they go to.                                     *)
(***************************************************************************)
First(p) == Head(wire[p])
Drained(p) == [wire EXCEPT ![p] = Tail(@)]

\* A SequenceReset that is applied says of the numbers before its NewSeqNo that
\* nothing more comes.  One that is rejected, or has the number n that is
\* expected for its NewSeqNo, says nothing of n, with which it is counted.
Announces(n, m) == m.to > n /\ (m.gap => m.seq = n)
Passed(p, o) == (in_msg_seq_num[p] + 1)..o.in

Take(p, o, next) ==
  /\ in_msg_seq_num' = [in_msg_seq_num EXCEPT ![p] = o.in]
  /\ SendIfAny(p, o.reply, Drained(p))
  /\ phase' = [phase EXCEPT ![p] = IF LogsOut(o) THEN "grace" ELSE next]
  /\ IF First(p).type # "SequenceReset" THEN UNCHANGED <<skipped, unannounced>>
     ELSE IF Announces(in_msg_seq_num[p] + 1, First(p))
     THEN /\ skipped' = [skipped EXCEPT ![p] = @ \cup Passed(p, o)]
          /\ UNCHANGED unannounced
     ELSE /\ unannounced' = [unannounced EXCEPT ![p] = @ \cup Passed(p, o)]
          /\ UNCHANGED skipped
  /\ UNCHANGED <<resets, ordered>>

\* fix_session_logout clears `active' and waits inside the caller's loop.
NestsLogout(p, o) ==
  IF LogsOut(o)
  THEN /\ active' = [active EXCEPT ![p] = FALSE]
       /\ depth' = [depth EXCEPT ![p] = @ + 1]
  ELSE UNCHANGED <<active, depth>>

\* fix_session_logon
AwaitLogon ==
  /\ phase[Client] = "logon" /\ wire[Client] # <<>>
  /\ LET m == First(Client)
         o == LogonAdmin(in_msg_seq_num[Client] + 1, m)
     IN  /\ Take(Client, o, IF o.handled THEN "logon" ELSE "up")
         /\ NestsLogout(Client, o)
  /\ UNCHANGED <<testreqid, tr_pending, delivered>>

\* fix_server_logon: the number of the Logon is not looked at.
LogonReply(m) == IF m.type = "Logon" THEN Msg("Logon") ELSE NoMsg
AcceptLogon ==
  /\ phase[Server] = "logon" /\ wire[Server] # <<>>
  /\ LET m == First(Server)
     IN  /\ Take(Server,
                 Outcome(in_msg_seq_num[Server] + 1, LogonReply(m), TRUE),
                 IF m.type = "Logon" THEN "up" ELSE "closed")
         /\ active' = [active EXCEPT ![Server] = m.type = "Logon"]
  /\ UNCHANGED <<depth, testreqid, tr_pending, delivered>>

\* A message in the loop of the client or of the server.  What fix_session_admin
\* leaves alone stops the client (Reject, Logout, a second Logon) and, if it
\* is a Logon or a Logout, makes the server leave without an answer.
AfterUnhandled(p, m) ==
  IF p = Client THEN "stop"
  ELSE IF m.type \in {"Logon", "Logout"} THEN "closed" ELSE "up"

LoopTakes(p) ==
  /\ phase[p] = "up" /\ wire[p] # <<>>
  /\ LET m == First(p)
         o == Admin(in_msg_seq_num[p] + 1, m)
     IN  /\ Take(p, o, IF o.handled THEN "up" ELSE AfterUnhandled(p, m))
         /\ NestsLogout(p, o)
         /\ tr_pending' = (tr_pending /\ ~Answers(p, m))
         /\ delivered' = IF m.type = "Order" /\ ~o.handled
                         THEN delivered \cup {m.seq} ELSE delivered
  /\ UNCHANGED testreqid

\* The server's script expects something else: it leaves without an answer.
Mismatch ==
  /\ phase[Server] = "up" /\ wire[Server] # <<>>
  /\ Take(Server, Outcome(in_msg_seq_num[Server] + 1, NoMsg, TRUE), "closed")
  /\ UNCHANGED <<active, depth, testreqid, tr_pending, delivered>>

\* The wait of fix_session_logout.  A message fix_session_admin leaves alone
\* ends the innermost call: with 0 if it is a Logout and with -1 if not, which
\* the callers do not tell apart.  When the outermost returns, the client is done
\* and the server back in its loop, which does not look at `active'.
AfterGraceLoops(p) == "up"
AfterGrace(p) == IF p = Client THEN "closed" ELSE "up"

GraceTakes(p) ==
  /\ phase[p] = "grace" /\ wire[p] # <<>>
  /\ LET m == First(p)
         o == Admin(in_msg_seq_num[p] + 1, m)
     IN  /\ Take(p, o, IF o.handled \/ depth[p] > 1 THEN "grace"
                       ELSE AfterGrace(p))
         /\ tr_pending' = (tr_pending /\ ~Answers(p, m))
         /\ depth' = [depth EXCEPT ![p] =
                        IF LogsOut(o) THEN @ + 1
                        ELSE IF o.handled THEN @ ELSE @ - 1]
  /\ UNCHANGED <<active, testreqid, delivered>>

\* More than two seconds passed.  The outer calls started earlier, so all of
\* them return.
GraceExpires(p) ==
  /\ phase[p] = "grace"
  /\ phase' = [phase EXCEPT ![p] = AfterGrace(p)]
  /\ depth' = [depth EXCEPT ![p] = 0]
  /\ UNCHANGED <<numbers, active, testreqid, tr_pending, wire, failed, resets,
                 lost, history>>

-----------------------------------------------------------------------------
(***************************************************************************)
(* What the users of the session start.                                    *)
(***************************************************************************)
Initiates(m) ==
  /\ phase[Client] \in {"up", "stop"}
  /\ out_msg_seq_num[Client] <= MaxOwn
  /\ Send(Client, m, wire)
  /\ UNCHANGED <<in_msg_seq_num, active, phase, depth, skipped, unannounced,
                 delivered>>

\* fix_session_new_order_single and its like.
SendOrder ==
  /\ Initiates(Msg("Order"))
  /\ ordered' = IF failed' = failed
                THEN ordered \cup {out_msg_seq_num[Client]} ELSE ordered
  /\ UNCHANGED <<testreqid, tr_pending, resets>>

\* fix_session_keepalive, its times left open: a silent peer is tested, a test
\* that is not answered in time ends the loop, an idle client sends a Heartbeat.
KeepaliveTests ==
  /\ phase[Client] = "up" /\ ~tr_pending
  /\ Initiates(TestRequest(testreqid + 1))
  /\ testreqid' = testreqid + 1 /\ tr_pending' = TRUE
  /\ UNCHANGED <<resets, ordered>>

KeepaliveBeats ==
  /\ phase[Client] = "up"
  /\ Initiates(Heartbeat(0))
  /\ UNCHANGED <<testreqid, tr_pending, resets, ordered>>

\* fix_session_sequence_reset without gap_fill: the own number stays.
SendReset(new) ==
  /\ resets < MaxResets
  /\ resets' = resets + 1
  /\ Initiates(SequenceReset(out_msg_seq_num[Client], new, FALSE))
  /\ UNCHANGED <<testreqid, tr_pending, ordered>>

\* The client leaves its loop: SIGINT, a dead peer, market data that failed.
ClientStops ==
  /\ phase[Client] = "up"
  /\ phase' = [phase EXCEPT ![Client] = "stop"]
  /\ UNCHANGED <<in_msg_seq_num, link, active, testreqid, tr_pending, depth,
                 resets, history>>

ClientLogsOut ==
  /\ phase[Client] = "stop"
  /\ Send(Client, Msg("Logout"), wire)
  /\ active' = [active EXCEPT ![Client] = FALSE]
  /\ phase' = [phase EXCEPT ![Client] = "grace"]
  /\ depth' = [depth EXCEPT ![Client] = 1]
  /\ UNCHANGED <<in_msg_seq_num, testreqid, tr_pending, resets, history>>

\* The server's script ends; fix_server_logout waits only if `active'.
ScriptEnds ==
  /\ phase[Server] = "up"
  /\ phase' = [phase EXCEPT ![Server] =
                 IF active[Server] THEN "bye" ELSE "closed"]
  /\ UNCHANGED <<in_msg_seq_num, link, active, testreqid, tr_pending, depth,
                 resets, history>>

\* fix_server_logout: whatever comes is answered with a Logout.
ServerLogsOut ==
  /\ phase[Server] = "bye" /\ wire[Server] # <<>>
  /\ in_msg_seq_num' = [in_msg_seq_num EXCEPT ![Server] = @ + 1]
  /\ Send(Server, Msg("Logout"), Drained(Server))
  /\ phase' = [phase EXCEPT ![Server] = "closed"]
  /\ UNCHANGED <<active, testreqid, tr_pending, depth, resets, history>>

Next ==
  \/ AwaitLogon \/ AcceptLogon \/ Mismatch
  \/ \E p \in Peers : LoopTakes(p) \/ GraceTakes(p) \/ GraceExpires(p)
  \/ SendOrder \/ KeepaliveTests \/ KeepaliveBeats
  \/ \E new \in 1..(MaxOwn + 1) : SendReset(new)
  \/ ClientStops \/ ClientLogsOut \/ ScriptEnds \/ ServerLogsOut

Spec == Init /\ [][Next /\ UNCHANGED legacy]_vars

\* Both programs poll their sockets (or block until something comes) and look
\* at the clock, so what has arrived is taken and a grace period ends.
FairSpec ==
  /\ Spec
  /\ WF_state(AwaitLogon) /\ WF_state(AcceptLogon)
  /\ \A p \in Peers : WF_state(LoopTakes(p)) /\ WF_state(GraceTakes(p))
                      /\ WF_state(GraceExpires(p))
  /\ WF_state(ClientLogsOut) /\ WF_state(ServerLogsOut)

-----------------------------------------------------------------------------
\* The state of both sessions is in its ranges: no number of a peer is ever
\* decremented below zero, and a logout is nested exactly while it waits.
TypeOK ==
  /\ in_msg_seq_num \in [Peers -> Nat]
  /\ out_msg_seq_num \in [Peers -> 1..(MaxSeq + 1)]
  /\ active \in [Peers -> BOOLEAN]
  /\ testreqid \in Nat /\ tr_pending \in BOOLEAN
  /\ phase \in [Peers -> Phases]
  /\ depth \in [Peers -> Nat]
  /\ \A p \in Peers : (phase[p] = "grace") <=> (depth[p] > 0)
  /\ \A p \in Peers : \A i \in 1..Len(wire[p]) :
       wire[p][i].type \in Types /\ wire[p][i].seq \in Nat
  /\ failed \in 0..MaxFailed /\ resets \in 0..MaxResets

\* While no send fails, the peers stay in step through every message they
\* exchange, administrative replies and logouts included: what a peer has
\* counted and what is on its way to it is what the other has numbered.
InStep ==
  failed = 0 /\ resets = 0 => \A p \in Peers :
    in_msg_seq_num[p] + Len(wire[p]) = out_msg_seq_num[Other(p)] - 1

\* No sequence of gaps, gap fills and rejects makes a peer expect a number the
\* other one is still to give to a second message (dialects after FIX 4.1).
NeverAhead ==
  ~legacy /\ resets = 0 => \A p \in Peers : in_msg_seq_num[p] < out_msg_seq_num[Other(p)]

\* While the server is active in its loop, every order it has counted past was
\* handed to its user or announced as skipped by a SequenceReset that it applied:
\* dropping a message that is ahead of a gap never loses its number silently.
\* In a legacy dialect a number is lost silently only by a SequenceReset that
\* its user sent.  In a later one it also is by a gap fill that is rejected, the
\* answer to EndSeqNo 0, and by nothing else.
Silently == IF legacy /\ resets = 0 THEN {} ELSE unannounced[Server]
Accounted ==
  active[Server] /\ phase[Server] = "up" =>
    \A n \in ordered \cup lost[Client] :
      n <= in_msg_seq_num[Server] => n \in delivered \cup skipped[Server] \cup Silently

\* An order that is handed to the user is not one that was lost, was announced as
\* skipped or was counted with another message.
DeliveredOrSkipped ==
  delivered \cap (skipped[Server] \cup unannounced[Server] \cup lost[Client]) = {}

\* No message, a gap fill or a reset with a low NewSeqNo included, makes a
\* peer expect a number it has already counted.
ExpectedNeverFalls ==
  [][\A p \in Peers : in_msg_seq_num'[p] >= in_msg_seq_num[p]]_vars

\* Once a gap fill up to 999999 has been applied, no order is taken anymore:
\* every later message of the client is too low.
NothingAfterFarJump ==
  [][in_msg_seq_num[Server] >= FarSeqNo => delivered' = delivered]_vars

\* While no send fails, a TestRequest is answered as long as the client is in
\* its loop and the server in its own.
TestsAnswered ==
  tr_pending ~> (~tr_pending \/ phase[Client] # "up" \/ phase[Server] # "up"
                   \/ failed > 0)

\* A client that leaves its loop gets through fix_session_logout, whatever
\* arrives meanwhile and however many logouts that nests.
StopEnds ==
  (phase[Client] = "stop" /\ out_msg_seq_num[Client] <= MaxSeq)
    ~> (phase[Client] = "closed")

\* A gap fill moves the receiver forward: the scripts of tools/fix answer a
\* ResendRequest with a NewSeqNo above the gap fill's own number.
GapFillAdvances ==
  \A p \in Peers : \A i \in 1..Len(wire[p]) :
    LET m == wire[p][i]
    IN  m.type = "SequenceReset" /\ m.gap => m.to > m.seq
=============================================================================
