---------------------------- MODULE FixKeepalive ----------------------------
(***************************************************************************)
(* The keepalive of a FIX session (tools/fix/fix_common.c) in the loops of *)
(* the two programs that use it: do_logic of tools/cert/micex/forts.c and  *)
(* fix_client_session of tools/fix/fix_client.c.                           *)
(*                                                                         *)
(* A time stamp is its age in whole seconds, the tv_sec the code compares. *)
(* An iteration takes time in two places: fix_session_recv of forts.c      *)
(* waits, so that session->now, which is set just before, may be old when  *)
(* it returns; and fast_books_update may have to recover the books, which  *)
(* takes until their snapshots have come (fast_books_join does not wait    *)
(* for anything, it looks at the feeds in a loop).                         *)
(* Message numbers are in step (FixSession has the other cases), messages  *)
(* arrive whole and at once, and do_exec and do_replace accept theirs.     *)
(* That a send on a closed connection may end the program is left out.     *)
(***************************************************************************)
EXTENDS Integers, Sequences, FiniteSetsExt

CONSTANTS
  HeartBtInt,    \* session->heartbtint, in seconds
  Interval,      \* an exchange that lives is never silent for longer
  AnswerWithin,  \* and answers a TestRequest within this
  Recovery,      \* the most a call of fast_books_update takes
  MaxUnread,     \* bound: it says nothing unasked that many messages ahead
  Programs       \* which of "forts" and "fix_client" are looked at

ASSUME KeepaliveAssumption ==
  /\ HeartBtInt \in Nat \ {0} /\ Interval \in Nat /\ AnswerWithin \in Nat
  /\ Recovery \in Nat /\ MaxUnread \in Nat
  /\ Programs \subseteq {"forts", "fix_client"}

\* How long a client whose exchange lives may be quiet: a heartbeat interval,
\* the time keepalive is skipped, the longest wait in recv after it, and a
\* recovery of the books before keepalive is called again.
Quiet == HeartBtInt + HeartBtInt \div 10 + Interval + Recovery

\* Ages are counted as far as they are compared.
Horizon ==
  [now |-> (12 * HeartBtInt) \div 10 + 1, rx |-> (12 * HeartBtInt) \div 10 + 1,
   tx |-> HeartBtInt + 1, tr |-> HeartBtInt \div 2 + 1, prev |-> HeartBtInt \div 10 + 1,
   exchange |-> Interval, asked |-> AnswerWithin, quiet |-> Quiet + 1,
   update |-> Recovery, stalled |-> HeartBtInt \div 10 + 1]
Stamps == DOMAIN Horizon
Kinds == {"Logon", "Heartbeat", "Answer", "TestRequest", "Report", "Logout"}

VARIABLES
  program,   \* the program
  pc,        \* "update": at the head of the loop of forts, in
             \* fast_books_update; "keep", "recv", or "left"
  why,       \* why it left the loop
  age,       \* of now, the session's rx_, tx_ and tr_timestamp, the loop's prev;
             \* and in fact: since the exchange and since the client last sent,
             \* and since the TestRequest that awaits an answer; how much of
             \* that went by in fast_books_update, and in the present call
  pending,   \* session->tr_pending
  done,      \* the order is sent (forts)
  msg,       \* what the client's local msg points to: "unset" or a kind
  exchange,  \* "up", "silent", "out" (sent a Logout) or "closed"
  inbox,     \* what it sent and the client has not received
  asked      \* it has a TestRequest to answer

client == <<pc, why, pending, done, msg>>
outside == <<exchange, inbox>>
vars == <<program, client, age, exchange, inbox, asked>>

\* The loop of forts begins with fast_books_update.
Top == IF program = "forts" THEN "update" ELSE "keep"

\* fix_session_new and the Logon set all stamps to one second's time.
Init ==
  /\ program \in Programs
  /\ pc = Top /\ why = "none"
  /\ age = [s \in Stamps |-> 0]
  /\ pending = FALSE /\ done = FALSE
  /\ msg = "unset"
  /\ exchange = "up" /\ inbox = <<>> /\ asked = FALSE

-----------------------------------------------------------------------------
(***************************************************************************)
(* The exchange and the clock.  What happens in the instant of an          *)
(* iteration happens as well before recv looks.                            *)
(***************************************************************************)
Passing == pc \in {"update", "recv"}

Arrives(kind) ==
  /\ inbox' = Append(inbox, kind)
  /\ age' = [age EXCEPT !.exchange = 0]

Says(kind) ==
  /\ exchange = "up" /\ Passing /\ Len(inbox) < MaxUnread
  /\ kind \in {"Heartbeat", "TestRequest", "Report"}
  /\ Arrives(kind)
  /\ UNCHANGED <<program, client, exchange, asked>>

Answers ==
  /\ exchange = "up" /\ Passing /\ asked
  /\ Arrives("Answer") /\ asked' = FALSE
  /\ UNCHANGED <<program, client, exchange>>

LogsOut ==
  /\ exchange = "up" /\ Passing
  /\ Arrives("Logout") /\ exchange' = "out"
  /\ UNCHANGED <<program, client, asked>>

Fails ==
  /\ exchange = "up" /\ Passing /\ exchange' \in {"silent", "closed"}
  /\ UNCHANGED <<program, client, age, inbox, asked>>

InTime ==
  exchange = "up" => /\ age.exchange < Interval
                     /\ asked => age.asked < AnswerWithin

UpTo(stamp, n) == Min({n, Horizon[stamp]})
Counts(stamp) ==
  CASE stamp = "tr" -> pending [] stamp = "asked" -> asked
    [] stamp = "exchange" -> exchange = "up"
    [] stamp = "update" -> pc = "update"
    [] stamp = "stalled" -> pending /\ pc = "update" [] OTHER -> TRUE
Stays(stamp) == stamp = "stalled" /\ pending

\* A blocking recv waits for a message; one that does not wait returns, and
\* the loop comes round in less than a second.  A recovery goes on whatever has
\* come from the exchange.
Waits == program = "forts" /\ exchange # "closed"
Receiving == pc = "recv" /\ inbox = <<>> /\ (Waits \/ age.now = 0)
Recovering == pc = "update" /\ age.update < Recovery
Second ==
  /\ (Receiving \/ Recovering) /\ InTime
  /\ age' = [s \in Stamps |-> IF Counts(s) THEN UpTo(s, age[s] + 1)
                              ELSE IF Stays(s) THEN age[s] ELSE 0]
  /\ UNCHANGED <<program, client, outside, asked>>

-----------------------------------------------------------------------------
(***************************************************************************)
(* Keepalive.  fix_session_send takes the time of a message from           *)
(* session->now.                                                           *)
(***************************************************************************)
Leave(reason) == pc' = "left" /\ why' = reason

Sent(stamps) == [stamps EXCEPT !.tx = UpTo("tx", stamps.now), !.quiet = 0]
Late(stamp, tenths) == 10 * stamp > tenths * HeartBtInt

\* As a bug: tested again while a test is pending.
TestsAgain == Late(age.rx, 12)
Tests == ~pending /\ Late(age.rx, 12)
Dead == pending /\ Late(age.tr, 5)

TestRequest ==
  [Sent(age) EXCEPT !.tr = UpTo("tr", age.now), !.asked = 0,
                    !.stalled = 0]
Tested == IF Tests THEN TestRequest ELSE age

\* As a bug: heartbeats go by what was received.
BeatenOnRx(stamps) == IF Late(stamps.rx, 10) THEN Sent(stamps) ELSE stamps
Beaten(stamps) == IF Late(stamps.tx, 10) THEN Sent(stamps) ELSE stamps

\* fix_session_keepalive: a test changes the id that an answer must have.
Keepalive ==
  IF Dead THEN Leave("timeout") /\ UNCHANGED <<age, pending, asked, msg>>
  ELSE /\ pc' = "recv"
       /\ age' = [Beaten(Tested) EXCEPT !.prev = 0, !.now = 0, !.update = 0]
       /\ pending' = (pending \/ Tests)
       /\ asked' = (asked \/ (Tests /\ exchange = "up"))
       /\ msg' = IF Tests /\ msg = "Answer" THEN "Heartbeat" ELSE msg
       /\ UNCHANGED why

\* Once in more than a tenth of the interval, and then the time is updated.
Keep ==
  /\ pc = "keep"
  /\ IF Late(age.prev, 1) THEN Keepalive
     ELSE /\ age' = [age EXCEPT !.now = 0, !.update = 0] /\ pc' = "recv"
          /\ UNCHANGED <<why, pending, asked, msg>>
  /\ UNCHANGED <<program, done, outside>>

\* At the head of the loop it ends on a signal.
Stop ==
  /\ pc = Top /\ age.update = 0 /\ Leave("signal")
  /\ UNCHANGED <<program, age, pending, done, msg, outside, asked>>

\* fast_books_update returns, at once or after a recovery, or fails.
Update ==
  /\ pc = "update"
  /\ \/ pc' = "keep" /\ UNCHANGED why
     \/ Leave("feeds")
  /\ UNCHANGED <<program, age, pending, done, msg, outside, asked>>

-----------------------------------------------------------------------------
(***************************************************************************)
(* Messages.                                                               *)
(***************************************************************************)
Loops(stamps) == pc' = Top /\ age' = stamps /\ UNCHANGED why

\* fix_session_admin, which leaves a Logon, a Logout and a report to the loop.
IsAdmin(kind) == kind \in {"Heartbeat", "Answer", "TestRequest"}
\* As a bug: the id is not looked at, or never the same.
AnsweredByAny(kind) == kind \in {"Heartbeat", "Answer"}
AnsweredByNone(kind) == FALSE
Answered(kind) == kind = "Answer"
Admin(kind, stamps) ==
  /\ pending' = (pending /\ ~Answered(kind))
  /\ Loops(IF kind = "TestRequest" THEN Sent(stamps) ELSE stamps)

\* do_limit, once.
Order(stamps) ==
  \/ ~done /\ Leave("order") /\ age' = stamps /\ UNCHANGED done
  \/ done' = TRUE /\ Loops(IF done THEN stamps ELSE Sent(stamps))

\* do_logic: what is neither admin nor a report ends the loop.
FortsTakes(kind, stamps) ==
  IF IsAdmin(kind) THEN Admin(kind, stamps) /\ UNCHANGED done
  ELSE /\ UNCHANGED pending
       /\ IF kind = "Report" THEN Order(stamps)
          ELSE Leave("message") /\ age' = stamps /\ UNCHANGED done

\* fix_client_session: what is not admin ends the loop.
ClientTakes(kind) ==
  IF IsAdmin(kind) THEN Admin(kind, age)
  ELSE Leave("message") /\ UNCHANGED <<age, pending>>

Received == [age EXCEPT !.rx = age.now]

Recv ==
  /\ pc = "recv" /\ inbox # <<>>
  /\ inbox' = Tail(inbox)
  /\ \/ program = "forts" /\ FortsTakes(Head(inbox), Received) /\ UNCHANGED msg
     \/ /\ program = "fix_client"  \* "<= 0": not for a message
        /\ msg' = Head(inbox) /\ Loops(Received) /\ UNCHANGED <<pending, done>>
  /\ UNCHANGED <<program, exchange, asked>>

\* recv returns nothing.  The client then looks at msg: before the first
\* message it is not initialised, and may point to the session's message,
\* where the Logon still is, or anywhere.
RecvNothing ==
  /\ pc = "recv" /\ inbox = <<>> /\ ~Waits
  /\ \/ program = "forts" /\ Order(age) /\ UNCHANGED pending
     \/ /\ program = "fix_client" /\ UNCHANGED done
        /\ IF msg = "unset"
           THEN ClientTakes("Logon") \/ (Leave("crash") /\ UNCHANGED <<age, pending>>)
           ELSE ClientTakes(msg)
  /\ UNCHANGED <<program, msg, outside, asked>>

Loop == Update \/ Keep \/ Recv \/ RecvNothing
Next == Loop \/ Stop \/ Second \/ Answers \/ LogsOut \/ Fails
          \/ \E kind \in Kinds : Says(kind)

Spec == Init /\ [][Next]_vars

\* The loop runs, fast_books_update returns, and the clock goes on however
\* often the loop comes round.
FairSpec == Spec /\ WF_vars(Loop) /\ SF_vars(Second)

-----------------------------------------------------------------------------
\* Types; as long as the exchange owes an answer, the test is pending, so no
\* second one is sent.
TypeOK ==
  /\ pc \in {"update", "keep", "recv", "left"}
  /\ why \in {"none", "signal", "feeds", "order", "timeout", "message", "crash"}
  /\ age \in [Stamps -> Nat] /\ \A s \in Stamps : age[s] <= Horizon[s]
  /\ msg \in Kinds \cup {"unset"}
  /\ inbox \in Seq(Kinds)
  /\ {pending, done, asked} \subseteq BOOLEAN
  /\ asked => pending

\* What may end the loop of a session with an exchange that lives: the user,
\* the order or the feeds, or that the exchange logged out.
Reason ==
  \/ pc # "left"
  \/ why \in {"signal", "feeds", "order"}
  \/ why = "timeout" /\ exchange # "up"
  \/ why = "message" /\ exchange = "out"

\* Of an exchange that keeps to its times, the keepalive of forts.c ends the
\* session only when the wait for the answer and the time that went by in
\* fast_books_update meanwhile are more than a tenth of the interval.  (A
\* recovery leaves an answer that has come unread, and tr_timestamp is as old
\* as the last wait in recv and the last recovery together, so the half of the
\* interval that the code compares with grants nothing.)  In particular a
\* session without recoveries is kept.
Held == Late(AnswerWithin + age.stalled, 1)
LiveKept == program = "forts" => Reason \/ (why = "timeout" /\ Held)

\* docs/quickstart.md: a message is handled when fix_session_recv returned one.
ClientLiveKept == program = "fix_client" => Reason

\* The heartbeats of forts.c to an exchange that lives come, if late by as
\* much as one wait in recv and one recovery of the books: neither skipped
\* rounds nor the old times that are noted for what was sent add up, and no
\* second recovery comes before the heartbeat.
HeartbeatsKept ==
  program = "forts" /\ pc # "left" /\ exchange = "up" =>
    age.quiet <= Quiet

\* A connection that is closed makes recv return at once, for ever: it is the
\* unanswered TestRequest that ends the loop.
ClosedLeft == exchange = "closed" ~> pc = "left"
=============================================================================
