------------------------- MODULE FixKeepalive_proofs -------------------------
(***************************************************************************)
(* Proofs about the keepalive of a FIX session, for every heartbeat        *)
(* interval, for every exchange, whatever its longest silence is and       *)
(* whatever it takes to answer, and however long fast_books_update takes.  *)
(***************************************************************************)
EXTENDS FixKeepalive, SequenceTheorems, TLAPS

Waiting == 1..Len(inbox)

\* What is under way between the two: no Logon, a Logout only from an exchange
\* that is out, and at most one answer, to a test that is pending.
UnderWay ==
  /\ \A i \in Waiting :
       /\ inbox[i] # "Logon"
       /\ inbox[i] = "Logout" => exchange = "out"
       /\ inbox[i] = "Answer" =>
            /\ pending /\ ~asked /\ msg # "Answer"
            /\ \A j \in Waiting : inbox[j] = "Answer" => j = i
  /\ msg = "Answer" => ~asked

\* In forts.c a pending test is on its way to its answer.  While it is, the
\* keepalive is not called for longer than the answer takes and what went by
\* in fast_books_update, which leaves the answer unread.
AnswerDue ==
  program = "forts" /\ pending /\ exchange = "up" =>
    /\ asked \/ \E i \in Waiting : inbox[i] = "Answer"
    /\ age.prev <= AnswerWithin + age.stalled \/ age.stalled = HeartBtInt \div 10 + 1
    /\ asked => age.prev <= age.asked

\* tx_timestamp is no younger than the last message, up to where it matters;
\* since a keepalive found it young enough, rounds are skipped for as long as
\* prev says, and then there is one wait, as long as the exchange is silent,
\* and one call of fast_books_update.
Skipped == HeartBtInt + HeartBtInt \div 10
Beating ==
  /\ age.quiet <= age.tx \/ age.tx = HeartBtInt + 1
  /\ age.quiet <= HeartBtInt + age.prev \/ age.prev = HeartBtInt \div 10 + 1
  /\ exchange = "up" => age.quiet <= Skipped + Interval + age.update
  /\ exchange = "up" /\ pc = "recv" /\ inbox = <<>> =>
       age.quiet <= Skipped + age.exchange

Ranges == TypeOK /\ exchange \in {"up", "silent", "out", "closed"}

\* What the silence of the client rests on, and that of a test's answer.
IInv == Ranges /\ UnderWay /\ Beating
LInv == AnswerDue /\ LiveKept

Kept == IInv' /\ (LInv => LInv')

-----------------------------------------------------------------------------
(***************************************************************************)
(* The stamps.                                                             *)
(***************************************************************************)
Ages == {a \in [Stamps -> Nat] : \A s \in Stamps : a[s] <= Horizon[s]}

LEMMA StampsAre ==
  /\ Stamps = {"now", "rx", "tx", "tr", "prev", "exchange", "asked", "quiet",
               "update", "stalled"}
  /\ Horizon.now = Horizon.rx /\ Horizon.tx = HeartBtInt + 1
  /\ Horizon.prev = HeartBtInt \div 10 + 1 /\ Horizon.exchange = Interval
  /\ Horizon.asked = AnswerWithin /\ Horizon.quiet = Quiet + 1
  /\ Horizon.update = Recovery /\ Horizon.stalled = HeartBtInt \div 10 + 1
BY DEF Stamps, Horizon

LEMMA HorizonIsNat ==
  /\ HeartBtInt \div 10 \in Nat /\ HeartBtInt \in Nat /\ Interval \in Nat
  /\ AnswerWithin \in Nat /\ Recovery \in Nat /\ Quiet \in Nat
  /\ \A s \in Stamps : Horizon[s] \in Nat
<1>1. /\ HeartBtInt \in Nat /\ Interval \in Nat /\ AnswerWithin \in Nat
      /\ Recovery \in Nat
  BY KeepaliveAssumption
<1>2. HeartBtInt \div 10 \in Nat /\ (12 * HeartBtInt) \div 10 \in Nat /\ HeartBtInt \div 2 \in Nat
  BY <1>1
<1>3. Quiet \in Nat
  BY <1>1, <1>2 DEF Quiet
<1> QED BY <1>1, <1>2, <1>3 DEF Stamps, Horizon

\* A round is skipped up to a tenth of the interval.
LEMMA LateIs ==
  ASSUME NEW n \in Nat
  PROVE  /\ Late(n, 1) <=> n > HeartBtInt \div 10
         /\ Late(n, 10) <=> n > HeartBtInt
BY KeepaliveAssumption DEF Late

LEMMA UpToIs ==
  ASSUME NEW s \in Stamps, NEW n \in Nat
  PROVE  UpTo(s, n) = IF n <= Horizon[s] THEN n ELSE Horizon[s]
<1>1. Horizon[s] \in Nat
  BY HorizonIsNat
<1> DEFINE m == IF n <= Horizon[s] THEN n ELSE Horizon[s]
<1>2. m \in {n, Horizon[s]} /\ \A y \in {n, Horizon[s]} : m <= y
  BY <1>1
<1>3. \A x \in {n, Horizon[s]} : (\A y \in {n, Horizon[s]} : x <= y) => x = m
  BY <1>1
<1> QED BY <1>2, <1>3 DEF UpTo, Min

\* What fix_session_send notes of a message it sent.
LEMMA SentIs ==
  ASSUME NEW a \in Ages
  PROVE  /\ Sent(a) \in Ages /\ Sent(a).quiet = 0
         /\ Sent(a).prev = a.prev /\ Sent(a).exchange = a.exchange
         /\ Sent(a).asked = a.asked
         /\ Sent(a).update = a.update /\ Sent(a).stalled = a.stalled
<1>1. /\ a \in [Stamps -> Nat] /\ a.now \in Nat
      /\ UpTo("tx", a.now) \in Nat /\ UpTo("tx", a.now) <= Horizon["tx"]
  BY StampsAre, HorizonIsNat, UpToIs DEF Ages
<1>2. Sent(a) \in [Stamps -> Nat]
  BY <1>1, StampsAre DEF Sent
<1>3. ASSUME NEW s \in Stamps PROVE Sent(a)[s] <= Horizon[s]
  <2>1. Sent(a)[s] = IF s = "quiet" THEN 0
                     ELSE IF s = "tx" THEN UpTo("tx", a.now) ELSE a[s]
    BY <1>1, StampsAre DEF Sent
  <2>2. a[s] <= Horizon[s] /\ 0 <= Horizon[s]
    BY HorizonIsNat DEF Ages
  <2> QED BY <1>1, <2>1, <2>2
<1> QED BY <1>1, <1>2, <1>3, StampsAre DEF Sent, Ages

LEMMA ReceivedIs ==
  ASSUME age \in Ages
  PROVE  /\ Received \in Ages /\ Received.quiet = age.quiet
         /\ Received.tx = age.tx /\ Received.prev = age.prev
         /\ Received.exchange = age.exchange /\ Received.asked = age.asked
         /\ Received.update = age.update /\ Received.stalled = age.stalled
BY StampsAre, HorizonIsNat DEF Received, Ages

LEMMA RangesOfAge == Ranges => age \in Ages
BY DEF Ranges, TypeOK, Ages

-----------------------------------------------------------------------------
LEMMA InitEstablishes == Init => IInv /\ LInv
<1> SUFFICES ASSUME Init PROVE IInv /\ LInv
  OBVIOUS
<1>1. Ranges
  <2>1. age \in [Stamps -> Nat] /\ \A s \in Stamps : age[s] <= Horizon[s]
    BY HorizonIsNat DEF Init
  <2>2. inbox \in Seq(Kinds)
    BY EmptySeq DEF Init
  <2>3. {pending, done, asked} \subseteq BOOLEAN
    BY Zenon DEF Init
  <2> QED BY <2>1, <2>2, <2>3 DEF Init, Top, Ranges, TypeOK
<1>2. Waiting = {}
  BY EmptySeq DEF Init, Waiting
<1>3. UnderWay
  BY <1>2 DEF Init, UnderWay
<1>4. Beating
  BY HorizonIsNat, StampsAre DEF Init, Beating, Skipped
<1>5. LInv
  BY DEF Init, Top, LInv, AnswerDue, LiveKept, Reason
<1> QED BY <1>1, <1>3, <1>4, <1>5 DEF IInv

-----------------------------------------------------------------------------
LEMMA StutterKeeps ==
  ASSUME IInv, UNCHANGED vars
  PROVE  Kept
BY DEF Kept, IInv, LInv, vars, client, outside, Ranges, TypeOK, UnderWay, Waiting, Beating,
       AnswerDue, LiveKept, Held, Reason

\* A message of the exchange comes in: an answer is the one that was owed.
LEMMA ArrivalKeeps ==
  ASSUME IInv, NEW kind \in Kinds \ {"Logon"}, Arrives(kind),
         Passing, exchange = "up", UNCHANGED <<program, client>>,
         IF kind = "Logout" THEN exchange' = "out" ELSE exchange' = exchange,
         IF kind = "Answer" THEN asked /\ asked' = FALSE ELSE asked' = asked
  PROVE  Kept
<1>1. /\ inbox \in Seq(Kinds) /\ kind \in Kinds /\ age \in Ages
      /\ inbox' = Append(inbox, kind) /\ age' = [age EXCEPT !.exchange = 0]
  BY RangesOfAge DEF IInv, Ranges, TypeOK, Arrives
<1>2. /\ Len(inbox) \in Nat /\ Len(inbox') = Len(inbox) + 1
      /\ inbox' \in Seq(Kinds) /\ inbox' # <<>>
      /\ inbox'[Len(inbox) + 1] = kind
      /\ \A i \in Waiting : inbox'[i] = inbox[i]
  BY <1>1, LenProperties, AppendProperties DEF Waiting
<1>3. \A i \in Waiting' : i = Len(inbox) + 1 \/ i \in Waiting
  BY <1>2 DEF Waiting
<1>4. UNCHANGED <<program, pc, why, pending, done, msg>>
  BY DEF client
<1>5. /\ age' \in Ages /\ age'.prev = age.prev /\ age'.asked = age.asked
      /\ age'.quiet = age.quiet /\ age'.tx = age.tx
      /\ age'.update = age.update /\ age'.stalled = age.stalled
  <2>1. age \in [Stamps -> Nat] /\ age' \in [Stamps -> Nat]
    BY <1>1 DEF Ages
  <2>2. \A s \in Stamps : age'[s] = IF s = "exchange" THEN 0 ELSE age[s]
    BY <1>1, <2>1
  <2>3. ASSUME NEW s \in Stamps PROVE age'[s] <= Horizon[s]
    <3>1. Horizon[s] \in Nat /\ age[s] <= Horizon[s]
      BY <1>1, HorizonIsNat DEF Ages
    <3> QED BY <3>1, <2>2
  <2>4. age' \in Ages
    BY <2>1, <2>3 DEF Ages
  <2> QED BY <2>2, <2>4, StampsAre
<1>6. Ranges'
  <2>1. {pending, done, asked}' \subseteq BOOLEAN /\ (asked' => pending')
    BY <1>4 DEF IInv, Ranges, TypeOK
  <2> QED BY <2>1, <1>2, <1>4, <1>5 DEF IInv, Ranges, TypeOK, Ages
<1>7. UnderWay'
  <2>1. asked => \A i \in Waiting : inbox[i] # "Answer"
    BY DEF IInv, UnderWay
  <2>2. ASSUME NEW i \in Waiting'
        PROVE  /\ inbox'[i] # "Logon"
               /\ inbox'[i] = "Logout" => exchange' = "out"
               /\ inbox'[i] = "Answer" =>
                    /\ pending' /\ ~asked' /\ msg' # "Answer"
                    /\ \A j \in Waiting' : inbox'[j] = "Answer" => j = i
    <3>1. CASE i = Len(inbox) + 1
      BY <3>1, <2>1, <1>2, <1>3, <1>4 DEF IInv, UnderWay, Ranges, TypeOK
    <3>2. CASE i \in Waiting
      BY <3>2, <2>1, <1>2, <1>3, <1>4 DEF IInv, UnderWay
    <3> QED BY <3>1, <3>2, <1>3
  <2>3. msg' = "Answer" => ~asked'
    BY <1>4 DEF IInv, UnderWay
  <2> QED BY <2>2, <2>3 DEF UnderWay
<1>8. Beating'
  BY <1>2, <1>4, <1>5 DEF IInv, Beating
<1>9. LInv => LInv'
  <2>1. LInv => AnswerDue'
    <3>1. CASE kind = "Answer"
      <4>1. Len(inbox) + 1 \in Waiting' /\ inbox'[Len(inbox) + 1] = "Answer"
        BY <3>1, <1>2 DEF Waiting
      <4> QED BY <3>1, <4>1, <1>4, <1>5 DEF LInv, AnswerDue
    <3>2. CASE kind # "Answer"
      <4>1. \A i \in Waiting : i \in Waiting'
        BY <1>2 DEF Waiting
      <4> QED BY <3>2, <4>1, <1>2, <1>4, <1>5 DEF LInv, AnswerDue
    <3> QED BY <3>1, <3>2
  <2>2. LiveKept'
    BY <1>4 DEF LiveKept, Reason, Passing
  <2> QED BY <2>1, <2>2 DEF LInv
<1> QED BY <1>6, <1>7, <1>8, <1>9 DEF Kept, IInv

\* The exchange stops answering or closes the connection.
LEMMA FailsKeeps == ASSUME IInv, Fails PROVE Kept
<1>1. /\ UNCHANGED <<program, pc, why, pending, done, msg, age, inbox, asked>>
      /\ exchange' \in {"silent", "closed"} /\ exchange = "up" /\ pc # "left"
  BY DEF Fails, client, Passing
<1>2. Ranges'
  BY <1>1 DEF IInv, Ranges, TypeOK
<1>3. UnderWay' /\ Beating'
  BY <1>1 DEF IInv, UnderWay, Waiting, Beating
<1>4. LInv'
  BY <1>1 DEF LInv, AnswerDue, LiveKept, Reason
<1> QED BY <1>2, <1>3, <1>4 DEF Kept, IInv

\* A second goes by while the client waits for a message, or its feeds.
LEMMA SecondKeeps == ASSUME IInv, Second PROVE Kept
<1>1. /\ Receiving \/ Recovering
      /\ InTime
      /\ age' = [s \in Stamps |-> IF Counts(s) THEN UpTo(s, age[s] + 1)
                                  ELSE IF Stays(s) THEN age[s] ELSE 0]
      /\ UNCHANGED <<program, pc, why, pending, done, msg, exchange, inbox, asked>>
  BY DEF Second, client, outside
<1>2. age \in Ages /\ \A s \in Stamps : age[s] \in Nat /\ Horizon[s] \in Nat
  BY RangesOfAge, HorizonIsNat DEF IInv, Ages
<1>3. ASSUME NEW s \in Stamps
      PROVE  age'[s] = IF Counts(s)
                       THEN IF age[s] + 1 <= Horizon[s] THEN age[s] + 1 ELSE Horizon[s]
                       ELSE IF Stays(s) THEN age[s] ELSE 0
  <2>1. age[s] + 1 \in Nat
    BY <1>2
  <2> QED BY <1>1, <2>1, UpToIs
<1>4. age' \in Ages
  <2>1. ASSUME NEW s \in Stamps PROVE age'[s] \in Nat /\ age'[s] <= Horizon[s]
    <3>1. age[s] \in Nat /\ Horizon[s] \in Nat /\ age[s] <= Horizon[s]
      BY <1>2 DEF Ages
    <3> QED BY <3>1, <1>3
  <2>2. age' = [s \in Stamps |-> age'[s]]
    BY <1>1
  <2> QED BY <2>1, <2>2 DEF Ages
<1>5. /\ {age.prev, age.quiet, age.tx, age.exchange, age.asked, age.stalled} \subseteq Nat
      /\ age.exchange <= Interval
      /\ age'.prev = IF age.prev <= HeartBtInt \div 10 THEN age.prev + 1
                     ELSE HeartBtInt \div 10 + 1
      /\ age'.tx = IF age.tx <= HeartBtInt THEN age.tx + 1 ELSE HeartBtInt + 1
      /\ age'.quiet = IF age.quiet <= Quiet THEN age.quiet + 1 ELSE Quiet + 1
      /\ exchange = "up" => age'.exchange = age.exchange + 1
      /\ exchange = "up" /\ asked => age'.asked = age.asked + 1
                                     /\ age'.asked <= AnswerWithin
      /\ age'.update \in Nat /\ age'.stalled \in Nat
      /\ Recovering => age'.update = age.update + 1
  <2>1. /\ Counts("prev") /\ Counts("tx") /\ Counts("quiet")
        /\ Counts("exchange") <=> exchange = "up"
        /\ Counts("asked") <=> asked
        /\ Recovering => Counts("update")
    BY DEF Counts, IInv, Ranges, TypeOK, Recovering
  <2>2. exchange = "up" => age.exchange < Interval /\ (asked => age.asked < AnswerWithin)
    BY <1>1 DEF InTime
  <2>3. /\ {age.prev, age.quiet, age.tx, age.exchange, age.asked, age.stalled} \subseteq Nat
        /\ age.exchange <= Interval
    BY <1>2, StampsAre DEF Ages
  <2>4. /\ age'.prev = IF age.prev <= HeartBtInt \div 10 THEN age.prev + 1
                       ELSE HeartBtInt \div 10 + 1
        /\ age'.tx = IF age.tx <= HeartBtInt THEN age.tx + 1 ELSE HeartBtInt + 1
        /\ age'.quiet = IF age.quiet <= Quiet THEN age.quiet + 1 ELSE Quiet + 1
    BY <2>1, <2>3, <1>3, StampsAre, HorizonIsNat
  <2>5. /\ exchange = "up" => age'.exchange = age.exchange + 1
        /\ exchange = "up" /\ asked => age'.asked = age.asked + 1
                                       /\ age'.asked <= AnswerWithin
    BY <2>1, <2>2, <2>3, <1>3, StampsAre, HorizonIsNat
  <2>6. age'.update \in Nat /\ age'.stalled \in Nat
    BY <1>4, StampsAre DEF Ages
  <2>7. Recovering => age'.update = age.update + 1
    <3>1. age.update \in Nat /\ (Recovering => age.update + 1 <= Recovery)
      BY <1>2, StampsAre, HorizonIsNat DEF Recovering
    <3> QED BY <2>1, <3>1, <1>3, StampsAre
  <2> QED BY <2>3, <2>4, <2>5, <2>6, <2>7
<1>6. Ranges'
  BY <1>1, <1>4 DEF IInv, Ranges, TypeOK, Ages
<1>7. UnderWay'
  BY <1>1 DEF IInv, UnderWay, Waiting
<1>8. Beating'
  <2>1. Skipped \in Nat /\ Interval \in Nat
    BY HorizonIsNat DEF Skipped
  <2>2. age'.quiet <= age.quiet + 1 /\ age'.quiet \in Nat
    BY <1>5, HorizonIsNat
  <2>3. exchange' = "up" =>
          /\ age'.quiet <= Skipped + Interval + age'.update
          /\ pc' = "recv" => age'.quiet <= Skipped + age'.exchange
    <3> SUFFICES ASSUME exchange = "up"
                 PROVE  /\ age'.quiet <= Skipped + Interval + age'.update
                        /\ pc = "recv" => age'.quiet <= Skipped + age'.exchange
      BY <1>1
    <3>1. CASE Receiving
      <4>1. age.quiet <= Skipped + age.exchange /\ age.exchange < Interval
        BY <1>1, <3>1 DEF IInv, Beating, InTime, Receiving
      <4> QED BY <4>1, <2>1, <2>2, <1>5
    <3>2. CASE Recovering
      <4>1. age.quiet <= Skipped + Interval + age.update /\ pc # "recv"
        BY <3>2 DEF IInv, Beating, Recovering
      <4>2. age.update \in Nat
        BY <1>2, StampsAre
      <4> QED BY <3>2, <4>1, <4>2, <2>1, <2>2, <1>5
    <3> QED BY <1>1, <3>1, <3>2
  <2>4. age'.quiet <= age.quiet + 1
    BY <1>5, HorizonIsNat
  <2>5. age'.quiet <= age'.tx \/ age'.tx = HeartBtInt + 1
    <3>1. age.quiet <= age.tx \/ age.tx = HeartBtInt + 1
      BY DEF IInv, Beating
    <3>2. CASE age.tx <= HeartBtInt
      <4>1. age'.tx = age.tx + 1 /\ age.tx # HeartBtInt + 1
        BY <1>5, <3>2, HorizonIsNat
      <4> QED BY <2>4, <3>1, <4>1, <1>5, HorizonIsNat
    <3>3. CASE ~(age.tx <= HeartBtInt)
      BY <1>5, <3>3
    <3> QED BY <3>2, <3>3
  <2>6. age'.quiet <= HeartBtInt + age'.prev \/ age'.prev = HeartBtInt \div 10 + 1
    <3>1. age.quiet <= HeartBtInt + age.prev \/ age.prev = HeartBtInt \div 10 + 1
      BY DEF IInv, Beating
    <3>2. CASE age.prev <= HeartBtInt \div 10
      <4>1. age'.prev = age.prev + 1 /\ age.prev # HeartBtInt \div 10 + 1
        BY <1>5, <3>2, HorizonIsNat
      <4> QED BY <2>4, <3>1, <4>1, <1>5, HorizonIsNat
    <3>3. CASE ~(age.prev <= HeartBtInt \div 10)
      BY <1>5, <3>3
    <3> QED BY <3>2, <3>3
  <2> QED BY <2>3, <2>5, <2>6 DEF Beating
<1>9. LInv => LInv'
  <2>1. LInv => AnswerDue'
    <3> SUFFICES ASSUME AnswerDue, program = "forts", pending, exchange = "up"
                 PROVE  /\ asked \/ \E i \in Waiting : inbox[i] = "Answer"
                        /\ \/ age'.prev <= AnswerWithin + age'.stalled
                           \/ age'.stalled = HeartBtInt \div 10 + 1
                        /\ asked => age'.prev <= age'.asked
      BY <1>1 DEF LInv, AnswerDue, Waiting
    <3>1. /\ asked \/ \E i \in Waiting : inbox[i] = "Answer"
          /\ \/ age.prev <= AnswerWithin + age.stalled
             \/ age.stalled = HeartBtInt \div 10 + 1
          /\ asked => age.prev <= age.asked
      BY DEF AnswerDue
    <3>2. /\ age'.prev <= age.prev + 1 /\ age'.prev \in Nat /\ age.prev \in Nat
          /\ AnswerWithin \in Nat /\ age.stalled \in Nat /\ age'.stalled \in Nat
          /\ age.asked \in Nat
      BY <1>5, HorizonIsNat
    <3>3. asked => age'.prev <= age'.asked /\ age'.asked <= AnswerWithin
      BY <3>1, <3>2, <1>5
    <3>4. CASE Receiving
      <4>1. asked
        BY <3>1, <3>4, EmptySeq DEF Receiving, Waiting
      <4> QED BY <3>1, <3>2, <3>3, <4>1, <1>5
    <3>5. CASE Recovering
      <4>1. Counts("stalled")
        BY <3>5 DEF Counts, Recovering
      <4>2. age'.stalled = IF age.stalled + 1 <= HeartBtInt \div 10 + 1
                           THEN age.stalled + 1 ELSE HeartBtInt \div 10 + 1
        BY <4>1, <1>3, StampsAre
      <4> QED BY <3>1, <3>2, <3>3, <4>2, HorizonIsNat
    <3> QED BY <1>1, <3>4, <3>5
  <2>2. LiveKept'
    BY <1>1 DEF LiveKept, Reason, Receiving, Recovering
  <2> QED BY <2>1, <2>2 DEF LInv
<1> QED BY <1>6, <1>7, <1>8, <1>9 DEF Kept, IInv

\* The user ends the loop, or fast_books_update returns, and may end it.
LEMMA TopKeeps == ASSUME IInv, Stop \/ Update PROVE Kept
<1>1. /\ UNCHANGED <<program, age, pending, done, msg, exchange, inbox, asked>>
      /\ \/ pc' = "left" /\ why' \in {"signal", "feeds"}
         \/ pc' = "keep" /\ why' = why
  BY DEF Stop, Update, Leave, outside
<1>2. Ranges'
  BY <1>1 DEF IInv, Ranges, TypeOK
<1>3. UnderWay' /\ Beating'
  BY <1>1 DEF IInv, UnderWay, Waiting, Beating
<1>4. LInv => LInv'
  BY <1>1 DEF LInv, AnswerDue, Waiting, LiveKept, Reason
<1> QED BY <1>2, <1>3, <1>4 DEF Kept, IInv

-----------------------------------------------------------------------------
\* fix_session_keepalive's messages, as the stamps show them.
LEMMA TestedIs ==
  ASSUME age \in Ages
  PROVE  /\ Tested \in Ages /\ Tested.exchange = age.exchange
         /\ Tested.quiet = 0 \/ (Tested.quiet = age.quiet /\ Tested.tx = age.tx)
         /\ Tested.stalled = IF Tests THEN 0 ELSE age.stalled
<1>1. CASE Tests
  <2>1. /\ UpTo("tr", age.now) \in Nat /\ UpTo("tr", age.now) <= Horizon["tr"]
        /\ Sent(age) \in Ages /\ Sent(age).quiet = 0 /\ Sent(age).exchange = age.exchange
    BY StampsAre, HorizonIsNat, UpToIs, SentIs DEF Ages
  <2>2. Sent(age) \in [Stamps -> Nat]
    BY <2>1 DEF Ages
  <2>3. TestRequest \in [Stamps -> Nat]
    BY <2>1, <2>2, StampsAre DEF TestRequest
  <2>4. \A s \in Stamps : TestRequest[s] = IF s = "tr" THEN UpTo("tr", age.now)
                                           ELSE IF s \in {"asked", "stalled"} THEN 0
                                           ELSE Sent(age)[s]
    BY <2>2, StampsAre DEF TestRequest
  <2>5. \A s \in Stamps : TestRequest[s] <= Horizon[s]
    BY <2>1, <2>4, HorizonIsNat DEF Ages
  <2> QED BY <1>1, <2>1, <2>3, <2>4, <2>5, StampsAre DEF Tested, Ages
<1>2. CASE ~Tests
  BY <1>2 DEF Tested
<1> QED BY <1>1, <1>2

LEMMA BeatenIs ==
  ASSUME NEW a \in Ages, a.quiet <= a.tx \/ a.tx = HeartBtInt + 1
  PROVE  /\ Beaten(a) \in Ages /\ Beaten(a).exchange = a.exchange
         /\ Beaten(a).asked = a.asked /\ Beaten(a).stalled = a.stalled
         /\ Beaten(a).quiet <= HeartBtInt
         /\ Beaten(a).quiet <= Beaten(a).tx \/ Beaten(a).tx = HeartBtInt + 1
<1>1. a.tx \in Nat /\ a.quiet \in Nat /\ HeartBtInt \in Nat
  BY StampsAre, HorizonIsNat DEF Ages
<1>2. Late(a.tx, 10) <=> a.tx > HeartBtInt
  BY <1>1, LateIs
<1>3. CASE Late(a.tx, 10)
  <2>1. Beaten(a) = Sent(a) /\ Sent(a) \in Ages /\ Sent(a).quiet = 0
        /\ Sent(a).exchange = a.exchange /\ Sent(a).asked = a.asked
        /\ Sent(a).stalled = a.stalled
    BY <1>3, SentIs DEF Beaten
  <2>2. Sent(a).tx \in Nat
    BY <2>1, StampsAre DEF Ages
  <2> QED BY <2>1, <2>2, <1>1
<1>4. CASE ~Late(a.tx, 10)
  BY <1>1, <1>2, <1>4 DEF Beaten
<1> QED BY <1>3, <1>4

\* A turn of fix_session_keepalive, or a round that skips it.
LEMMA KeepKeeps == ASSUME IInv, Keep PROVE Kept
<1>1. /\ pc = "keep" /\ UNCHANGED <<program, done, exchange, inbox>>
      /\ age \in Ages /\ {pending, asked} \subseteq BOOLEAN /\ (asked => pending)
  BY RangesOfAge DEF Keep, outside, IInv, Ranges, TypeOK
<1>2. age.prev \in Nat /\ (Late(age.prev, 1) <=> age.prev > HeartBtInt \div 10)
  BY <1>1, LateIs, StampsAre DEF Ages
\* An exchange that answers in time has done so before the next turn, but for
\* what went by in fast_books_update.
<1>3. LInv /\ Late(age.prev, 1) /\ program = "forts" /\ pending /\ exchange = "up"
        => Held
  <2> SUFFICES ASSUME age.prev > HeartBtInt \div 10,
                      \/ age.prev <= AnswerWithin + age.stalled
                      \/ age.stalled = HeartBtInt \div 10 + 1
               PROVE  Held
    BY <1>2 DEF LInv, AnswerDue
  <2>1. AnswerWithin + age.stalled \in Nat
    BY <1>1, StampsAre, HorizonIsNat DEF Ages
  <2>2. AnswerWithin + age.stalled > HeartBtInt \div 10
    BY <1>2, <2>1, HorizonIsNat
  <2> QED BY <2>1, <2>2, LateIs DEF Held
<1>4. CASE ~Late(age.prev, 1)
  <2>1. /\ age' = [age EXCEPT !.now = 0, !.update = 0] /\ pc' = "recv"
        /\ UNCHANGED <<why, pending, asked, msg>>
    BY <1>4 DEF Keep
  <2>2. /\ age' \in Ages
        /\ \A s \in Stamps \ {"now", "update"} : age'[s] = age[s]
        /\ age'.update = 0
    <3>1. age \in [Stamps -> Nat]
      BY <1>1 DEF Ages
    <3>2. \A s \in Stamps : age'[s] = IF s \in {"now", "update"} THEN 0 ELSE age[s]
      BY <2>1, <3>1
    <3>3. \A s \in Stamps : age'[s] \in Nat /\ age'[s] <= Horizon[s]
      BY <1>1, <3>2, HorizonIsNat DEF Ages
    <3>4. age' \in [Stamps -> Nat]
      BY <2>1, <3>1
    <3> QED BY <3>2, <3>3, <3>4, StampsAre DEF Ages
  <2>3. /\ age'.prev = age.prev /\ age'.quiet = age.quiet /\ age'.tx = age.tx
        /\ age'.exchange = age.exchange /\ age'.asked = age.asked
        /\ age'.stalled = age.stalled /\ age'.update = 0
        /\ age.exchange \in Nat /\ age.quiet \in Nat
    BY <1>1, <2>2, StampsAre DEF Ages
  <2>4. Ranges'
    BY <1>1, <2>1, <2>2 DEF IInv, Ranges, TypeOK, Ages
  <2>5. UnderWay'
    BY <1>1, <2>1 DEF IInv, UnderWay, Waiting
  <2>6. Beating'
    <3>1. age.quiet <= Skipped
      BY <1>2, <1>4, <2>3, HorizonIsNat DEF IInv, Beating, Skipped
    <3>2. Skipped \in Nat
      BY HorizonIsNat DEF Skipped
    <3> QED BY <1>1, <2>1, <2>3, <3>1, <3>2, HorizonIsNat DEF IInv, Beating
  <2>7. LInv => LInv'
    BY <1>1, <2>1, <2>3 DEF LInv, AnswerDue, Waiting, LiveKept, Reason
  <2> QED BY <2>4, <2>5, <2>6, <2>7 DEF Kept, IInv
<1>5. CASE Late(age.prev, 1) /\ Dead
  <2>1. /\ pc' = "left" /\ why' = "timeout" /\ UNCHANGED <<age, pending, asked, msg>>
    BY <1>5 DEF Keep, Keepalive, Leave
  <2>2. Ranges'
    BY <1>1, <2>1 DEF IInv, Ranges, TypeOK
  <2>3. UnderWay' /\ Beating'
    BY <1>1, <2>1 DEF IInv, UnderWay, Waiting, Beating
  <2>4. LInv => AnswerDue'
    BY <1>1, <2>1 DEF LInv, AnswerDue, Waiting
  <2>5. LInv => LiveKept'
    <3>1. Held' <=> Held
      BY <2>1 DEF Held
    <3> QED BY <1>1, <1>3, <1>5, <2>1, <3>1 DEF LiveKept, Reason, Dead
  <2> QED BY <2>2, <2>3, <2>4, <2>5 DEF Kept, IInv, LInv
<1>6. CASE Late(age.prev, 1) /\ ~Dead
  <2> DEFINE a == Beaten(Tested)
  <2>1. /\ pc' = "recv" /\ why' = why
        /\ age' = [a EXCEPT !.prev = 0, !.now = 0, !.update = 0]
        /\ pending' = (pending \/ Tests)
        /\ asked' = (asked \/ (Tests /\ exchange = "up"))
        /\ msg' = IF Tests /\ msg = "Answer" THEN "Heartbeat" ELSE msg
    BY <1>6 DEF Keep, Keepalive
  <2>2. /\ Tested \in Ages /\ Tested.exchange = age.exchange
        /\ Tested.stalled = IF Tests THEN 0 ELSE age.stalled
        /\ Tested.quiet <= Tested.tx \/ Tested.tx = HeartBtInt + 1
    <3>1. Tested \in Ages /\ Tested.exchange = age.exchange
          /\ Tested.stalled = (IF Tests THEN 0 ELSE age.stalled)
          /\ (Tested.quiet = 0 \/ (Tested.quiet = age.quiet /\ Tested.tx = age.tx))
      BY <1>1, TestedIs
    <3>2. Tested.tx \in Nat
      BY <3>1, StampsAre DEF Ages
    <3> QED BY <3>1, <3>2 DEF IInv, Beating
  <2>3. /\ a \in Ages /\ a.exchange = age.exchange /\ a.asked \in Nat
        /\ a.quiet <= HeartBtInt /\ a.quiet \in Nat /\ a.exchange \in Nat
        /\ a.stalled \in Nat /\ a.stalled = IF Tests THEN 0 ELSE age.stalled
        /\ a.quiet <= a.tx \/ a.tx = HeartBtInt + 1
    <3>1. /\ a \in Ages /\ a.exchange = Tested.exchange /\ a.stalled = Tested.stalled
          /\ a.quiet <= HeartBtInt
          /\ a.quiet <= a.tx \/ a.tx = HeartBtInt + 1
      BY <2>2, BeatenIs
    <3> HIDE DEF a
    <3>2. a.asked \in Nat /\ a.quiet \in Nat /\ a.exchange \in Nat /\ a.stalled \in Nat
      BY <3>1, StampsAre DEF Ages
    <3> QED BY <2>2, <3>1, <3>2
  <2> HIDE DEF a
  <2>4. /\ age' \in Ages /\ age'.prev = 0 /\ age'.quiet = a.quiet /\ age'.tx = a.tx
        /\ age'.exchange = a.exchange /\ age'.asked = a.asked
        /\ age'.update = 0 /\ age'.stalled = a.stalled
    <3>1. a \in [Stamps -> Nat]
      BY <2>3 DEF Ages
    <3>2. age' \in [Stamps -> Nat]
      BY <2>1, <3>1, StampsAre
    <3>3. \A s \in Stamps : age'[s] = IF s \in {"now", "prev", "update"} THEN 0 ELSE a[s]
      BY <2>1, <3>1, StampsAre
    <3>4. \A s \in Stamps : age'[s] <= Horizon[s]
      BY <2>3, <3>3, HorizonIsNat DEF Ages
    <3> QED BY <3>2, <3>3, <3>4, StampsAre DEF Ages
  <2>5. {pending, asked}' \subseteq BOOLEAN /\ (asked' => pending')
    BY <1>1, <2>1
  <2>6. Ranges'
    <3>1. msg' \in Kinds \cup {"unset"}
      BY <2>1 DEF IInv, Ranges, TypeOK, Kinds
    <3> QED BY <3>1, <1>1, <2>1, <2>4, <2>5 DEF IInv, Ranges, TypeOK, Ages
  <2>7. UnderWay'
    <3>1. CASE Tests
      <4>1. ~pending
        BY <3>1 DEF Tests
      <4>2. msg' # "Answer"
        BY <2>1, <3>1
      <4> QED BY <4>1, <4>2, <1>1 DEF IInv, UnderWay, Waiting
    <3>2. CASE ~Tests
      BY <3>2, <1>1, <2>1 DEF IInv, UnderWay, Waiting
    <3> QED BY <3>1, <3>2
  <2>8. Beating'
    <3>1. Skipped \in Nat /\ HeartBtInt <= Skipped /\ Skipped <= Skipped + Interval
      BY HorizonIsNat DEF Skipped
    <3>2. /\ age'.quiet \in Nat /\ age'.quiet <= HeartBtInt
          /\ age'.quiet <= age'.tx \/ age'.tx = HeartBtInt + 1
          /\ age'.prev = 0 /\ age'.update = 0 /\ age'.exchange \in Nat
      BY <2>3, <2>4
    <3>3. HeartBtInt \in Nat /\ Interval \in Nat
      BY HorizonIsNat
    <3>4. /\ age'.quiet <= HeartBtInt + age'.prev
          /\ age'.quiet <= Skipped + Interval + age'.update
          /\ age'.quiet <= Skipped + age'.exchange
      BY <3>1, <3>2, <3>3
    <3> QED BY <3>2, <3>4 DEF Beating
  <2>9. LInv => AnswerDue'
    <3> SUFFICES ASSUME LInv, program = "forts", pending', exchange = "up"
                 PROVE  /\ asked' \/ \E i \in Waiting : inbox[i] = "Answer"
                        /\ age'.prev <= AnswerWithin + age'.stalled
                        /\ asked' => age'.prev <= age'.asked
      BY <1>1 DEF AnswerDue, Waiting
    <3>1. asked' \/ \E i \in Waiting : inbox[i] = "Answer"
      BY <2>1 DEF LInv, AnswerDue
    <3> QED BY <3>1, <2>3, <2>4, HorizonIsNat
  <2>10. LiveKept'
    BY <2>1 DEF LiveKept, Reason
  <2> QED BY <2>6, <2>7, <2>8, <2>9, <2>10 DEF Kept, IInv, LInv
<1> QED BY <1>4, <1>5, <1>6

-----------------------------------------------------------------------------
\* What the loop makes of a message leaves all stamps that matter alone, or
\* is a message of its own.
Calm(a) ==
  /\ a \in Ages /\ a.prev = age.prev /\ a.exchange = age.exchange
  /\ a.asked = age.asked /\ a.update = age.update /\ a.stalled = age.stalled
  /\ a.quiet = 0 \/ (a.quiet = age.quiet /\ a.tx = age.tx)

LEMMA Calms ==
  ASSUME age \in Ages
  PROVE  Calm(age) /\ Calm(Received) /\ Calm(Sent(age)) /\ Calm(Sent(Received))
BY ReceivedIs, SentIs DEF Calm

LEMMA CalmBeats ==
  ASSUME IInv, Calm(age'), pc' # "recv", exchange' = exchange
  PROVE  Beating'
<1>1. age'.tx \in Nat /\ age'.prev \in Nat /\ age'.update \in Nat /\ Skipped \in Nat
  BY StampsAre, HorizonIsNat DEF Calm, Ages, Skipped
<1>2. /\ age'.prev = age.prev /\ age'.exchange = age.exchange
      /\ age'.update = age.update
      /\ age'.quiet = 0 \/ (age'.quiet = age.quiet /\ age'.tx = age.tx)
  BY DEF Calm
<1>3. /\ age.quiet <= age.tx \/ age.tx = HeartBtInt + 1
      /\ age.quiet <= HeartBtInt + age.prev \/ age.prev = HeartBtInt \div 10 + 1
      /\ exchange = "up" => age.quiet <= Skipped + Interval + age.update
  BY DEF IInv, Beating
<1>4. CASE age'.quiet = 0
  BY <1>1, <1>4, HorizonIsNat DEF Beating
<1>5. CASE age'.quiet = age.quiet /\ age'.tx = age.tx
  BY <1>2, <1>3, <1>5 DEF Beating
<1> QED BY <1>2, <1>4, <1>5

\* A session->recv that returned a message takes it off the line.
LEMMA TailIs ==
  ASSUME IInv, inbox # <<>>, inbox' = Tail(inbox)
  PROVE  /\ inbox' \in Seq(Kinds) /\ Head(inbox) \in Kinds
         /\ 1 \in Waiting /\ inbox[1] = Head(inbox)
         /\ \A i \in Waiting' : i + 1 \in Waiting /\ inbox'[i] = inbox[i + 1]
         /\ \A i \in Waiting : i = 1 \/ i - 1 \in Waiting'
<1>1. inbox \in Seq(Kinds)
  BY DEF IInv, Ranges, TypeOK
<1>2. /\ Len(inbox) \in Nat \ {0} /\ Head(inbox) = inbox[1] /\ Head(inbox) \in Kinds
      /\ Tail(inbox) \in Seq(Kinds) /\ Len(Tail(inbox)) = Len(inbox) - 1
      /\ \A i \in 1..Len(Tail(inbox)) : Tail(inbox)[i] = inbox[i + 1]
  BY <1>1, EmptySeq, LenProperties, HeadTailProperties, ElementOfSeq
<1> QED BY <1>2 DEF Waiting

\* do_limit of forts.c sends the order, once, or gives up.
LEMMA OrderIs ==
  ASSUME NEW a, age \in Ages, a \in {age, Received}, Order(a),
         done \in BOOLEAN
  PROVE  /\ Calm(age') /\ done' \in BOOLEAN
         /\ \/ pc' = "left" /\ why' = "order"
            \/ pc' \in {"update", "keep"} /\ why' = why
<1>1. Calm(a) /\ Calm(Sent(a))
  BY Calms
<1> QED BY <1>1 DEF Order, Leave, Loops, Top

LEMMA RecvKeeps == ASSUME IInv, Recv PROVE Kept
<1> DEFINE kind == Head(inbox)
<1>1. /\ pc = "recv" /\ inbox # <<>> /\ inbox' = Tail(inbox)
      /\ UNCHANGED <<program, exchange, asked>>
      /\ age \in Ages /\ {pending, asked, done} \subseteq BOOLEAN /\ (asked => pending)
  BY RangesOfAge DEF Recv, IInv, Ranges, TypeOK
<1>2. /\ inbox' \in Seq(Kinds) /\ kind \in Kinds
      /\ 1 \in Waiting /\ inbox[1] = kind
      /\ \A i \in Waiting' : i + 1 \in Waiting /\ inbox'[i] = inbox[i + 1]
      /\ \A i \in Waiting : i = 1 \/ i - 1 \in Waiting'
  BY <1>1, TailIs
<1>3. Calm(age) /\ Calm(Received) /\ Calm(Sent(age)) /\ Calm(Sent(Received))
  BY <1>1, Calms
<1> HIDE DEF kind
<1>4. kind # "Logon" /\ (kind = "Logout" => exchange = "out")
  BY <1>2 DEF IInv, UnderWay
<1>5. /\ Calm(age') /\ done' \in BOOLEAN
      /\ \/ pc' = "left" /\ (why' = "order" \/ (why' = "message" /\ exchange = "out"))
         \/ pc' \in {"update", "keep"} /\ why' = why
      /\ IF program = "forts" THEN msg' = msg /\ pending' = (pending /\ kind # "Answer")
         ELSE msg' = kind /\ pending' = pending
  <2>1. CASE program = "forts" /\ FortsTakes(kind, Received) /\ UNCHANGED msg
    <3>1. CASE IsAdmin(kind)
      <4>1. /\ pending' = (pending /\ kind # "Answer") /\ done' = done
            /\ pc' = Top /\ why' = why /\ age' \in {Received, Sent(Received)}
        BY <2>1, <3>1 DEF FortsTakes, Admin, Loops, Answered
      <4> QED BY <2>1, <4>1, <1>1, <1>3 DEF Top
    <3>2. CASE ~IsAdmin(kind) /\ kind = "Report"
      <4>1. Order(Received) /\ pending' = pending
        BY <2>1, <3>2 DEF FortsTakes
      <4> QED BY <2>1, <3>2, <4>1, <1>1, OrderIs
    <3>3. CASE ~IsAdmin(kind) /\ kind # "Report"
      <4>1. kind = "Logout"
        BY <3>3, <1>2, <1>4 DEF IsAdmin, Kinds
      <4>2. /\ pending' = pending /\ done' = done /\ age' = Received
            /\ pc' = "left" /\ why' = "message"
        BY <2>1, <3>3 DEF FortsTakes, Leave
      <4> QED BY <2>1, <4>1, <4>2, <1>1, <1>3, <1>4
    <3> QED BY <3>1, <3>2, <3>3
  <2>2. CASE /\ program = "fix_client"
             /\ msg' = kind /\ Loops(Received) /\ UNCHANGED <<pending, done>>
    BY <2>2, <1>1, <1>3 DEF Loops, Top
  <2> QED BY <2>1, <2>2 DEF Recv, kind
<1>6. pending' => pending /\ (program = "forts" => kind # "Answer")
  BY <1>5
<1>7. pending /\ (program = "forts" => kind # "Answer") => pending'
  BY <1>5
<1>8. pending' \in BOOLEAN
  BY <1>1, <1>5
\* A test that awaits its answer has none in the line, this one included.
<1>9. asked => kind # "Answer"
  BY <1>2 DEF IInv, UnderWay
<1>10. Ranges'
  <2>1. asked' => pending'
    BY <1>1, <1>7, <1>9
  <2>2. {pending, done, asked}' \subseteq BOOLEAN
    BY <1>1, <1>5, <1>8
  <2>3. msg' \in Kinds \cup {"unset"}
    BY <1>2, <1>5 DEF IInv, Ranges, TypeOK
  <2>4. /\ pc' \in {"update", "keep", "recv", "left"}
        /\ why' \in {"none", "signal", "feeds", "order", "timeout", "message", "crash"}
    BY <1>5 DEF IInv, Ranges, TypeOK
  <2> QED BY <2>1, <2>2, <2>3, <2>4, <1>1, <1>2, <1>5
          DEF Calm, Ages, IInv, Ranges, TypeOK
<1>11. UnderWay'
  <2>1. ASSUME NEW i \in Waiting', inbox'[i] = "Answer"
        PROVE  /\ pending /\ ~asked /\ msg # "Answer" /\ kind # "Answer"
               /\ \A j \in Waiting' : inbox'[j] = "Answer" => j = i
    <3>1. i + 1 \in Waiting /\ inbox[i + 1] = "Answer" /\ i + 1 # 1 /\ i \in Nat
      BY <2>1, <1>2 DEF Waiting
    <3>2. /\ pending /\ ~asked /\ msg # "Answer"
          /\ \A j \in Waiting : inbox[j] = "Answer" => j = i + 1
      BY <3>1 DEF IInv, UnderWay
    <3>3. \A j \in Waiting' : j \in Nat /\ (j + 1 = i + 1 => j = i)
      BY <3>1 DEF Waiting
    <3> QED BY <3>1, <3>2, <3>3, <1>2
  <2>2. ASSUME NEW i \in Waiting'
        PROVE  inbox'[i] # "Logon" /\ (inbox'[i] = "Logout" => exchange' = "out")
    <3>1. i + 1 \in Waiting /\ inbox'[i] = inbox[i + 1]
      BY <1>2
    <3>2. /\ inbox[i + 1] # "Logon"
          /\ inbox[i + 1] = "Logout" => exchange = "out"
      BY <3>1 DEF IInv, UnderWay
    <3> QED BY <1>1, <3>1, <3>2
  <2>3. msg' = "Answer" => ~asked'
    <3>1. asked' = asked /\ (msg = "Answer" => ~asked)
      BY <1>1 DEF IInv, UnderWay
    <3>2. msg' \in {msg, kind}
      BY <1>5
    <3> QED BY <3>1, <3>2, <1>9
  <2> QED BY <2>1, <2>2, <2>3, <1>1, <1>5, <1>7 DEF UnderWay
<1>12. Beating'
  BY <1>1, <1>5, CalmBeats
<1>13. LInv => AnswerDue'
  <2> SUFFICES ASSUME LInv, program = "forts", pending', exchange = "up"
               PROVE  /\ asked \/ \E i \in Waiting' : inbox'[i] = "Answer"
                      /\ \/ age'.prev <= AnswerWithin + age'.stalled
                         \/ age'.stalled = HeartBtInt \div 10 + 1
                      /\ asked => age'.prev <= age'.asked
    BY <1>1 DEF AnswerDue
  <2>1. /\ asked \/ \E i \in Waiting : inbox[i] = "Answer"
        /\ \/ age.prev <= AnswerWithin + age.stalled
           \/ age.stalled = HeartBtInt \div 10 + 1
        /\ asked => age.prev <= age.asked
        /\ kind # "Answer"
    BY <1>6 DEF LInv, AnswerDue
  <2>2. ASSUME NEW i \in Waiting, inbox[i] = "Answer"
        PROVE  i - 1 \in Waiting' /\ inbox'[i - 1] = "Answer"
    <3>1. i - 1 \in Waiting' /\ i \in Nat
      BY <2>1, <2>2, <1>2 DEF Waiting
    <3>2. (i - 1) + 1 = i
      BY <3>1
    <3> QED BY <2>2, <3>1, <3>2, <1>2
  <2> QED BY <2>1, <2>2, <1>5 DEF Calm
<1>14. LInv => LiveKept'
  BY <1>1, <1>5 DEF LInv, LiveKept, Reason
<1> QED BY <1>10, <1>11, <1>12, <1>13, <1>14 DEF Kept, IInv, LInv

LEMMA RecvNothingKeeps == ASSUME IInv, RecvNothing PROVE Kept
<1>1. /\ pc = "recv" /\ inbox = <<>>
      /\ UNCHANGED <<program, msg, exchange, inbox, asked>>
      /\ age \in Ages /\ {pending, asked, done} \subseteq BOOLEAN /\ (asked => pending)
  BY RangesOfAge DEF RecvNothing, outside, IInv, Ranges, TypeOK
<1>2. Calm(age) /\ Calm(Sent(age))
  BY <1>1, Calms
<1>3. /\ Calm(age') /\ done' \in BOOLEAN /\ pc' \in {"update", "keep", "left"}
      /\ why' \in {why, "order", "message", "crash"}
      /\ program = "forts" => pc' # "left" \/ why' = "order"
      /\ pending' = pending \/ (program # "forts" /\ msg = "Answer" /\ pending' = FALSE)
  <2>1. CASE program = "forts" /\ Order(age) /\ UNCHANGED pending
    BY <2>1, <1>1, OrderIs
  <2>2. CASE /\ program = "fix_client" /\ UNCHANGED done
             /\ ClientTakes("Logon") \/ (Leave("crash") /\ UNCHANGED <<age, pending>>)
    BY <2>2, <1>1, <1>2 DEF ClientTakes, IsAdmin, Leave
  <2>3. CASE program = "fix_client" /\ UNCHANGED done /\ ClientTakes(msg)
    <3>1. CASE IsAdmin(msg)
      <4>1. /\ pending' = (pending /\ msg # "Answer") /\ pc' = Top /\ why' = why
            /\ age' \in {age, Sent(age)}
        BY <2>3, <3>1 DEF ClientTakes, Admin, Loops, Answered
      <4>2. msg # "Answer" => pending' = pending
        BY <4>1, <1>1
      <4>3. msg = "Answer" => pending' = FALSE
        BY <4>1
      <4> QED BY <2>3, <4>1, <4>2, <4>3, <1>1, <1>2 DEF Top
    <3>2. CASE ~IsAdmin(msg)
      BY <2>3, <3>2, <1>1, <1>2 DEF ClientTakes, Leave
    <3> QED BY <3>1, <3>2
  <2> QED BY <2>1, <2>2, <2>3 DEF RecvNothing
<1>4. \A i \in Waiting : FALSE
  BY <1>1, EmptySeq DEF Waiting
<1>5. pending' \in BOOLEAN /\ (asked' => pending')
  <2>1. asked => msg # "Answer"
    BY DEF IInv, UnderWay
  <2>2. CASE pending' = pending
    BY <2>2, <1>1
  <2>3. CASE msg = "Answer" /\ pending' = FALSE
    BY <2>1, <2>3, <1>1
  <2> QED BY <1>3, <2>2, <2>3
<1>6. Ranges'
  BY <1>1, <1>3, <1>5 DEF Calm, Ages, IInv, Ranges, TypeOK
<1>7. UnderWay'
  <2>1. \A i \in Waiting' : FALSE
    BY <1>1, <1>4 DEF Waiting
  <2> QED BY <2>1, <1>1 DEF IInv, UnderWay
<1>8. Beating'
  BY <1>1, <1>3, CalmBeats
<1>9. LInv => LInv'
  <2>1. LInv => AnswerDue'
    BY <1>1, <1>3, <1>4 DEF LInv, AnswerDue, Calm
  <2>2. LiveKept'
    BY <1>1, <1>3 DEF LiveKept, Reason
  <2> QED BY <2>1, <2>2 DEF LInv
<1> QED BY <1>6, <1>7, <1>8, <1>9 DEF Kept, IInv

-----------------------------------------------------------------------------
\* One case per action.
LEMMA StepKeeps == IInv /\ [Next]_vars => Kept
<1> SUFFICES ASSUME IInv, [Next]_vars PROVE Kept
  OBVIOUS
<1>1. CASE Loop
  BY <1>1, TopKeeps, KeepKeeps, RecvKeeps, RecvNothingKeeps DEF Loop
<1>2. CASE Stop
  BY <1>2, TopKeeps
<1>3. CASE Second
  BY <1>3, SecondKeeps
<1>4. CASE Answers
  <2>1. asked' = FALSE
    BY <1>4 DEF Answers
  <2> QED BY <1>4, <2>1, ArrivalKeeps DEF Answers, Kinds, client
<1>5. CASE LogsOut
  BY <1>5, ArrivalKeeps DEF LogsOut, Kinds, client
<1>6. CASE Fails
  BY <1>6, FailsKeeps
<1>7. ASSUME NEW kind \in Kinds, Says(kind) PROVE Kept
  BY <1>7, ArrivalKeeps DEF Says, Kinds, client
<1>8. CASE UNCHANGED vars
  BY <1>8, StutterKeeps
<1> QED BY <1>1, <1>2, <1>3, <1>4, <1>5, <1>6, <1>7, <1>8 DEF Next

LEMMA InvariantHolds == Spec => []IInv
<1>1. IInv /\ [Next]_vars => IInv'
  BY StepKeeps DEF Kept
<1>2. Init => IInv
  BY InitEstablishes
<1> QED BY <1>1, <1>2, PTL DEF Spec

(***************************************************************************)
(* The ranges of the loop's state: while the exchange owes an answer its   *)
(* test is pending, so that fix_session_keepalive sends no second one.     *)
(***************************************************************************)
THEOREM TypeCorrect == Spec => []TypeOK
<1>1. IInv => TypeOK
  BY DEF IInv, Ranges
<1> QED BY <1>1, InvariantHolds, PTL

(***************************************************************************)
(* For every heartbeat interval, however long an exchange is silent and    *)
(* a recovery takes, the heartbeats of forts.c come, late by no more than  *)
(* the rounds that fix_session_keepalive skips, one wait in recv and one   *)
(* call of fast_books_update.                                              *)
(***************************************************************************)
THEOREM HeartbeatsAlwaysKept == Spec => []HeartbeatsKept
<1>1. IInv => HeartbeatsKept
  <2> SUFFICES ASSUME IInv, exchange = "up" PROVE age.quiet <= Quiet
    BY DEF HeartbeatsKept
  <2>1. /\ {age.quiet, age.update, Skipped, Interval, Recovery} \subseteq Nat
        /\ age.update <= Recovery
    BY RangesOfAge, StampsAre, HorizonIsNat DEF IInv, Ages, Skipped
  <2>2. age.quiet <= Skipped + Interval + age.update
    BY DEF IInv, Beating
  <2>3. Quiet = Skipped + Interval + Recovery
    BY HorizonIsNat DEF Quiet, Skipped
  <2> QED BY <2>1, <2>2, <2>3
<1> QED BY <1>1, InvariantHolds, PTL

(***************************************************************************)
(* For every heartbeat interval and every exchange: forts.c takes one that *)
(* keeps to its times for dead only when what its answer takes and what    *)
(* went by in fast_books_update while the test was pending are more than a *)
(* tenth of the interval.                                                  *)
(***************************************************************************)
THEOREM LiveAlwaysKept == Spec => []LiveKept
<1>1. IInv /\ LInv /\ [Next]_vars => LInv'
  BY StepKeeps DEF Kept
<1>2. Init => LInv
  BY InitEstablishes
<1>3. LInv => LiveKept
  BY DEF LInv
<1> QED BY <1>1, <1>2, <1>3, InvariantHolds, PTL DEF Spec
=============================================================================
