---------------------------- MODULE FixTemplate ----------------------------
(***************************************************************************)
(* A message template, after lib/proto/fix_template.c: the head and the    *)
(* constant fields are written once, and an unparse writes over the values *)
(* that change, at the markers where they stand, appends the variable      *)
(* fields and sums only what may have changed.                             *)
(*                                                                         *)
(* Bytes are the symbols of FixWire.  A number that is padded with zeros   *)
(* to a fixed width is one symbol, and so are a time and a SenderCompID,   *)
(* which keep their width: numbers stay below a million.                   *)
(***************************************************************************)
EXTENDS FixWire, SequencesExt

CONSTANTS
  Numbers,     \* bound on out_msg_seq_num
  Senders,     \* the SenderCompIDs of the sessions that use the template
  Times,       \* times
  ConstTexts,  \* what the constant fields may be: sequences of lengths of texts
  Texts        \* and the variable fields

ASSUME TemplateAssumption ==
  /\ Numbers \in Nat /\ Senders \subseteq Nat /\ Times \subseteq Nat
  /\ ConstTexts \cup Texts \subseteq Seq(Nat)

VARIABLES
  data,     \* tx_data, as far as it was ever written
  end,      \* buf.end: how much of it is the message
  markers,  \* the places of the values that change, and of the constant fields
  sums,     \* const_csum: the ranges it was summed over
  fields,   \* the variable fields
  session,  \* sender_comp_id and out_msg_seq_num of the session to send on
  time,     \* history: the time last put into the template
  consts,   \* history: the constant fields
  current   \* history: an unparse, and nothing that changed since

vars == <<data, end, markers, sums, fields, session, time, consts, current>>

SenderCompID == 49
SendingTime == 52
TargetCompID == 56
TransactTime == 60

Zero == Val(0)
Value(tag, value) == Field(Tag(tag), <<value>>)
TextField(len) == Field(Tag(Text), [i \in 1..len |-> Zero])
TextFields(texts) == FlattenSeq([i \in 1..Len(texts) |-> TextField(texts[i])])

\* Bytes written from an offset on.
Written(bytes, offset, new) ==
  [i \in 1..Max({Len(bytes), offset + Len(new)}) |->
     IF i \in (offset + 1)..(offset + Len(new)) THEN new[i - offset] ELSE bytes[i]]
Put(bytes, marker, value) == [bytes EXCEPT ![marker] = value]

-----------------------------------------------------------------------------
(***************************************************************************)
(* fix_template_prepare.                                                   *)
(***************************************************************************)
UpToLength == Value(BeginString, Zero) \o <<Tag(BodyLength), Eq>>
UpToNumber == UpToLength \o <<Zero, Soh>> \o Value(MsgType, Known) \o <<Tag(MsgSeqNum), Eq>>
Stamped(sender, transact) ==
  UpToNumber \o <<Zero, Soh>> \o Value(SenderCompID, Val(sender))
    \o Value(SendingTime, Zero) \o Value(TargetCompID, Zero)
    \o (IF transact THEN Value(TransactTime, Zero) ELSE <<>>)

\* A marker is the place of a value's first byte; with no TransactTime, 0.
MarkersOf(head, texts, transact) ==
  [length |-> Len(UpToLength) + 1, seq |-> Len(UpToNumber) + 1, sender |-> Len(UpToNumber) + 5,
   time |-> Len(UpToNumber) + 9, transact |-> IF transact THEN Len(head) - 1 ELSE 0,
   constStart |-> Len(head) + 1, constEnd |-> Len(head) + Len(texts) + 1]

\* Without one, the sum covers the constant fields and what comes before the
\* body length.
Prepared(head, texts, transact) ==
  /\ data = head \o texts /\ end = Len(data)
  /\ markers = MarkersOf(head, texts, transact)
  /\ sums = [head |-> UpToLength, const |-> texts]

\* manage_transact_time is not initialised in fix_perf.c: it may be either.
Init ==
  /\ fields = <<>> /\ consts \in ConstTexts
  /\ session \in [sender : Senders, seq : {1}]
  /\ \E transact \in BOOLEAN :
       Prepared(Stamped(session.sender, transact), TextFields(consts), transact)
  /\ time = 0
  /\ current = FALSE

-----------------------------------------------------------------------------
\* The user's program: another session, the next number, other fields.
UseSession(sender) ==
  /\ session' = [session EXCEPT !.sender = sender] /\ current' = FALSE
  /\ UNCHANGED <<data, end, markers, sums, fields, time, consts>>

NextNumber ==
  /\ session.seq < Numbers
  /\ session' = [session EXCEPT !.seq = @ + 1] /\ current' = FALSE
  /\ UNCHANGED <<data, end, markers, sums, fields, time, consts>>

SetFields(texts) ==
  /\ fields' = texts /\ current' = FALSE
  /\ UNCHANGED <<data, end, markers, sums, session, time, consts>>

UpdateTime(now) ==
  /\ data' = [i \in DOMAIN data |->
                IF i \in {markers.time, markers.transact} THEN Val(now) ELSE data[i]]
  /\ time' = now /\ current' = FALSE
  /\ UNCHANGED <<end, markers, sums, fields, session, consts>>

\* As a bug: the fields are appended to the last message.
StartAtEnd == end
Start == markers.constEnd - 1

\* As a bug: without the delimiter behind the length.
LengthWithDelimiter(last) == last - markers.length
LengthOf(last) == last - (markers.length + 1)

Between(bytes, from, to) == SubSeq(bytes, from, to - 1)
Sum(bytes, last) ==
  CheckSumOf(sums.head \o Between(bytes, markers.length, markers.constStart)
               \o sums.const \o Between(bytes, markers.constEnd, last + 1))

Summed(bytes, last) ==
  Written(bytes, last, Field(Tag(CheckSum), <<Sum(bytes, last)>>))

\* The values at their markers, when the message ends at last.
Marked(bytes, last) ==
  Put(Put(Put(bytes, markers.sender, Val(session.sender)),
          markers.seq, Val(session.seq)),
      markers.length, Val(LengthOf(last)))

TemplateUnparse ==
  /\ \E last \in {Start + Len(TextFields(fields))} :
       /\ data' = Summed(Marked(Written(data, Start, TextFields(fields)), last), last)
       /\ end' = last + CheckSumSize
  /\ current' = TRUE
  /\ UNCHANGED <<markers, sums, fields, session, time, consts>>

Next ==
  \/ \E sender \in Senders : UseSession(sender)
  \/ NextNumber
  \/ \E texts \in Texts : SetFields(texts)
  \/ \E now \in Times : UpdateTime(now)
  \/ TemplateUnparse

Spec == Init /\ [][Next]_vars

-----------------------------------------------------------------------------
Message == SubSeq(data, 1, end)

\* The same message as fix_message_unparse builds one, from its fields, with
\* its length counted and its sum taken over all of it.
Complete(head, body) ==
  head \o body \o Field(Tag(CheckSum), <<CheckSumOf(head \o body)>>)
FromBody(body) ==
  Complete(Value(BeginString, Zero) \o Value(BodyLength, Val(Len(body))), body)
FromFields ==
  FromBody(Value(MsgType, Known) \o Value(MsgSeqNum, Val(session.seq))
    \o Value(SenderCompID, Val(session.sender)) \o Value(SendingTime, Val(time))
    \o Value(TargetCompID, Zero)
    \o (IF markers.transact = 0 THEN <<>> ELSE Value(TransactTime, Val(time)))
    \o TextFields(consts) \o TextFields(fields))

\* Writing at the markers and summing by parts gives what a message built anew
\* would be, whatever sessions, numbers, times and longer or shorter fields
\* the template was used for before.
AsBuiltAnew == current => Message = FromFields

\* fix_message_parse accepts it as one message, to its last byte, and reads
\* back the number and the texts.
ReadBack ==
  current => Parse(Message, Len(Message)) =
    [got |-> TRUE, at |-> end + 1,
     msg |-> [begin |-> <<Zero>>, seq |-> session.seq, text |-> consts \o fields]]
=============================================================================
