---------------------------- MODULE FastSession ----------------------------
(***************************************************************************)
(* A FAST session over a stream, after lib/proto/fast_message.c and        *)
(* lib/proto/fast_session.c: one end encodes messages of a template, the   *)
(* other decodes them in place from a buffer that bytes come into in       *)
(* pieces of any size.  A message that stays partial is taken up again at  *)
(* the field it stopped in.                                                *)
(*                                                                         *)
(* Both ends remember their fields from message to message; what is sent   *)
(* depends on the memory of the one, and what it means on that of the      *)
(* other.                                                                  *)
(***************************************************************************)
EXTENDS FastSequence

CONSTANTS
  Families,      \* names of sets of templates
  ResetFamilies, \* those for which the memories are reset after every message
  Templates(_),  \* the templates of one of them: sequences of descriptors
  Values(_),     \* the values a field may be given, as a sequence
  Tid,           \* the template's id
  Preamble,      \* preamble_bytes
  OmitsTid,      \* whether the id is left out when it is the last one's
  MaxSent        \* bound on the messages sent

VARIABLES
  template,   \* the template both ends have read
  afresh,     \* session->reset: each message starts afresh
  tx,         \* the fields of the sender's message
  sent,       \* the contents of the messages sent
  wire,       \* bytes on their way
  rx,         \* the receiver: buffer, presence map, fields
  delivered   \* the contents of the messages fast_session_recv returned

vars == <<template, afresh, tx, sent, wire, rx, delivered>>

Fields == DOMAIN template
NewFields(t) == [i \in DOMAIN t |-> NewField(t[i])]

Init ==
  /\ \E family \in Families :
       template \in Templates(family) /\ afresh = (family \in ResetFamilies)
  /\ tx = NewFields(template) /\ sent = <<>> /\ wire = <<>> /\ delivered = <<>>
  /\ rx = [unread |-> <<>>, preamble |-> FALSE, mapped |-> FALSE, pmap |-> {},
           bit |-> 0, open |-> FALSE, decoded |-> 0, fields |-> NewFields(template),
           last |-> 0, ret |-> "partial"]

-----------------------------------------------------------------------------
\* What a message says: a value, or none, for each field.
Content(fields) == [i \in Fields |-> Shown(template[i], fields[i])]

\* fast_send_prepare, fast_ping_prepare: the fields get values and states.
\* The first time a field has none; later it may have the one the encoder left.
Meant(d) == IF d.op = "constant" THEN d.reset ELSE Values(d)
MayBe(d) == (IF d.optional THEN {0} ELSE {}) \cup DOMAIN Meant(d)
Fill(d, f, choice, state) ==
  IF IsSequence(d)
  THEN IF choice = 0 THEN [f EXCEPT !.length.state = "empty"]
       ELSE [f EXCEPT !.value = Meant(d)[choice],
                      !.length.value = Len(Meant(d)[choice]), !.length.state = state]
  ELSE IF choice = 0 THEN Empty(f)
  ELSE [f EXCEPT !.state = state, !.value = Meant(d)[choice]]
Remembered == IF afresh THEN NewFields(template) ELSE tx
Prepared ==
  {[i \in Fields |-> Fill(template[i], Remembered[i], c[i], state)] :
     c \in {c \in [Fields -> UNION {MayBe(template[i]) : i \in Fields}] :
              \A i \in Fields : c[i] \in MayBe(template[i])},
     state \in IF afresh \/ sent = <<>> THEN {"undefined"} ELSE {"undefined", "assigned"}}

\* An exchange that starts afresh leaves out what a field starts with.
Starts(d, f) ==
  /\ afresh /\ d.op \in {"copy", "incr"}
  /\ IF HasReset(d) THEN ~IsEmpty(f) /\ f.value = d.reset[1] ELSE d.optional /\ IsEmpty(f)
EncodeOrLeave(d, f, s) == IF Starts(d, f) THEN NotSent(d, f, s) ELSE Encode(d, f, s)

\* fast_message_encode: the fields in their order, the presence map in front.
EncodeField(m, i) ==
  LET e == EncodeOrLeave(template[i], m.fields[i],
                         [bit |-> m.bit, pmap |-> m.pmap, bytes |-> m.bytes])
  IN  [fields |-> [m.fields EXCEPT ![i] = e.f],
       bit |-> e.bit, pmap |-> e.pmap, bytes |-> e.bytes]
MessageEncode(fields) ==
  FoldLeft(EncodeField,
           IF OmitsTid /\ sent # <<>> /\ ~afresh
           THEN [fields |-> fields, bit |-> 0, pmap |-> {}, bytes |-> <<>>]
           ELSE [fields |-> fields, bit |-> 0, pmap |-> {0}, bytes |-> TransferUint(Tid)],
           [i \in Fields |-> i])

\* fast_session_send.  Only an exchange puts a preamble in front or omits an id.
Send ==
  /\ Len(sent) < MaxSent
  /\ \E fields \in Prepared :
       \E m \in {MessageEncode(fields)} :
         /\ tx' = m.fields
         /\ wire' = wire \o [i \in 1..Preamble |-> 0] \o PmapBytes(m.pmap) \o m.bytes
         /\ sent' = Append(sent, Content(fields))
  /\ UNCHANGED <<template, afresh, rx, delivered>>

-----------------------------------------------------------------------------
\* fast_message_decode.  Each part is taken up where the last call left it,
\* and leaves the buffer alone when bytes are missing.
Fails(r, ret) == [r EXCEPT !.ret = ret]
TakePreamble(r) ==
  IF r.preamble \/ Preamble = 0 THEN r
  ELSE IF Len(r.unread) < Preamble THEN Fails(r, "partial")
  ELSE [r EXCEPT !.preamble = TRUE, !.unread = From(@, Preamble + 1)]

MapIs(r, p) ==
  CASE p.ret = "ok" -> [r EXCEPT !.mapped = TRUE, !.pmap = p.value, !.bit = 0,
                                 !.unread = p.rest]
    [] p.ret = "partial" -> Fails(r, p.ret)
    [] p.ret = "garbled" -> [Fails(r, p.ret) EXCEPT !.unread = p.rest]
TakePmap(r) ==
  IF r.ret # "ok" \/ r.mapped THEN r ELSE MapIs(r, ParsePmap(r.unread))

\* The id may be left out if it is that of the last message.
TidIs(r, p) ==
  CASE p.ret = "ok" /\ p.value = Tid -> [r EXCEPT !.open = TRUE, !.unread = p.rest]
    [] p.ret = "partial" -> Fails(r, p.ret)
    [] OTHER -> [Fails(r, "garbled") EXCEPT !.unread = p.rest]
TakeTid(r) ==
  IF r.ret # "ok" \/ r.open THEN r
  ELSE TidIs(r, IF 0 \in r.pmap THEN ParseUint(r.unread) ELSE Got(r.last, r.unread))

\* The field is done, or it will be tried again from its beginning; a sequence
\* has its own place to go on.  The bit is put back, memory of a failed
\* attempt stays.
FieldIs(r, i, e) ==
  LET g == [r EXCEPT !.fields[i] = e.f]
  IN  CASE e.ret = "ok" -> [g EXCEPT !.decoded = i, !.bit = e.bit, !.unread = e.rest]
        [] e.ret = "partial" ->
             [Fails(g, "partial") EXCEPT !.unread = IF IsSequence(template[i]) THEN e.rest ELSE @]
        [] e.ret = "garbled" ->
             [Fails(g, "garbled") EXCEPT !.bit = e.bit, !.unread = e.rest]
TakeField(r, i) ==
  IF r.ret # "ok" \/ i <= r.decoded THEN r
  ELSE FieldIs(r, i, Decode(template[i], r.fields[i],
                            [pmap |-> r.pmap, bit |-> r.bit, buf |-> r.unread]))
TakeFields(r) == FoldLeft(TakeField, r, [i \in Fields |-> i])

\* As a bug: the id is not remembered.
FinishNameless(r) ==
  IF r.ret # "ok" THEN r
  ELSE [r EXCEPT !.open = FALSE, !.preamble = FALSE, !.mapped = FALSE, !.decoded = 0]
Finish(r) ==
  IF r.ret # "ok" THEN r
  ELSE [r EXCEPT !.last = Tid, !.open = FALSE, !.preamble = FALSE,
                 !.mapped = FALSE, !.decoded = 0]
MessageDecode(r) ==
  Finish(TakeFields(TakeTid(TakePmap(TakePreamble(Fails(r, "ok"))))))

\* fast_session_reset.
SessionReset(r) ==
  [r EXCEPT !.fields = [i \in Fields |-> ResetField(template[i], @[i])]]

\* The programs reset the session when they have looked at a message.
Deliver(r) ==
  /\ rx' = IF r.ret = "ok" /\ afresh THEN SessionReset(r) ELSE r
  /\ delivered' = IF r.ret = "ok" THEN Append(delivered, Content(r.fields))
                  ELSE delivered

\* fast_session_recv: what is there is decoded; if that is no message, bytes
\* are received, if there are any, and decoded.
Recv ==
  /\ \E r \in {MessageDecode(rx)} :
       IF r.ret = "ok" THEN Deliver(r) /\ UNCHANGED wire
       ELSE \/ Deliver(r) /\ UNCHANGED wire
            \/ \E n \in 1..Len(wire) :
                 /\ wire' = From(wire, n + 1)
                 /\ \E q \in {MessageDecode([r EXCEPT !.unread = @ \o SubSeq(wire, 1, n)])} :
                      Deliver(q)
  /\ UNCHANGED <<template, afresh, tx, sent>>

Next == Send \/ Recv

Spec == Init /\ [][Next]_vars

-----------------------------------------------------------------------------
\* However the bytes were cut, the messages received are the messages sent.
AsSent == IsPrefix(delivered, sent)

\* When no bytes are on their way and none make a message, every message has
\* been received, and the receiver is ready for a new one.
AtRest == wire = <<>> /\ MessageDecode(rx).ret # "ok"
AllArrived ==
  AtRest => /\ Len(delivered) = Len(sent)
            /\ rx.unread = <<>> /\ ~rx.mapped /\ rx.decoded = 0

\* The two memories agree: the decoder has the value that the encoder takes
\* for known, wherever a later message can refer to it: with a reset, none can.
Agree(d, t, r) ==
  d.op \in {"copy", "incr", "delta"} =>
    /\ IsEmpty(r) <=> t.was = "empty"
    /\ ~IsEmpty(r) \/ d.op = "delta" => r.value = t.previous
AgreeOn(d, t, r) ==
  IF d.type = "individ"
  THEN /\ Agree(d.exponent, t.parts[1], r.parts[1])
       /\ Agree(d.mantissa, t.parts[2], r.parts[2])
  ELSE Agree(d, t, r)
InStep ==
  ~afresh /\ Len(delivered) = Len(sent) =>
    \A i \in Fields :
      LET d == template[i] IN
        IF IsSequence(d)
        THEN /\ Agree(d.length, tx[i].length, rx.fields[i].length)
             /\ \A j \in DOMAIN d.element :
                  AgreeOn(d.element[j], tx[i].parts[j], rx.fields[i].parts[j])
        ELSE AgreeOn(d, tx[i], rx.fields[i])
=============================================================================
