------------------------------ MODULE FixWire ------------------------------
(***************************************************************************)
(* A FIX message on the wire and how lib/proto/fix_message.c parses it.    *)
(* The wire carries symbols: '=', the delimiter, the digits of a tag as    *)
(* one symbol, a value as one symbol or, for a text, several.  A checksum  *)
(* is the range it was summed over: no two ranges have the same.           *)
(***************************************************************************)
EXTENDS Integers, Sequences, FiniteSetsExt

Eq == [char |-> "="]
Soh == [char |-> "SOH"]
Tag(t) == [tag |-> t]
Val(v) == [val |-> v]
CheckSumOf(range) == [sum |-> range]

BeginString == 8
BodyLength == 9
CheckSum == 10
MsgSeqNum == 34
MsgType == 35
Text == 58

Field(tag, value) == <<tag, Eq>> \o value \o <<Soh>>

\* The size of "10=***" and its delimiter (as a bug: one more).
CheckSumSizeOfTwo == 5
CheckSumSize == 4

\* fix_message_unparse.  A message has a number, and a text or none.
Known == Val(1)
Unparse(begin, type, seq, tag, text, extra) ==
  LET body == Field(Tag(MsgType), <<type>>)
                \o Field(Tag(MsgSeqNum), <<Val(seq)>>)
                \o Field(tag, [i \in 1..text |-> Val(0)])
      head == Field(Tag(BeginString), <<begin>>)
                \o Field(Tag(BodyLength), <<Val(Len(body) + extra)>>)
  IN  head \o body \o Field(Tag(CheckSum), <<CheckSumOf(head \o body)>>)

-----------------------------------------------------------------------------
\* buffer_find: the first c from i on, or the end of the bytes u.
Find(u, i, c) ==
  LET found == {j \in i..Len(u) : u[j] = c}
  IN  IF found = {} THEN Len(u) + 1 ELSE Min(found)
AtEnd(u, i) == i > Len(u)

\* next_tag: over the rest of a field.
NextTag(u, i) == LET s == Find(u, i, Soh) IN IF AtEnd(u, s) THEN s ELSE s + 1

\* fix_uatoi stops at '=': the bytes from i up to it are the digits of a tag.
IsTag(u, i, eq) == eq = i + 1 /\ "tag" \in DOMAIN u[i]
Number(value) ==
  IF value = <<>> THEN 0
  ELSE IF "val" \in DOMAIN value[1] THEN value[1].val
  ELSE IF "tag" \in DOMAIN value[1] THEN value[1].tag ELSE 0

Partial == [st |-> "partial"]
Garbled(at) == [st |-> "garbled", at |-> at]

\* parse_field: a tag and its value, with the first '=' from i on and the
\* delimiter behind it; `at` is where the buffer is afterwards.
FieldAt(u, i, eq, soh) ==
  IF AtEnd(u, eq) THEN Partial
  ELSE IF ~IsTag(u, i, eq) THEN Garbled(NextTag(u, eq))
  ELSE IF AtEnd(u, soh) THEN [st |-> "partial", tag |-> u[i].tag]
  ELSE [st |-> "ok", at |-> soh + 1, tag |-> u[i].tag,
        value |-> SubSeq(u, eq + 1, soh - 1)]
UpTo(u, i, eq) == FieldAt(u, i, eq, Find(u, eq, Soh))
ParseField(u, i) == UpTo(u, i, Find(u, i, Eq))

\* match_field: another tag is garbled as soon as it can be read.
Expect(f, tag, other) == IF "tag" \in DOMAIN f /\ f.tag # tag THEN other ELSE f
MatchField(u, i, tag) ==
  Expect(ParseField(u, i), tag, Garbled(NextTag(u, Find(u, i, Eq))))

\* parse_body_length, parse_msg_type and checksum look at the value too.
Check(f, Good(_)) == IF f.st = "ok" /\ ~Good(f.value) THEN Garbled(f.at) ELSE f
ParseBodyLength(u, i, max) ==
  Check(MatchField(u, i, BodyLength), LAMBDA value : Number(value) \in 1..max)
ParseMsgType(u, i) ==
  Check(MatchField(u, i, MsgType), LAMBDA value : value = <<Known>>)

\* The message starts at i, its MsgType at type, and the checksum is len
\* symbols behind that.
Enough(u, type, len) == Len(u) + 1 - type >= len + CheckSumSize
\* As a bug: the checksum is waited for, but not looked at.
VerifyCheckSumNever(u, i, type, len) ==
  IF Enough(u, type, len) THEN [st |-> "ok"] ELSE Partial
VerifyCheckSum(u, i, type, len) ==
  IF Enough(u, type, len)
  THEN Check(MatchField(u, type + len, CheckSum),
             LAMBDA value : value = <<CheckSumOf(SubSeq(u, i, type + len - 1))>>)
  ELSE Partial

\* rest_of_message: the number and the texts up to the checksum.  A field
\* that cannot be read ends the message there, without its fields.
Ends(ok, at) == [ok |-> ok, at |-> at, seq |-> 0, text |-> <<>>]
With(f, r) ==
  [r EXCEPT !.seq = IF f.tag = MsgSeqNum THEN Number(f.value) ELSE @,
            !.text = IF f.tag = Text /\ r.ok THEN <<Len(f.value)>> \o @ ELSE @]
RestAfter(u, f, Rest) ==
  CASE f.st = "partial" -> Ends(FALSE, Len(u) + 1)
    [] f.st = "garbled" -> Ends(FALSE, f.at)
    [] f.st = "ok" -> IF f.tag = CheckSum THEN Ends(TRUE, f.at)
                      ELSE With(f, Rest[f.at])
RestOfMessage(u, start) ==
  LET Rest[i \in 1..(Len(u) + 1)] == RestAfter(u, ParseField(u, i), Rest)
  IN  Rest[start]

\* One round of fix_message_parse from i: three fields, then the checksum,
\* then the rest of the message.
Whole(b, r) ==
  [st |-> "ok", at |-> r.at,
   msg |-> [begin |-> b.value, seq |-> r.seq, text |-> r.text]]
Checked(u, b, t, c) == IF c.st = "ok" THEN Whole(b, RestOfMessage(u, t.at)) ELSE c
Typed(u, i, b, l, t) ==
  IF t.st = "ok"
  THEN Checked(u, b, t, VerifyCheckSum(u, i, l.at, Number(l.value))) ELSE t
Sized(u, i, b, l) ==
  IF l.st = "ok" THEN Typed(u, i, b, l, ParseMsgType(u, l.at)) ELSE l
Begun(u, i, max, b) ==
  IF b.st = "ok" THEN Sized(u, i, b, ParseBodyLength(u, b.at, max)) ELSE b
Frame(u, i, max) == Begun(u, i, max, MatchField(u, i, BeginString))

\* fix_message_parse: garbled bytes are left behind until a message is there,
\* or bytes that may be the beginning of one.
ParseAfter(u, i, f, Try) ==
  CASE AtEnd(u, i) \/ f.st = "partial" -> [got |-> FALSE, at |-> i]
    [] f.st = "garbled" /\ ~AtEnd(u, i) -> Try[f.at]
    [] f.st = "ok" -> [got |-> TRUE, at |-> f.at, msg |-> f.msg]
Parse(u, max) ==
  LET Try[i \in 1..(Len(u) + 1)] == ParseAfter(u, i, Frame(u, i, max), Try)
  IN  Try[1]
=============================================================================
