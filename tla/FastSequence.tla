---------------------------- MODULE FastSequence ---------------------------
(***************************************************************************)
(* Sequences: a length and as many elements, each with a presence map of   *)
(* its own if any of its fields needs one, after fast_decode_sequence of   *)
(* lib/proto/fast_message.c.  All elements share the memory of the fields  *)
(* (`parts`); what an element says is copied to `value` when it is done.   *)
(* A sequence that stays partial is taken up again in the element, and in  *)
(* the field of it, where it stopped.                                      *)
(*                                                                         *)
(* The library encodes no sequences: the encoding is the exchange's.       *)
(***************************************************************************)
EXTENDS FastField

CONSTANT MaxElements   \* FAST_SEQUENCE_ELEMENTS

IsSequence(d) == d.type = "sequence"
Parts(d) == [i \in DOMAIN d.element |-> NewScalar(d.element[i])]
NewField(d) ==
  IF IsSequence(d)
  THEN [length |-> NewPart(d.length), parts |-> Parts(d), value |-> <<>>,
        decoded |-> 0, mapped |-> FALSE, pmap |-> {}, bit |-> -1, at |-> 0]
  ELSE NewScalar(d)

\* For a sequence the fields of its elements, but not its length.
ResetParts(d, f) ==
  [f EXCEPT !.parts = [i \in DOMAIN @ |-> ResetScalar(d.element[i], @[i])]]
ResetField(d, f) == IF IsSequence(d) THEN ResetParts(d, f) ELSE ResetScalar(d, f)

Maybe(f) == IF IsEmpty(f) THEN <<>> ELSE <<f.value>>
Says(fields) == [i \in DOMAIN fields |-> Maybe(fields[i])]
\* What a field says: a value, or none.
Shown(d, f) ==
  IF ~IsSequence(d) THEN Maybe(f)
  ELSE IF IsEmpty(f.length) THEN <<>> ELSE <<SubSeq(f.value, 1, f.length.value)>>

\* FAST_FIELD_FLAGS_PMAPREQ: a decimal in two parts counts as one without.
PmapRequired(d) == \E i \in DOMAIN d.element : UsesPmap(d.element[i])

-----------------------------------------------------------------------------
\* q is the state of the loops: the sequence, the buffer, and how it went.
Loop(ret, f, buf) == [ret |-> ret, f |-> f, buf |-> buf]

ElementMapIs(q, p) ==
  CASE p.ret = "ok" -> Loop("ok", [q.f EXCEPT !.mapped = TRUE, !.pmap = p.value, !.bit = -1],
                            p.rest)
    [] p.ret = "partial" -> [q EXCEPT !.ret = p.ret]
    [] p.ret = "garbled" -> Loop(p.ret, q.f, p.rest)
ElementMap(d, q) ==
  IF q.ret # "ok" \/ q.f.mapped \/ ~PmapRequired(d) THEN q
  ELSE ElementMapIs(q, ParsePmap(q.buf))

ElementFieldIs(q, i, e) ==
  LET g == [q.f EXCEPT !.parts[i] = e.f]
  IN  CASE e.ret = "ok" -> Loop("ok", [g EXCEPT !.at = i, !.bit = e.bit], e.rest)
        [] e.ret = "partial" -> Loop("partial", g, q.buf)
        [] e.ret = "garbled" -> Loop("garbled", [g EXCEPT !.bit = e.bit], e.rest)
ElementField(d, q, i) ==
  IF q.ret # "ok" \/ i <= q.f.at THEN q
  ELSE ElementFieldIs(q, i,
         DecodeScalar(d.element[i], q.f.parts[i],
                      [pmap |-> q.f.pmap, bit |-> q.f.bit, buf |-> q.buf]))

ElementDone(q, k) ==
  IF q.ret # "ok" THEN q
  ELSE [q EXCEPT !.f.mapped = FALSE, !.f.at = 0, !.f.decoded = k + 1,
                 !.f.value = SubSeq(@, 1, k - 1) \o <<Says(q.f.parts)>>
                               \o SubSeq(@, k + 1, Len(@))]
Element(d, q, k) ==
  IF q.ret # "ok" \/ k < q.f.decoded THEN q
  ELSE ElementDone(FoldLeft(LAMBDA r, i : ElementField(d, r, i), ElementMap(d, q),
                            [i \in DOMAIN d.element |-> i]),
                   k)
Elements(d, q) ==
  FoldLeft(LAMBDA r, k : Element(d, r, k), q, [k \in 1..q.f.length.value |-> k])

\* The bit is the one behind the length's, if the length was read just now.
Leave(bit, q) ==
  At(bit, q.ret, IF q.ret = "ok" THEN [q.f EXCEPT !.decoded = 0] ELSE q.f, q.buf)
LengthIs(d, f, s, n) ==
  LET g == [f EXCEPT !.length = n.f]
  IN  IF n.ret # "ok" THEN At(n.bit, n.ret, g, IF n.ret = "partial" THEN s.buf ELSE n.rest)
      ELSE IF IsEmpty(n.f)
      THEN At(n.bit, IF d.optional THEN "ok" ELSE "garbled", g, n.rest)
      ELSE IF n.f.value >= MaxElements THEN At(n.bit, "garbled", g, n.rest)
      ELSE Leave(n.bit, Elements(d, Loop("ok", [g EXCEPT !.decoded = 1], n.rest)))
DecodeSequence(d, f, s) ==
  IF f.decoded = 0 THEN LengthIs(d, f, s, DecodeUint(d.length, f.length, s))
  ELSE Leave(s.bit, Elements(d, Loop("ok", f, s.buf)))

Decode(d, f, s) ==
  IF IsSequence(d) THEN DecodeSequence(d, f, s) ELSE DecodeScalar(d, f, s)

-----------------------------------------------------------------------------
\* How an exchange encodes one: a field that was sent before is left out when
\* it may be.  An element has a presence map if a part of it needs one.
Given(f, v) ==
  IF v = <<>> THEN Empty(f)
  ELSE [f EXCEPT !.value = v[1],
                 !.state = IF f.was = "undefined" THEN "undefined" ELSE "assigned"]
NeedsPmap(d) ==
  \E i \in DOMAIN d.element :
    LET e == d.element[i]
    IN  UsesPmap(e) \/ (e.type = "individ" /\ (UsesPmap(e.exponent) \/ UsesPmap(e.mantissa)))
EncodeElement(d, s, element) ==
  LET Field(m, i) ==
        LET e == EncodeScalar(d.element[i], Given(m.parts[i], element[i]), m)
        IN  [parts |-> [m.parts EXCEPT ![i] = e.f],
             bit |-> e.bit, pmap |-> e.pmap, bytes |-> e.bytes]
      m == FoldLeft(Field,
                    [parts |-> s.parts, bit |-> -1, pmap |-> {}, bytes |-> <<>>],
                    [i \in DOMAIN element |-> i])
  IN  [parts |-> m.parts,
       bytes |-> s.bytes \o (IF NeedsPmap(d) THEN PmapBytes(m.pmap) ELSE <<>>) \o m.bytes]
WithElements(d, f, n) ==
  LET m == FoldLeft(LAMBDA r, e : EncodeElement(d, r, e),
                    [parts |-> f.parts, bytes |-> n.bytes],
                    IF IsEmpty(n.f) THEN <<>> ELSE f.value)
  IN  [n EXCEPT !.f = [f EXCEPT !.length = n.f, !.parts = m.parts], !.bytes = m.bytes]
EncodeSequence(d, f, s) == WithElements(d, f, EncodeUint(d.length, f.length, s))

\* Neither has the library an encoding for strings of bytes, vectors, and what
\* changes in a string: after the part it begins with, or before the part it
\* ends with, whichever is longer.
EncodeBytes(d, f, s) ==
  SendWith(d, f, s, TransferUint(WithNull(d, Len(f.value))) \o f.value, TransferUint(0))
Same(a, b) == Len(LongestCommonPrefix({a, b}))
EncodeDelta(d, f, s) ==
  LET old == f.previous
      begin == Same(old, f.value)
      end == Same(Reverse(old), Reverse(f.value))
      n == IF begin >= end THEN Len(old) - begin ELSE -(Len(old) - end) - 1
      new == IF begin >= end THEN From(f.value, begin + 1)
             ELSE SubSeq(f.value, 1, Len(f.value) - end)
  IN  SendWith(d, f, s, TransferInt(WithNull(d, n)) \o TransferString(new), TransferInt(0))

Encode(d, f, s) ==
  CASE IsSequence(d) -> EncodeSequence(d, f, s)
    [] d.type \in {"unicode", "vector"} -> EncodeBytes(d, f, s)
    [] d.type = "string" /\ d.op = "delta" -> EncodeDelta(d, f, s)
    [] OTHER -> EncodeScalar(d, f, s)
=============================================================================
