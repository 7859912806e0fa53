----------------------------- MODULE FastField -----------------------------
(***************************************************************************)
(* How lib/proto/fast_message.c encodes and decodes one field, for every   *)
(* type and operator.                                                      *)
(*                                                                         *)
(* A descriptor d is what fast_template.c read about a field: its type,    *)
(* op, whether it is optional, and its reset value (<<>> if it has none);  *)
(* a decimal whose exponent and mantissa have operators of their own has   *)
(* two descriptors.  A field f is what struct fast_field remembers from    *)
(* message to message: the decoder its state and value, the encoder also   *)
(* its previous value and state (`was`).                                   *)
(***************************************************************************)
EXTENDS FastBytes

Zero(d) ==
  CASE d.type \in {"uint", "int"} -> 0
    [] d.type \in {"string", "unicode", "vector"} -> <<>>
    [] d.type \in {"decimal", "individ"} -> <<0, 0>>
HasReset(d) == d.reset # <<>>
Initial(d) == IF HasReset(d) THEN d.reset[1] ELSE Zero(d)

\* fast_field_init.
NewPart(d) ==
  [state |-> "undefined", was |-> "undefined",
   value |-> Initial(d), previous |-> Initial(d), parts |-> <<>>]
NewScalar(d) ==
  IF d.type = "individ"
  THEN [NewPart(d) EXCEPT !.parts = <<NewPart(d.exponent), NewPart(d.mantissa)>>]
  ELSE NewPart(d)

Assign(f, v) == [f EXCEPT !.state = "assigned", !.value = v]
Empty(f) == [f EXCEPT !.state = "empty"]
IsEmpty(f) == f.state = "empty"

\* pmap_required: the operators that take a bit of the presence map.
UsesPmap(d) ==
  \/ d.op \in {"copy", "incr", "default"}
  \/ d.op = "constant" /\ d.optional
NextBit(d, s) == IF UsesPmap(d) THEN s.bit + 1 ELSE s.bit

\* fast_message_reset, for one field: the value, not the state, and of a decimal
\* in two parts not the parts.
ResetScalar(d, f) == [f EXCEPT !.value = Initial(d)]

-----------------------------------------------------------------------------
(***************************************************************************)
(* Decoding.  s holds the presence map, the bit used last, and the buffer. *)
(* A read gives the field, and where it leaves the buffer.                 *)
(***************************************************************************)
Read(ret, f, rest) == [ret |-> ret, f |-> f, rest |-> rest]
Stopped(p, f, buf) == Read(p.ret, f, IF p.ret = "garbled" THEN p.rest ELSE buf)

\* An optional number that is not null is sent one higher, unless negative.
Null(d, n) == d.optional /\ n = 0
WithoutNull(d, n) == IF d.optional /\ n > 0 THEN n - 1 ELSE n

ReadNumber(d, f, p, base, buf) ==
  IF p.ret # "ok" THEN Stopped(p, f, buf)
  ELSE LET g == Assign(f, base + WithoutNull(d, p.value))
       IN  Read("ok", IF Null(d, p.value) THEN Empty(g) ELSE g, p.rest)

\* A string that stays partial has overwritten the beginning of the old one.
Over(old, buf) ==
  LET new == SubSeq(buf, 1, Min({Len(buf), MaxString - 1}))
  IN  Text(new \o From(old, Len(new) + 1))
ReadString(d, f, buf) ==
  LET p == ParseString(buf, MaxString)
  IN  IF p.ret # "ok" THEN Stopped(p, [f EXCEPT !.value = Over(@, buf)], buf)
      ELSE LET g == Assign(f, Text(p.value))
           IN  Read("ok", IF d.optional /\ p.value = <<0>> THEN Empty(g) ELSE g, p.rest)

\* A delta takes characters off the end of the old string, or if it is below
\* zero off the beginning, and puts others there.
Patch(old, n, new) ==
  IF n >= 0 THEN SubSeq(old, 1, Len(old) - n) \o new ELSE new \o From(old, -n)
Patched(g, n, p) ==
  LET v == Patch(g.value, n, Text(p.value))
      off == IF n >= 0 THEN n ELSE -(n + 1)
  IN  IF off > Len(g.value) \/ Len(v) + 1 > MaxString THEN Read("garbled", g, p.rest)
      ELSE Read("ok", [g EXCEPT !.value = v], p.rest)
ReadDelta(d, f, buf) ==
  LET len == ParseInt(buf)
      p == ParseString(len.rest, MaxDelta)
  IN  IF len.ret # "ok" THEN Stopped(len, f, buf)
      ELSE IF Null(d, len.value) THEN Read("ok", Empty(f), len.rest)
      ELSE IF p.ret # "ok" THEN Stopped(p, Assign(f, f.value), buf)
      ELSE Patched(Assign(f, f.value), WithoutNull(d, len.value), p)

\* A string of bytes: the state is set before the bytes are there.
ReadUnicode(d, f, buf) ==
  LET len == ParseUint(buf)
      bytes == ParseBytes(len.rest, WithoutNull(d, len.value))
  IN  IF len.ret # "ok" THEN Stopped(len, f, buf)
      ELSE IF Null(d, len.value) THEN Read("ok", Empty(f), len.rest)
      ELSE IF bytes.ret # "ok" THEN Stopped(bytes, Assign(f, f.value), buf)
      ELSE Read("ok", Assign(f, Text(bytes.value)), bytes.rest)

\* A decimal is two numbers, and null if the first is; base is <<0, 0>> or,
\* for a delta, the decimal it is added to.
InRange(exp) == exp \in -63..63
ReadDecimal(d, f, base, buf) ==
  LET exp == ParseInt(buf)
      e == base[1] + WithoutNull(d, exp.value)
      mnt == ParseInt(exp.rest)
  IN  IF exp.ret # "ok" THEN Stopped(exp, f, buf)
      ELSE IF Null(d, exp.value) THEN Read("ok", Empty(f), exp.rest)
      ELSE IF ~InRange(e) THEN Read("garbled", Assign(f, f.value), exp.rest)
      ELSE IF mnt.ret # "ok" THEN Stopped(mnt, Assign(f, f.value), buf)
      ELSE Read("ok", Assign(f, <<e, base[2] + mnt.value>>), mnt.rest)

\* What the operators do when the presence map says that nothing was sent.
WithoutValue(d, f) ==
  IF d.optional THEN [ret |-> "ok", f |-> Empty(f)] ELSE [ret |-> "garbled", f |-> f]
Absent(d, f) ==
  IF d.op = "default" \/ f.state = "undefined"
  THEN IF HasReset(d) THEN [ret |-> "ok", f |-> Assign(f, d.reset[1])]
       ELSE WithoutValue(d, f)
  ELSE IF IsEmpty(f) THEN WithoutValue(d, f)
  ELSE [ret |-> "ok", f |-> IF d.op = "incr" THEN [f EXCEPT !.value = @ + 1] ELSE f]
Constant(d, f, set) ==
  LET g == Assign(f, IF f.state = "assigned" THEN f.value ELSE Initial(d))
  IN  IF d.optional /\ ~set THEN Empty(g) ELSE g

\* The operators around a read r.
At(bit, ret, f, rest) == [ret |-> ret, f |-> f, rest |-> rest, bit |-> bit]
Operate(d, f, s, r) ==
  LET bit == NextBit(d, s)
      set == bit \in s.pmap
      absent == Absent(d, f)
  IN  IF d.op = "constant" THEN At(bit, "ok", Constant(d, f, set), s.buf)
      ELSE IF UsesPmap(d) /\ ~set THEN At(bit, absent.ret, absent.f, s.buf)
      ELSE At(bit, r.ret, r.f, r.rest)

DecodeUint(d, f, s) ==
  Operate(d, f, s,
    IF d.op = "delta" THEN ReadNumber(d, f, ParseInt(s.buf), f.value, s.buf)
    ELSE ReadNumber(d, f, ParseUint(s.buf), 0, s.buf))
DecodeInt(d, f, s) ==
  Operate(d, f, s,
    ReadNumber(d, f, ParseInt(s.buf), IF d.op = "delta" THEN f.value ELSE 0, s.buf))
DecodeAscii(d, f, s) ==
  Operate(d, f, s,
    IF d.op = "delta" THEN ReadDelta(d, f, s.buf) ELSE ReadString(d, f, s.buf))
DecodeUnicode(d, f, s) == Operate(d, f, s, ReadUnicode(d, f, s.buf))
DecodeVector(d, f, s) == DecodeUnicode(d, f, s)
DecodeDecimalAtomic(d, f, s) ==
  Operate(d, f, s,
    ReadDecimal(d, f, IF d.op = "delta" THEN f.value ELSE <<0, 0>>, s.buf))

\* The exponent is kept when the mantissa is partial.
WithMantissa(f, g, m) ==
  At(m.bit, m.ret,
     IF m.ret = "ok"
     THEN [Assign(f, <<g.value, m.f.value>>) EXCEPT !.parts = <<g, m.f>>]
     ELSE [f EXCEPT !.parts = <<g, m.f>>],
     m.rest)
WithExponent(d, f, s, e) ==
  IF e.ret # "ok" THEN [e EXCEPT !.f = [f EXCEPT !.parts[1] = e.f]]
  ELSE IF IsEmpty(e.f)
  THEN [e EXCEPT !.ret = IF d.optional THEN "ok" ELSE "garbled",
                 !.f = [Empty(f) EXCEPT !.parts[1] = e.f]]
  ELSE IF ~InRange(e.f.value)
  THEN [e EXCEPT !.ret = "garbled", !.f = [f EXCEPT !.parts[1] = e.f]]
  ELSE WithMantissa(f, e.f,
         DecodeInt(d.mantissa, f.parts[2], [s EXCEPT !.bit = e.bit, !.buf = e.rest]))
DecodeDecimalIndivid(d, f, s) ==
  WithExponent(d, f, s, DecodeInt(d.exponent, f.parts[1], s))

DecodeScalar(d, f, s) ==
  CASE d.type = "uint" -> DecodeUint(d, f, s)
    [] d.type = "int" -> DecodeInt(d, f, s)
    [] d.type = "string" -> DecodeAscii(d, f, s)
    [] d.type = "unicode" -> DecodeUnicode(d, f, s)
    [] d.type = "vector" -> DecodeVector(d, f, s)
    [] d.type = "decimal" -> DecodeDecimalAtomic(d, f, s)
    [] d.type = "individ" -> DecodeDecimalIndivid(d, f, s)

-----------------------------------------------------------------------------
(***************************************************************************)
(* Encoding.  s holds the bit used last, the presence map, and the bytes.  *)
(***************************************************************************)
WithNull(d, n) == IF d.optional /\ n >= 0 THEN n + 1 ELSE n

\* The decoder knows the value already.  (As a bug: it is said to know a value
\* that an empty one came after.)
KnownForgetful(d, f) ==
  /\ f.state = "assigned"
  /\ \/ d.op = "copy" /\ f.value = f.previous
     \/ d.op = "incr" /\ f.value = f.previous + 1
Known(d, f) ==
  /\ f.state = "assigned" /\ f.was # "empty"
  /\ \/ d.op = "copy" /\ f.value = f.previous
     \/ d.op = "incr" /\ f.value = f.previous + 1

\* As a bug: the previous state is not kept.
SentOnce(d, f, s, bytes) ==
  [f |-> [f EXCEPT !.previous = f.value],
   bit |-> NextBit(d, s),
   pmap |-> IF UsesPmap(d) THEN PmapSet(s.pmap, NextBit(d, s)) ELSE s.pmap,
   bytes |-> s.bytes \o bytes]
Sent(d, f, s, bytes) ==
  [f |-> [f EXCEPT !.previous = f.value, !.was = f.state],
   bit |-> NextBit(d, s),
   pmap |-> IF UsesPmap(d) THEN PmapSet(s.pmap, NextBit(d, s)) ELSE s.pmap,
   bytes |-> s.bytes \o bytes]
NotSent(d, f, s) ==
  [f |-> f, bit |-> NextBit(d, s), pmap |-> s.pmap, bytes |-> s.bytes]
SendConstant(d, f, s) ==
  LET g == Assign(f, f.value)
  IN  IF ~d.optional THEN NotSent(d, g, s)
      ELSE IF IsEmpty(f) THEN NotSent(d, f, s)
      ELSE [NotSent(d, g, s) EXCEPT !.pmap = PmapSet(@, NextBit(d, s))]

SendWith(d, f, s, bytes, null) ==
  IF d.op = "constant" THEN SendConstant(d, f, s)
  ELSE IF d.optional /\ IsEmpty(f)
  THEN Sent(d, [f EXCEPT !.value = f.previous], s, null)
  ELSE IF Known(d, f) THEN NotSent(d, [f EXCEPT !.previous = f.value], s)
  ELSE Sent(d, Assign(f, f.value), s, bytes)

EncodeUint(d, f, s) ==
  SendWith(d, f, s,
    IF d.op = "delta" THEN TransferInt(WithNull(d, f.value - f.previous))
    ELSE TransferUint(WithNull(d, f.value)),
    TransferUint(0))
EncodeInt(d, f, s) ==
  SendWith(d, f, s,
    TransferInt(WithNull(d, IF d.op = "delta" THEN f.value - f.previous ELSE f.value)),
    TransferInt(0))
EncodeString(d, f, s) == SendWith(d, f, s, TransferString(f.value), TransferNull)
EncodeDecimalAtomic(d, f, s) ==
  LET base == IF d.op = "delta" THEN f.previous ELSE <<0, 0>>
  IN  SendWith(d, f, s,
        TransferInt(WithNull(d, f.value[1] - base[1])) \o TransferInt(f.value[2] - base[2]),
        TransferInt(0))

\* Both parts take the state of the whole and, unless it is empty, its value.
Part(f, i) ==
  [f.parts[i] EXCEPT !.state = f.state, !.value = IF IsEmpty(f) THEN @ ELSE f.value[i]]
SendMantissa(d, f, e) ==
  LET m == EncodeInt(d.mantissa, Part(f, 2), e)
  IN  IF IsEmpty(e.f) THEN [e EXCEPT !.f = [f EXCEPT !.parts = <<e.f, Part(f, 2)>>]]
      ELSE [m EXCEPT !.f = [Assign(f, f.value) EXCEPT !.parts = <<e.f, m.f>>]]
EncodeDecimalIndivid(d, f, s) == SendMantissa(d, f, EncodeInt(d.exponent, Part(f, 1), s))

EncodeScalar(d, f, s) ==
  CASE d.type = "uint" -> EncodeUint(d, f, s)
    [] d.type = "int" -> EncodeInt(d, f, s)
    [] d.type = "string" -> EncodeString(d, f, s)
    [] d.type = "decimal" -> EncodeDecimalAtomic(d, f, s)
    [] d.type = "individ" -> EncodeDecimalIndivid(d, f, s)
=============================================================================
