----------------------------- MODULE FastBytes -----------------------------
(***************************************************************************)
(* Bytes of a FAST message: numbers, strings and presence maps as          *)
(* lib/proto/fast_message.c puts them into a buffer and takes them out.    *)
(* A byte carries Bits bits and a stop bit, so a number's last byte is the *)
(* first one that is at least Base.                                        *)
(*                                                                         *)
(* A parse leaves the buffer behind what it read; whoever called it puts   *)
(* the buffer back when it was partial.                                    *)
(***************************************************************************)
EXTENDS Integers, Sequences, FiniteSetsExt, SequencesExt

CONSTANTS
  Bits,        \* 7: what is left of a byte beside its stop bit
  MaxBytes,    \* 9: the most bytes of a number
  MaxString,   \* FAST_STRING_MAX_BYTES
  MaxDelta,    \* 32: the room for what is added to a string
  MaxPmap      \* FAST_PMAP_MAX_BYTES

ASSUME BytesAssumption ==
  {Bits, MaxBytes, MaxString, MaxDelta, MaxPmap} \subseteq Nat \ {0}

Base == 2 ^ Bits
Stops(b) == b >= Base
From(buf, i) == SubSeq(buf, i, Len(buf))

Got(value, rest) == [ret |-> "ok", value |-> value, rest |-> rest]
Partial == [ret |-> "partial"]
Garbled(rest) == [ret |-> "garbled", rest |-> rest]

\* The bytes up to the first that stops, if it is among the first max.
UpToStop(buf, max) ==
  LET stops == {i \in 1..Len(buf) : i <= max /\ Stops(buf[i])}
  IN  IF stops # {} THEN Got(SubSeq(buf, 1, Min(stops)), From(buf, Min(stops) + 1))
      ELSE IF Len(buf) >= max THEN Garbled(From(buf, max + 1))
      ELSE Partial

\* The number that bytes stand for; a number below zero starts from -1.
Joined(first, bytes) ==
  FoldLeft(LAMBDA n, b : (n * Base) + (b % Base), first, bytes)
Negative(b) == b % Base >= Base \div 2

ParseUint(buf) ==
  LET p == UpToStop(buf, MaxBytes)
  IN  IF p.ret = "ok" THEN [p EXCEPT !.value = Joined(0, @)] ELSE p
ParseInt(buf) ==
  LET p == UpToStop(buf, MaxBytes + 1)
  IN  IF p.ret = "ok"
      THEN [p EXCEPT !.value = Joined(IF Negative(@[1]) THEN -1 ELSE 0, @)]
      ELSE p

\* parse_string: the characters, the stop bit removed.
ParseString(buf, max) ==
  LET p == UpToStop(buf, max - 1)
  IN  IF p.ret = "ok"
      THEN [p EXCEPT !.value = [i \in DOMAIN @ |-> @[i] % Base]] ELSE p
\* What C makes of them: a string ends at its first zero.
Text(chars) ==
  LET zeros == {i \in DOMAIN chars : chars[i] = 0}
  IN  IF zeros = {} THEN chars ELSE SubSeq(chars, 1, Min(zeros) - 1)

ParseBytes(buf, len) ==
  IF Len(buf) < len THEN Partial
  ELSE Got(SubSeq(buf, 1, len), From(buf, len + 1))

-----------------------------------------------------------------------------
\* transfer_size_uint, transfer_size_int: the fewest bytes that will do.
Fewest(Fits(_)) ==
  Min({k \in 1..MaxBytes : Fits(k)} \cup {MaxBytes})
SizeUint(n) == Fewest(LAMBDA k : n < Base ^ k)
SizeInt(n) ==
  LET m == IF n >= 0 THEN n ELSE -(n + 1)
  IN  Fewest(LAMBDA k : m < Base ^ k \div 2)

Split(n, size) ==
  [i \in 1..size |->
     ((n \div Base ^ (size - i)) % Base) + (IF i = size THEN Base ELSE 0)]
TransferUint(n) == Split(n, SizeUint(n))
TransferInt(n) == Split(n, SizeInt(n))

\* transfer_string: an empty string is a zero, null is only the stop.
TransferString(text) == (IF text = <<>> THEN <<0>> ELSE text) \o <<Base>>
TransferNull == <<Base>>

-----------------------------------------------------------------------------
\* Presence maps: the set of the bits that are set.
PmapFits(bit) == bit \div Bits < MaxPmap
PmapSet(pmap, bit) == IF PmapFits(bit) THEN pmap \cup {bit} ELSE pmap

Weight(bit) == 2 ^ (Bits - 1 - (bit % Bits))
PmapBytes(pmap) ==
  LET nr_bytes == Max(pmap \cup {0}) \div Bits + 1
      Byte(i) == SumSet({Weight(bit) : bit \in {x \in pmap : x \div Bits = i - 1}})
  IN  [i \in 1..nr_bytes |-> Byte(i) + (IF i = nr_bytes THEN Base ELSE 0)]

ParsePmap(buf) ==
  LET p == UpToStop(buf, MaxPmap)
      IsSet(bytes, bit) == (bytes[bit \div Bits + 1] \div Weight(bit)) % 2 = 1
  IN  IF p.ret = "ok"
      THEN [p EXCEPT !.value = {bit \in 0..(Bits * Len(@) - 1) : IsSet(@, bit)}]
      ELSE p
=============================================================================
