--------------------------- MODULE MCFastSession ---------------------------
(* Templates and values for the runs of FastSession. *)
EXTENDS FastSession

Field(type, op, optional, reset) ==
  [type |-> type, op |-> op, optional |-> optional, reset |-> reset]
Individ(optional, exponent, mantissa) ==
  [type |-> "individ", op |-> "none", optional |-> optional, reset |-> <<>>,
   exponent |-> exponent, mantissa |-> mantissa]

\* Every operator a field of this type may have.
Operators(type, reset) ==
  {Field(type, op, optional, r) :
     op \in {"copy", "default"}, optional \in BOOLEAN, r \in {<<>>, <<reset>>}}
    \cup {Field(type, "none", optional, <<>>) : optional \in BOOLEAN}
    \cup {Field(type, "constant", optional, <<reset>>) : optional \in BOOLEAN}
Counting(type, reset) ==
  {Field(type, op, optional, r) :
     op \in {"incr", "delta"}, optional \in BOOLEAN, r \in {<<>>, <<reset>>}}
Numbers(type, reset) == Operators(type, reset) \cup Counting(type, reset)
StringDeltas ==
  {Field("string", "delta", optional, r) : optional \in BOOLEAN, r \in {<<>>, <<<<1>>>>}}

Exponents(ops, optional) ==
  {Field("int", op, optional, r) : op \in ops, r \in {<<>>, <<1>>}}
Individs(ops) ==
  UNION {{Individ(optional, e, m) :
            e \in Exponents(ops, optional),
            m \in {Field("int", "copy", FALSE, <<>>), Field("int", "delta", FALSE, <<>>)}}
         : optional \in BOOLEAN}

Sequence(optional, length, element) ==
  [type |-> "sequence", op |-> "none", optional |-> optional, reset |-> <<>>,
   length |-> length, element |-> element]
Sequences(lengths) ==
  {Sequence(optional, Field("uint", op, optional, <<>>), <<e>>) :
     op \in lengths, optional \in BOOLEAN,
     e \in {Field("uint", "none", FALSE, <<>>), Field("uint", "copy", TRUE, <<>>),
            Field("uint", "incr", FALSE, <<3>>), Field("uint", "delta", TRUE, <<3>>)}}

\* Fields that, if the first value after a reset is left out, need the state a
\* field without a value has.
NeedsState(d) ==
  d.op \in {"copy", "incr"} /\ (d.optional \/ (d.op = "incr" /\ HasReset(d)))

\* A field behind the one in question, to notice a bit or byte too many.
Guard == Field("uint", "copy", FALSE, <<2>>)
MCTemplates(family) ==
  {<<d, Guard>> : d \in
     CASE family = "numbers" -> Numbers("uint", 3) \cup Numbers("int", -2)
       [] family = "strings" ->
            UNION {Operators(type, <<1>>) : type \in {"string", "unicode", "vector"}}
       [] family = "string deltas" -> StringDeltas
       [] family = "decimals" ->
            {Field("decimal", op, optional, <<>>) :
               op \in {"none", "copy", "delta", "default"}, optional \in BOOLEAN}
            \cup Individs({"none", "copy", "default"})
       [] family = "sequences" -> Sequences({"none", "delta"})
       [] family = "reset numbers" -> {d \in Numbers("uint", 3) : ~NeedsState(d)}
       [] family = "reset strings" ->
            {d \in Operators("vector", <<1>>) \cup StringDeltas : ~NeedsState(d)}
       [] family = "reset wholes" ->
            {Field("decimal", op, FALSE, <<>>) : op \in {"copy", "delta"}}
            \cup {Individ(FALSE, e, Field("int", "copy", FALSE, <<>>)) :
                    e \in Exponents({"copy", "default"}, FALSE)}
            \cup Sequences({"none"})
       [] family = "reset states" -> {d \in Numbers("uint", 3) : NeedsState(d)}
       [] family = "reset parts" -> Individs({"delta"}) \cup Sequences({"delta"})
       [] family = "copied lengths" -> Sequences({"copy"})
       [] family = "counting exponents" -> Individs({"incr", "delta"})}

MCValues(d) ==
  IF d = Guard THEN <<1>>
  ELSE CASE d.type = "sequence" ->
              <<<<>>, <<<<<<3>>>>, <<<<4>>>>>>>>
                \o IF d.element[1].optional THEN <<<<<<<<3>>>>, <<<<>>>>>>>> ELSE <<>>
         [] d.type = "uint" -> <<3, 4>>
         [] d.type = "int" -> <<-3, -2, 0>>
         [] d.type = "string" /\ d.op = "delta" -> <<<<1, 2>>, <<1, 3>>, <<3, 2>>>>
         [] d.type \in {"string", "unicode", "vector"} -> <<<<>>, <<1, 2>>>>
         [] d.type \in {"decimal", "individ"} -> <<<<0, 1>>, <<1, -3>>>>
=============================================================================
