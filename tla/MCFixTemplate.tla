---- MODULE MCFixTemplate ----
\* No, one and two fields, some longer than others, some empty.
EXTENDS FixTemplate

MCTexts == {<<>>, <<2>>, <<0, 1>>}
MCConstTexts == {<<>>, <<1>>, <<2, 0>>}
====
