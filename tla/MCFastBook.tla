---- MODULE MCFastBook ----
\* FastBook with its levels interchangeable: no property tells two prices apart.
EXTENDS FastBook, TLC

LevelSymmetry == Permutations(Levels)
====
