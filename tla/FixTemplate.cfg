CONSTANTS
  Numbers = 2
  Senders = {1, 2}
  Times = {1, 2}
  ConstTexts <- MCConstTexts
  Texts <- MCTexts
SPECIFICATION Spec
INVARIANTS
  AsBuiltAnew
  ReadBack
