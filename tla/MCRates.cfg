CONSTANTS
  Currencies = {usd, eur}
  Publications = {p1, p2, p3}
  Calls = {c1, c2}
  Rates = {1, 10}
  Quoted <- BothSides
  MaxTime = 2
SPECIFICATION Spec
SYMMETRY Symmetry
CHECK_DEADLOCK FALSE
INVARIANTS
  IInv
  AnswerWasEffective
  QuotedPairIsAnswered
  HistoryRepeats
  NeverOlder
