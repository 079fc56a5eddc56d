CONSTANTS
  Chars <- Alphabet
  Plain <- InLowerCase
  Digit <- Digits
  Underscore = "_"
  Default <- DefaultName
  Prefix <- Prefixes
  Transactions = {1, 2, 3}
  Readers = {r1}
  Times <- YearTurn
  MaxLimit = 2
  IdOrder <- LegOrder
  CreatedOrder <- LegsCreated
SPECIFICATION Spec
CHECK_DEADLOCK FALSE
INVARIANTS
  IInv
  JournalIsComplete
  JournalRepeatsNothing
  DriftIsInFlight
  StatementsAddUp
  ReissueAddsLatePostings
