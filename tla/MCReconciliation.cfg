CONSTANTS
  Uploads = {u1, u2, u3}
  TenantIds = {acme, other}
  Accounts = {cash, fees}
  Files = {1, 2, 3, 4}
  LineNos = {1}
  FileLine <- Parsed
  Postings = {p1, p2}
  Arriving <- Arrivals
  Amounts = {1, 2}
  Days = {1, 3, 5, 9}
  Refs = {"", "a", "b"}
  Blank = ""
SPECIFICATION Spec
SYMMETRY Symmetry
CHECK_DEADLOCK FALSE
INVARIANTS
  IInv
  RetryFindsImport
  AnsweredIsStored
  SharedPostingAgrees
PROPERTIES
  LinkNeverMoves
