CONSTANTS
  a = a
  b = b
  Accounts = {a, b}
  Requests = {r1, r2, r3}
  Keys = {k1, k2}
  MaxAmount = 1
  Nobody = nobody
  Kinds = {"transfer", "place", "capture", "release", "reverse"}
  Opening <- Rich
  CurrencyOf <- OneCurrency
  ConversionAccount <- NoConversion
  Converted <- NoConversion
SPECIFICATION Spec
SYMMETRY Symmetry
INVARIANTS
  TypeOK
  IInv
  SnapshotIsSumOfPostings
PROPERTIES
  ImplementsReservedPayments
