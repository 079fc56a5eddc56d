CONSTANTS
  a = a
  b = b
  Accounts = {a, b}
  Requests = {r1, r2, r3}
  Keys = {k1, k2}
  MaxAmount = 2
  Nobody = nobody
  Kinds = {"transfer", "place", "capture", "release"}
  Opening <- Rich
  CurrencyOf <- OneCurrency
  ConversionAccount <- NoConversion
  Converted <- NoConversion
SPECIFICATION Spec
SYMMETRY Symmetry
INVARIANTS
  OneCheckerPerAccount
  OncePerKey
  ReservedFundsCovered
  NoOverdraft
