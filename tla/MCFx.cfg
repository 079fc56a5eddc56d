CONSTANTS
  a = a
  b = b
  g = g
  usdPool = usdPool
  eurPool = eurPool
  Accounts = {a, b, g, usdPool, eurPool}
  Requests = {r1, r2}
  Keys = {k1}
  MaxAmount = 2
  Nobody = nobody
  Kinds = {"transfer", "place", "capture", "release", "reverse"}
  Opening <- FxOpening
  CurrencyOf <- FxCurrency
  ConversionAccount <- FxPools
  Converted <- FxRates
SPECIFICATION FairSpec
INVARIANTS
  MoneyConserved
  SnapshotIsSumOfPostings
  IInv
PROPERTIES
  EveryRequestAnswered
  ImplementsReservedPayments
