------------------------------- MODULE FxRouting -------------------------------
(***************************************************************************)
(* services/fx_service.py: a cross-currency movement leaves the source for *)
(* the conversion account of its currency and enters the destination from  *)
(* the conversion account of the other one, two transactions in the        *)
(* caller's database transaction.                                          *)
(***************************************************************************)
EXTENDS PostingEngine

CONSTANTS
  CurrencyOf,         \* Account.currency
  ConversionAccount,  \* the provisioned conversion account of a currency
  Converted           \* Converted[<<c, d>>][n]: resolve_rate and convert of n

Currencies == {CurrencyOf[a] : a \in Accounts}

ASSUME ConversionAssumption ==
  /\ DOMAIN ConversionAccount \subseteq Currencies
  /\ \A c \in DOMAIN ConversionAccount :
       ConversionAccount[c] \in Accounts /\ CurrencyOf[ConversionAccount[c]] = c
ASSUME ConvertedAssumption ==
  /\ DOMAIN Converted \subseteq Currencies \X Currencies
  /\ \A p \in DOMAIN Converted : Converted[p] \in [Amounts -> Nat]

SameCurrency(a, b) == CurrencyOf[a] = CurrencyOf[b]

(* A rate is effective for the pair, and both sides have an open           *)
(* conversion account.                                                     *)
Routable(a, b) ==
  /\ <<CurrencyOf[a], CurrencyOf[b]>> \in DOMAIN Converted
  /\ {CurrencyOf[a], CurrencyOf[b]} \subseteq DOMAIN ConversionAccount

(* mutant: one transaction across the two currencies                       *)
DirectLegs(a, b, n) == Entry(a, b, Converted[<<CurrencyOf[a], CurrencyOf[b]>>][n])

(* route_conversion: the debit pair, then the credit pair.                 *)
ConversionLegs(a, b, n) ==
  LET m == Converted[<<CurrencyOf[a], CurrencyOf[b]>>][n] IN
  <<Leg(a, 0 - n), Leg(ConversionAccount[CurrencyOf[a]], n),
    Leg(ConversionAccount[CurrencyOf[b]], 0 - m), Leg(b, m)>>
=============================================================================
