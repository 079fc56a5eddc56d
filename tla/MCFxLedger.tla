------------------------------ MODULE MCFxLedger ------------------------------
(* Instances of Ledger with several currencies: a keeps dollars, b euros   *)
(* and g pounds; dollars and euros have conversion accounts and rates,    *)
(* pounds have neither.                                                    *)
EXTENDS LedgerRefinement, LedgerInvariants, Money, TLC

CONSTANTS a, b, g, usdPool, eurPool

FxCurrency ==
  [x \in Accounts |-> IF x \in {a, usdPool} THEN "USD"
                      ELSE IF x \in {b, eurPool} THEN "EUR" ELSE "GBP"]
FxPools == "USD" :> usdPool @@ "EUR" :> eurPool

(* Half a euro for a dollar and two dollars for a euro: converted, a       *)
(* dollar rounds to nothing.                                               *)
FxRates ==
  <<"USD", "EUR">> :> [n \in Amounts |-> Convert(n, <<1, 2>>)] @@
  <<"EUR", "USD">> :> [n \in Amounts |-> Convert(n, <<2, 1>>)]

FxOpening == [x \in Accounts |-> IF x = a THEN 2 ELSE IF x \in {b, g} THEN 1 ELSE 0]

Symmetry == Permutations(Requests) \cup Permutations(Keys)
=============================================================================
