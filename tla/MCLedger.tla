------------------------------- MODULE MCLedger -------------------------------
(* Small instances of Ledger for TLC. *)
EXTENDS LedgerRefinement, LedgerInvariants, TLC

CONSTANTS a, b

OneCurrency == [x \in Accounts |-> "USD"]
NoConversion == <<>>
Rich == [x \in Accounts |-> IF x = a THEN 2 ELSE 1]

Symmetry == Permutations(Requests) \cup Permutations(Keys)
=============================================================================
