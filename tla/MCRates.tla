-------------------------------- MODULE MCRates --------------------------------
(* Small instances of FxRates for TLC. *)
EXTENDS FxRates, TLC

(* The table is never asked about an identity pair. *)
BothSides == {p \in Currencies \X Currencies : p[1] # p[2]}

Symmetry == Permutations(Publications) \cup Permutations(Calls) \cup Permutations(Currencies)
=============================================================================
