---------------------------- MODULE MCReconciliation ----------------------------
(* Small instances of Reconciliation for TLC: four files of one line each. *)
(* A posting half way between two lines of one amount fits both of them;   *)
(* another line has their day and another amount, and a last one their     *)
(* amount and a day that is too far.                                       *)
EXTENDS Reconciliation, TLC

item(amount, day, ref) == [amount |-> amount, day |-> day, ref |-> ref]

Parsed == [f \in Files |-> [n \in LineNos |->
  CASE f = 1 -> item(1, 1, "") [] f = 2 -> item(1, 5, "a")
    [] f = 3 -> item(2, 5, "") [] f = 4 -> item(1, 9, "")]]

(* Postings at the edge of the windows, without a reference and with one   *)
(* that agrees with some of the lines.                                     *)
Arrivals == {item(1, 3, ""), item(1, 3, "b")}

Symmetry ==
  Permutations(Uploads) \cup Permutations(Postings) \cup Permutations(Accounts)
    \cup Permutations(TenantIds)
=============================================================================
