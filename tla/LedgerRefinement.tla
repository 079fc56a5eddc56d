--------------------------- MODULE LedgerRefinement ---------------------------
(***************************************************************************)
(* The ledger implements ReservedPayments: a request takes effect when its *)
(* transaction commits, and everything the handler read before it is still *)
(* good at that instant.                                                   *)
(***************************************************************************)
EXTENDS Ledger

(* The pair of legs of a transaction, as a movement from the first account *)
(* to the second.                                                          *)
MoveOf(t) ==
  LET legs == TransactionLegs(t) IN
  [from |-> legs[1].account, to |-> legs[2].account, amount |-> legs[2].amount]

Abstract == INSTANCE ReservedPayments WITH
  Payments    <- {"transfer"} \X Keys,
  Holdings    <- {"place"} \X Keys,
  Corrections <- {"reverse"} \X Keys,
  Funds       <- Opening,
  funds       <- balance,
  reserved    <- [x \in Accounts |-> Held(x, expired)],
  settled     <- {s \in Slots : idem[s] # Nobody},
  moves       <- {MoveOf(t) : t \in Transactions},
  exempt      <- ConversionAccounts \cup TakenBack

(* transfers_service.py, fx_service.py, holds_service.py and               *)
(* reversals_service.py: a transfer, with both halves of a conversion, or  *)
(* a placed hold takes effect once per key, at its commit, out of what is  *)
(* available at that very instant, although the funds were checked earlier *)
(* and holds were released and lapsed, and money came in, between.  A      *)
(* capture, even a second one of the same hold, is covered by the funds at *)
(* its commit.  A reversal takes back one movement that was made, and only *)
(* the account that had received it is no longer covered.                  *)
ImplementsReservedPayments == Abstract!Spec
=============================================================================
