------------------------------- MODULE Reversals -------------------------------
(***************************************************************************)
(* services/reversals_service.py: reverse_transaction, which posts the     *)
(* negated legs of a committed transaction.  No lock is taken and no funds *)
(* are checked.                                                            *)
(***************************************************************************)
EXTENDS Transfers, Holds

ReverseRequests ==
  [kind : {"reverse"}, txn : Requests \X {1, 2}, key : Keys]

IsReverse(r) == req[r].kind = "reverse"

(* The legs a request posts when it moves money forward. *)
MovementLegs(q) ==
  CASE q.kind = "transfer" -> TransferLegs(q)
    [] q.kind = "capture"  -> CaptureLegs(q)
    [] OTHER               -> <<>>

(* The postings rows of transaction <<s, i>>. *)
TransactionLegs(t) ==
  LET legs == MovementLegs(req[t[1]]) IN <<legs[2 * t[2] - 1], legs[2 * t[2]]>>

Exists(t) ==
  /\ t[1] \in Committed
  /\ 2 * t[2] <= Len(MovementLegs(req[t[1]]))

(* A reversal's own transaction is <<s, 1>>, with corrects_id set. *)
IsReversal(t) == t[1] \in Committed /\ IsReverse(t[1]) /\ t[2] = 1

(* SELECT id FROM transactions WHERE corrects_id = t *)
ReversalsOf(t) == {r \in Committed : IsReverse(r) /\ req[r].txn = t}

Negated(leg) == Leg(leg.account, 0 - leg.amount)

RepeatedLegs(q) == TransactionLegs(q.txn)   \* mutant: legs are not negated
ReversalLegs(q) ==
  <<Negated(TransactionLegs(q.txn)[1]), Negated(TransactionLegs(q.txn)[2])>>

BeginReverse(r, q) == pc[r] = "idle" /\ Lookup(r, q, "original")

(* The original's row and its reversals are read before anything is        *)
(* written, and not again.                                                 *)
CheckOriginal(r) ==
  LET t == req[r].txn IN
  /\ IsReverse(r) /\ pc[r] = "original"
  /\ \/ ~Exists(t) /\ ~IsReversal(t) /\ Rollback(r, "notFound")
     \/ IsReversal(t) /\ Rollback(r, "badState")
     \/ Exists(t) /\ ReversalsOf(t) # {} /\ Rollback(r, "badState")
     \/ Exists(t) /\ ReversalsOf(t) = {} /\ Goto(r, "posting")

PostReversal(r) == IsReverse(r) /\ PostLeg(r, ReversalLegs(req[r]), "commit")

CommitReversal(r) ==
  /\ IsReverse(r) /\ pc[r] = "commit"
  /\ \/ CommitRecorded(r) /\ UNCHANGED holdState
     \/ KeyClash(r)

ReverseStep(r) == CheckOriginal(r) \/ PostReversal(r) \/ CommitReversal(r)
=============================================================================
