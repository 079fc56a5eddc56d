----------------------------- MODULE PostingEngine -----------------------------
(***************************************************************************)
(* services/postings_engine.py: the one path that writes transactions and  *)
(* postings.  A leg is a PostingSpec, an account with a signed amount.  A  *)
(* handler posts a sequence of legs: legs 2i-1 and 2i are its i-th         *)
(* transaction, so <<r, i>> names a transaction.  Every leg is an INSERT   *)
(* into postings and an UPDATE of the account's snapshot row.              *)
(***************************************************************************)
EXTENDS LedgerDatabase, Sequences

Leg(a, n) == [account |-> a, amount |-> n]

(* A balanced pair: amount n leaves account a and enters account b.        *)
Entry(a, b, n) == <<Leg(a, 0 - n), Leg(b, n)>>

(* The row lock of the snapshot row a.                                     *)
RowShared(r, a) == TRUE       \* mutant: the UPDATE does not wait
RowFree(r, a) == rowOwner[a] \in {Nobody, r}

(* post_transaction for the next leg of legs.  The UPDATE waits for the    *)
(* row's lock, keeps it until the transaction ends, and adds to the newest *)
(* version.  After the last leg the handler goes on at next.               *)
PostLeg(r, legs, next) ==
  LET leg == legs[applied[r] + 1] IN
  /\ pc[r] = "posting"
  /\ RowFree(r, leg.account)
  /\ rowOwner' = [rowOwner EXCEPT ![leg.account] = r]
  /\ draft' = [draft EXCEPT ![leg.account] = @ + leg.amount]
  /\ applied' = [applied EXCEPT ![r] = @ + 1]
  /\ pc' = [pc EXCEPT ![r] = IF applied[r] + 1 = Len(legs) THEN next ELSE "posting"]
  /\ UNCHANGED <<balance, advisory, idem, holdState, expired,
                 req, seen, began, outcome>>
=============================================================================
