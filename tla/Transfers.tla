------------------------------- MODULE Transfers -------------------------------
(***************************************************************************)
(* services/transfers_service.py: execute_transfer behind                  *)
(* POST /transfers.  One action per round trip to the database.            *)
(***************************************************************************)
EXTENDS FxRouting

TransferRequests ==
  [kind : {"transfer"}, src : Accounts, dst : Accounts, amt : Amounts, key : Keys]

TransferLegs(q) ==
  IF SameCurrency(q.src, q.dst) THEN Entry(q.src, q.dst, q.amt)
                                ELSE ConversionLegs(q.src, q.dst, q.amt)

IsTransfer(r) == req[r].kind = "transfer"

BeginTransfer(r, q) == pc[r] = "idle" /\ Lookup(r, q, "lock")

LockDestination(r) ==         \* mutant: the wrong account is locked
  IsTransfer(r) /\ TakeAdvisory(r, req[r].dst)
LockSource(r) == IsTransfer(r) /\ TakeAdvisory(r, req[r].src)

ReadSource(r) == IsTransfer(r) /\ ReadPosted(r, req[r].src)

(* The funds check, and for a cross-currency transfer the reads that find  *)
(* its rate and its conversion accounts.                                   *)
CheckFunds(r) ==
  LET q == req[r]
      funded == Available(r, q.src) >= q.amt
      postable == SameCurrency(q.src, q.dst) \/ Routable(q.src, q.dst)
  IN
  /\ IsTransfer(r) /\ pc[r] = "held"
  /\ \/ ~funded /\ Rollback(r, "insufficient")
     \/ funded /\ ~postable /\ Rollback(r, "unroutable")
     \/ funded /\ postable /\ Goto(r, "posting")

PostTransfer(r) == IsTransfer(r) /\ PostLeg(r, TransferLegs(req[r]), "commit")

(* The balances of the response are read from rows this transaction has    *)
(* locked, so that read needs no step of its own.                          *)
CommitTransfer(r) ==
  /\ IsTransfer(r) /\ pc[r] = "commit"
  /\ \/ CommitRecorded(r) /\ UNCHANGED holdState
     \/ KeyClash(r)

TransferStep(r) ==
  \/ LockSource(r)
  \/ ReadSource(r)
  \/ CheckFunds(r)
  \/ PostTransfer(r)
  \/ CommitTransfer(r)
=============================================================================
