--------------------------- MODULE LedgerInvariants ---------------------------
(***************************************************************************)
(* The inductive invariant of Ledger, in named parts.                      *)
(***************************************************************************)
EXTENDS Ledger

Postable(q) == SameCurrency(q.src, q.dst) \/ Routable(q.src, q.dst)

Locking(r) == req[r].kind \in {"transfer", "place", "capture"}

(* Sessions are well formed: a request is fixed once it has begun, an      *)
(* outcome comes with the end, and a handler is at a point of its own code.*)
SessionOK(r) ==
  /\ pc[r] = "idle" => req[r] = NoRequest
  /\ pc[r] # "idle" => req[r] \in RequestBodies
  /\ pc[r] = "done" <=> outcome[r] # "none"
  /\ pc[r] \in {"lock", "posted", "held"} => Locking(r)
  /\ pc[r] = "original" => IsReverse(r)
  /\ pc[r] = "posting" => ~IsPlace(r) /\ ~IsRelease(r)
  /\ pc[r] = "after" => IsCapture(r)

(* A hold belongs to a finished place request, and who works or has worked *)
(* on a hold works on one that was placed.                                 *)
HoldOK(r) ==
  /\ holdState[r] # "none" => IsPlace(r) /\ r \in Committed
  /\ IsCapture(r) /\ (r \in Active \/ r \in Committed) => holdState[req[r].hold] # "none"
  /\ IsRelease(r) /\ r \in Active => holdState[req[r].hold] # "none"

(* Only legs that exist are posted: a conversion has its rate and its      *)
(* accounts, a reversal its original.                                      *)
LegsOK(r) ==
  /\ IsTransfer(r) /\ (pc[r] \in {"posting", "commit"} \/ r \in Committed) =>
       Postable(req[r])
  /\ IsReverse(r) /\ pc[r] \in {"posting", "commit"} => Exists(req[r].txn)
  /\ pc[r] = "posting" => applied[r] < Len(LegsOf(r))
  /\ pc[r] \notin {"posting", "after", "commit"} => applied[r] = 0

SessionInv == \A r \in Requests : SessionOK(r) /\ HoldOK(r) /\ LegsOK(r)

(* The advisory lock of an account is held by the handler that has passed  *)
(* account_lock on it, and by nobody else.                                 *)
LockInv ==
  \A x \in Accounts, r \in Requests :
    advisory[x] = r <=> Holding(r) /\ LockedAccount(r) = x

(* The record under a key is the committed request that carries it.        *)
KeyInv ==
  /\ \A s \in Slots, r \in Requests :
       idem[s] = r => r \in Committed /\ Keyed(r) /\ Slot(req[r]) = s
  /\ \A r \in Committed : Keyed(r) => idem[Slot(req[r])] = r

Customers == Accounts \ ConversionAccounts

(* A free row has one version; a locked one belongs to a handler that has  *)
(* posted to it, and if that is no reversal and has not the account's      *)
(* advisory lock, it has only added to it.                                 *)
RowOK(x) ==
  /\ rowOwner[x] = Nobody => draft[x] = balance[x]
  /\ \A r \in Requests : rowOwner[x] = r =>
       /\ pc[r] \in {"posting", "after", "commit"} /\ applied[r] > 0
       /\ x \in Customers /\ ~IsReverse(r) /\ advisory[x] # r => draft[x] >= balance[x]

RowInv == \A x \in Accounts : RowOK(x)

(* What the first n of some legs come to on account x. *)
Posted(legs, n, x) == SumFunctionOnSet([i \in DOMAIN legs |-> On(legs[i], x)], 1..n)

(* A handler has the lock of every row it has posted to, and the version   *)
(* it has written there is the committed one with just its legs; it leaves *)
(* the posting engine with all of them.                                    *)
PostedOK(r) ==
  /\ \A i \in 1..applied[r] : rowOwner[LegsOf(r)[i].account] = r
  /\ \A x \in Accounts :
       rowOwner[x] = r => draft[x] = balance[x] + Posted(LegsOf(r), applied[r], x)
  /\ pc[r] \in {"after", "commit"} => applied[r] = Len(LegsOf(r))
  /\ IsReverse(r) /\ r \in Committed => Exists(req[r].txn)

PostedInv == \A r \in Requests : PostedOK(r)

(* The clock of a transaction is never ahead, only holds that were placed  *)
(* or inserted lapse, and a hold's final state is the work of a committed  *)
(* request.  A capture stays inside its hold's currency and amount.        *)
HoldInv ==
  \A r \in Requests :
    /\ began[r] \subseteq expired
    /\ r \in expired => IsPlace(r) /\ pc[r] \in {"commit", "done"}
    /\ holdState[r] = "captured" => r \in Captured
    /\ holdState[r] = "released" => r \in Released
    /\ IsCapture(r) /\ (r \in Active \/ r \in Committed) =>
         /\ SameCurrency(HeldAccount(req[r]), req[r].dst)
         /\ req[r].amt <= req[req[r].hold].amt

(* No guarded row, committed or not, is overdrawn, and what a handler      *)
(* has checked stays covered until its transaction ends: its own amount,   *)
(* and for a transfer or a new hold what is reserved besides.              *)
Solvent(x) ==
  /\ balance[x] >= 0
  /\ \A r \in Requests : rowOwner[x] = r /\ ~IsReverse(r) => draft[x] >= 0

Besides(r) == IF IsCapture(r) THEN 0 ELSE Held(LockedAccount(r), expired)

Covered(r) ==
  LET x == LockedAccount(r) IN
  Holding(r) /\ x \in Guarded =>
    /\ pc[r] = "held" => seen[r] <= balance[x]
    /\ pc[r] \in {"posting", "after", "commit"} => Besides(r) + req[r].amt <= balance[x]

FundsInv ==
  /\ \A x \in Guarded : Solvent(x)
  /\ \A r \in Requests : Covered(r)

IInv ==
  /\ TypeOK /\ SessionInv /\ LockInv /\ KeyInv
  /\ RowInv /\ PostedInv /\ HoldInv /\ FundsInv
=============================================================================
