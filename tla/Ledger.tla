-------------------------------- MODULE Ledger --------------------------------
(***************************************************************************)
(* The money-movement core: concurrent requests of the kinds in Kinds, the *)
(* handlers of Transfers, Holds and Reversals over one LedgerDatabase,     *)
(* with the crash of a request at any point and Postgres' deadlock         *)
(* detector.                                                               *)
(***************************************************************************)
EXTENDS Reversals

CONSTANT Kinds   \* the kinds of requests the clients send

ASSUME KindAssumption ==
  Kinds \subseteq {"transfer", "place", "capture", "release", "reverse"}

RequestBodies ==
  TransferRequests \cup PlaceRequests \cup CaptureRequests
    \cup ReleaseRequests \cup ReverseRequests

Active == {r \in Requests : pc[r] \notin {"idle", "done"}}

-----------------------------------------------------------------------------
(* Who waits for whom. *)

LockedAccount(r) == IF IsCapture(r) THEN HeldAccount(req[r]) ELSE req[r].src

LegsOf(r) == IF IsReverse(r) THEN ReversalLegs(req[r]) ELSE MovementLegs(req[r])

NextAccount(r) == LegsOf(r)[applied[r] + 1].account

Waits(r, s) ==
  /\ s \in Requests \ {r}
  /\ \/ pc[r] = "lock" /\ advisory[LockedAccount(r)] = s
     \/ pc[r] = "posting" /\ rowOwner[NextAccount(r)] = s

(* Everyone in a deadlocked set waits for someone in it. *)
Deadlocked(S) == \A r \in S : \E s \in S : Waits(r, s)

(* Postgres aborts a transaction that waits in a cycle. *)
AbortDeadlock(r) ==
  /\ \E S \in SUBSET Active :
       /\ r \in S
       /\ Deadlocked(S)
       /\ \A T \in SUBSET S : T # {} /\ Deadlocked(T) => T = S
  /\ Rollback(r, "deadlock")

(* The process, the connection or the client's patience ends. *)
Crash(r) == r \in Active /\ Rollback(r, "crashed")

-----------------------------------------------------------------------------
Begin(r) ==
  \/ "transfer" \in Kinds /\ \E q \in TransferRequests : BeginTransfer(r, q)
  \/ "place" \in Kinds /\ \E q \in PlaceRequests : BeginPlace(r, q)
  \/ "capture" \in Kinds /\ \E q \in CaptureRequests : BeginCapture(r, q)
  \/ "release" \in Kinds /\ \E q \in ReleaseRequests : BeginRelease(r, q)
  \/ "reverse" \in Kinds /\ \E q \in ReverseRequests : BeginReverse(r, q)

Step(r) ==
  \/ TransferStep(r)
  \/ PlaceStep(r)
  \/ CaptureStep(r)
  \/ CommitRelease(r)
  \/ ReverseStep(r)

(* All requests have been answered: nothing is left to do. *)
Quiescent == (\A r \in Requests : pc[r] = "done") /\ UNCHANGED vars

Next ==
  \/ \E r \in Requests : Begin(r) \/ Step(r) \/ AbortDeadlock(r) \/ Crash(r)
  \/ \E h \in Requests : Expire(h)
  \/ Quiescent

Spec == Init /\ [][Next]_vars

(* The server runs every handler it has begun, Postgres grants a free lock *)
(* and its deadlock detector runs.  Nothing forces a client to send a      *)
(* request, a request to crash or a hold to expire.                        *)
Fairness == \A r \in Requests : WF_vars(Step(r)) /\ WF_vars(AbortDeadlock(r))

FairSpec == Spec /\ Fairness

-----------------------------------------------------------------------------
Points == {"idle", "lock", "posted", "held", "original", "posting", "after",
           "commit", "done"}
Outcomes == {"none", "ok", "replayed", "conflict", "insufficient", "badState",
             "notFound", "unroutable", "clash", "deadlock", "crashed"}

(* Types of the tables and of the sessions' locals. *)
TypeOK ==
  /\ balance \in [Accounts -> Int]
  /\ draft \in [Accounts -> Int]
  /\ rowOwner \in [Accounts -> Requests \cup {Nobody}]
  /\ advisory \in [Accounts -> Requests \cup {Nobody}]
  /\ idem \in [Slots -> Requests \cup {Nobody}]
  /\ holdState \in [Requests -> HoldStates]
  /\ expired \in SUBSET Requests
  /\ pc \in [Requests -> Points]
  /\ req \in [Requests -> RequestBodies \cup {NoRequest}]
  /\ applied \in [Requests -> Nat]
  /\ seen \in [Requests -> Int]
  /\ began \in [Requests -> SUBSET Requests]
  /\ outcome \in [Requests -> Outcomes]

Keyed(r) == req[r].kind \in Endpoints

(* A handler that has passed account_lock. *)
Holding(r) ==
  /\ req[r].kind \in {"transfer", "place", "capture"}
  /\ pc[r] \in {"posted", "held", "posting", "after", "commit"}

(* transfers_locking.py: between the lock and the end of the transaction   *)
(* a handler is alone on the account whose funds it checks, so that two    *)
(* checks never count the same money.                                      *)
OneCheckerPerAccount ==
  \A r, s \in Requests :
    Holding(r) /\ Holding(s) /\ LockedAccount(r) = LockedAccount(s) => r = s

(* idempotency_store.py: the key and the money commit together or not at   *)
(* all, so of all the requests that carry a key exactly the recorded one   *)
(* has had an effect.                                                      *)
OncePerKey ==
  \A r \in Requests : Keyed(r) => (r \in Committed <=> idem[Slot(req[r])] = r)

(* What the postings on account a sum up to: a committed movement counts   *)
(* once and every committed reversal of it takes it back once.             *)
Transactions == {t \in Requests \X {1, 2} : Exists(t)}
On(leg, a) == IF leg.account = a THEN leg.amount ELSE 0
NetOn(t, a) == On(TransactionLegs(t)[1], a) + On(TransactionLegs(t)[2], a)
Recomputed(a) ==
  SumFunctionOnSet(
    [t \in Transactions |-> (1 - Cardinality(ReversalsOf(t))) * NetOn(t, a)], Transactions)

(* balances_service.recompute: whatever interleaves, crashes or is         *)
(* aborted, the snapshot equals the sum of the postings.                   *)
SnapshotIsSumOfPostings ==
  \A a \in Accounts : balance[a] = Opening[a] + Recomputed(a)

(* fx_service.py: money changes hands inside a currency and never changes  *)
(* currency: what a conversion takes or gives stays on the conversion      *)
(* accounts.                                                               *)
MoneyConserved ==
  \A c \in Currencies :
    LET own == {a \in Accounts : CurrencyOf[a] = c} IN
    SumFunctionOnSet(balance, own) = SumFunctionOnSet(Opening, own)

ConversionAccounts == {ConversionAccount[c] : c \in DOMAIN ConversionAccount}

(* The accounts that committed reversals took money back from, and those   *)
(* whose money only leaves after a check of the funds.                     *)
TakenBack ==
  {TransactionLegs(req[r].txn)[2].account : r \in {s \in Committed : IsReverse(s)}}
Guarded == Accounts \ (ConversionAccounts \cup TakenBack)

(* transfers_service.py, holds_service.py: concurrent transfers and        *)
(* captures out of an account never overdraw it.  Only a reversal, which   *)
(* checks nothing, may overdraw the account it takes money back from, and  *)
(* a conversion, which debits a conversion account without a check.        *)
NoOverdraft == \A a \in Guarded : balance[a] >= 0

(* DECISIONS.md, available-vs-posted-split: while the holds on an account  *)
(* are captured at most once, before they lapse and not after a release,   *)
(* what is reserved on it is there.                                        *)
CapturesOf(h) == {r \in Committed : IsCapture(r) /\ req[r].hold = h}
Orderly(h) == h \notin expired \cup Released /\ Cardinality(CapturesOf(h)) = 1
ReservedFundsCovered ==
  \A a \in Guarded :
    (\A h \in Captured : req[h].src = a => Orderly(h)) => balance[a] >= Held(a, expired)

(* Every request that has begun is answered, though it may wait for locks  *)
(* and be the victim of a deadlock.                                        *)
EveryRequestAnswered ==
  \A r \in Requests : r \in Active ~> pc[r] = "done"

-----------------------------------------------------------------------------
(* What the code's documentation promises and concurrent requests break.   *)

(* holds_service.py: "a hold captures at most once".                       *)
CapturedAtMostOnce == \A h \in Requests : Cardinality(CapturesOf(h)) <= 1

(* holds_service.py: "The hold reserved these funds while ACTIVE, so       *)
(* posted must already cover the capture": a capture does not eat into     *)
(* what other holds have reserved.                                         *)
CaptureSpendsOwnReservation ==
  (\A h \in Requests : Cardinality(CapturesOf(h)) <= 1 /\ h \notin Captured \cap Released) =>
    \A a \in Accounts : balance[a] >= Held(a, expired)

(* reversals_service.py: "at most one reversal per transaction".           *)
ReversedAtMostOnce ==
  \A t \in Requests \X {1, 2} : Cardinality(ReversalsOf(t)) <= 1
=============================================================================
