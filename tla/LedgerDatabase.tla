---------------------------- MODULE LedgerDatabase ----------------------------
(***************************************************************************)
(* The Postgres side of the ledger as the services in src/backend/services *)
(* see it: the committed rows, the row locks and advisory locks that live  *)
(* as long as a transaction, and one request-scoped session per client     *)
(* request (src/backend/data/database/engine.py).  A request is one        *)
(* database transaction at READ COMMITTED: a statement sees what is        *)
(* committed when it runs, plus the session's own flushed writes, and      *)
(* now() is frozen at the transaction's first statement.                   *)
(*                                                                         *)
(* One tenant is modelled: a row that a handler reads by its id is refused *)
(* or not found if it is another tenant's, so handlers of two tenants      *)
(* share no rows.                                                          *)
(***************************************************************************)
EXTENDS Integers, FiniteSets, Functions

CONSTANTS
  Accounts,   \* open ledger accounts, each with a snapshot row
  Requests,   \* client requests; a retry is another request with equal contents
  Keys,       \* Idempotency-Key header values
  MaxAmount,  \* bound: largest amount of minor units a client asks for
  Opening,    \* snapshot balances before the first request
  Nobody      \* owner of a lock that is free, of a key that is unused

ASSUME NobodyAssumption  == Nobody \notin Requests
ASSUME RequestAssumption == IsFiniteSet(Requests)
ASSUME AccountAssumption == IsFiniteSet(Accounts)
ASSUME AmountAssumption  == MaxAmount \in Nat
ASSUME OpeningAssumption == Opening \in [Accounts -> Nat]

VARIABLES
  balance,    \* account_balances.balance, committed
  draft,      \* the value in the newest row version, committed or not
  rowOwner,   \* who holds the row lock of an account_balances row
  advisory,   \* who holds pg_advisory_xact_lock of an account
  idem,       \* idempotency_records: the request that completed under a key
  holdState,  \* holds.state of the hold a request placed
  expired,    \* holds whose expires_at the database clock has passed
  pc,         \* what a request's handler does next
  req,        \* the request body
  applied,    \* legs posted so far in this transaction
  seen,       \* the balance figure the handler holds in a local variable
  began,      \* the holds that were expired at now() of this transaction
  outcome     \* how the request ended

tables  == <<balance, draft, rowOwner, advisory, idem, holdState, expired>>
session == <<pc, req, applied, seen, began, outcome>>
vars    == <<balance, draft, rowOwner, advisory, idem, holdState, expired,
             pc, req, applied, seen, began, outcome>>

Amounts == 1..MaxAmount

(* The endpoints that take an Idempotency-Key; a record's primary key is   *)
(* the endpoint with the key.                                              *)
Endpoints == {"transfer", "place", "reverse"}
Slots     == Endpoints \X Keys
Slot(q)   == <<q.kind, q.key>>

HoldStates == {"none", "active", "captured", "released"}

NoRequest == [kind |-> "none"]

-----------------------------------------------------------------------------
(* Reads. *)

(* held_total: what the active holds on account a reserve, given the holds *)
(* that have lapsed.                                                       *)
Reserving(a, lapsed) ==
  {h \in Requests : holdState[h] = "active" /\ h \notin lapsed /\ req[h].src = a}
Held(a, lapsed) ==
  LET holds == Reserving(a, lapsed) IN
  SumFunctionOnSet([h \in holds |-> req[h].amt], holds)

Committed == {r \in Requests : outcome[r] = "ok"}

-----------------------------------------------------------------------------
(* Beginning and ending a request's transaction. *)

(* The first statement begins the transaction and fixes now().             *)
Open(r, q, next) ==
  /\ pc' = [pc EXCEPT ![r] = next]
  /\ req' = [req EXCEPT ![r] = q]
  /\ began' = [began EXCEPT ![r] = expired]
  /\ UNCHANGED <<tables, applied, seen, outcome>>

(* A request that is answered from the rows its first statement read.      *)
Answer(r, q, result) ==
  /\ pc' = [pc EXCEPT ![r] = "done"]
  /\ req' = [req EXCEPT ![r] = q]
  /\ outcome' = [outcome EXCEPT ![r] = result]
  /\ UNCHANGED <<tables, applied, seen, began>>

Unlocked(locks, r) ==
  [a \in Accounts |-> IF locks[a] = r THEN Nobody ELSE locks[a]]

(* A transaction-scoped lock goes with the transaction.                    *)
AdvisoryKept(r) == advisory   \* mutant: a session-scoped pg_advisory_lock
AdvisoryAfter(r) == Unlocked(advisory, r)

(* End of the transaction, either way: its locks go, its locals go.        *)
EndSession(r, result) ==
  /\ rowOwner' = Unlocked(rowOwner, r)
  /\ advisory' = AdvisoryAfter(r)
  /\ pc' = [pc EXCEPT ![r] = "done"]
  /\ applied' = [applied EXCEPT ![r] = 0]
  /\ seen' = [seen EXCEPT ![r] = 0]
  /\ began' = [began EXCEPT ![r] = {}]
  /\ outcome' = [outcome EXCEPT ![r] = result]
  /\ UNCHANGED <<req, expired>>

(* An exception leaves the handler, or the process or the connection dies: *)
(* Postgres rolls the transaction back.                                    *)
Rollback(r, why) ==
  /\ EndSession(r, why)
  /\ draft' = [a \in Accounts |-> IF rowOwner[a] = r THEN balance[a] ELSE draft[a]]
  /\ UNCHANGED <<balance, idem, holdState>>

(* session.commit(): the flushed row versions become the committed ones.   *)
(* The caller says what else the commit flushes (idem, holdState).         *)
Commit(r) ==
  /\ EndSession(r, "ok")
  /\ balance' = [a \in Accounts |-> IF rowOwner[a] = r THEN draft[a] ELSE balance[a]]
  /\ UNCHANGED draft

(* The primary key of idempotency_records.                                 *)
KeyOverwritten(r) == TRUE     \* mutant: an upsert of the record
KeyUnused(r) == idem[Slot(req[r])] = Nobody

(* A handler with an Idempotency-Key ends in store.record then commit: the *)
(* record's INSERT is flushed by the commit, and its primary key decides   *)
(* between two requests that both missed in the lookup.                    *)
CommitRecorded(r) ==
  /\ KeyUnused(r)
  /\ idem' = [idem EXCEPT ![Slot(req[r])] = r]
  /\ Commit(r)

(* Nothing catches the unique violation: the client gets a 500.            *)
KeyClashUnanswered(r) ==      \* mutant: the session is left with no outcome
  /\ ~KeyUnused(r)
  /\ Rollback(r, "pending")
KeyClash(r) ==
  /\ ~KeyUnused(r)
  /\ Rollback(r, "clash")

(* store.lookup: a stored response is replayed to an equal body and        *)
(* refused to another one; a miss opens the handler's transaction.         *)
Lookup(r, q, next) ==
  LET prior == idem[Slot(q)] IN
  \/ prior = Nobody /\ Open(r, q, next)
  \/ prior # Nobody /\ req[prior] = q /\ Answer(r, q, "replayed")
  \/ prior # Nobody /\ req[prior] # q /\ Answer(r, q, "conflict")

-----------------------------------------------------------------------------
(* account_lock: pg_advisory_xact_lock waits until the account is free.    *)
LockTried(a) == TRUE          \* mutant: pg_try_advisory_xact_lock, unread
LockFree(a) == advisory[a] = Nobody

TakeAdvisory(r, a) ==
  /\ pc[r] = "lock"
  /\ LockFree(a)
  /\ advisory' = [advisory EXCEPT ![a] = r]
  /\ pc' = [pc EXCEPT ![r] = "posted"]
  /\ UNCHANGED <<balance, draft, rowOwner, idem, holdState, expired,
                 req, applied, seen, began, outcome>>

(* available_balance is two statements.  The first is current_balance, the *)
(* snapshot of the locked account; nothing of this session is on it yet.   *)
ReadPosted(r, a) ==
  /\ pc[r] = "posted"
  /\ seen' = [seen EXCEPT ![r] = balance[a]]
  /\ pc' = [pc EXCEPT ![r] = "held"]
  /\ UNCHANGED <<tables, req, applied, began, outcome>>

(* The second is held_total; every handler decides on it in the same step, *)
(* so it appears here as the figure the decision is about.                 *)
PostedOnly(r, a) == seen[r]   \* mutant: the raw-posted check it superseded
Available(r, a) == seen[r] - Held(a, began[r])

(* The handler goes on to its next statement.                              *)
Goto(r, next) ==
  /\ pc' = [pc EXCEPT ![r] = next]
  /\ UNCHANGED <<tables, req, applied, seen, began, outcome>>

(* The database clock passes the expires_at of a hold that is still open,  *)
(* or of one whose INSERT has no commit yet: a client may give an          *)
(* expires_at that is past already, and such a hold never reserves.        *)
Inserted(h) == req[h].kind = "place" /\ pc[h] = "commit"
Expire(h) ==
  /\ holdState[h] = "active" \/ Inserted(h)
  /\ h \notin expired
  /\ expired' = expired \cup {h}
  /\ UNCHANGED <<balance, draft, rowOwner, advisory, idem, holdState, session>>

Init ==
  /\ balance = Opening
  /\ draft = Opening
  /\ rowOwner = [a \in Accounts |-> Nobody]
  /\ advisory = [a \in Accounts |-> Nobody]
  /\ idem = [s \in Slots |-> Nobody]
  /\ holdState = [h \in Requests |-> "none"]
  /\ expired = {}
  /\ pc = [r \in Requests |-> "idle"]
  /\ req = [r \in Requests |-> NoRequest]
  /\ applied = [r \in Requests |-> 0]
  /\ seen = [r \in Requests |-> 0]
  /\ began = [r \in Requests |-> {}]
  /\ outcome = [r \in Requests |-> "none"]
=============================================================================
