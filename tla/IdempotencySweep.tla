--------------------------- MODULE IdempotencySweep ---------------------------
(***************************************************************************)
(* services/idempotency_sweeper.py beside services/idempotency_store.py:   *)
(* requests that carry one Idempotency-Key and one body, and the sweepers  *)
(* that api/lifespan.py starts, one in every worker process, which delete  *)
(* old records.  Time passes in units; the model is about when a key that  *)
(* has been used may be used again.                                        *)
(***************************************************************************)
EXTENDS Integers

CONSTANTS
  Requests,  \* requests under the key
  Sweepers,  \* worker processes
  MinAge,    \* DEFAULT_MIN_AGE
  InFlight,  \* environment: the longest a request runs
  MaxTime,   \* bound on the clock
  Nobody     \* the key has no record, the record no deleter

ASSUME NobodyAssumption == Nobody \notin Requests \cup Sweepers
ASSUME TimeAssumption   == MinAge \in Nat /\ InFlight \in Nat /\ MaxTime \in Nat

VARIABLES
  now,        \* datetime.now()
  record,     \* the committed record: the request that wrote it
  deleter,    \* the sweeper whose open transaction has deleted the record
  pc,         \* what a request's handler does next
  started,    \* when the handler looked the key up
  stamp,      \* created_at of the record a handler writes
  ended,      \* when the handler committed
  sweeping    \* the sweepers in a pass

requests == <<pc, started, stamp, ended>>
vars     == <<now, record, deleter, pc, started, stamp, ended, sweeping>>

Init ==
  /\ now = 0
  /\ record = Nobody
  /\ deleter = Nobody
  /\ pc = [r \in Requests |-> "idle"]
  /\ started = [r \in Requests |-> 0]
  /\ stamp = [r \in Requests |-> 0]
  /\ ended = [r \in Requests |-> 0]
  /\ sweeping = {}

Running(r) == pc[r] \in {"working", "recorded"}

-----------------------------------------------------------------------------
(* Requests. *)

(* lookup: a deleted record is there for the others until the sweeper's    *)
(* commit.                                                                 *)
Lookup(r) ==
  /\ pc[r] = "idle"
  /\ pc' = [pc EXCEPT ![r] = IF record = Nobody THEN "working" ELSE "replayed"]
  /\ started' = [started EXCEPT ![r] = now]
  /\ UNCHANGED <<now, record, deleter, stamp, ended, sweeping>>

(* record: the work is done; the row gets its created_at, unflushed.       *)
Record(r) ==
  /\ pc[r] = "working"
  /\ pc' = [pc EXCEPT ![r] = "recorded"]
  /\ stamp' = [stamp EXCEPT ![r] = now]
  /\ UNCHANGED <<now, record, deleter, started, ended, sweeping>>

(* The commit inserts the row.  The primary key makes the insert wait for  *)
(* a sweeper that has deleted the record and not committed.                *)
CommitRequest(r) ==
  /\ pc[r] = "recorded"
  /\ deleter = Nobody
  /\ \/ /\ record = Nobody
        /\ record' = r
        /\ pc' = [pc EXCEPT ![r] = "executed"]
        /\ ended' = [ended EXCEPT ![r] = now]
     \/ /\ record # Nobody
        /\ pc' = [pc EXCEPT ![r] = "failed"]
        /\ UNCHANGED <<record, ended>>
  /\ UNCHANGED <<now, deleter, started, stamp, sweeping>>

(* The handler fails: nothing of it is kept.                               *)
Fail(r) ==
  /\ Running(r)
  /\ pc' = [pc EXCEPT ![r] = "failed"]
  /\ UNCHANGED <<now, record, deleter, started, stamp, ended, sweeping>>

-----------------------------------------------------------------------------
(* Sweepers. *)

InFlightCutoff == now - InFlight  \* mutant: only the in-flight window is kept
Cutoff == now - MinAge

Stale == record # Nobody /\ stamp[record] < Cutoff

(* sweep_once begins: the DELETE takes the record if it is older than the  *)
(* cutoff, and waits if another sweeper is deleting it.                    *)
BeginPass(w) ==
  /\ w \notin sweeping
  /\ \/ /\ Stale /\ deleter = Nobody
        /\ deleter' = w
     \/ ~Stale /\ UNCHANGED deleter
  /\ sweeping' = sweeping \cup {w}
  /\ UNCHANGED <<now, record, requests>>

(* ... and commits. *)
CommitPass(w) ==
  /\ w \in sweeping
  /\ sweeping' = sweeping \ {w}
  /\ record' = IF deleter = w THEN Nobody ELSE record
  /\ deleter' = IF deleter = w THEN Nobody ELSE deleter
  /\ UNCHANGED <<now, requests>>

(* A pass raises; run_forever logs it, sleeps and makes the next one.      *)
DieInPass(w) ==               \* mutant: the exception ends run_forever
  /\ w \in sweeping
  /\ deleter' = IF deleter = w THEN Nobody ELSE deleter
  /\ UNCHANGED <<now, record, requests, sweeping>>
FailPass(w) ==
  /\ w \in sweeping
  /\ sweeping' = sweeping \ {w}
  /\ deleter' = IF deleter = w THEN Nobody ELSE deleter
  /\ UNCHANGED <<now, record, requests>>

-----------------------------------------------------------------------------
(* No request runs for longer than InFlight.                               *)
Tick ==
  /\ now < MaxTime
  /\ \A r \in Requests : Running(r) => now + 1 - started[r] <= InFlight
  /\ now' = now + 1
  /\ UNCHANGED <<record, deleter, requests, sweeping>>

Next ==
  \/ \E r \in Requests : Lookup(r) \/ Record(r) \/ CommitRequest(r) \/ Fail(r)
  \/ \E w \in Sweepers : BeginPass(w) \/ CommitPass(w) \/ FailPass(w)
  \/ Tick

Spec == Init /\ [][Next]_vars

(* Time goes on, every worker sweeps again and again, and not all of its   *)
(* passes fail.                                                            *)
Fairness ==
  /\ WF_vars(Tick)
  /\ \A r \in Requests : WF_vars(Record(r)) /\ WF_vars(CommitRequest(r))
  /\ \A w \in Sweepers : SF_vars(BeginPass(w)) /\ SF_vars(CommitPass(w))

FairSpec == Spec /\ Fairness

-----------------------------------------------------------------------------
Executed(r) == pc[r] = "executed"

TypeOK ==
  /\ now \in Nat
  /\ record \in Requests \cup {Nobody}
  /\ deleter \in Sweepers \cup {Nobody}
  /\ pc \in [Requests -> {"idle", "working", "recorded", "executed", "replayed", "failed"}]
  /\ started \in [Requests -> Nat]
  /\ stamp \in [Requests -> Nat]
  /\ ended \in [Requests -> Nat]
  /\ sweeping \in SUBSET Sweepers

(* A request that has executed has its record, or its record was swept     *)
(* when it was older than MinAge; only such a record is being deleted.     *)
TimesInv ==
  \A r \in Requests :
    /\ Running(r) => started[r] <= now /\ now <= started[r] + InFlight
    /\ pc[r] = "recorded" => started[r] <= stamp[r] /\ stamp[r] <= now
    /\ Executed(r) =>
         /\ started[r] <= stamp[r] /\ stamp[r] <= ended[r]
         /\ ended[r] <= now /\ ended[r] <= started[r] + InFlight

RecordInv ==
  /\ record # Nobody => Executed(record)
  /\ deleter # Nobody => deleter \in sweeping /\ Stale
  /\ \A r \in Requests : Executed(r) /\ record # r => now > stamp[r] + MinAge

(* idempotency_store.py, idempotency_sweeper.py: of two requests under one *)
(* key that both took effect, the later one was committed when the record  *)
(* of the earlier one was older than MinAge.                               *)
ExecutionsApart ==
  \A r, s \in Requests :
    Executed(r) /\ Executed(s) /\ r # s =>
      ended[s] > stamp[r] + MinAge \/ ended[r] > stamp[s] + MinAge

IInv == TypeOK /\ TimesInv /\ RecordInv /\ ExecutionsApart

(* DECISIONS.md, idempotency-sweep-min-age: sweeping never lets "a         *)
(* concurrent retry execute a second time": two requests that ran at the   *)
(* same time are executed once.  MinAge must be two in-flight windows for  *)
(* that, one for the request and one for its retry.                        *)
Overlap(r, s) == started[r] <= ended[s] /\ started[s] <= ended[r]
OverlappingExecuteOnce ==
  2 * InFlight <= MinAge =>
    \A r, s \in Requests : Executed(r) /\ Executed(s) /\ Overlap(r, s) => r = s

(* idempotency_sweeper.py: no record stays much longer than MinAge.        *)
OldRecordsReclaimed == Stale ~> ~Stale
=============================================================================
