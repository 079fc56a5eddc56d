--------------------------------- MODULE Holds ---------------------------------
(***************************************************************************)
(* services/holds_service.py: place_hold, capture_hold and release_hold.   *)
(* A hold is named by the request that placed it.                          *)
(***************************************************************************)
EXTENDS FxRouting

PlaceRequests ==
  [kind : {"place"}, src : Accounts, amt : Amounts, key : Keys]
CaptureRequests ==
  [kind : {"capture"}, hold : Requests, dst : Accounts, amt : Amounts]
ReleaseRequests ==
  [kind : {"release"}, hold : Requests]

(* place_hold *)

IsPlace(r) == req[r].kind = "place"

BeginPlace(r, q) == pc[r] = "idle" /\ Lookup(r, q, "lock")

NoPlaceLock(r) ==             \* mutant: a hold is placed without the lock
  IsPlace(r) /\ pc[r] = "lock" /\ Goto(r, "posted")
LockHeldAccount(r) == IsPlace(r) /\ TakeAdvisory(r, req[r].src)

ReadHeldAccount(r) == IsPlace(r) /\ ReadPosted(r, req[r].src)

(* The check and the flushed INSERT, which nobody else sees before the     *)
(* commit; the re-read for the response changes nothing.                   *)
CheckPlace(r) ==
  LET funded == Available(r, req[r].src) >= req[r].amt IN
  /\ IsPlace(r) /\ pc[r] = "held"
  /\ \/ ~funded /\ Rollback(r, "insufficient")
     \/ funded /\ Goto(r, "commit")

CommitPlace(r) ==
  /\ IsPlace(r) /\ pc[r] = "commit"
  /\ \/ CommitRecorded(r) /\ holdState' = [holdState EXCEPT ![r] = "active"]
     \/ KeyClash(r)

PlaceStep(r) ==
  \/ LockHeldAccount(r)
  \/ ReadHeldAccount(r)
  \/ CheckPlace(r)
  \/ CommitPlace(r)

-----------------------------------------------------------------------------
(* capture_hold *)

IsCapture(r) == req[r].kind = "capture"

HeldAccount(q) == req[q.hold].src

CaptureLegs(q) == Entry(HeldAccount(q), q.dst, q.amt)

(* The state of the hold is read once, before the lock, and decides.  An   *)
(* amount the client leaves out is the amount of the hold.                 *)
BeginCapture(r, q) ==
  LET state == holdState[q.hold]
      valid == SameCurrency(HeldAccount(q), q.dst) /\ q.amt <= req[q.hold].amt
  IN
  /\ pc[r] = "idle"
  /\ \/ state = "none" /\ Answer(r, q, "notFound")
     \/ state = "captured" /\ Answer(r, q, "replayed")
     \/ state = "released" /\ Answer(r, q, "badState")
     \/ state = "active" /\ ~valid /\ Answer(r, q, "badState")
     \/ state = "active" /\ valid /\ Open(r, q, "lock")

LockCaptured(r) == IsCapture(r) /\ TakeAdvisory(r, HeldAccount(req[r]))

ReadCaptured(r) == IsCapture(r) /\ ReadPosted(r, HeldAccount(req[r]))

(* The capture only asks that the posted balance covers it.                *)
TrustsHold(r) == TRUE         \* mutant: no check, the hold has reserved it
PostedCovers(r) == seen[r] >= req[r].amt

CheckCapture(r) ==
  /\ IsCapture(r) /\ pc[r] = "held"
  /\ \/ ~PostedCovers(r) /\ Rollback(r, "insufficient")
     \/ PostedCovers(r) /\ Goto(r, "posting")

PostCapture(r) == IsCapture(r) /\ PostLeg(r, CaptureLegs(req[r]), "after")

(* available_balance again, for the response.  session.get answers with    *)
(* the object of the first read, to which the UPDATEs have applied the     *)
(* legs of this session, so what was committed in between is missing; the  *)
(* identity map is weak, and if it has let the object go the row version   *)
(* of this transaction is read.  The held figure still counts the hold,    *)
(* because the session does not autoflush and hold.state = CAPTURED is     *)
(* only in memory.                                                         *)
OwnLegs(q) == IF q.dst = HeldAccount(q) THEN 0 ELSE 0 - q.amt
ReadAfterCapture(r) ==
  LET acct == HeldAccount(req[r]) IN
  /\ IsCapture(r) /\ pc[r] = "after"
  /\ \E posted \in {seen[r] + OwnLegs(req[r]), draft[acct]} :
       seen' = [seen EXCEPT ![r] = posted - Held(acct, began[r])]
  /\ pc' = [pc EXCEPT ![r] = "commit"]
  /\ UNCHANGED <<tables, req, applied, began, outcome>>

(* The commit flushes hold.state, whatever the row holds by now.           *)
CommitCapture(r) ==
  /\ IsCapture(r) /\ pc[r] = "commit"
  /\ Commit(r)
  /\ holdState' = [holdState EXCEPT ![req[r].hold] = "captured"]
  /\ UNCHANGED idem

CaptureStep(r) ==
  \/ LockCaptured(r)
  \/ ReadCaptured(r)
  \/ CheckCapture(r)
  \/ PostCapture(r)
  \/ ReadAfterCapture(r)
  \/ CommitCapture(r)

-----------------------------------------------------------------------------
(* release_hold: no lock; the state that decides is the one read first.    *)

IsRelease(r) == req[r].kind = "release"

BeginRelease(r, q) ==
  LET state == holdState[q.hold] IN
  /\ pc[r] = "idle"
  /\ \/ state = "none" /\ Answer(r, q, "notFound")
     \/ state = "captured" /\ Answer(r, q, "badState")
     \/ state = "released" /\ Answer(r, q, "replayed")
     \/ state = "active" /\ Open(r, q, "commit")

CommitRelease(r) ==
  /\ IsRelease(r) /\ pc[r] = "commit"
  /\ Commit(r)
  /\ holdState' = [holdState EXCEPT ![req[r].hold] = "released"]
  /\ UNCHANGED idem

(* The holds some committed request captured, released.                    *)
Captured == {req[r].hold : r \in {s \in Committed : IsCapture(s)}}
Released == {req[r].hold : r \in {s \in Committed : IsRelease(s)}}
=============================================================================
