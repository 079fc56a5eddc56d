------------------------ MODULE IdempotencySweepProofs ------------------------
(***************************************************************************)
(* Theorems about IdempotencySweep for any number of requests and workers, *)
(* every retention and every bound on the time a request runs.             *)
(***************************************************************************)
EXTENDS IdempotencySweep, TLAPS

(* The invariant holds before the first request.                           *)
LEMMA InitIInv == Init => IInv
BY NobodyAssumption DEF Init, IInv, TypeOK, TimesInv, RecordInv, ExecutionsApart, Running, Executed

(* A step keeps the types. *)
LEMMA TypeStep ==
  ASSUME TypeOK, Next
  PROVE  TypeOK'
<1>. USE DEF TypeOK
<1>1. ASSUME NEW r \in Requests, Lookup(r) \/ Record(r) PROVE TypeOK'
  BY <1>1 DEF Lookup, Record
<1>2. ASSUME NEW r \in Requests, CommitRequest(r) \/ Fail(r) PROVE TypeOK'
  BY <1>2 DEF CommitRequest, Fail
<1>3. ASSUME NEW w \in Sweepers, BeginPass(w) \/ CommitPass(w) \/ FailPass(w)
      PROVE  TypeOK'
  BY <1>3 DEF BeginPass, CommitPass, FailPass, requests
<1>4. CASE Tick
  BY <1>4 DEF Tick, requests
<1>. QED
  BY <1>1, <1>2, <1>3, <1>4 DEF Next

(* A step keeps the order of a request's times.                            *)
LEMMA TimesStep ==
  ASSUME IInv, Next
  PROVE  TimesInv'
<1>. USE TimeAssumption DEF IInv, TypeOK, TimesInv, Running, Executed
<1>1. ASSUME NEW r \in Requests, Lookup(r) PROVE TimesInv'
  BY <1>1 DEF Lookup
<1>2. ASSUME NEW r \in Requests, Record(r) PROVE TimesInv'
  BY <1>2 DEF Record
<1>3. ASSUME NEW r \in Requests, CommitRequest(r) PROVE TimesInv'
  BY <1>3 DEF CommitRequest
<1>4. ASSUME NEW r \in Requests, Fail(r) PROVE TimesInv'
  BY <1>4 DEF Fail
<1>5. ASSUME NEW w \in Sweepers, BeginPass(w) \/ CommitPass(w) \/ FailPass(w)
      PROVE  TimesInv'
  BY <1>5 DEF BeginPass, CommitPass, FailPass, requests
<1>6. CASE Tick
  BY <1>6 DEF Tick, requests
<1>. QED
  BY <1>1, <1>2, <1>3, <1>4, <1>5, <1>6 DEF Next

(* A step keeps what the record says about the requests under its key.     *)
LEMMA RecordStep ==
  ASSUME IInv, Next
  PROVE  RecordInv'
<1>. USE NobodyAssumption, TimeAssumption
     DEF IInv, TypeOK, RecordInv, Executed, Stale, Cutoff
<1>1. ASSUME NEW r \in Requests, Lookup(r) PROVE RecordInv'
  BY <1>1 DEF Lookup
<1>2. ASSUME NEW r \in Requests, Record(r) PROVE RecordInv'
  BY <1>2 DEF Record
<1>3. ASSUME NEW r \in Requests, CommitRequest(r) PROVE RecordInv'
  BY <1>3 DEF CommitRequest
<1>4. ASSUME NEW r \in Requests, Fail(r) PROVE RecordInv'
  BY <1>4 DEF Fail, Running
<1>5. ASSUME NEW w \in Sweepers, BeginPass(w) PROVE RecordInv'
  BY <1>5 DEF BeginPass, requests
<1>6. ASSUME NEW w \in Sweepers, CommitPass(w) PROVE RecordInv'
  <2>1. CASE deleter = w
    BY <1>6, <2>1 DEF CommitPass, requests
  <2>2. CASE deleter # w
    BY <1>6, <2>2 DEF CommitPass, requests
  <2>. QED
    BY <2>1, <2>2
<1>7. ASSUME NEW w \in Sweepers, FailPass(w) PROVE RecordInv'
  BY <1>7 DEF FailPass, requests
<1>8. CASE Tick
  BY <1>8 DEF Tick, requests
<1>. QED
  BY <1>1, <1>2, <1>3, <1>4, <1>5, <1>6, <1>7, <1>8 DEF Next

(* Only a commit adds to the executed requests, and it finds no record: so *)
(* every earlier one has been swept.                                       *)
LEMMA ApartStep ==
  ASSUME IInv, Next
  PROVE  ExecutionsApart'
<1>. USE TimeAssumption DEF IInv, TypeOK, ExecutionsApart, Executed
<1>1. ASSUME NEW r \in Requests, CommitRequest(r), record = Nobody
      PROVE  ExecutionsApart'
  <2>1. \A s \in Requests : Executed(s) => now > stamp[s] + MinAge
    BY <1>1, NobodyAssumption DEF RecordInv
  <2>2. \A s \in Requests \ {r} : Executed(s)' => Executed(s) /\ ended'[s] = ended[s]
    BY <1>1 DEF CommitRequest
  <2>3. ended'[r] = now /\ stamp' = stamp
    BY <1>1 DEF CommitRequest
  <2>. QED
    BY <2>1, <2>2, <2>3
<1>2. ASSUME NEW r \in Requests, CommitRequest(r), record # Nobody
      PROVE  ExecutionsApart'
  BY <1>2 DEF CommitRequest
<1>3. ASSUME NEW r \in Requests, Lookup(r) PROVE ExecutionsApart'
  BY <1>3 DEF Lookup
<1>4. ASSUME NEW r \in Requests, Record(r) \/ Fail(r) PROVE ExecutionsApart'
  BY <1>4 DEF Record, Fail, Running
<1>5. ASSUME NEW w \in Sweepers, BeginPass(w) \/ CommitPass(w) \/ FailPass(w)
      PROVE  ExecutionsApart'
  BY <1>5 DEF BeginPass, CommitPass, FailPass, requests
<1>6. CASE Tick
  BY <1>6 DEF Tick, requests
<1>. QED
  BY <1>1, <1>2, <1>3, <1>4, <1>5, <1>6 DEF Next

-----------------------------------------------------------------------------
(* The invariant holds in every reachable state.                           *)
THEOREM SweepInvariance == Spec => []IInv
<1>1. IInv /\ [Next]_vars => IInv'
  <2>1. ASSUME IInv, Next PROVE IInv'
    BY <2>1, TypeStep, TimesStep, RecordStep, ApartStep DEF IInv
  <2>2. ASSUME IInv, UNCHANGED vars PROVE IInv'
    BY <2>2 DEF IInv, TypeOK, TimesInv, RecordInv, ExecutionsApart, Running,
                Executed, Stale, Cutoff, vars
  <2>. QED
    BY <2>1, <2>2
<1>. QED
  BY InitIInv, <1>1, PTL DEF Spec

(* A key takes effect a second time only when its record is older than     *)
(* MinAge.                                                                 *)
THEOREM KeyReusedLate == Spec => []ExecutionsApart
<1>1. IInv => ExecutionsApart
  BY DEF IInv
<1>. QED
  BY <1>1, SweepInvariance, PTL

(* With a retention of two in-flight windows no retry that overlaps the    *)
(* request is executed a second time.                                      *)
THEOREM SweepIsSafe == Spec => []OverlappingExecuteOnce
<1>1. IInv => OverlappingExecuteOnce
  BY TimeAssumption
  DEF IInv, TypeOK, TimesInv, ExecutionsApart, OverlappingExecuteOnce, Overlap, Executed
<1>. QED
  BY <1>1, SweepInvariance, PTL
=============================================================================
