-------------------------- MODULE LedgerSessionProofs --------------------------
(***************************************************************************)
(* What the proofs about Ledger rest on, for every value of its constants. *)
(* The actions are reduced to the few shapes a step can have; then the     *)
(* parts of the inductive invariant that are about sessions, locks and     *)
(* keys are shown to be preserved by a step of any shape.                  *)
(***************************************************************************)
EXTENDS LedgerInvariants, MoneyProofs

-----------------------------------------------------------------------------
(* The kind of a request body says which request it is.                    *)
LEMMA KindOfBody ==
  ASSUME NEW q \in RequestBodies
  PROVE  /\ q.kind \in {"transfer", "place", "capture", "release", "reverse"}
         /\ q.kind = "transfer" => q \in TransferRequests
         /\ q.kind = "place" => q \in PlaceRequests
         /\ q.kind = "capture" => q \in CaptureRequests
         /\ q.kind = "release" => q \in ReleaseRequests
         /\ q.kind = "reverse" => q \in ReverseRequests
BY DEF RequestBodies, TransferRequests, PlaceRequests, CaptureRequests,
       ReleaseRequests, ReverseRequests

(* A transfer debits its source once; whatever else it posts is a credit,  *)
(* or is on a conversion account.                                          *)
LEMMA TransferLegsShape ==
  ASSUME NEW q \in TransferRequests, Postable(q)
  PROVE  LET legs == TransferLegs(q) IN
         /\ Len(legs) \in {2, 4}
         /\ \A i \in 1..Len(legs) : legs[i].account \in Accounts /\ legs[i].amount \in Int
         /\ legs[1] = Leg(q.src, 0 - q.amt)
         /\ \A i \in 2..Len(legs) : legs[i].account \in ConversionAccounts \/ legs[i].amount >= 0
<1>. DEFINE legs == TransferLegs(q)
<1>1. q.src \in Accounts /\ q.dst \in Accounts /\ q.amt \in Nat
  BY AmountAssumption DEF TransferRequests, Amounts
<1>2. CASE SameCurrency(q.src, q.dst)
  BY <1>1, <1>2 DEF TransferLegs, Entry, Leg
<1>3. CASE ~SameCurrency(q.src, q.dst)
  <2>. DEFINE p == ConversionAccount[CurrencyOf[q.src]]
              t == ConversionAccount[CurrencyOf[q.dst]]
              m == Converted[<<CurrencyOf[q.src], CurrencyOf[q.dst]>>][q.amt]
  <2>1. p \in Accounts /\ t \in Accounts /\ t \in ConversionAccounts /\ m \in Nat
    BY <1>3, ConversionAssumption, ConvertedAssumption
    DEF Postable, Routable, ConversionAccounts, TransferRequests
  <2>2. legs = <<Leg(q.src, 0 - q.amt), Leg(p, q.amt), Leg(t, 0 - m), Leg(q.dst, m)>>
    BY <1>3 DEF TransferLegs, ConversionLegs
  <2>. QED
    BY <1>1, <2>1, <2>2 DEF Leg
<1>. QED
  BY <1>2, <1>3

(* The hold a handler works on is a finished place request. *)
LEMMA HoldIsPlaced ==
  ASSUME TypeOK, SessionInv, NEW h \in Requests, holdState[h] # "none"
  PROVE  req[h] \in PlaceRequests /\ pc[h] = "done" /\ h \in Committed
<1>1. IsPlace(h) /\ h \in Committed
  BY DEF SessionInv, HoldOK
<1>2. pc[h] = "done" /\ req[h] \in RequestBodies
  BY <1>1 DEF SessionInv, SessionOK, Committed
<1>. QED
  BY <1>1, <1>2, KindOfBody DEF IsPlace

(* held_total is a number: finitely many holds reserve, and each reserves  *)
(* the amount of a request to place it.                                    *)
LEMMA ReservingType ==
  ASSUME TypeOK, SessionInv, NEW a, NEW lapsed
  PROVE  /\ Reserving(a, lapsed) \subseteq Requests
         /\ IsFiniteSet(Reserving(a, lapsed))
         /\ \A h \in Reserving(a, lapsed) : req[h] \in PlaceRequests /\ req[h].amt \in Amounts
<1>1. Reserving(a, lapsed) \subseteq Requests
  BY DEF Reserving
<1>2. \A h \in Reserving(a, lapsed) : req[h] \in PlaceRequests
  BY HoldIsPlaced DEF Reserving
<1>. QED
  BY <1>1, <1>2, RequestAssumption, FS_Subset DEF PlaceRequests

(* What is reserved on an account is a natural number.                     *)
LEMMA HeldType ==
  ASSUME TypeOK, SessionInv, NEW a, NEW lapsed
  PROVE  Held(a, lapsed) \in Nat
<1>. DEFINE holds == Reserving(a, lapsed)
            f == [h \in holds |-> req[h].amt]
<1>1. IsFiniteSet(holds) /\ \A h \in holds : f[h] \in Nat
  BY ReservingType, AmountAssumption DEF Amounts
<1>2. Held(a, lapsed) = SumFunctionOnSet(f, holds)
  BY DEF Held
<1>. HIDE DEF holds, f
<1>. QED
  BY <1>1, <1>2, SumNat

(* A capture debits the account of its hold and credits its destination.   *)
LEMMA CaptureLegsShape ==
  ASSUME NEW q \in CaptureRequests, req[q.hold] \in PlaceRequests
  PROVE  LET legs == CaptureLegs(q) IN
         /\ HeldAccount(q) \in Accounts
         /\ Len(legs) = 2
         /\ \A i \in 1..2 : legs[i].account \in Accounts /\ legs[i].amount \in Int
         /\ legs[1] = Leg(HeldAccount(q), 0 - q.amt)
         /\ legs[2].amount >= 0
<1>1. HeldAccount(q) \in Accounts /\ q.dst \in Accounts /\ q.amt \in Nat
  BY AmountAssumption DEF HeldAccount, CaptureRequests, PlaceRequests, Amounts
<1>. QED
  BY <1>1 DEF CaptureLegs, Entry, Leg

(* The legs of a transaction that exists are legs. *)
LEMMA ReversalLegsShape ==
  ASSUME TypeOK, SessionInv,
         NEW q \in ReverseRequests, Exists(q.txn)
  PROVE  LET legs == ReversalLegs(q) IN
         /\ Len(legs) = 2
         /\ \A i \in 1..2 : legs[i].account \in Accounts /\ legs[i].amount \in Int
<1>. DEFINE s == q.txn[1]
            n == q.txn[2]
            legs == MovementLegs(req[s])
<1>1. s \in Requests /\ n \in {1, 2} /\ s \in Committed /\ 2 * n <= Len(legs)
  BY DEF ReverseRequests, Exists
<1>2. req[s] \in RequestBodies
  BY <1>1 DEF SessionInv, SessionOK, Committed
<1>3. Len(legs) \in {2, 4} /\ \A i \in 1..Len(legs) :
        legs[i].account \in Accounts /\ legs[i].amount \in Int
  <2>1. CASE IsTransfer(s)
    <3>1. req[s] \in TransferRequests
      BY <1>2, <2>1, KindOfBody DEF IsTransfer
    <3>2. Postable(req[s])
      BY <1>1, <2>1 DEF SessionInv, LegsOK
    <3>3. legs = TransferLegs(req[s])
      BY <2>1 DEF IsTransfer, MovementLegs
    <3>. QED
      BY <3>1, <3>2, <3>3, TransferLegsShape
  <2>2. CASE IsCapture(s)
    <3>1. req[s] \in CaptureRequests
      BY <1>2, <2>2, KindOfBody DEF IsCapture
    <3>2. req[s].hold \in Requests /\ holdState[req[s].hold] # "none"
      BY <1>1, <2>2, <3>1 DEF SessionInv, HoldOK, CaptureRequests
    <3>3. legs = CaptureLegs(req[s])
      BY <2>2 DEF IsCapture, MovementLegs
    <3>. QED
      BY <3>1, <3>2, <3>3, HoldIsPlaced, CaptureLegsShape
  <2>3. CASE ~IsTransfer(s) /\ ~IsCapture(s)
    <3>1. legs = <<>>
      BY <2>3 DEF IsTransfer, IsCapture, MovementLegs
    <3>2. Len(legs) = 0
      BY <3>1
    <3>. QED
      BY <1>1, <3>2
  <2>. QED
    BY <2>1, <2>2, <2>3
<1>. DEFINE first == legs[2 * n - 1]
            second == legs[2 * n]
<1>4. TransactionLegs(q.txn) = <<first, second>>
  BY DEF TransactionLegs
<1>5. ReversalLegs(q) = <<Negated(first), Negated(second)>>
  BY <1>4 DEF ReversalLegs
<1>6. /\ first.account \in Accounts /\ first.amount \in Int
      /\ second.account \in Accounts /\ second.amount \in Int
  <2>. HIDE DEF n, legs
  <2>1. n = 1 \/ n = 2
    BY <1>1
  <2>2. 2 * n \in 1..Len(legs) /\ 2 * n - 1 \in 1..Len(legs)
    BY <1>1, <1>3, <2>1
  <2>. QED
    BY <1>3, <2>2
<1>. HIDE DEF first, second
<1>. QED
  BY <1>5, <1>6 DEF Negated, Leg

(* What a handler that is posting posts: a debit of the account whose      *)
(* advisory lock it holds, then only credits of customers; a reversal,     *)
(* whatever the original's legs make it.                                   *)
LEMMA LegsShape ==
  ASSUME TypeOK, SessionInv, NEW r \in Requests, pc[r] = "posting"
  PROVE  LET legs == LegsOf(r) IN
         /\ Len(legs) \in Nat
         /\ applied[r] + 1 \in 1..Len(legs)
         /\ \A i \in 1..Len(legs) : legs[i].account \in Accounts /\ legs[i].amount \in Int
         /\ ~IsReverse(r) =>
              /\ LockedAccount(r) \in Accounts
              /\ req[r].amt \in Nat
              /\ legs[1] = Leg(LockedAccount(r), 0 - req[r].amt)
              /\ \A i \in 2..Len(legs) :
                   legs[i].account \in ConversionAccounts \/ legs[i].amount >= 0
<1>1. req[r] \in RequestBodies /\ IsPlace(r) = FALSE /\ IsRelease(r) = FALSE
  BY DEF SessionInv, SessionOK, IsPlace, IsRelease
<1>2. applied[r] \in Nat /\ applied[r] < Len(LegsOf(r))
  BY DEF TypeOK, SessionInv, LegsOK
<1>3. CASE IsTransfer(r)
  <2>1. req[r] \in TransferRequests /\ Postable(req[r])
    BY <1>1, <1>3, KindOfBody DEF IsTransfer, SessionInv, LegsOK
  <2>2. LegsOf(r) = TransferLegs(req[r]) /\ LockedAccount(r) = req[r].src /\ ~IsReverse(r)
    BY <1>3 DEF IsTransfer, IsReverse, IsCapture, LegsOf, MovementLegs, LockedAccount
  <2>3. req[r].src \in Accounts /\ req[r].amt \in Nat
    BY <2>1, AmountAssumption DEF TransferRequests, Amounts
  <2>. QED
    BY <1>2, <2>1, <2>2, <2>3, TransferLegsShape
<1>4. CASE IsCapture(r)
  <2>1. req[r] \in CaptureRequests
    BY <1>1, <1>4, KindOfBody DEF IsCapture
  <2>2. req[r].hold \in Requests /\ holdState[req[r].hold] # "none"
    BY <1>4, <2>1 DEF SessionInv, HoldOK, Active, CaptureRequests
  <2>3. LegsOf(r) = CaptureLegs(req[r]) /\ LockedAccount(r) = HeldAccount(req[r]) /\ ~IsReverse(r)
    BY <1>4 DEF IsCapture, IsReverse, LegsOf, MovementLegs, LockedAccount
  <2>4. req[r].amt \in Nat
    BY <2>1, AmountAssumption DEF CaptureRequests, Amounts
  <2>5. req[req[r].hold] \in PlaceRequests
    BY <2>2, HoldIsPlaced
  <2>. QED
    BY <1>2, <2>1, <2>3, <2>4, <2>5, CaptureLegsShape
<1>5. CASE IsReverse(r)
  <2>1. req[r] \in ReverseRequests /\ Exists(req[r].txn)
    BY <1>1, <1>5, KindOfBody DEF IsReverse, SessionInv, LegsOK
  <2>2. LegsOf(r) = ReversalLegs(req[r])
    BY <1>5 DEF LegsOf
  <2>. QED
    BY <1>2, <1>5, <2>1, <2>2, ReversalLegsShape
<1>. QED
  BY <1>1, <1>3, <1>4, <1>5, KindOfBody
  DEF IsTransfer, IsPlace, IsCapture, IsRelease, IsReverse

-----------------------------------------------------------------------------
(* The few shapes a step of the system has.  Every proof that an invariant *)
(* is preserved goes through them, one by one.                             *)

Failures == Outcomes \ {"none", "ok"}

Begins(r) ==
  \E q \in RequestBodies, next \in {"lock", "original", "commit"} :
    /\ pc[r] = "idle"
    /\ Open(r, q, next)
    /\ next = "lock" => q.kind \in {"transfer", "place", "capture"}
    /\ next = "original" => q.kind = "reverse"
    /\ next = "commit" => q.kind = "release"
    /\ q.kind \in {"capture", "release"} => holdState[q.hold] = "active"
    /\ q.kind = "capture" =>
         SameCurrency(HeldAccount(q), q.dst) /\ q.amt <= req[q.hold].amt

Answers(r) ==
  \E q \in RequestBodies, result \in Failures :
    pc[r] = "idle" /\ Answer(r, q, result)

Locks(r) == Locking(r) /\ TakeAdvisory(r, LockedAccount(r))

Reads(r) == Locking(r) /\ ReadPosted(r, LockedAccount(r))

Decides(r) ==
  \/ /\ pc[r] = "held" /\ IsPlace(r)
     /\ Available(r, req[r].src) >= req[r].amt
     /\ Goto(r, "commit")
  \/ /\ pc[r] = "held" /\ IsTransfer(r) /\ Postable(req[r])
     /\ Available(r, req[r].src) >= req[r].amt
     /\ Goto(r, "posting")
  \/ pc[r] = "held" /\ IsCapture(r) /\ seen[r] >= req[r].amt /\ Goto(r, "posting")
  \/ pc[r] = "original" /\ IsReverse(r) /\ Exists(req[r].txn) /\ Goto(r, "posting")

Fails(r) == r \in Active /\ \E why \in Failures : Rollback(r, why)

Posts(r) == PostLeg(r, LegsOf(r), IF IsCapture(r) THEN "after" ELSE "commit")

Commits(r) ==
  /\ pc[r] = "commit"
  /\ Commit(r)
  /\ Keyed(r) => KeyUnused(r) /\ idem' = [idem EXCEPT ![Slot(req[r])] = r]
  /\ ~Keyed(r) => UNCHANGED idem
  /\ IsPlace(r) => holdState' = [holdState EXCEPT ![r] = "active"]
  /\ IsCapture(r) => holdState' = [holdState EXCEPT ![req[r].hold] = "captured"]
  /\ IsRelease(r) => holdState' = [holdState EXCEPT ![req[r].hold] = "released"]
  /\ IsTransfer(r) \/ IsReverse(r) => UNCHANGED holdState

(* An idempotency lookup opens a transaction or answers the request.       *)
LEMMA LookupShape ==
  ASSUME NEW r \in Requests, NEW q \in RequestBodies, NEW next \in {"lock", "original"},
         pc[r] = "idle", Lookup(r, q, next),
         q.kind \notin {"capture", "release"},
         next = "lock" => q.kind \in {"transfer", "place", "capture"},
         next = "original" => q.kind = "reverse"
  PROVE  Begins(r) \/ Answers(r)
<1>1. CASE Open(r, q, next)
  BY <1>1 DEF Begins
<1>2. CASE \E result \in {"replayed", "conflict"} : Answer(r, q, result)
  BY <1>2 DEF Answers, Failures, Outcomes
<1>. QED
  BY <1>1, <1>2 DEF Lookup

(* A handler with a key ends in a commit with its record, or in the key    *)
(* clash.                                                                  *)
LEMMA RecordedShape ==
  ASSUME NEW r \in Requests, pc[r] = "commit", Keyed(r),
         \/ CommitRecorded(r) /\ IsPlace(r) /\ holdState' = [holdState EXCEPT ![r] = "active"]
         \/ CommitRecorded(r) /\ (IsTransfer(r) \/ IsReverse(r)) /\ UNCHANGED holdState
         \/ KeyClash(r)
  PROVE  Commits(r) \/ Fails(r)
<1>1. CASE KeyClash(r)
  BY <1>1 DEF KeyClash, Fails, Failures, Outcomes, Active
<1>2. CASE CommitRecorded(r) /\ IsPlace(r) /\ holdState' = [holdState EXCEPT ![r] = "active"]
  BY <1>2 DEF CommitRecorded, Commits, IsPlace, IsTransfer, IsCapture, IsRelease, IsReverse
<1>3. CASE CommitRecorded(r) /\ (IsTransfer(r) \/ IsReverse(r)) /\ UNCHANGED holdState
  BY <1>3 DEF CommitRecorded, Commits, IsPlace, IsTransfer, IsCapture, IsRelease, IsReverse
<1>. QED
  BY <1>1, <1>2, <1>3

(* A request that arrives opens a transaction or is answered at once.      *)
LEMMA BeginShape ==
  ASSUME NEW r \in Requests, Begin(r)
  PROVE  Begins(r) \/ Answers(r)
<1>1. CASE \E q \in TransferRequests : BeginTransfer(r, q)
  <2>1. PICK q \in TransferRequests : BeginTransfer(r, q)
    BY <1>1
  <2>2. q \in RequestBodies /\ q.kind = "transfer"
    BY DEF RequestBodies, TransferRequests
  <2>. QED
    BY <2>1, <2>2, LookupShape DEF BeginTransfer
<1>2. CASE \E q \in PlaceRequests : BeginPlace(r, q)
  <2>1. PICK q \in PlaceRequests : BeginPlace(r, q)
    BY <1>2
  <2>2. q \in RequestBodies /\ q.kind = "place"
    BY DEF RequestBodies, PlaceRequests
  <2>. QED
    BY <2>1, <2>2, LookupShape DEF BeginPlace
<1>3. CASE \E q \in CaptureRequests : BeginCapture(r, q)
  <2>1. PICK q \in CaptureRequests : BeginCapture(r, q)
    BY <1>3
  <2>2. q \in RequestBodies /\ q.kind = "capture"
    BY DEF RequestBodies, CaptureRequests
  <2>3. CASE /\ holdState[q.hold] = "active" /\ Open(r, q, "lock")
             /\ SameCurrency(HeldAccount(q), q.dst) /\ q.amt <= req[q.hold].amt
    BY <2>1, <2>2, <2>3 DEF BeginCapture, Begins
  <2>4. CASE \E result \in {"notFound", "replayed", "badState"} : Answer(r, q, result)
    BY <2>1, <2>2, <2>4 DEF BeginCapture, Answers, Failures, Outcomes
  <2>. QED
    BY <2>1, <2>3, <2>4 DEF BeginCapture
<1>4. CASE \E q \in ReleaseRequests : BeginRelease(r, q)
  <2>1. PICK q \in ReleaseRequests : BeginRelease(r, q)
    BY <1>4
  <2>2. q \in RequestBodies /\ q.kind = "release"
    BY DEF RequestBodies, ReleaseRequests
  <2>3. CASE holdState[q.hold] = "active" /\ Open(r, q, "commit")
    BY <2>1, <2>2, <2>3 DEF BeginRelease, Begins
  <2>4. CASE \E result \in {"notFound", "replayed", "badState"} : Answer(r, q, result)
    BY <2>1, <2>2, <2>4 DEF BeginRelease, Answers, Failures, Outcomes
  <2>. QED
    BY <2>1, <2>3, <2>4 DEF BeginRelease
<1>5. CASE \E q \in ReverseRequests : BeginReverse(r, q)
  <2>1. PICK q \in ReverseRequests : BeginReverse(r, q)
    BY <1>5
  <2>2. q \in RequestBodies /\ q.kind = "reverse"
    BY DEF RequestBodies, ReverseRequests
  <2>. QED
    BY <2>1, <2>2, LookupShape DEF BeginReverse
<1>. QED
  BY <1>1, <1>2, <1>3, <1>4, <1>5 DEF Begin

(* The shapes of the steps of execute_transfer.                            *)
LEMMA TransferShape ==
  ASSUME NEW r \in Requests, TransferStep(r)
  PROVE  Locks(r) \/ Reads(r) \/ Decides(r) \/ Posts(r) \/ Commits(r) \/ Fails(r)
<1>1. /\ IsTransfer(r) /\ Locking(r) /\ Keyed(r)
      /\ ~IsCapture(r) /\ ~IsReverse(r)
      /\ LockedAccount(r) = req[r].src /\ LegsOf(r) = TransferLegs(req[r])
  BY DEF TransferStep, LockSource, ReadSource, CheckFunds, PostTransfer, CommitTransfer,
         IsTransfer, IsCapture, IsReverse, Locking, Keyed, Endpoints, LockedAccount,
         LegsOf, MovementLegs
<1>2. CASE LockSource(r)
  BY <1>1, <1>2 DEF LockSource, Locks
<1>3. CASE ReadSource(r)
  BY <1>1, <1>3 DEF ReadSource, Reads
<1>4. CASE CheckFunds(r)
  BY <1>1, <1>4 DEF CheckFunds, Decides, Postable, Fails, Failures, Outcomes, Active
<1>5. CASE PostTransfer(r)
  BY <1>1, <1>5 DEF PostTransfer, Posts
<1>6. CASE CommitTransfer(r)
  BY <1>1, <1>6, RecordedShape DEF CommitTransfer
<1>. QED
  BY <1>2, <1>3, <1>4, <1>5, <1>6 DEF TransferStep

(* The shapes of the steps of place_hold, which posts nothing.             *)
LEMMA PlaceShape ==
  ASSUME NEW r \in Requests, PlaceStep(r)
  PROVE  Locks(r) \/ Reads(r) \/ Decides(r) \/ Commits(r) \/ Fails(r)
<1>1. /\ IsPlace(r) /\ Locking(r) /\ Keyed(r)
      /\ ~IsCapture(r) /\ LockedAccount(r) = req[r].src
  BY DEF PlaceStep, LockHeldAccount, ReadHeldAccount, CheckPlace, CommitPlace,
         IsPlace, IsCapture, Locking, Keyed, Endpoints, LockedAccount
<1>2. CASE LockHeldAccount(r)
  BY <1>1, <1>2 DEF LockHeldAccount, Locks
<1>3. CASE ReadHeldAccount(r)
  BY <1>1, <1>3 DEF ReadHeldAccount, Reads
<1>4. CASE CheckPlace(r)
  BY <1>1, <1>4 DEF CheckPlace, Decides, Fails, Failures, Outcomes, Active
<1>5. CASE CommitPlace(r)
  BY <1>1, <1>5, RecordedShape DEF CommitPlace
<1>. QED
  BY <1>2, <1>3, <1>4, <1>5 DEF PlaceStep

(* The shapes of the steps of capture_hold.                                *)
LEMMA CaptureShape ==
  ASSUME NEW r \in Requests, CaptureStep(r)
  PROVE  \/ Locks(r) \/ Reads(r) \/ Decides(r) \/ Posts(r) \/ Commits(r) \/ Fails(r)
         \/ ReadAfterCapture(r)
<1>1. /\ IsCapture(r) /\ Locking(r) /\ ~Keyed(r)
      /\ ~IsPlace(r) /\ ~IsTransfer(r) /\ ~IsReverse(r) /\ ~IsRelease(r)
      /\ LockedAccount(r) = HeldAccount(req[r]) /\ LegsOf(r) = CaptureLegs(req[r])
  BY DEF CaptureStep, LockCaptured, ReadCaptured, CheckCapture, PostCapture,
         ReadAfterCapture, CommitCapture, IsTransfer, IsPlace, IsCapture, IsRelease,
         IsReverse, Locking, Keyed, Endpoints, LockedAccount, LegsOf, MovementLegs
<1>2. CASE LockCaptured(r)
  BY <1>1, <1>2 DEF LockCaptured, Locks
<1>3. CASE ReadCaptured(r)
  BY <1>1, <1>3 DEF ReadCaptured, Reads
<1>4. CASE CheckCapture(r)
  BY <1>1, <1>4 DEF CheckCapture, PostedCovers, Decides, Fails, Failures, Outcomes, Active
<1>5. CASE PostCapture(r)
  BY <1>1, <1>5 DEF PostCapture, Posts
<1>6. CASE CommitCapture(r)
  BY <1>1, <1>6 DEF CommitCapture, Commits
<1>. QED
  BY <1>2, <1>3, <1>4, <1>5, <1>6 DEF CaptureStep

(* The shapes of the steps of reverse_transaction, which takes no lock.    *)
LEMMA ReverseShape ==
  ASSUME NEW r \in Requests, ReverseStep(r)
  PROVE  Decides(r) \/ Posts(r) \/ Commits(r) \/ Fails(r)
<1>1. /\ IsReverse(r) /\ Keyed(r) /\ ~IsCapture(r) /\ LegsOf(r) = ReversalLegs(req[r])
  BY DEF ReverseStep, CheckOriginal, PostReversal, CommitReversal, IsReverse, IsCapture,
         Keyed, Endpoints, LegsOf
<1>2. CASE CheckOriginal(r)
  BY <1>1, <1>2 DEF CheckOriginal, Decides, Fails, Failures, Outcomes, Active
<1>3. CASE PostReversal(r)
  BY <1>1, <1>3 DEF PostReversal, Posts
<1>4. CASE CommitReversal(r)
  BY <1>1, <1>4, RecordedShape DEF CommitReversal
<1>. QED
  BY <1>2, <1>3, <1>4 DEF ReverseStep

(* The one step of release_hold that is left after its read is a commit.   *)
LEMMA ReleaseShape ==
  ASSUME NEW r \in Requests, CommitRelease(r)
  PROVE  Commits(r)
BY DEF CommitRelease, Commits, IsTransfer, IsPlace, IsCapture, IsRelease, IsReverse,
       Keyed, Endpoints

RequestStep(r) ==
  \/ Begins(r) \/ Answers(r) \/ Locks(r) \/ Reads(r) \/ Decides(r)
  \/ Posts(r) \/ ReadAfterCapture(r) \/ Commits(r) \/ Fails(r)

(* Every step of the ledger is a step of one request in one of the shapes, *)
(* or a hold lapses, or nothing changes.                                   *)
LEMMA NextShapes ==
  ASSUME [Next]_vars
  PROVE  \/ \E r \in Requests : RequestStep(r)
         \/ \E h \in Requests : Expire(h)
         \/ UNCHANGED vars
<1>1. ASSUME NEW r \in Requests, Begin(r) \/ Step(r) \/ AbortDeadlock(r) \/ Crash(r)
      PROVE  RequestStep(r)
  <2>1. CASE Begin(r)
    BY <2>1, BeginShape DEF RequestStep
  <2>2. CASE Step(r)
    BY <2>2, TransferShape, PlaceShape, CaptureShape, ReverseShape, ReleaseShape
    DEF Step, RequestStep
  <2>3. CASE AbortDeadlock(r) \/ Crash(r)
    BY <2>3 DEF AbortDeadlock, Crash, RequestStep, Fails, Failures, Outcomes
  <2>. QED
    BY <1>1, <2>1, <2>2, <2>3
<1>. QED
  BY <1>1 DEF Next, Quiescent

-----------------------------------------------------------------------------
(* What no step changes. *)

AnyStep(r) == RequestStep(r) \/ Expire(r) \/ UNCHANGED vars

(* A step of one request leaves the sessions of the others alone, and a    *)
(* request that has begun keeps its body.                                  *)
LEMMA StepsAreFrugal ==
  ASSUME TypeOK, NEW r \in Requests, AnyStep(r)
  PROVE  /\ \A s \in Requests \ {r} :
              pc'[s] = pc[s] /\ req'[s] = req[s] /\ outcome'[s] = outcome[s]
              /\ applied'[s] = applied[s] /\ seen'[s] = seen[s]
         /\ pc[r] # "idle" => req'[r] = req[r] /\ pc'[r] # "idle"
         /\ outcome[r] = "ok" /\ pc[r] = "done" => outcome'[r] = "ok"
BY DEF AnyStep, RequestStep, Begins, Answers, Locks, Reads, Decides, Posts,
       ReadAfterCapture, Commits, Fails, Open, Answer, TakeAdvisory, ReadPosted, Goto,
       PostLeg, Commit, Rollback, EndSession, Expire, TypeOK, vars, session, tables, Active

(* A hold that has been placed is never forgotten.                         *)
LEMMA HoldsPersist ==
  ASSUME TypeOK, SessionInv, NEW r \in Requests, AnyStep(r),
         NEW h \in Requests, holdState[h] # "none"
  PROVE  holdState'[h] # "none"
<1>1. CASE Commits(r)
  BY <1>1, KindOfBody DEF Commits, TypeOK, SessionInv, SessionOK, HoldStates, IsTransfer, IsPlace, IsCapture,
     IsRelease, IsReverse
<1>2. CASE ~Commits(r)
  BY <1>2 DEF AnyStep, RequestStep, Begins, Answers, Locks, Reads, Decides, Posts,
       ReadAfterCapture, Fails, Open, Answer, TakeAdvisory, ReadPosted, Goto,
       PostLeg, Rollback, EndSession, Expire, vars, tables
<1>. QED
  BY <1>1, <1>2

(* A request that has begun keeps its body, and what follows from it. *)
LEMMA BodiesAreFixed ==
  ASSUME TypeOK, SessionInv, NEW r \in Requests, AnyStep(r),
         NEW s \in Requests, pc[s] # "idle"
  PROVE  /\ req'[s] = req[s]
         /\ pc'[s] # "idle"
         /\ s \in Committed => s \in Committed'
BY StepsAreFrugal DEF SessionInv, SessionOK, Committed

(* A request at work or committed keeps its account and its legs.          *)
LEMMA LegsAreFixed ==
  ASSUME TypeOK, SessionInv, NEW r \in Requests, AnyStep(r),
         NEW s \in Requests, s \in Active \/ s \in Committed
  PROVE  /\ LockedAccount(s)' = LockedAccount(s)
         /\ MovementLegs(req[s])' = MovementLegs(req[s])
<1>1. pc[s] # "idle" /\ req'[s] = req[s]
  BY BodiesAreFixed DEF Active, Committed, SessionInv, SessionOK
<1>2. CASE IsCapture(s)
  <2>1. req[s] \in CaptureRequests
    BY <1>1, <1>2, KindOfBody DEF SessionInv, SessionOK, IsCapture
  <2>2. req[s].hold \in Requests /\ holdState[req[s].hold] # "none"
    BY <1>2, <2>1 DEF SessionInv, HoldOK, CaptureRequests
  <2>3. req'[req[s].hold] = req[req[s].hold]
    BY <2>2, HoldIsPlaced, BodiesAreFixed
  <2>. QED
    BY <1>1, <1>2, <2>3
    DEF IsCapture, LockedAccount, MovementLegs, HeldAccount, CaptureLegs
<1>3. CASE ~IsCapture(s)
  BY <1>1, <1>3 DEF IsCapture, LockedAccount, MovementLegs
<1>. QED
  BY <1>2, <1>3

(* A transaction that exists keeps its postings.                           *)
LEMMA TransactionsPersist ==
  ASSUME TypeOK, SessionInv, NEW r \in Requests, AnyStep(r),
         NEW t \in Requests \X {1, 2}, Exists(t)
  PROVE  Exists(t)' /\ TransactionLegs(t)' = TransactionLegs(t)
<1>1. t[1] \in Committed /\ t[1] \in Requests /\ pc[t[1]] # "idle"
  BY DEF Exists, Committed, SessionInv, SessionOK
<1>2. /\ t[1] \in Committed'
      /\ req'[t[1]] = req[t[1]]
      /\ MovementLegs(req[t[1]])' = MovementLegs(req[t[1]])
  BY <1>1, BodiesAreFixed, LegsAreFixed
<1>. QED
  BY <1>2 DEF Exists, TransactionLegs

-----------------------------------------------------------------------------
(* Each part of the invariant, step by step. *)

(* A request that carries a key has its slot among the slots.              *)
LEMMA SlotType ==
  ASSUME NEW q \in RequestBodies, q.kind \in Endpoints
  PROVE  Slot(q) \in Slots
BY KindOfBody DEF Slot, Slots, Endpoints, TransferRequests, PlaceRequests, ReverseRequests

(* Ending a transaction leaves well-typed sessions and locks.              *)
LEMMA EndSessionTypes ==
  ASSUME TypeOK, NEW r \in Requests, NEW result \in Outcomes, EndSession(r, result)
  PROVE  /\ rowOwner' \in [Accounts -> Requests \cup {Nobody}]
         /\ advisory' \in [Accounts -> Requests \cup {Nobody}]
         /\ expired' \in SUBSET Requests
         /\ pc' \in [Requests -> Points]
         /\ req' \in [Requests -> RequestBodies \cup {NoRequest}]
         /\ applied' \in [Requests -> Nat]
         /\ seen' \in [Requests -> Int]
         /\ began' \in [Requests -> SUBSET Requests]
         /\ outcome' \in [Requests -> Outcomes]
BY DEF EndSession, Unlocked, AdvisoryAfter, TypeOK, Points

(* A step keeps the types.                                                 *)
LEMMA TypeStep ==
  ASSUME TypeOK, SessionInv, NEW r \in Requests, AnyStep(r)
  PROVE  TypeOK'
<1>1. CASE Begins(r) \/ Answers(r)
  BY <1>1 DEF Begins, Answers, Open, Answer, TypeOK, Points, Failures, Outcomes, tables
<1>2. CASE Locks(r)
  BY <1>2 DEF Locks, TakeAdvisory, TypeOK, Points
<1>3. CASE Reads(r)
  <2>1. LockedAccount(r) \in Accounts
    <3>1. req[r] \in RequestBodies /\ r \in Active
      BY <1>3 DEF Reads, ReadPosted, SessionInv, SessionOK, Active
    <3>2. CASE IsCapture(r)
      <4>1. req[r] \in CaptureRequests
        BY <3>1, <3>2, KindOfBody DEF IsCapture
      <4>2. req[r].hold \in Requests /\ holdState[req[r].hold] # "none"
        BY <3>1, <3>2, <4>1 DEF SessionInv, HoldOK, CaptureRequests
      <4>. QED
        BY <3>2, <4>1, <4>2, HoldIsPlaced, CaptureLegsShape DEF LockedAccount
    <3>3. CASE ~IsCapture(r)
      BY <1>3, <3>1, <3>3, KindOfBody
      DEF Reads, Locking, IsCapture, LockedAccount, TransferRequests, PlaceRequests
    <3>. QED
      BY <3>2, <3>3
  <2>. QED
    BY <1>3, <2>1 DEF Reads, ReadPosted, TypeOK, Points, tables
<1>4. CASE Decides(r)
  BY <1>4 DEF Decides, Goto, TypeOK, Points, tables
<1>5. CASE Posts(r)
  <2>. DEFINE leg == LegsOf(r)[applied[r] + 1]
  <2>1. leg.account \in Accounts /\ leg.amount \in Int
    BY <1>5, LegsShape DEF Posts, PostLeg
  <2>2. /\ rowOwner' = [rowOwner EXCEPT ![leg.account] = r]
        /\ draft' = [draft EXCEPT ![leg.account] = @ + leg.amount]
        /\ applied' = [applied EXCEPT ![r] = @ + 1]
        /\ \E point \in {"posting", "after", "commit"} : pc' = [pc EXCEPT ![r] = point]
        /\ UNCHANGED <<balance, advisory, idem, holdState, expired, req, seen, began, outcome>>
    BY <1>5 DEF Posts, PostLeg
  <2>. HIDE DEF leg
  <2>. QED
    BY <2>1, <2>2 DEF TypeOK, Points
<1>6. CASE ReadAfterCapture(r)
  <2>. DEFINE acct == HeldAccount(req[r])
  <2>1. r \in Active /\ req[r] \in CaptureRequests
    BY <1>6, KindOfBody DEF ReadAfterCapture, IsCapture, Active, SessionInv, SessionOK
  <2>2. acct \in Accounts
    <3>1. req[r].hold \in Requests /\ holdState[req[r].hold] # "none"
      BY <1>6, <2>1 DEF ReadAfterCapture, SessionInv, HoldOK, CaptureRequests
    <3>. QED
      BY <2>1, <3>1, HoldIsPlaced, CaptureLegsShape
  <2>3. Held(acct, began[r]) \in Int
    BY HeldType
  <2>4. OwnLegs(req[r]) \in Int
    BY <2>1, AmountAssumption DEF OwnLegs, CaptureRequests, Amounts
  <2>5. seen[r] \in Int /\ draft[acct] \in Int
    BY <2>2 DEF TypeOK
  <2>6. PICK posted \in {seen[r] + OwnLegs(req[r]), draft[acct]} :
          seen' = [seen EXCEPT ![r] = posted - Held(acct, began[r])]
    BY <1>6 DEF ReadAfterCapture
  <2>7. posted - Held(acct, began[r]) \in Int
    BY <2>3, <2>4, <2>5, <2>6
  <2>. HIDE DEF acct
  <2>. QED
    BY <1>6, <2>6, <2>7 DEF ReadAfterCapture, TypeOK, Points, tables
<1>7. CASE Commits(r)
  <2>1. balance' \in [Accounts -> Int] /\ idem' \in [Slots -> Requests \cup {Nobody}]
    BY <1>7, SlotType DEF Commits, Commit, TypeOK, Keyed
  <2>2. holdState' \in [Requests -> HoldStates]
    BY <1>7, KindOfBody DEF Commits, TypeOK, SessionInv, SessionOK, HoldStates,
       IsTransfer, IsPlace, IsCapture, IsRelease, IsReverse, Keyed, Endpoints
  <2>3. EndSession(r, "ok") /\ draft' = draft
    BY <1>7 DEF Commits, Commit
  <2>. QED
    BY <2>1, <2>2, <2>3, EndSessionTypes DEF TypeOK, Outcomes
<1>8. CASE Fails(r)
  <2>1. PICK why \in Failures : Rollback(r, why)
    BY <1>8 DEF Fails
  <2>2. EndSession(r, why) /\ why \in Outcomes
    BY <2>1 DEF Rollback, Failures
  <2>3. draft' \in [Accounts -> Int] /\ UNCHANGED <<balance, idem, holdState>>
    BY <2>1 DEF Rollback, TypeOK
  <2>. QED
    BY <2>2, <2>3, EndSessionTypes DEF TypeOK
<1>9. CASE Expire(r) \/ UNCHANGED vars
  BY <1>9 DEF Expire, vars, session, TypeOK
<1>. QED
  BY <1>1, <1>2, <1>3, <1>4, <1>5, <1>6, <1>7, <1>8, <1>9 DEF AnyStep, RequestStep

(* A step keeps every session well formed.                                 *)
LEMMA SessionOKStep ==
  ASSUME TypeOK, SessionInv, NEW r \in Requests, AnyStep(r), NEW s \in Requests
  PROVE  SessionOK(s)'
<1>0. SessionOK(s)
  BY DEF SessionInv
<1>1. CASE s # r
  BY <1>0, <1>1, StepsAreFrugal
  DEF SessionOK, Locking, IsReverse, IsPlace, IsRelease, IsCapture
<1>2. CASE s = r /\ (Begins(r) \/ Answers(r))
  BY <1>0, <1>2 DEF Begins, Answers, Open, Answer, Failures, TypeOK,
     SessionOK, Locking, IsReverse, IsPlace, IsRelease, IsCapture
<1>3. CASE s = r /\ (Locks(r) \/ Reads(r) \/ Decides(r) \/ ReadAfterCapture(r))
  BY <1>0, <1>3 DEF Locks, Reads, Decides, ReadAfterCapture, TakeAdvisory, ReadPosted, Goto,
     TypeOK, SessionOK, Locking, IsTransfer, IsReverse, IsPlace, IsRelease, IsCapture
<1>4. CASE s = r /\ Posts(r)
  BY <1>0, <1>4 DEF Posts, PostLeg, TypeOK,
     SessionOK, Locking, IsTransfer, IsReverse, IsPlace, IsRelease, IsCapture
<1>5. CASE s = r /\ (Commits(r) \/ Fails(r))
  BY <1>0, <1>5 DEF Commits, Fails, Commit, Rollback, EndSession, Failures, Active, TypeOK,
     SessionOK, Locking, IsTransfer, IsReverse, IsPlace, IsRelease, IsCapture
<1>6. CASE Expire(r) \/ UNCHANGED vars
  BY <1>0, <1>6 DEF Expire, vars, session,
     SessionOK, Locking, IsTransfer, IsReverse, IsPlace, IsRelease, IsCapture
<1>. QED
  BY <1>1, <1>2, <1>3, <1>4, <1>5, <1>6 DEF AnyStep, RequestStep

(* A step keeps every hold tied to a placed request.                       *)
LEMMA HoldOKStep ==
  ASSUME TypeOK, SessionInv, NEW r \in Requests, AnyStep(r), NEW s \in Requests
  PROVE  HoldOK(s)'
<1>0. HoldOK(s) /\ SessionOK(s)
  BY DEF SessionInv
<1>1. ASSUME holdState'[s] # "none"
      PROVE  IsPlace(s)' /\ s \in Committed'
  <2>1. CASE holdState[s] # "none"
    BY <1>0, <2>1, HoldIsPlaced, BodiesAreFixed DEF HoldOK, IsPlace
  <2>2. CASE holdState[s] = "none"
    <3>1. Commits(r)
      BY <1>1, <2>2 DEF AnyStep, RequestStep, Begins, Answers, Locks, Reads, Decides, Posts,
         ReadAfterCapture, Fails, Open, Answer, TakeAdvisory, ReadPosted, Goto,
         PostLeg, Rollback, EndSession, Expire, vars, tables
    <3>2. r \in Active /\ req[r] \in RequestBodies
      BY <3>1 DEF Commits, Active, SessionInv, SessionOK
    <3>3. IsCapture(r) \/ IsRelease(r) => req[r].hold \in Requests /\ holdState[req[r].hold] # "none"
      BY <3>2, KindOfBody DEF SessionInv, HoldOK, IsCapture, IsRelease, CaptureRequests, ReleaseRequests
    <3>4. IsPlace(r) /\ s = r
      BY <1>1, <2>2, <3>1, <3>2, <3>3, KindOfBody
      DEF Commits, TypeOK, IsTransfer, IsPlace, IsCapture, IsRelease, IsReverse
    <3>5. outcome'[r] = "ok" /\ req' = req
      BY <3>1 DEF Commits, Commit, EndSession, TypeOK
    <3>. QED
      BY <3>4, <3>5 DEF IsPlace, Committed
  <2>. QED
    BY <2>1, <2>2
<1>2. ASSUME (IsCapture(s)' /\ (s \in Active' \/ s \in Committed')) \/ (IsRelease(s)' /\ s \in Active')
      PROVE  holdState'[req'[s].hold] # "none"
  <2>1. req'[s] \in RequestBodies
    BY <1>2, SessionOKStep DEF SessionOK, Active, Committed
  <2>2. req'[s].hold \in Requests
    BY <1>2, <2>1, KindOfBody DEF IsCapture, IsRelease, CaptureRequests, ReleaseRequests
  <2>3. CASE pc[s] = "idle"
    <3>1. s = r /\ (Begins(r) \/ Answers(r))
      <4>1. pc'[s] # "idle"
        BY <1>2, SessionOKStep DEF SessionOK, Active, Committed
      <4>. QED
        BY <2>3, <4>1, StepsAreFrugal DEF AnyStep, RequestStep, Locks, Reads, Decides, Posts,
          ReadAfterCapture, Commits, Fails, TakeAdvisory, ReadPosted, Active,
          PostLeg, Expire, vars, session
    <3>2. ~Answers(r)
      BY <1>2, <2>3, <3>1 DEF Answers, Answer, Failures, Active, Committed, TypeOK
    <3>3. PICK q \in RequestBodies, next \in {"lock", "original", "commit"} :
            /\ Open(r, q, next)
            /\ q.kind \in {"capture", "release"} => holdState[q.hold] = "active"
      BY <3>1, <3>2 DEF Begins
    <3>4. req'[s] = q /\ holdState' = holdState
      BY <3>1, <3>3 DEF Open, tables, TypeOK
    <3>. QED
      BY <1>2, <3>3, <3>4 DEF IsCapture, IsRelease
  <2>4. CASE pc[s] # "idle"
    <3>1. req'[s] = req[s]
      BY <2>4, BodiesAreFixed
    <3>2. (s \in Active' => s \in Active) /\ (IsCapture(s) /\ s \in Committed' => s \in Active \/ s \in Committed)
      <4>1. s = r \/ (pc'[s] = pc[s] /\ outcome'[s] = outcome[s])
        BY StepsAreFrugal
      <4>2. pc[s] = "done" => pc'[s] = "done"
        BY <4>1 DEF AnyStep, RequestStep, Begins, Answers, Locks, Reads, Decides, Posts,
          ReadAfterCapture, Commits, Fails, TakeAdvisory, ReadPosted, Active,
          PostLeg, Expire, vars, session
      <4>3. pc[s] = "done" => outcome'[s] = outcome[s]
        BY <4>1 DEF AnyStep, RequestStep, Begins, Answers, Locks, Reads, Decides, Posts,
          ReadAfterCapture, Commits, Fails, TakeAdvisory, ReadPosted, Active,
          PostLeg, Expire, vars, session
      <4>. QED
        BY <2>4, <4>2, <4>3 DEF Active, Committed
    <3>3. holdState[req[s].hold] # "none"
      BY <1>0, <1>2, <3>1, <3>2 DEF HoldOK, IsCapture, IsRelease
    <3>. QED
      BY <2>2, <3>1, <3>3, HoldsPersist
  <2>. QED
    BY <2>3, <2>4
<1>. QED
  BY <1>1, <1>2 DEF HoldOK

(* What a handler posts does not change under its hands. *)
LEMMA LegsOfAreFixed ==
  ASSUME TypeOK, SessionInv, NEW r \in Requests, AnyStep(r),
         NEW s \in Requests, s \in Active,
         IsReverse(s) => Exists(req[s].txn)
  PROVE  LegsOf(s)' = LegsOf(s) /\ LockedAccount(s)' = LockedAccount(s)
<1>1. req'[s] = req[s]
  BY BodiesAreFixed DEF Active
<1>2. MovementLegs(req[s])' = MovementLegs(req[s]) /\ LockedAccount(s)' = LockedAccount(s)
  BY LegsAreFixed
<1>3. CASE IsReverse(s)
  <2>1. req[s] \in ReverseRequests
    BY <1>3, KindOfBody DEF IsReverse, SessionInv, SessionOK, Active
  <2>2. PICK t \in Requests \X {1, 2} : t = req[s].txn
    BY <2>1 DEF ReverseRequests
  <2>3. TransactionLegs(t)' = TransactionLegs(t)
    BY <1>3, <2>2, TransactionsPersist
  <2>4. LegsOf(s) = <<Negated(TransactionLegs(t)[1]), Negated(TransactionLegs(t)[2])>>
    BY <1>3, <2>2 DEF LegsOf, ReversalLegs
  <2>5. LegsOf(s)' = <<Negated(TransactionLegs(t)'[1]), Negated(TransactionLegs(t)'[2])>>
    BY <1>1, <1>3, <2>2 DEF LegsOf, IsReverse, ReversalLegs
  <2>. QED
    BY <1>2, <2>3, <2>4, <2>5
<1>4. CASE ~IsReverse(s)
  BY <1>1, <1>2, <1>4 DEF LegsOf, IsReverse
<1>. QED
  BY <1>3, <1>4

(* A handler that decides to post has legs to post. *)
LEMMA SomeLegs ==
  ASSUME TypeOK, SessionInv, NEW r \in Requests, r \in Active,
         \/ IsTransfer(r) /\ Postable(req[r])
         \/ IsCapture(r)
         \/ IsReverse(r) /\ Exists(req[r].txn)
  PROVE  Len(LegsOf(r)) > 0
<1>1. req[r] \in RequestBodies
  BY DEF SessionInv, SessionOK, Active
<1>2. CASE IsTransfer(r) /\ Postable(req[r])
  <2>1. req[r] \in TransferRequests /\ LegsOf(r) = TransferLegs(req[r])
    BY <1>1, <1>2, KindOfBody DEF IsTransfer, IsReverse, LegsOf, MovementLegs
  <2>. QED
    BY <1>2, <2>1, TransferLegsShape
<1>3. CASE IsCapture(r)
  <2>1. req[r] \in CaptureRequests /\ LegsOf(r) = CaptureLegs(req[r])
    BY <1>1, <1>3, KindOfBody DEF IsCapture, IsReverse, LegsOf, MovementLegs
  <2>2. req[r].hold \in Requests /\ holdState[req[r].hold] # "none"
    BY <1>3, <2>1 DEF SessionInv, HoldOK, CaptureRequests
  <2>. QED
    BY <2>1, <2>2, HoldIsPlaced, CaptureLegsShape
<1>4. CASE IsReverse(r) /\ Exists(req[r].txn)
  <2>1. req[r] \in ReverseRequests /\ LegsOf(r) = ReversalLegs(req[r])
    BY <1>1, <1>4, KindOfBody DEF IsReverse, LegsOf
  <2>. QED
    BY <1>4, <2>1, ReversalLegsShape
<1>. QED
  BY <1>2, <1>3, <1>4

(* A step keeps to legs that exist, and counts them.                       *)
LEMMA LegsOKStep ==
  ASSUME TypeOK, SessionInv, NEW r \in Requests, AnyStep(r), NEW s \in Requests
  PROVE  LegsOK(s)'
<1>0. LegsOK(s) /\ SessionOK(s) /\ SessionOK(s)'
  BY SessionOKStep DEF SessionInv
<1>1. ASSUME IsTransfer(s)', pc'[s] \in {"posting", "commit"} \/ s \in Committed'
      PROVE  Postable(req[s])'
  <2>1. CASE s # r
    BY <1>0, <1>1, <2>1, StepsAreFrugal DEF LegsOK, IsTransfer, Committed, Postable
  <2>2. CASE s = r /\ (Begins(r) \/ Answers(r))
    BY <1>0, <1>1, <2>2 DEF Begins, Answers, Open, Answer, TypeOK, IsTransfer,
       Committed, SessionOK, Failures
  <2>3. CASE s = r /\ pc[r] # "idle"
    <3>1. IsTransfer(r) /\ req'[r] = req[r]
      BY <1>1, <2>3, BodiesAreFixed DEF IsTransfer
    <3>2. pc[r] \in {"posting", "commit"} \/ r \in Committed \/ Postable(req[r])
      <4>1. CASE Decides(r)
        BY <3>1, <4>1 DEF Decides, IsTransfer, IsPlace, IsCapture, IsReverse
      <4>2. CASE Posts(r) \/ Commits(r) \/ ReadAfterCapture(r)
        BY <3>1, <4>2 DEF Posts, PostLeg, Commits, ReadAfterCapture, IsTransfer, IsCapture
      <4>3. CASE Fails(r)
        BY <1>1, <2>3, <4>3 DEF Fails, Rollback, EndSession, Failures, Committed, TypeOK
      <4>4. CASE Locks(r) \/ Reads(r)
        BY <1>1, <2>3, <4>4 DEF Locks, Reads, TakeAdvisory, ReadPosted, Committed, TypeOK
      <4>5. CASE Expire(r) \/ UNCHANGED vars
        BY <1>1, <2>3, <4>5 DEF Expire, vars, session, Committed
      <4>. QED
        BY <2>3, <4>1, <4>2, <4>3, <4>4, <4>5 DEF AnyStep, RequestStep, Begins, Answers
    <3>. QED
      BY <1>0, <2>3, <3>1, <3>2 DEF LegsOK, Postable
  <2>4. CASE s = r /\ (Expire(r) \/ UNCHANGED vars)
    BY <1>0, <1>1, <2>4 DEF Expire, vars, session, LegsOK, IsTransfer, Committed, Postable
  <2>. QED
    BY <2>1, <2>2, <2>3, <2>4 DEF AnyStep, RequestStep, Locks, Reads, Decides, Posts,
       ReadAfterCapture, Commits, Fails, TakeAdvisory, ReadPosted, PostLeg, Active
<1>2. ASSUME IsReverse(s)', pc'[s] \in {"posting", "commit"}
      PROVE  Exists(req[s].txn)'
  <2>1. pc[s] # "idle"
    BY <1>1, <1>2, StepsAreFrugal
    DEF AnyStep, RequestStep, Begins, Answers, Locks, Reads, Decides, Posts, Open, Answer,
        ReadAfterCapture, Commits, Fails, TakeAdvisory, ReadPosted, PostLeg, Active,
        Expire, vars, session, TypeOK, IsReverse
  <2>2. IsReverse(s) /\ req'[s] = req[s]
    BY <1>2, <2>1, BodiesAreFixed DEF IsReverse
  <2>3. pc[s] \in {"posting", "commit"} \/ Exists(req[s].txn)
    BY <1>0, <1>2, <2>1, <2>2, StepsAreFrugal
    DEF AnyStep, RequestStep, Begins, Answers, Locks, Reads, Decides, Posts,
        ReadAfterCapture, Commits, Fails, TakeAdvisory, ReadPosted, Rollback, EndSession,
        Commit, PostLeg, Expire, vars, session, TypeOK, SessionOK, Locking,
        IsTransfer, IsPlace, IsCapture, IsReverse
  <2>4. PICK t \in Requests \X {1, 2} : t = req[s].txn
    BY <1>0, <2>1, <2>2, KindOfBody DEF SessionOK, IsReverse, ReverseRequests
  <2>5. Exists(t)
    BY <1>0, <2>2, <2>3, <2>4 DEF LegsOK
  <2>6. Exists(t)' /\ req'[s].txn = t
    BY <2>2, <2>4, <2>5, TransactionsPersist
  <2>. QED
    BY <2>6
<1>3. ASSUME pc'[s] = "posting"
      PROVE  applied'[s] < Len(LegsOf(s)')
  <2>1. CASE pc[s] = "posting"
    <3>1. LegsOf(s)' = LegsOf(s)
      BY <1>0, <2>1, LegsOfAreFixed DEF LegsOK, Active
    <3>2. CASE Posts(r) /\ s = r
      <4>1. applied'[r] = applied[r] + 1 /\ applied[r] + 1 # Len(LegsOf(r))
        BY <1>3, <2>1, <3>2 DEF Posts, PostLeg, TypeOK
      <4>2. applied[r] \in Nat /\ Len(LegsOf(r)) \in Nat /\ applied[r] < Len(LegsOf(r))
        BY <1>0, <2>1, <3>2, LegsShape DEF TypeOK, LegsOK
      <4>. QED
        BY <3>1, <3>2, <4>1, <4>2
    <3>3. CASE ~(Posts(r) /\ s = r)
      <4>1. applied'[s] = applied[s]
        BY <1>3, <2>1, <3>3, StepsAreFrugal
        DEF AnyStep, RequestStep, Begins, Answers, Locks, Reads, Decides, Open, Answer,
            ReadAfterCapture, Commits, Fails, TakeAdvisory, ReadPosted, Commit, Rollback,
            EndSession, Expire, vars, session, TypeOK
      <4>. QED
        BY <1>0, <2>1, <3>1, <4>1 DEF LegsOK
    <3>. QED
      BY <3>2, <3>3
  <2>2. CASE pc[s] # "posting"
    <3>1. s = r /\ Decides(r)
      BY <1>3, <2>2, StepsAreFrugal
      DEF AnyStep, RequestStep, Begins, Answers, Locks, Reads, Posts, Open, Answer,
          ReadAfterCapture, Commits, Fails, TakeAdvisory, ReadPosted, Commit, Rollback,
          EndSession, PostLeg, Expire, vars, session, TypeOK
    <3>2. /\ r \in Active /\ applied'[r] = applied[r] /\ pc[r] \in {"held", "original"}
          /\ \/ IsTransfer(r) /\ Postable(req[r])
             \/ IsCapture(r)
             \/ IsReverse(r) /\ Exists(req[r].txn)
      BY <1>3, <3>1 DEF Decides, Goto, Active, TypeOK
    <3>3. Len(LegsOf(r)) > 0
      BY <3>2, SomeLegs
    <3>4. LegsOf(r)' = LegsOf(r)
      BY <3>2, LegsOfAreFixed DEF IsReverse, IsTransfer, IsCapture
    <3>. QED
      BY <1>0, <3>1, <3>2, <3>3, <3>4 DEF LegsOK
  <2>. QED
    BY <2>1, <2>2
<1>4. pc'[s] \notin {"posting", "after", "commit"} => applied'[s] = 0
  <2>1. CASE s # r
    BY <1>0, <2>1, StepsAreFrugal DEF LegsOK
  <2>2. CASE s = r
    BY <1>0, <2>2
    DEF AnyStep, RequestStep, Begins, Answers, Locks, Reads, Decides, Posts, Open, Answer, Goto,
        ReadAfterCapture, Commits, Fails, TakeAdvisory, ReadPosted, Commit, Rollback,
        EndSession, PostLeg, Expire, vars, session, TypeOK, LegsOK
  <2>. QED
    BY <2>1, <2>2
<1>. QED
  BY <1>1, <1>2, <1>3, <1>4 DEF LegsOK

(* A step keeps the part of the invariant about sessions.                  *)
LEMMA SessionStep ==
  ASSUME TypeOK, SessionInv, NEW r \in Requests, AnyStep(r)
  PROVE  SessionInv'
BY SessionOKStep, HoldOKStep, LegsOKStep DEF SessionInv

(* A handler is past account_lock from the lock to the transaction's end.  *)
LEMMA HoldingStep ==
  ASSUME TypeOK, SessionInv, NEW r \in Requests, AnyStep(r), NEW s \in Requests
  PROVE  /\ s = r /\ Locks(r) => ~Holding(s) /\ Holding(s)'
         /\ s = r /\ (Commits(r) \/ Fails(r)) => ~Holding(s)'
         /\ s # r \/ ~(Locks(r) \/ Commits(r) \/ Fails(r)) => Holding(s)' = Holding(s)
<1>0. SessionOK(s) /\ Holding(s) \in BOOLEAN /\ Holding(s)' \in BOOLEAN
  BY DEF SessionInv, Holding
<1>1. CASE s # r
  BY <1>1, StepsAreFrugal DEF Holding
<1>2. CASE s = r /\ (Commits(r) \/ Fails(r))
  <2>1. pc'[r] = "done"
    BY <1>2 DEF Commits, Commit, Fails, Rollback, EndSession, TypeOK
  <2>2. ~Locks(r)
    BY <1>2, <2>1 DEF Locks, TakeAdvisory, TypeOK
  <2>. QED
    BY <1>2, <2>1, <2>2 DEF Holding
<1>3. CASE s = r /\ Locks(r)
  <2>1. /\ pc[r] = "lock" /\ pc'[r] = "posted" /\ req'[r] = req[r]
        /\ req[r].kind \in {"transfer", "place", "capture"}
    BY <1>3 DEF Locks, Locking, TakeAdvisory, TypeOK
  <2>2. ~(Commits(r) \/ Fails(r))
    BY <2>1 DEF Commits, Fails, Rollback, EndSession, TypeOK
  <2>. QED
    BY <1>3, <2>1, <2>2 DEF Holding
<1>4. CASE s = r /\ (Begins(r) \/ Answers(r))
  <2>1. pc[r] = "idle" /\ ~Holding(r)' /\ ~Locks(r)
    BY <1>4 DEF Begins, Answers, Open, Answer, TypeOK, Holding, Locks, TakeAdvisory
  <2>. QED
    BY <1>4, <2>1 DEF Holding
<1>5. CASE s = r /\ (Reads(r) \/ Decides(r) \/ ReadAfterCapture(r))
  <2>1. req'[r] = req[r] /\ pc[r] \notin {"lock", "idle"} /\ pc[r] # pc'[r]
    BY <1>5 DEF Reads, ReadPosted, Decides, Goto, ReadAfterCapture, TypeOK
  <2>2. ~Locks(r)
    BY <2>1 DEF Locks, TakeAdvisory
  <2>3. Holding(r)' = Holding(r)
    BY <1>5, <2>1 DEF Reads, ReadPosted, Decides, Goto, ReadAfterCapture, TypeOK, Holding,
       Locking, IsReverse, IsTransfer, IsPlace, IsCapture
  <2>. QED
    BY <1>2, <1>5, <2>2, <2>3
<1>6. CASE s = r /\ Posts(r)
  <2>1. /\ req'[r] = req[r] /\ pc[r] = "posting"
        /\ pc'[r] \in {"posting", "after", "commit"}
    BY <1>6 DEF Posts, PostLeg, TypeOK
  <2>2. Holding(r)' = Holding(r) /\ ~Locks(r)
    BY <2>1 DEF Holding, Locks, TakeAdvisory
  <2>. QED
    BY <1>2, <1>6, <2>2
<1>7. CASE s = r /\ (Expire(r) \/ UNCHANGED vars)
  <2>1. Holding(r)' = Holding(r) /\ pc' = pc
    BY <1>7 DEF Expire, vars, session, Holding
  <2>2. ~Locks(r)
    BY <2>1 DEF Locks, TakeAdvisory, TypeOK
  <2>. QED
    BY <1>2, <1>7, <2>1, <2>2
<1>. QED
  BY <1>1, <1>2, <1>3, <1>4, <1>5, <1>6, <1>7 DEF AnyStep, RequestStep

(* A step keeps advisory locks with the handlers that took them.           *)
LEMMA LockStep ==
  ASSUME TypeOK, SessionInv, LockInv, NEW r \in Requests, AnyStep(r)
  PROVE  LockInv'
<1>. SUFFICES ASSUME NEW x \in Accounts, NEW s \in Requests
              PROVE  advisory'[x] = s <=> Holding(s)' /\ LockedAccount(s)' = x
  BY DEF LockInv
<1>1. Holding(s) => s \in Active
  BY DEF Holding, Active
<1>2. Holding(s) => LockedAccount(s)' = LockedAccount(s)
  BY <1>1, LegsAreFixed
<1>3. advisory[x] = s <=> Holding(s) /\ LockedAccount(s) = x
  BY DEF LockInv
<1>4. CASE Locks(r)
  <2>1. /\ advisory[LockedAccount(r)] = Nobody
        /\ advisory' = [advisory EXCEPT ![LockedAccount(r)] = r]
        /\ r \in Active
    BY <1>4 DEF Locks, TakeAdvisory, LockFree, Active
  <2>2. LockedAccount(r)' = LockedAccount(r)
    BY <2>1, LegsAreFixed
  <2>3. CASE s = r
    BY <1>3, <1>4, <2>1, <2>2, <2>3, HoldingStep DEF TypeOK
  <2>4. CASE s # r
    BY <1>2, <1>3, <1>4, <2>1, <2>4, HoldingStep, NobodyAssumption DEF TypeOK
  <2>. QED
    BY <2>3, <2>4
<1>5. CASE Commits(r) \/ Fails(r)
  <2>1. advisory' = Unlocked(advisory, r)
    BY <1>5 DEF Commits, Commit, Fails, Rollback, EndSession, AdvisoryAfter
  <2>2. advisory'[x] = s <=> advisory[x] = s /\ s # r
    BY <2>1, NobodyAssumption DEF Unlocked
  <2>. QED
    BY <1>2, <1>3, <1>5, <2>2, HoldingStep
<1>6. CASE ~(Locks(r) \/ Commits(r) \/ Fails(r))
  <2>1. advisory' = advisory
    BY <1>6 DEF AnyStep, RequestStep, Begins, Answers, Reads, Decides, Posts, Open, Answer,
       ReadAfterCapture, ReadPosted, Goto, PostLeg, Expire, vars, tables
  <2>2. Holding(s)' = Holding(s)
    BY <1>6, HoldingStep
  <2>. QED
    BY <1>2, <1>3, <2>1, <2>2
<1>. QED
  BY <1>4, <1>5, <1>6

(* A step keeps the idempotency records and the committed requests in one- *)
(* to-one correspondence.                                                  *)
LEMMA KeyStep ==
  ASSUME TypeOK, SessionInv, KeyInv, NEW r \in Requests, AnyStep(r)
  PROVE  KeyInv'
<1>1. CASE Commits(r) /\ Keyed(r)
  <2>1. /\ idem[Slot(req[r])] = Nobody
        /\ idem' = [idem EXCEPT ![Slot(req[r])] = r]
        /\ outcome' = [outcome EXCEPT ![r] = "ok"]
        /\ req' = req
    BY <1>1 DEF Commits, KeyUnused, Commit, EndSession
  <2>2. Slot(req[r]) \in Slots
    <3>1. req[r] \in RequestBodies
      BY <1>1 DEF Commits, SessionInv, SessionOK
    <3>. QED
      BY <1>1, <3>1, SlotType DEF Keyed
  <2>3. ASSUME NEW s \in Slots, NEW q \in Requests, idem'[s] = q
        PROVE  q \in Committed' /\ Keyed(q)' /\ Slot(req[q])' = s
    BY <1>1, <2>1, <2>2, <2>3 DEF KeyInv, Committed, Keyed, Slot, TypeOK
  <2>4. ASSUME NEW q \in Committed', Keyed(q)'
        PROVE  idem'[Slot(req[q])'] = q
    <3>1. CASE q = r
      BY <2>1, <2>2, <3>1 DEF Slot, TypeOK
    <3>2. CASE q # r
      <4>1. q \in Committed /\ Keyed(q) /\ Slot(req[q])' = Slot(req[q])
        BY <2>1, <2>4, <3>2 DEF Committed, Keyed, Slot, TypeOK
      <4>2. idem[Slot(req[q])] = q /\ q # Nobody
        BY <4>1, NobodyAssumption DEF KeyInv, Committed
      <4>. QED
        BY <2>1, <2>2, <4>1, <4>2 DEF TypeOK
    <3>. QED
      BY <3>1, <3>2
  <2>. QED
    BY <2>3, <2>4 DEF KeyInv
<1>2. CASE ~(Commits(r) /\ Keyed(r))
  <2>1. idem' = idem
    BY <1>2 DEF AnyStep, RequestStep, Begins, Answers, Locks, Reads, Decides, Posts, Open, Answer,
       ReadAfterCapture, Commits, Fails, TakeAdvisory, ReadPosted, Goto, PostLeg, Rollback,
       Expire, vars, tables
  <2>2. ASSUME NEW q \in Requests, pc[q] # "idle"
        PROVE  req'[q] = req[q] /\ (q \in Committed => q \in Committed')
    BY <2>2, BodiesAreFixed
  <2>3. ASSUME NEW q \in Requests, q \in Committed
        PROVE  pc[q] # "idle"
    BY <2>3 DEF SessionInv, SessionOK, Committed
  <2>4. ASSUME NEW q \in Committed', Keyed(q)'
        PROVE  q \in Committed /\ Keyed(q)
    <3>1. CASE q # r
      BY <2>4, <3>1, StepsAreFrugal DEF Committed, Keyed
    <3>2. CASE q = r /\ Commits(r)
      BY <1>2, <2>4, <3>2 DEF Commits, Commit, EndSession, Keyed
    <3>3. CASE q = r /\ ~Commits(r)
      BY <2>4, <3>3
      DEF AnyStep, RequestStep, Begins, Answers, Locks, Reads, Decides, Posts, Open, Answer,
          ReadAfterCapture, Fails, TakeAdvisory, ReadPosted, Goto, PostLeg, Rollback,
          EndSession, Expire, vars, session, Failures, Committed, Keyed, TypeOK,
          SessionInv, SessionOK
    <3>. QED
      BY <3>1, <3>2, <3>3
  <2>. QED
    BY <2>1, <2>2, <2>3, <2>4 DEF KeyInv, Committed, Keyed, Slot
<1>. QED
  BY <1>1, <1>2
=============================================================================
