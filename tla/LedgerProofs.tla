----------------------------- MODULE LedgerProofs -----------------------------
(***************************************************************************)
(* Theorems about Ledger for every value of its constants: the parts of    *)
(* the inductive invariant IInv that are about rows, legs, holds and       *)
(* funds, and the properties, which follow from IInv or are preserved      *)
(* where it holds.                                                         *)
(***************************************************************************)
EXTENDS LedgerSessionProofs, LedgerRefinement

(* The leg a handler posts next, when its transaction is no reversal.      *)
LEMMA NextLeg ==
  ASSUME TypeOK, SessionInv, LockInv, RowInv, NEW r \in Requests, Posts(r)
  PROVE  LET leg == LegsOf(r)[applied[r] + 1]
             x   == leg.account
         IN
         /\ x \in Accounts /\ leg.amount \in Int
         /\ rowOwner[x] = Nobody \/ rowOwner[x] = r
         /\ ~IsReverse(r) /\ x \in Customers =>
              \/ leg.amount >= 0
              \/ /\ applied[r] = 0 /\ advisory[x] = r /\ rowOwner[x] = Nobody
                 /\ Holding(r) /\ ~IsPlace(r) /\ LockedAccount(r) = x
                 /\ leg.amount = 0 - req[r].amt /\ req[r].amt \in Nat
<1>. DEFINE leg == LegsOf(r)[applied[r] + 1]
            x   == leg.account
<1>1. pc[r] = "posting" /\ RowFree(r, x)
  BY DEF Posts, PostLeg
<1>2. x \in Accounts /\ leg.amount \in Int /\ applied[r] \in Nat
  BY <1>1, LegsShape DEF TypeOK
<1>3. rowOwner[x] = Nobody \/ rowOwner[x] = r
  BY <1>1 DEF RowFree
<1>4. ASSUME ~IsReverse(r), x \in Customers, applied[r] > 0
      PROVE  leg.amount >= 0
  <2>1. applied[r] + 1 \in 2..Len(LegsOf(r))
    BY <1>1, <1>2, <1>4, LegsShape
  <2>2. leg.account \in ConversionAccounts \/ leg.amount >= 0
    BY <1>1, <1>4, <2>1, LegsShape
  <2>. QED
    BY <1>4, <2>2 DEF Customers
<1>5. ASSUME ~IsReverse(r), x \in Customers, applied[r] = 0
      PROVE  /\ applied[r] = 0 /\ advisory[x] = r /\ rowOwner[x] = Nobody
             /\ Holding(r) /\ ~IsPlace(r) /\ LockedAccount(r) = x
             /\ leg.amount = 0 - req[r].amt /\ req[r].amt \in Nat
  <2>1. leg = Leg(LockedAccount(r), 0 - req[r].amt) /\ req[r].amt \in Nat
    <3>1. applied[r] + 1 = 1
      BY <1>5
    <3>. QED
      BY <1>1, <1>5, <3>1, LegsShape
  <2>2. x = LockedAccount(r) /\ leg.amount = 0 - req[r].amt
    BY <2>1 DEF Leg
  <2>3. Holding(r) /\ ~IsPlace(r)
    <3>1. req[r] \in RequestBodies /\ ~IsPlace(r) /\ ~IsRelease(r)
      BY <1>1 DEF SessionInv, SessionOK
    <3>. QED
      BY <1>1, <1>5, <3>1, KindOfBody DEF Holding, IsPlace, IsRelease, IsReverse
  <2>4. advisory[x] = r
    BY <1>2, <2>2, <2>3 DEF LockInv
  <2>5. rowOwner[x] = Nobody
    BY <1>2, <1>3, <1>5 DEF RowInv, RowOK
  <2>. QED
    BY <1>5, <2>1, <2>2, <2>3, <2>4, <2>5
<1>6. applied[r] = 0 \/ applied[r] > 0
  BY <1>2
<1>. HIDE DEF leg, x
<1>7. ~IsReverse(r) /\ x \in Customers =>
        \/ leg.amount >= 0
        \/ /\ applied[r] = 0 /\ advisory[x] = r /\ rowOwner[x] = Nobody
           /\ Holding(r) /\ ~IsPlace(r) /\ LockedAccount(r) = x
           /\ leg.amount = 0 - req[r].amt /\ req[r].amt \in Nat
  BY <1>4, <1>5, <1>6
<1>. QED
  BY <1>2, <1>3, <1>7 DEF leg, x

(* How a step treats the snapshot rows. *)
LEMMA RowEffects ==
  ASSUME TypeOK, NEW r \in Requests, AnyStep(r)
  PROVE  /\ Posts(r) =>
              LET leg == LegsOf(r)[applied[r] + 1] IN
              /\ rowOwner' = [rowOwner EXCEPT ![leg.account] = r]
              /\ draft' = [draft EXCEPT ![leg.account] = @ + leg.amount]
              /\ applied' = [applied EXCEPT ![r] = @ + 1]
              /\ pc'[r] \in {"posting", "after", "commit"}
              /\ UNCHANGED <<balance, advisory, req, seen, outcome>>
         /\ Commits(r) =>
              /\ rowOwner' = Unlocked(rowOwner, r)
              /\ advisory' = Unlocked(advisory, r)
              /\ draft' = draft
              /\ balance' = [x \in Accounts |-> IF rowOwner[x] = r THEN draft[x] ELSE balance[x]]
              /\ req' = req /\ pc'[r] = "done" /\ outcome'[r] = "ok"
         /\ Fails(r) =>
              /\ rowOwner' = Unlocked(rowOwner, r)
              /\ advisory' = Unlocked(advisory, r)
              /\ draft' = [x \in Accounts |-> IF rowOwner[x] = r THEN balance[x] ELSE draft[x]]
              /\ balance' = balance
              /\ req' = req /\ pc'[r] = "done"
         /\ ~(Posts(r) \/ Commits(r) \/ Fails(r)) =>
              UNCHANGED <<rowOwner, draft, balance, applied>>
<1>1. ASSUME Posts(r)
      PROVE  LET leg == LegsOf(r)[applied[r] + 1] IN
             /\ rowOwner' = [rowOwner EXCEPT ![leg.account] = r]
             /\ draft' = [draft EXCEPT ![leg.account] = @ + leg.amount]
             /\ applied' = [applied EXCEPT ![r] = @ + 1]
             /\ pc'[r] \in {"posting", "after", "commit"}
             /\ UNCHANGED <<balance, advisory, req, seen, outcome>>
  BY <1>1 DEF Posts, PostLeg, TypeOK
<1>2. ASSUME Commits(r)
      PROVE  /\ rowOwner' = Unlocked(rowOwner, r)
             /\ advisory' = Unlocked(advisory, r)
             /\ draft' = draft
             /\ balance' = [x \in Accounts |-> IF rowOwner[x] = r THEN draft[x] ELSE balance[x]]
             /\ req' = req /\ pc'[r] = "done" /\ outcome'[r] = "ok"
  BY <1>2 DEF Commits, Commit, EndSession, AdvisoryAfter, TypeOK
<1>3. ASSUME Fails(r)
      PROVE  /\ rowOwner' = Unlocked(rowOwner, r)
             /\ advisory' = Unlocked(advisory, r)
             /\ draft' = [x \in Accounts |-> IF rowOwner[x] = r THEN balance[x] ELSE draft[x]]
             /\ balance' = balance
             /\ req' = req /\ pc'[r] = "done"
  BY <1>3 DEF Fails, Rollback, EndSession, AdvisoryAfter, TypeOK
<1>4. ASSUME ~(Posts(r) \/ Commits(r) \/ Fails(r))
      PROVE  UNCHANGED <<rowOwner, draft, balance, applied>>
  BY <1>4 DEF AnyStep, RequestStep, Begins, Answers, Locks, Reads, Decides, Open, Answer,
     ReadAfterCapture, TakeAdvisory, ReadPosted, Goto, Expire, vars, tables, session
<1>. QED
  BY <1>1, <1>2, <1>3, <1>4

(* A step keeps the row locks with handlers that have posted, and their    *)
(* versions no smaller than the committed one, debits under the advisory   *)
(* lock and reversals apart.                                               *)
LEMMA RowStep ==
  ASSUME TypeOK, SessionInv, LockInv, RowInv, NEW r \in Requests, AnyStep(r)
  PROVE  RowInv'
<1>. SUFFICES ASSUME NEW x \in Accounts PROVE RowOK(x)'
  BY DEF RowInv
<1>0. RowOK(x) /\ rowOwner[x] \in Requests \cup {Nobody}
  BY DEF RowInv, TypeOK
<1>1. CASE Posts(r)
  <2>. DEFINE leg == LegsOf(r)[applied[r] + 1]
  <2>1. /\ rowOwner' = [rowOwner EXCEPT ![leg.account] = r]
        /\ draft' = [draft EXCEPT ![leg.account] = @ + leg.amount]
        /\ applied' = [applied EXCEPT ![r] = @ + 1]
        /\ pc'[r] \in {"posting", "after", "commit"}
        /\ UNCHANGED <<balance, advisory, req>>
    BY <1>1, RowEffects
  <2>2. /\ leg.account \in Accounts /\ leg.amount \in Int
        /\ rowOwner[leg.account] = Nobody \/ rowOwner[leg.account] = r
        /\ ~IsReverse(r) /\ leg.account \in Customers /\ advisory[leg.account] # r => leg.amount >= 0
    BY <1>1, NextLeg
  <2>. HIDE DEF leg
  <2>3. \A s \in Requests : IsReverse(s)' = IsReverse(s) /\ (s # r => pc'[s] = pc[s])
    BY <2>1, StepsAreFrugal DEF IsReverse
  <2>4. CASE x # leg.account
    <3>1. rowOwner'[x] = rowOwner[x] /\ draft'[x] = draft[x]
      BY <2>1, <2>4 DEF TypeOK
    <3>. QED
      BY <1>0, <2>1, <2>3, <3>1 DEF RowOK, TypeOK
  <2>5. CASE x = leg.account
    <3>1. rowOwner'[x] = r /\ draft'[x] = draft[x] + leg.amount /\ applied'[r] > 0
      BY <2>1, <2>5 DEF TypeOK
    <3>2. ~IsReverse(r) /\ x \in Customers /\ advisory[x] # r => draft[x] >= balance[x]
      BY <1>0, <2>2, <2>5 DEF RowOK, TypeOK
    <3>. QED
      BY <2>1, <2>2, <2>3, <2>5, <3>1, <3>2, NobodyAssumption DEF RowOK, TypeOK
  <2>. QED
    BY <2>4, <2>5
<1>2. CASE Commits(r) \/ Fails(r)
  <2>1. /\ rowOwner' = Unlocked(rowOwner, r) /\ advisory' = Unlocked(advisory, r)
        /\ req' = req
        /\ rowOwner[x] = r => draft'[x] = balance'[x]
        /\ rowOwner[x] # r => draft'[x] = draft[x] /\ balance'[x] = balance[x]
    BY <1>2, RowEffects
  <2>2. \A s \in Requests \ {r} : pc'[s] = pc[s] /\ applied'[s] = applied[s]
    BY StepsAreFrugal
  <2>3. rowOwner'[x] = IF rowOwner[x] = r THEN Nobody ELSE rowOwner[x]
    BY <2>1 DEF Unlocked
  <2>4. \A s \in Requests \ {r} : advisory'[x] # s => advisory[x] # s
    BY <2>1 DEF Unlocked
  <2>5. \A s \in Requests : IsReverse(s)' = IsReverse(s)
    BY <2>1 DEF IsReverse
  <2>. QED
    BY <1>0, <2>1, <2>2, <2>3, <2>4, <2>5, NobodyAssumption DEF RowOK
<1>3. CASE ~(Posts(r) \/ Commits(r) \/ Fails(r))
  <2>1. UNCHANGED <<rowOwner, draft, balance, applied>>
    BY <1>3, RowEffects
  <2>2. ASSUME NEW s \in Requests, rowOwner[x] = s
        PROVE  pc'[s] \in {"posting", "after", "commit"} /\ req'[s] = req[s]
    <3>1. pc[s] \in {"posting", "after", "commit"}
      BY <1>0, <2>2 DEF RowOK
    <3>2. req'[s] = req[s]
      BY <3>1, BodiesAreFixed
    <3>3. CASE s # r
      BY <3>1, <3>2, <3>3, StepsAreFrugal
    <3>4. CASE s = r
      BY <1>3, <3>1, <3>2, <3>4 DEF AnyStep, RequestStep, Begins, Answers, Locks, Reads, Decides,
         ReadAfterCapture, TakeAdvisory, ReadPosted, Expire, vars, session, TypeOK
    <3>. QED
      BY <3>3, <3>4
  <2>3. ASSUME NEW s \in Requests, advisory[x] = s, rowOwner[x] = s
        PROVE  advisory'[x] = s
    BY <1>3, <2>3, NobodyAssumption
    DEF AnyStep, RequestStep, Begins, Answers, Locks, Reads, Decides, Open, Answer,
       ReadAfterCapture, TakeAdvisory, LockFree, ReadPosted, Goto, Expire, vars, tables, TypeOK
  <2>. QED
    BY <1>0, <2>1, <2>2, <2>3 DEF RowOK, IsReverse
<1>. QED
  BY <1>1, <1>2, <1>3

-----------------------------------------------------------------------------
(* What is in a handler's row versions. *)

Legs == [account : Accounts, amount : Int]

(* A handler in the posting engine, or past it, has a list of legs.        *)
LEMMA LegsType ==
  ASSUME TypeOK, SessionInv, NEW r \in Requests, pc[r] \in {"posting", "after", "commit"}
  PROVE  LegsOf(r) \in Seq(Legs)
<1>1. req[r] \in RequestBodies
  BY DEF SessionInv, SessionOK
<1>2. CASE IsTransfer(r)
  <2>1. /\ req[r] \in TransferRequests /\ Postable(req[r])
        /\ LegsOf(r) = TransferLegs(req[r])
    BY <1>1, <1>2, KindOfBody
    DEF IsTransfer, IsReverse, IsCapture, SessionInv, SessionOK, LegsOK, LegsOf, MovementLegs
  <2>2. TransferLegs(req[r]) \in Seq(Legs)
    <3>. DEFINE q == req[r]
    <3>1. q.src \in Accounts /\ q.dst \in Accounts /\ q.amt \in Int
      BY <2>1, AmountAssumption DEF TransferRequests, Amounts
    <3>2. CASE SameCurrency(q.src, q.dst)
      BY <3>1, <3>2 DEF TransferLegs, Entry, Leg, Legs
    <3>3. CASE ~SameCurrency(q.src, q.dst)
      <4>. DEFINE p == ConversionAccount[CurrencyOf[q.src]]
                  t == ConversionAccount[CurrencyOf[q.dst]]
                  m == Converted[<<CurrencyOf[q.src], CurrencyOf[q.dst]>>][q.amt]
      <4>1. p \in Accounts /\ t \in Accounts /\ m \in Int
        BY <2>1, <3>3, ConversionAssumption, ConvertedAssumption
        DEF Postable, Routable, TransferRequests
      <4>2. TransferLegs(q) = <<Leg(q.src, 0 - q.amt), Leg(p, q.amt), Leg(t, 0 - m), Leg(q.dst, m)>>
        BY <3>3 DEF TransferLegs, ConversionLegs
      <4>. QED
        BY <3>1, <4>1, <4>2 DEF Leg, Legs
    <3>. QED
      BY <3>2, <3>3
  <2>. QED
    BY <2>1, <2>2
<1>3. CASE IsCapture(r)
  <2>1. req[r] \in CaptureRequests /\ LegsOf(r) = CaptureLegs(req[r])
    BY <1>1, <1>3, KindOfBody DEF IsCapture, IsReverse, LegsOf, MovementLegs
  <2>2. req[r].hold \in Requests /\ holdState[req[r].hold] # "none"
    BY <1>3, <2>1 DEF SessionInv, HoldOK, Active, CaptureRequests
  <2>3. HeldAccount(req[r]) \in Accounts /\ req[r].dst \in Accounts /\ req[r].amt \in Int
    BY <2>1, <2>2, HoldIsPlaced, AmountAssumption
    DEF HeldAccount, PlaceRequests, CaptureRequests, Amounts
  <2>. QED
    BY <2>1, <2>3 DEF CaptureLegs, Entry, Leg, Legs
<1>4. CASE IsReverse(r)
  <2>1. req[r] \in ReverseRequests /\ LegsOf(r) = ReversalLegs(req[r]) /\ Exists(req[r].txn)
    BY <1>1, <1>4, KindOfBody DEF IsReverse, IsCapture, LegsOf, SessionInv, SessionOK, LegsOK
  <2>. DEFINE first == TransactionLegs(req[r].txn)[1]
              second == TransactionLegs(req[r].txn)[2]
  <2>2. ReversalLegs(req[r]) =
          <<Leg(first.account, 0 - first.amount), Leg(second.account, 0 - second.amount)>>
    BY DEF ReversalLegs, Negated
  <2>3. \A i \in 1..2 : /\ ReversalLegs(req[r])[i].account \in Accounts
                        /\ ReversalLegs(req[r])[i].amount \in Int
    BY <2>1, ReversalLegsShape
  <2>4. /\ first.account \in Accounts /\ 0 - first.amount \in Int
        /\ second.account \in Accounts /\ 0 - second.amount \in Int
    <3>. HIDE DEF first, second
    <3>1. /\ ReversalLegs(req[r])[1] = Leg(first.account, 0 - first.amount)
          /\ ReversalLegs(req[r])[2] = Leg(second.account, 0 - second.amount)
      BY <2>2
    <3>. QED
      BY <2>3, <3>1 DEF Leg
  <2>. HIDE DEF first, second
  <2>. QED
    BY <2>1, <2>2, <2>4 DEF Leg, Legs
<1>5. CASE ~IsTransfer(r) /\ ~IsCapture(r) /\ ~IsReverse(r)
  BY <1>5 DEF IsTransfer, IsCapture, IsReverse, LegsOf, MovementLegs
<1>. QED
  BY <1>2, <1>3, <1>4, <1>5

(* What some legs come to on an account, leg by leg.                       *)
LEMMA PostedSoFar ==
  ASSUME NEW legs \in Seq(Legs), NEW n \in 0..Len(legs), NEW x
  PROVE  /\ Posted(legs, n, x) \in Int
         /\ n < Len(legs) => Posted(legs, n + 1, x) = Posted(legs, n, x) + On(legs[n + 1], x)
         /\ (\A i \in 1..n : legs[i].account # x) => Posted(legs, n, x) = 0
<1>. DEFINE f == [i \in DOMAIN legs |-> On(legs[i], x)]
<1>1. ASSUME NEW i \in 1..Len(legs)
      PROVE  f[i] = On(legs[i], x) /\ On(legs[i], x) \in Int
  <2>1. legs[i] \in Legs /\ i \in DOMAIN legs
    OBVIOUS
  <2>2. legs[i].amount \in Int
    BY <2>1 DEF Legs
  <2>. QED
    BY <2>1, <2>2 DEF On
<1>2. IsFiniteSet(1..n) /\ n \in Nat
  BY FS_Interval
<1>3. \A m : Posted(legs, m, x) = SumFunctionOnSet(f, 1..m)
  BY DEF Posted
<1>. HIDE DEF f
<1>4. Posted(legs, n, x) \in Int
  <2>1. \A i \in 1..n : f[i] \in Int
    BY <1>1
  <2>. QED
    BY <1>2, <1>3, <2>1, SumType
<1>5. ASSUME n < Len(legs)
      PROVE  Posted(legs, n + 1, x) = Posted(legs, n, x) + On(legs[n + 1], x)
  <2>1. \A i \in 1..(n + 1) : f[i] \in Int
    BY <1>1, <1>5
  <2>2. f[n + 1] = On(legs[n + 1], x)
    BY <1>1, <1>5
  <2>3. SumFunctionOnSet(f, 1..(n + 1)) = SumFunctionOnSet(f, 1..n) + f[n + 1]
    BY <1>2, <2>1, SumNext
  <2>. QED
    BY <1>3, <2>2, <2>3
<1>6. ASSUME \A i \in 1..n : legs[i].account # x
      PROVE  Posted(legs, n, x) = 0
  <2>1. \A i \in 1..n : f[i] = 0
    BY <1>1, <1>6 DEF On
  <2>. QED
    BY <1>2, <1>3, <2>1, SumZero
<1>. QED
  BY <1>4, <1>5, <1>6

(* A step of another request, or of this one outside the posting engine    *)
(* and before its end, leaves a handler's row versions alone.              *)
LEMMA PostedIdle ==
  ASSUME TypeOK, SessionInv, RowInv, PostedInv, NEW r \in Requests, AnyStep(r),
         NEW s \in Requests, ~(s = r /\ (Posts(r) \/ Commits(r) \/ Fails(r)))
  PROVE  /\ \A i \in 1..applied'[s] : rowOwner'[LegsOf(s)'[i].account] = s
         /\ \A x \in Accounts :
              rowOwner'[x] = s => draft'[x] = balance'[x] + Posted(LegsOf(s)', applied'[s], x)
         /\ pc'[s] \in {"after", "commit"} => applied'[s] = Len(LegsOf(s)')
<1>0. PostedOK(s) /\ SessionOK(s) /\ LegsOK(s)
  BY DEF PostedInv, SessionInv
<1>1. applied'[s] = applied[s] /\ applied[s] \in Nat
  <2>1. s # r => applied'[s] = applied[s]
    BY StepsAreFrugal
  <2>2. s = r => applied' = applied
    BY RowEffects
  <2>. QED
    BY <2>1, <2>2 DEF TypeOK
<1>2. ASSUME NEW x \in Accounts
      PROVE  /\ rowOwner'[x] = s <=> rowOwner[x] = s
             /\ rowOwner[x] = s => draft'[x] = draft[x] /\ balance'[x] = balance[x]
  <2>1. CASE Posts(r)
    <3>. DEFINE y == LegsOf(r)[applied[r] + 1].account
                n == LegsOf(r)[applied[r] + 1].amount
    <3>1. /\ rowOwner' = [rowOwner EXCEPT ![y] = r]
          /\ draft' = [draft EXCEPT ![y] = @ + n]
          /\ balance' = balance
      BY <2>1, RowEffects
    <3>2. rowOwner[y] = Nobody \/ rowOwner[y] = r
      BY <2>1 DEF Posts, PostLeg, RowFree
    <3>. HIDE DEF y, n
    <3>. QED
      BY <2>1, <3>1, <3>2, NobodyAssumption DEF TypeOK
  <2>2. CASE Commits(r) \/ Fails(r)
    <3>1. /\ s # r
          /\ rowOwner'[x] = IF rowOwner[x] = r THEN Nobody ELSE rowOwner[x]
          /\ rowOwner[x] # r => draft'[x] = draft[x] /\ balance'[x] = balance[x]
      BY <2>2, RowEffects DEF Unlocked
    <3>. QED
      BY <3>1, NobodyAssumption
  <2>3. CASE ~(Posts(r) \/ Commits(r) \/ Fails(r))
    BY <2>3, RowEffects
  <2>. QED
    BY <2>1, <2>2, <2>3
<1>3. CASE pc[s] \in {"posting", "after", "commit"}
  <2>1. LegsOf(s)' = LegsOf(s)
    BY <1>0, <1>3, LegsOfAreFixed DEF Active, LegsOK, SessionOK, IsReverse, IsCapture
  <2>2. LegsOf(s) \in Seq(Legs) /\ applied[s] <= Len(LegsOf(s))
    BY <1>0, <1>1, <1>3, LegsType DEF LegsOK, PostedOK
  <2>3. ASSUME NEW i \in 1..applied'[s]
        PROVE  rowOwner'[LegsOf(s)'[i].account] = s
    <3>1. i \in 1..applied[s] /\ LegsOf(s)[i] \in Legs
      BY <1>1, <2>2
    <3>2. LegsOf(s)[i].account \in Accounts /\ rowOwner[LegsOf(s)[i].account] = s
      BY <1>0, <3>1 DEF PostedOK, Legs
    <3>. QED
      BY <1>2, <2>1, <3>2
  <2>4. ASSUME NEW x \in Accounts, rowOwner'[x] = s
        PROVE  draft'[x] = balance'[x] + Posted(LegsOf(s)', applied'[s], x)
    BY <1>0, <1>1, <1>2, <2>1, <2>4 DEF PostedOK
  <2>5. pc'[s] \in {"after", "commit"} => pc[s] \in {"after", "commit"}
    <3>1. CASE s # r
      BY <3>1, StepsAreFrugal
    <3>2. CASE s = r
      BY <1>0, <1>3, <3>2
      DEF AnyStep, RequestStep, Begins, Answers, Locks, Reads, Decides, TakeAdvisory,
          ReadPosted, ReadAfterCapture, Expire, vars, session, TypeOK
    <3>. QED
      BY <3>1, <3>2
  <2>. QED
    BY <1>0, <1>1, <2>1, <2>3, <2>4, <2>5 DEF PostedOK
<1>4. CASE pc[s] \notin {"posting", "after", "commit"}
  <2>1. applied'[s] = 0
    BY <1>0, <1>1, <1>4 DEF LegsOK
  <2>2. ASSUME NEW x \in Accounts
        PROVE  rowOwner'[x] # s
    BY <1>2, <1>4 DEF RowInv, RowOK
  <2>3. ASSUME pc'[s] \in {"after", "commit"}
        PROVE  Len(LegsOf(s)') = 0
    <3>1. s = r /\ (Begins(r) \/ Decides(r))
      BY <1>4, <2>3, StepsAreFrugal
      DEF AnyStep, RequestStep, Answers, Locks, Reads, TakeAdvisory, Answer, Posts, PostLeg,
          Commits, Fails, ReadPosted, ReadAfterCapture, Expire, vars, session, TypeOK
    <3>2. IsRelease(s)' \/ IsPlace(s)'
      <4>1. CASE Begins(r)
        <5>1. PICK q \in RequestBodies, next \in {"lock", "original", "commit"} :
                /\ Open(r, q, next)
                /\ next = "commit" => q.kind = "release"
          BY <4>1 DEF Begins
        <5>2. req'[s] = q /\ pc'[s] = next
          BY <3>1, <5>1 DEF Open, TypeOK
        <5>. QED
          BY <2>3, <5>1, <5>2 DEF IsRelease
      <4>2. CASE Decides(r)
        BY <2>3, <3>1, <4>2 DEF Decides, Goto, IsPlace, TypeOK
      <4>. QED
        BY <3>1, <4>1, <4>2
    <3>3. LegsOf(s)' = <<>>
      BY <3>2 DEF IsRelease, IsPlace, LegsOf, IsReverse, MovementLegs
    <3>. QED
      BY <3>3
  <2>. QED
    BY <2>1, <2>2, <2>3
<1>. QED
  BY <1>3, <1>4

(* A posted leg is one more in the version of its row, and in no other.    *)
LEMMA PostedLeg ==
  ASSUME TypeOK, SessionInv, RowInv, PostedInv, NEW r \in Requests, AnyStep(r), Posts(r)
  PROVE  /\ \A i \in 1..applied'[r] : rowOwner'[LegsOf(r)'[i].account] = r
         /\ \A x \in Accounts :
              rowOwner'[x] = r => draft'[x] = balance'[x] + Posted(LegsOf(r)', applied'[r], x)
         /\ pc'[r] \in {"after", "commit"} => applied'[r] = Len(LegsOf(r)')
<1>. DEFINE legs == LegsOf(r)
            n == applied[r]
            leg == legs[n + 1]
<1>0. pc[r] = "posting" /\ PostedOK(r) /\ RowFree(r, leg.account)
  BY DEF Posts, PostLeg, PostedInv
<1>1. legs \in Seq(Legs) /\ n \in 0..Len(legs) /\ n < Len(legs) /\ leg \in Legs
  <2>1. legs \in Seq(Legs) /\ n \in Nat /\ n + 1 \in 1..Len(legs)
    BY <1>0, LegsType, LegsShape DEF TypeOK
  <2>. HIDE DEF legs, n
  <2>. QED
    BY <2>1
<1>2. LegsOf(r)' = legs
  BY <1>0, LegsOfAreFixed DEF Active, SessionInv, LegsOK
<1>3. /\ rowOwner' = [rowOwner EXCEPT ![leg.account] = r]
      /\ draft' = [draft EXCEPT ![leg.account] = @ + leg.amount]
      /\ applied'[r] = n + 1
      /\ balance' = balance
  BY RowEffects DEF TypeOK
<1>4. pc'[r] \in {"after", "commit"} => n + 1 = Len(legs)
  BY DEF Posts, PostLeg, TypeOK
<1>5. \A i \in 1..n : rowOwner[legs[i].account] = r
  BY <1>0 DEF PostedOK
<1>6. \A x \in Accounts : rowOwner[x] = r => draft[x] = balance[x] + Posted(legs, n, x)
  BY <1>0 DEF PostedOK
<1>7. leg.account \in Accounts /\ leg.amount \in Int
  BY <1>1 DEF Legs
<1>. HIDE DEF n, legs, leg
<1>8. ASSUME NEW i \in 1..(n + 1)
      PROVE  rowOwner'[legs[i].account] = r
  <2>1. legs[i] \in Legs
    BY <1>1
  <2>2. legs[i].account \in Accounts
    BY <2>1 DEF Legs
  <2>3. CASE i = n + 1
    BY <1>3, <1>7, <2>3 DEF TypeOK, leg
  <2>4. CASE i \in 1..n
    BY <1>3, <1>5, <2>2, <2>4 DEF TypeOK
  <2>. QED
    BY <1>1, <2>3, <2>4
<1>9. ASSUME NEW x \in Accounts, rowOwner'[x] = r
      PROVE  draft'[x] = balance'[x] + Posted(legs, n + 1, x)
  <2>1. /\ Posted(legs, n, x) \in Int
        /\ Posted(legs, n + 1, x) = Posted(legs, n, x) + On(leg, x)
        /\ (\A i \in 1..n : legs[i].account # x) => Posted(legs, n, x) = 0
    BY <1>1, PostedSoFar DEF leg
  <2>2. draft[x] = balance[x] + Posted(legs, n, x)
    <3>1. CASE rowOwner[x] = r
      BY <1>6, <3>1
    <3>2. CASE rowOwner[x] # r
      <4>1. x = leg.account
        BY <1>3, <1>9, <3>2 DEF TypeOK
      <4>2. rowOwner[x] = Nobody
        BY <1>0, <3>2, <4>1 DEF RowFree
      <4>3. draft[x] = balance[x]
        BY <4>2 DEF RowInv, RowOK
      <4>4. Posted(legs, n, x) = 0
        BY <1>5, <2>1, <3>2
      <4>. QED
        BY <4>3, <4>4 DEF TypeOK
    <3>. QED
      BY <3>1, <3>2
  <2>3. draft'[x] = draft[x] + On(leg, x)
    BY <1>3, <1>7 DEF On, TypeOK
  <2>. QED
    BY <1>3, <1>7, <2>1, <2>2, <2>3 DEF On, TypeOK
<1>. QED
  BY <1>2, <1>3, <1>4, <1>8, <1>9

(* A committed reversal is of a transaction that exists.                   *)
LEMMA OriginalStep ==
  ASSUME TypeOK, SessionInv, PostedInv, NEW r \in Requests, AnyStep(r),
         NEW s \in Requests, IsReverse(s)', s \in Committed'
  PROVE  Exists(req[s].txn)'
<1>1. pc[s] # "idle"
  BY StepsAreFrugal
  DEF AnyStep, RequestStep, Begins, Answers, Locks, Reads, Decides, Posts, Open, Answer,
      ReadAfterCapture, Commits, Fails, TakeAdvisory, ReadPosted, PostLeg, Active, Failures,
      Expire, vars, session, TypeOK, Committed, SessionInv, SessionOK
<1>2. IsReverse(s) /\ req'[s] = req[s] /\ req[s] \in RequestBodies
  BY <1>1, BodiesAreFixed DEF IsReverse, SessionInv, SessionOK
<1>3. PICK t \in Requests \X {1, 2} : t = req[s].txn
  BY <1>2, KindOfBody DEF IsReverse, ReverseRequests
<1>4. s \in Committed \/ pc[s] = "commit"
  <2>1. CASE s # r
    BY <2>1, StepsAreFrugal DEF Committed
  <2>2. CASE s = r /\ ~Commits(r)
    BY <1>1, <2>2
    DEF AnyStep, RequestStep, Begins, Answers, Locks, Reads, Decides, Posts, Goto,
        ReadAfterCapture, Fails, TakeAdvisory, ReadPosted, PostLeg, Rollback, EndSession, Failures,
        Expire, vars, session, TypeOK, Committed
  <2>3. CASE s = r /\ Commits(r)
    BY <2>3 DEF Commits
  <2>. QED
    BY <2>1, <2>2, <2>3
<1>5. Exists(t)
  BY <1>2, <1>3, <1>4 DEF PostedInv, PostedOK, SessionInv, LegsOK
<1>6. Exists(t)'
  BY <1>5, TransactionsPersist
<1>. QED
  BY <1>2, <1>3, <1>6

(* A step keeps row versions and legs in agreement.                        *)
LEMMA PostedStep ==
  ASSUME TypeOK, SessionInv, RowInv, PostedInv, NEW r \in Requests, AnyStep(r)
  PROVE  PostedInv'
<1>. SUFFICES ASSUME NEW s \in Requests PROVE PostedOK(s)'
  BY DEF PostedInv
<1>1. CASE s = r /\ (Commits(r) \/ Fails(r))
  <2>1. /\ rowOwner' = Unlocked(rowOwner, r) /\ pc'[r] = "done"
        /\ applied'[r] = 0
    BY <1>1, RowEffects DEF Commits, Fails, Commit, Rollback, EndSession, TypeOK
  <2>2. \A x \in Accounts : rowOwner'[x] # r
    BY <2>1, NobodyAssumption DEF Unlocked
  <2>. QED
    BY <1>1, <2>1, <2>2, OriginalStep DEF PostedOK
<1>2. CASE s = r /\ Posts(r)
  BY <1>2, PostedLeg, OriginalStep DEF PostedOK
<1>3. CASE ~(s = r /\ (Posts(r) \/ Commits(r) \/ Fails(r)))
  BY <1>3, PostedIdle, OriginalStep DEF PostedOK
<1>. QED
  BY <1>1, <1>2, <1>3

-----------------------------------------------------------------------------
(* The order of holds. *)

(* What has ended stays as it has ended.                                   *)
LEMMA StillOpen ==
  ASSUME TypeOK, NEW r \in Requests, AnyStep(r),
         NEW s \in Requests, pc[s] # "idle", s \in Active' \/ s \in Committed'
  PROVE  s \in Active \/ s \in Committed
<1>1. s = r \/ (pc'[s] = pc[s] /\ outcome'[s] = outcome[s])
  BY StepsAreFrugal
<1>2. pc[s] = "done" => pc'[s] = "done" /\ outcome'[s] = outcome[s]
  BY <1>1 DEF AnyStep, RequestStep, Begins, Answers, Locks, Reads, Decides, Posts,
    ReadAfterCapture, Commits, Fails, TakeAdvisory, ReadPosted, Active,
    PostLeg, Expire, vars, session
<1>. QED
  BY <1>2 DEF Active, Committed

(* A step keeps clocks, holds and captures in order.                       *)
LEMMA HoldInvStep ==
  ASSUME TypeOK, SessionInv, HoldInv, NEW r \in Requests, AnyStep(r)
  PROVE  HoldInv'
<1>. SUFFICES ASSUME NEW s \in Requests
              PROVE  /\ began'[s] \subseteq expired'
                     /\ s \in expired' => IsPlace(s)' /\ pc'[s] \in {"commit", "done"}
                     /\ holdState'[s] = "captured" => s \in Captured'
                     /\ holdState'[s] = "released" => s \in Released'
                     /\ IsCapture(s)' /\ (s \in Active' \/ s \in Committed') =>
                          /\ SameCurrency(HeldAccount(req[s]), req[s].dst)'
                          /\ (req[s].amt <= req[req[s].hold].amt)'
  BY DEF HoldInv
<1>0. SessionOK(s) /\ SessionOK(s)' /\ HoldOK(s)
  BY SessionOKStep DEF SessionInv
<1>1. began'[s] \subseteq expired'
  <2>1. began[s] \subseteq expired
    BY DEF HoldInv
  <2>2. expired \subseteq expired' /\ (began'[s] \subseteq began[s] \/ began'[s] = expired)
    BY DEF AnyStep, RequestStep, Begins, Answers, Locks, Reads, Decides, Posts,
       ReadAfterCapture, Commits, Fails, Open, Answer, TakeAdvisory, ReadPosted, Goto,
       PostLeg, Commit, Rollback, EndSession, Expire, vars, tables, session, TypeOK
  <2>. QED
    BY <2>1, <2>2
<1>2. ASSUME s \in expired' PROVE IsPlace(s)' /\ pc'[s] \in {"commit", "done"}
  <2>1. CASE s \in expired
    <3>1. IsPlace(s) /\ pc[s] \in {"commit", "done"}
      BY <2>1 DEF HoldInv
    <3>2. req'[s] = req[s]
      BY <3>1, BodiesAreFixed
    <3>3. pc'[s] = pc[s] \/ pc'[s] = "done"
      <4>1. CASE s # r
        BY <4>1, StepsAreFrugal
      <4>2. CASE s = r
        BY <3>1, <4>2
        DEF AnyStep, RequestStep, Begins, Answers, Locks, Reads, Decides, Posts,
           ReadAfterCapture, Commits, Fails, TakeAdvisory, ReadPosted, Active,
           PostLeg, Commit, Rollback, EndSession, Expire, vars, session, TypeOK
      <4>. QED
        BY <4>1, <4>2
    <3>. QED
      BY <3>1, <3>2, <3>3 DEF IsPlace
  <2>2. CASE s \notin expired
    <3>1. Expire(r) /\ s = r
      BY <1>2, <2>2
      DEF AnyStep, RequestStep, Begins, Answers, Locks, Reads, Decides, Posts,
         ReadAfterCapture, Commits, Fails, Open, Answer, TakeAdvisory, ReadPosted, Goto,
         PostLeg, Commit, Rollback, EndSession, Expire, vars, tables, session, TypeOK
    <3>2. IsPlace(s) /\ pc[s] \in {"commit", "done"}
      BY <1>0, <3>1 DEF Expire, Inserted, HoldOK, SessionOK, Committed, IsPlace
    <3>3. req' = req /\ pc' = pc
      BY <3>1 DEF Expire, session
    <3>. QED
      BY <3>2, <3>3 DEF IsPlace
  <2>. QED
    BY <2>1, <2>2
<1>3. \A t \in Committed : t \in Committed' /\ req'[t] = req[t]
  BY BodiesAreFixed DEF Committed, SessionInv, SessionOK
<1>4. /\ s \in Captured => s \in Captured'
      /\ s \in Released => s \in Released'
  BY <1>3 DEF Captured, Released, IsCapture, IsRelease
<1>5. /\ holdState'[s] = "captured" => s \in Captured'
      /\ holdState'[s] = "released" => s \in Released'
  <2>1. CASE holdState'[s] = holdState[s]
    BY <1>4, <2>1 DEF HoldInv
  <2>2. CASE holdState'[s] # holdState[s]
    <3>1. Commits(r)
      BY <2>2 DEF AnyStep, RequestStep, Begins, Answers, Locks, Reads, Decides, Posts,
         ReadAfterCapture, Fails, Open, Answer, TakeAdvisory, ReadPosted, Goto,
         PostLeg, Rollback, EndSession, Expire, vars, tables
    <3>2. r \in Committed' /\ req' = req /\ req[r] \in RequestBodies
      BY <3>1, RowEffects DEF Committed, Commits, SessionInv, SessionOK
    <3>3. /\ holdState'[s] = "captured" => IsCapture(r) /\ req[r].hold = s
          /\ holdState'[s] = "released" => IsRelease(r) /\ req[r].hold = s
      BY <2>2, <3>1, <3>2, KindOfBody
      DEF Commits, IsPlace, IsCapture, IsRelease, IsTransfer, IsReverse, TypeOK
    <3>. QED
      BY <3>2, <3>3 DEF Captured, Released, IsCapture, IsRelease
  <2>. QED
    BY <2>1, <2>2
<1>6. ASSUME IsCapture(s)', s \in Active' \/ s \in Committed'
      PROVE  /\ SameCurrency(HeldAccount(req[s]), req[s].dst)'
             /\ (req[s].amt <= req[req[s].hold].amt)'
  <2>1. CASE pc[s] = "idle"
    <3>1. s = r /\ Begins(r)
      <4>1. pc'[s] # "idle"
        BY <1>0, <1>6 DEF SessionOK, Active, Committed
      <4>2. ~(s = r /\ Answers(r))
        BY <1>6 DEF Answers, Answer, Failures, Active, Committed, TypeOK
      <4>. QED
        BY <2>1, <4>1, <4>2, StepsAreFrugal
        DEF AnyStep, RequestStep, Locks, Reads, Decides, Posts,
          ReadAfterCapture, Commits, Fails, TakeAdvisory, ReadPosted, Active,
          PostLeg, Expire, vars, session
    <3>2. PICK q \in RequestBodies, next \in {"lock", "original", "commit"} :
            /\ Open(r, q, next)
            /\ q.kind = "capture" =>
                 /\ holdState[q.hold] = "active"
                 /\ SameCurrency(HeldAccount(q), q.dst) /\ q.amt <= req[q.hold].amt
      BY <3>1 DEF Begins
    <3>3. req'[s] = q /\ q.kind = "capture"
      BY <1>6, <3>1, <3>2 DEF Open, TypeOK, IsCapture
    <3>4. q.hold \in Requests
      BY <3>3, KindOfBody DEF CaptureRequests
    <3>5. req'[q.hold] = req[q.hold]
      BY <3>2, <3>3, <3>4, HoldIsPlaced, BodiesAreFixed
    <3>. QED
      BY <3>2, <3>3, <3>5 DEF SameCurrency, HeldAccount
  <2>2. CASE pc[s] # "idle"
    <3>1. req'[s] = req[s] /\ IsCapture(s) /\ (s \in Active \/ s \in Committed)
      BY <1>6, <2>2, BodiesAreFixed, StillOpen DEF IsCapture
    <3>2. req[s].hold \in Requests /\ holdState[req[s].hold] # "none"
      <4>1. req[s] \in CaptureRequests
        BY <1>0, <2>2, <3>1, KindOfBody DEF SessionOK, IsCapture
      <4>. QED
        BY <1>0, <3>1, <4>1 DEF HoldOK, CaptureRequests
    <3>3. req'[req[s].hold] = req[req[s].hold]
      BY <3>2, HoldIsPlaced, BodiesAreFixed
    <3>4. /\ SameCurrency(HeldAccount(req[s]), req[s].dst)
          /\ req[s].amt <= req[req[s].hold].amt
      BY <3>1 DEF HoldInv
    <3>. QED
      BY <3>1, <3>3, <3>4 DEF SameCurrency, HeldAccount
  <2>. QED
    BY <2>1, <2>2
<1>. QED
  BY <1>1, <1>2, <1>5, <1>6

-----------------------------------------------------------------------------
(* Who reserves what. *)

(* Less is reserved when fewer holds reserve. *)
LEMMA HeldLess ==
  ASSUME TypeOK, SessionInv, NEW x, NEW late, NEW early, early \subseteq late
  PROVE  Held(x, late) <= Held(x, early)
<1>. DEFINE S == Reserving(x, early)
            T == Reserving(x, late)
            f == [h \in S |-> req[h].amt]
            g == [h \in T |-> req[h].amt]
<1>1. T \in SUBSET S /\ IsFiniteSet(S) /\ IsFiniteSet(T)
  <2>1. T \in SUBSET S
    BY DEF Reserving
  <2>. QED
    BY <2>1, ReservingType
<1>2. /\ \A h \in S : f[h] \in Nat
      /\ \A h \in T : g[h] \in Int /\ g[h] = f[h]
  <2>1. \A h \in S : req[h].amt \in Nat
    BY ReservingType, AmountAssumption DEF Amounts
  <2>. QED
    BY <1>1, <2>1
<1>3. Held(x, early) = SumFunctionOnSet(f, S) /\ Held(x, late) = SumFunctionOnSet(g, T)
  BY DEF Held
<1>. HIDE DEF S, T, f, g
<1>4. SumFunctionOnSet(g, T) = SumFunctionOnSet(f, T)
  BY <1>1, <1>2, SumAgree
<1>. QED
  BY <1>1, <1>2, <1>3, <1>4, SumSubset

(* How a change of who reserves on x changes held_total. *)
LEMMA HeldChanges ==
  ASSUME TypeOK, SessionInv, NEW r \in Requests, AnyStep(r), NEW x
  PROVE  LET old == Reserving(x, expired)
             new == Reserving(x, expired)'
         IN
         /\ new = old => Held(x, expired)' = Held(x, expired)
         /\ \A h \in old : new = old \ {h} => Held(x, expired)' = Held(x, expired) - req[h].amt
         /\ \A h : /\ h \notin old /\ h \in Requests /\ new = old \cup {h}
                   /\ req'[h] = req[h] /\ req[h].amt \in Nat
                   => Held(x, expired)' = Held(x, expired) + req[h].amt
<1>. DEFINE old == Reserving(x, expired)
            new == Reserving(x, expired)'
            f == [h \in Requests |-> req[h].amt]
            g == [h \in new |-> req'[h].amt]
            f0 == [h \in old |-> req[h].amt]
<1>1. IsFiniteSet(old) /\ old \subseteq Requests /\ \A h \in old : req[h].amt \in Nat
  BY ReservingType, AmountAssumption DEF Amounts
<1>2. \A h \in old : req'[h] = req[h]
  <2>. SUFFICES ASSUME NEW h \in old PROVE req'[h] = req[h]
    OBVIOUS
  <2>1. h \in Requests /\ holdState[h] # "none"
    BY DEF Reserving
  <2>. QED
    BY <2>1, HoldIsPlaced, BodiesAreFixed
<1>3. /\ Held(x, expired)' = SumFunctionOnSet(g, new)
      /\ Held(x, expired) = SumFunctionOnSet(f0, old)
  BY DEF Held
<1>4. /\ \A h \in old : f[h] \in Int /\ f0[h] = f[h] /\ f[h] = req[h].amt
      /\ \A h \in old : h \in new => g[h] = f[h]
      /\ \A h \in Requests : f[h] = req[h].amt
      /\ \A h \in new : g[h] = req'[h].amt
  BY <1>1, <1>2
<1>. HIDE DEF old, new, f, g, f0
<1>5. Held(x, expired) = SumFunctionOnSet(f, old)
  BY <1>1, <1>3, <1>4, SumAgree
<1>6. SumFunctionOnSet(f, old) \in Int
  BY <1>1, <1>4, SumType
<1>7. ASSUME new = old PROVE Held(x, expired)' = Held(x, expired)
  <2>1. \A h \in old : f[h] \in Int /\ f[h] = g[h]
    BY <1>4, <1>7
  <2>2. SumFunctionOnSet(f, old) = SumFunctionOnSet(g, old)
    BY <1>1, <2>1, SumAgree
  <2>. QED
    BY <1>3, <1>5, <1>7, <2>2
<1>8. ASSUME NEW h \in old, new = old \ {h}
      PROVE  Held(x, expired)' = Held(x, expired) - req[h].amt
  <2>1. SumFunctionOnSet(f, old) = f[h] + SumFunctionOnSet(f, old \ {h})
    BY <1>1, <1>4, SumRemove
  <2>2. IsFiniteSet(new) /\ \A k \in new : f[k] \in Int /\ f[k] = g[k]
    BY <1>1, <1>4, <1>8, FS_RemoveElement
  <2>3. SumFunctionOnSet(f, new) = SumFunctionOnSet(g, new)
    BY <2>2, SumAgree
  <2>4. SumFunctionOnSet(f, new) \in Int
    BY <2>2, SumType
  <2>5. SumFunctionOnSet(f, old) = f[h] + SumFunctionOnSet(f, new)
    BY <1>8, <2>1, Zenon
  <2>. QED
    BY <1>3, <1>4, <1>5, <2>3, <2>4, <2>5
<1>9. ASSUME NEW h, h \notin old, h \in Requests, new = old \cup {h},
             req'[h] = req[h], req[h].amt \in Nat
      PROVE  Held(x, expired)' = Held(x, expired) + req[h].amt
  <2>1. \A k \in old \cup {h} : f[k] \in Int
    BY <1>4, <1>9
  <2>2. SumFunctionOnSet(f, old \cup {h}) = f[h] + SumFunctionOnSet(f, old)
    BY <1>1, <1>9, <2>1, SumAdd
  <2>3. IsFiniteSet(new) /\ \A k \in new : f[k] \in Int /\ f[k] = g[k]
    BY <1>1, <1>4, <1>9, <2>1, FS_AddElement
  <2>4. SumFunctionOnSet(f, new) = SumFunctionOnSet(g, new)
    BY <2>3, SumAgree
  <2>5. SumFunctionOnSet(f, new) = f[h] + SumFunctionOnSet(f, old)
    BY <1>9, <2>2, Zenon
  <2>. QED
    BY <1>3, <1>4, <1>5, <1>6, <1>9, <2>4, <2>5
<1>. QED
  BY <1>7, <1>8, <1>9 DEF old, new

Resolves(r) == Commits(r) /\ (IsCapture(r) \/ IsRelease(r))
Places(r) == Commits(r) /\ IsPlace(r)

(* A step changes who reserves on x by the hold it places, resolves or     *)
(* lets lapse, and otherwise not.                                          *)
LEMMA ReservingChanges ==
  ASSUME TypeOK, SessionInv, HoldInv, NEW r \in Requests, AnyStep(r), NEW x
  PROVE  LET old == Reserving(x, expired)
             new == Reserving(x, expired)'
         IN
         /\ Places(r) => /\ r \notin old
                         /\ new = IF req[r].src = x /\ r \notin expired
                                  THEN old \cup {r} ELSE old
         /\ Resolves(r) => new = old \ {req[r].hold}
         /\ Expire(r) => new = old \ {r}
         /\ ~(Places(r) \/ Resolves(r) \/ Expire(r)) => new = old
<1>. DEFINE old == Reserving(x, expired)
            new == Reserving(x, expired)'
<1>1. \A h \in Requests : holdState[h] # "none" => req'[h] = req[h]
  BY HoldIsPlaced, BodiesAreFixed
<1>2. \A h : h \in new <=>
        h \in Requests /\ holdState'[h] = "active" /\ h \notin expired' /\ req'[h].src = x
  BY DEF Reserving
<1>3. \A h : h \in old <=>
        h \in Requests /\ holdState[h] = "active" /\ h \notin expired /\ req[h].src = x
  BY DEF Reserving
<1>. HIDE DEF old, new
<1>4. CASE Commits(r)
  <2>1. /\ pc[r] = "commit" /\ req' = req /\ expired' = expired
        /\ req[r] \in RequestBodies /\ r \in Active
    BY <1>4 DEF Commits, Commit, EndSession, SessionInv, SessionOK, Active
  <2>2. ~Expire(r)
    BY <1>4 DEF Commits, Commit, EndSession, Expire, TypeOK, session
  <2>3. CASE IsPlace(r)
    <3>1. holdState' = [holdState EXCEPT ![r] = "active"] /\ ~Resolves(r)
      BY <1>4, <2>3 DEF Commits, IsPlace, IsCapture, IsRelease, Resolves
    <3>2. holdState[r] = "none"
      BY <2>1 DEF SessionInv, HoldOK, SessionOK, Committed
    <3>3. r \notin old
      BY <1>3, <3>2
    <3>4. new = IF req[r].src = x /\ r \notin expired THEN old \cup {r} ELSE old
      <4>1. \A h : h \in new <=> h \in old \/ (h = r /\ req[r].src = x /\ r \notin expired)
        BY <1>2, <1>3, <2>1, <3>1 DEF TypeOK
      <4>. QED
        BY <4>1
    <3>. QED
      BY <1>4, <2>2, <2>3, <3>1, <3>3, <3>4 DEF Places, old, new
  <2>4. CASE IsCapture(r) \/ IsRelease(r)
    <3>1. req[r].hold \in Requests
      BY <2>1, <2>4, KindOfBody DEF IsCapture, IsRelease, CaptureRequests, ReleaseRequests
    <3>2. /\ ~IsPlace(r)
          /\ \E state \in {"captured", "released"} :
               holdState' = [holdState EXCEPT ![req[r].hold] = state]
      BY <1>4, <2>4 DEF Commits, IsPlace, IsCapture, IsRelease
    <3>3. \A h : h \in new <=> h \in old /\ h # req[r].hold
      BY <1>2, <1>3, <2>1, <3>1, <3>2 DEF TypeOK
    <3>4. new = old \ {req[r].hold}
      BY <3>3
    <3>. QED
      BY <1>4, <2>2, <2>4, <3>2, <3>4 DEF Places, Resolves, old, new
  <2>5. CASE ~IsPlace(r) /\ ~IsCapture(r) /\ ~IsRelease(r)
    <3>1. holdState' = holdState
      BY <1>4, <2>1, <2>5, KindOfBody
      DEF Commits, IsPlace, IsCapture, IsRelease, IsTransfer, IsReverse
    <3>2. \A h : h \in new <=> h \in old
      BY <1>2, <1>3, <2>1, <3>1
    <3>3. new = old
      BY <3>2
    <3>. QED
      BY <2>2, <2>5, <3>3 DEF Places, Resolves, old, new
  <2>. QED
    BY <2>3, <2>4, <2>5
<1>5. CASE Expire(r)
  <2>1. holdState' = holdState /\ expired' = expired \cup {r} /\ req' = req /\ ~Commits(r)
    BY <1>5 DEF Expire, session, Commits, Commit, EndSession, TypeOK
  <2>2. \A h : h \in new <=> h \in old /\ h # r
    BY <1>2, <1>3, <2>1
  <2>3. new = old \ {r}
    BY <2>2
  <2>. QED
    BY <1>5, <2>1, <2>3 DEF Places, Resolves, old, new
<1>6. CASE ~Commits(r) /\ ~Expire(r)
  <2>1. holdState' = holdState /\ expired' = expired
    BY <1>6 DEF AnyStep, RequestStep, Begins, Answers, Locks, Reads, Decides, Posts,
       ReadAfterCapture, Fails, Open, Answer, TakeAdvisory, ReadPosted, Goto,
       PostLeg, Rollback, EndSession, vars, tables
  <2>2. \A h : h \in new <=> h \in old
    BY <1>1, <1>2, <1>3, <2>1
  <2>3. new = old
    BY <2>2
  <2>. QED
    BY <1>6, <2>3 DEF Places, Resolves, old, new
<1>. QED
  BY <1>4, <1>5, <1>6

(* How a step changes held_total.                                          *)
LEMMA HeldStep ==
  ASSUME TypeOK, SessionInv, HoldInv, NEW r \in Requests, AnyStep(r), NEW x
  PROVE  /\ Held(x, expired) \in Nat /\ Held(x, expired)' \in Nat
         /\ Places(r) =>
              /\ req[r].amt \in Nat
              /\ Held(x, expired)' =
                   Held(x, expired) +
                     IF req[r].src = x /\ r \notin expired THEN req[r].amt ELSE 0
         /\ Resolves(r) =>
              Held(x, expired)' =
                Held(x, expired) -
                  IF req[r].hold \in Reserving(x, expired) THEN req[req[r].hold].amt ELSE 0
         /\ Expire(r) =>
              Held(x, expired)' =
                Held(x, expired) - IF r \in Reserving(x, expired) THEN req[r].amt ELSE 0
         /\ ~(Places(r) \/ Resolves(r) \/ Expire(r)) => Held(x, expired)' = Held(x, expired)
         /\ ~(Places(r) /\ req[r].src = x) => Held(x, expired)' <= Held(x, expired)
<1>. DEFINE old == Reserving(x, expired)
            new == Reserving(x, expired)'
<1>1. Held(x, expired) \in Nat /\ \A h \in old : req[h].amt \in Nat
  BY HeldType, ReservingType, AmountAssumption DEF Amounts
<1>2. new = old => Held(x, expired)' = Held(x, expired)
  BY HeldChanges
<1>3. \A h : new = old \ {h} =>
        Held(x, expired)' = Held(x, expired) - IF h \in old THEN req[h].amt ELSE 0
  <2>. SUFFICES ASSUME NEW h, new = old \ {h}
                PROVE  Held(x, expired)' = Held(x, expired) - IF h \in old THEN req[h].amt ELSE 0
    OBVIOUS
  <2>1. CASE h \in old
    BY <2>1, HeldChanges
  <2>2. CASE h \notin old
    <3>1. new = old
      BY <2>2
    <3>. HIDE DEF old, new
    <3>. QED
      BY <1>1, <1>2, <2>2, <3>1
  <2>. QED
    BY <2>1, <2>2
<1>4. ASSUME Places(r)
      PROVE  /\ req[r].amt \in Nat
             /\ Held(x, expired)' =
                  Held(x, expired) +
                    IF req[r].src = x /\ r \notin expired THEN req[r].amt ELSE 0
  <2>1. /\ r \notin old
        /\ new = IF req[r].src = x /\ r \notin expired THEN old \cup {r} ELSE old
    BY <1>4, ReservingChanges
  <2>2. req[r] \in PlaceRequests /\ req'[r] = req[r]
    BY <1>4, KindOfBody, RowEffects DEF Places, Commits, IsPlace, SessionInv, SessionOK
  <2>3. req[r].amt \in Nat
    BY <2>2, AmountAssumption DEF PlaceRequests, Amounts
  <2>4. CASE req[r].src = x /\ r \notin expired
    BY <2>1, <2>2, <2>3, <2>4, HeldChanges
  <2>5. CASE ~(req[r].src = x /\ r \notin expired)
    <3>1. new = old
      BY <2>1, <2>5
    <3>. HIDE DEF old, new
    <3>. QED
      BY <1>1, <1>2, <2>3, <2>5, <3>1
  <2>. QED
    BY <2>3, <2>4, <2>5
<1>5. Resolves(r) => new = old \ {req[r].hold}
  BY ReservingChanges
<1>6. Expire(r) => new = old \ {r}
  BY ReservingChanges
<1>7. ~(Places(r) \/ Resolves(r) \/ Expire(r)) => new = old
  BY ReservingChanges
<1>8. Held(x, expired)' \in Nat
  <2>. DEFINE g == [h \in new |-> req'[h].amt]
  <2>1. new \subseteq Requests /\ IsFiniteSet(new)
    <3>1. new \subseteq Requests
      BY DEF Reserving
    <3>. QED
      BY <3>1, RequestAssumption, FS_Subset
  <2>2. \A h \in new : h \in old \/ (h = r /\ Places(r))
    BY <1>5, <1>6, <1>7, ReservingChanges
  <2>3. ASSUME NEW h \in new
        PROVE  req'[h].amt \in Nat
    <3>1. CASE h \in old
      <4>1. h \in Requests /\ holdState[h] # "none"
        BY <3>1 DEF Reserving
      <4>. QED
        BY <1>1, <3>1, <4>1, HoldIsPlaced, BodiesAreFixed
    <3>2. CASE h = r /\ Places(r)
      <4>1. req' = req
        BY <3>2, RowEffects DEF Places
      <4>. QED
        BY <1>4, <3>2, <4>1
    <3>. QED
      BY <2>2, <3>1, <3>2
  <2>4. \A h \in new : g[h] \in Nat
    BY <2>3
  <2>5. Held(x, expired)' = SumFunctionOnSet(g, new)
    BY DEF Held
  <2>. HIDE DEF new, g
  <2>. QED
    BY <2>1, <2>4, <2>5, SumNat
<1>. QED
  BY <1>1, <1>2, <1>3, <1>4, <1>5, <1>6, <1>7, <1>8

-----------------------------------------------------------------------------
(* What a commit does to the snapshots. *)

Pairs(s) == {i \in {1, 2} : 2 * i <= Len(MovementLegs(req[s]))}

(* Two legs or four come to one transaction or two.                        *)
LEMMA PostedInPairs ==
  ASSUME NEW legs \in Seq(Legs), NEW x
  PROVE  /\ Len(legs) = 0 => Posted(legs, Len(legs), x) = 0
         /\ Len(legs) = 2 => Posted(legs, Len(legs), x) = On(legs[1], x) + On(legs[2], x)
         /\ Len(legs) = 4 => Posted(legs, Len(legs), x) =
                               On(legs[1], x) + On(legs[2], x) + (On(legs[3], x) + On(legs[4], x))
<1>1. \A i \in 1..Len(legs) : On(legs[i], x) \in Int
  <2>. SUFFICES ASSUME NEW i \in 1..Len(legs) PROVE On(legs[i], x) \in Int
    OBVIOUS
  <2>1. legs[i] \in Legs
    OBVIOUS
  <2>2. legs[i].amount \in Int
    BY <2>1 DEF Legs
  <2>. QED
    BY <2>2 DEF On
<1>2. Posted(legs, 0, x) = 0
  <2>1. 0 \in 0..Len(legs) /\ \A i \in 1..0 : legs[i].account # x
    OBVIOUS
  <2>. QED
    BY <2>1, PostedSoFar
<1>3. \A n \in 0..Len(legs) : n < Len(legs) =>
        Posted(legs, n + 1, x) = Posted(legs, n, x) + On(legs[n + 1], x)
  BY PostedSoFar
<1>4. CASE Len(legs) = 0
  BY <1>2, <1>4
<1>5. CASE Len(legs) = 2
  <2>1. Posted(legs, 0 + 1, x) = Posted(legs, 0, x) + On(legs[0 + 1], x)
    BY <1>3, <1>5
  <2>2. Posted(legs, 1 + 1, x) = Posted(legs, 1, x) + On(legs[1 + 1], x)
    BY <1>3, <1>5
  <2>3. On(legs[1], x) \in Int /\ On(legs[2], x) \in Int
    BY <1>1, <1>5
  <2>. QED
    BY <1>2, <1>5, <2>1, <2>2, <2>3
<1>6. CASE Len(legs) = 4
  <2>1. Posted(legs, 0 + 1, x) = Posted(legs, 0, x) + On(legs[0 + 1], x)
    BY <1>3, <1>6
  <2>2. Posted(legs, 1 + 1, x) = Posted(legs, 1, x) + On(legs[1 + 1], x)
    BY <1>3, <1>6
  <2>3. Posted(legs, 2 + 1, x) = Posted(legs, 2, x) + On(legs[2 + 1], x)
    BY <1>3, <1>6
  <2>4. Posted(legs, 3 + 1, x) = Posted(legs, 3, x) + On(legs[3 + 1], x)
    BY <1>3, <1>6
  <2>5. /\ On(legs[1], x) \in Int /\ On(legs[2], x) \in Int
        /\ On(legs[3], x) \in Int /\ On(legs[4], x) \in Int
    BY <1>1, <1>6
  <2>. QED
    BY <1>2, <1>6, <2>1, <2>2, <2>3, <2>4, <2>5
<1>. QED
  BY <1>4, <1>5, <1>6

(* Whoever commits has posted every leg, and only its legs.                *)
LEMMA CommitPosts ==
  ASSUME IInv, NEW r \in Requests, AnyStep(r), Commits(r), NEW x \in Accounts
  PROVE  /\ LegsOf(r) \in Seq(Legs)
         /\ balance'[x] = balance[x] + Posted(LegsOf(r), Len(LegsOf(r)), x)
<1>. DEFINE legs == LegsOf(r)
            n == applied[r]
<1>1. pc[r] = "commit" /\ TypeOK /\ SessionInv /\ RowInv /\ PostedOK(r)
  BY DEF Commits, IInv, PostedInv
<1>2. legs \in Seq(Legs) /\ n = Len(legs) /\ n \in 0..Len(legs)
  BY <1>1, LegsType DEF PostedOK, TypeOK
<1>3. balance'[x] = IF rowOwner[x] = r THEN draft[x] ELSE balance[x]
  BY <1>1, RowEffects
<1>4. /\ \A i \in 1..n : rowOwner[legs[i].account] = r
      /\ rowOwner[x] = r => draft[x] = balance[x] + Posted(legs, n, x)
  BY <1>1 DEF PostedOK
<1>5. balance[x] \in Int
  BY <1>1 DEF TypeOK
<1>. HIDE DEF legs, n
<1>6. CASE rowOwner[x] = r
  BY <1>2, <1>3, <1>4, <1>6 DEF legs
<1>7. CASE rowOwner[x] # r
  <2>1. \A i \in 1..n : legs[i].account # x
    BY <1>4, <1>7
  <2>2. Posted(legs, n, x) = 0
    BY <1>2, <2>1, PostedSoFar
  <2>. QED
    BY <1>2, <1>3, <1>5, <1>7, <2>2 DEF legs
<1>. QED
  BY <1>6, <1>7

(* The transactions of a handler that commits or has committed: it has one *)
(* or two, and each takes from one account what it gives to another one of *)
(* the same currency.                                                      *)
LEMMA PairBalances ==
  ASSUME IInv, NEW s \in Requests, pc[s] = "commit" \/ s \in Committed
  PROVE  /\ IsTransfer(s) \/ IsCapture(s) <=> Pairs(s) # {}
         /\ IsTransfer(s) \/ IsCapture(s) =>
              /\ MovementLegs(req[s]) \in Seq(Legs)
              /\ \/ Len(MovementLegs(req[s])) = 2 /\ Pairs(s) = {1}
                 \/ Len(MovementLegs(req[s])) = 4 /\ Pairs(s) = {1, 2}
         /\ \A i \in Pairs(s) :
              LET legs == TransactionLegs(<<s, i>>) IN
              /\ legs[1].account \in Accounts /\ legs[2].account \in Accounts
              /\ SameCurrency(legs[1].account, legs[2].account)
              /\ legs[2].amount \in Nat
              /\ legs[1].amount = 0 - legs[2].amount
<1>. DEFINE q == req[s]
            legs == MovementLegs(q)
<1>0. TypeOK /\ SessionInv /\ HoldInv
  BY DEF IInv
<1>1. q \in RequestBodies
  BY <1>0 DEF SessionInv, SessionOK, Committed
<1>2. \A i \in {1, 2} : TransactionLegs(<<s, i>>) = <<legs[2 * i - 1], legs[2 * i]>>
  BY DEF TransactionLegs
<1>3. CASE IsTransfer(s)
  <2>1. q \in TransferRequests /\ Postable(q) /\ legs = TransferLegs(q)
    BY <1>0, <1>1, <1>3, KindOfBody DEF IsTransfer, MovementLegs, SessionInv, LegsOK
  <2>2. q.src \in Accounts /\ q.dst \in Accounts /\ q.amt \in Nat
    BY <2>1, AmountAssumption DEF TransferRequests, Amounts
  <2>3. CASE SameCurrency(q.src, q.dst)
    <3>1. legs = <<Leg(q.src, 0 - q.amt), Leg(q.dst, q.amt)>>
      BY <2>1, <2>3 DEF TransferLegs, Entry
    <3>2. /\ legs \in Seq(Legs) /\ Len(legs) = 2 /\ Pairs(s) = {1}
          /\ TransactionLegs(<<s, 1>>) = <<Leg(q.src, 0 - q.amt), Leg(q.dst, q.amt)>>
      BY <1>2, <2>2, <3>1 DEF Leg, Legs, Pairs
    <3>. QED
      BY <1>3, <2>2, <2>3, <3>2 DEF Leg
  <2>4. CASE ~SameCurrency(q.src, q.dst)
    <3>. DEFINE p == ConversionAccount[CurrencyOf[q.src]]
                t == ConversionAccount[CurrencyOf[q.dst]]
                m == Converted[<<CurrencyOf[q.src], CurrencyOf[q.dst]>>][q.amt]
    <3>1. /\ p \in Accounts /\ t \in Accounts /\ m \in Nat
          /\ SameCurrency(q.src, p) /\ SameCurrency(t, q.dst)
      BY <2>1, <2>4, ConversionAssumption, ConvertedAssumption
      DEF Postable, Routable, TransferRequests, SameCurrency
    <3>2. legs = <<Leg(q.src, 0 - q.amt), Leg(p, q.amt), Leg(t, 0 - m), Leg(q.dst, m)>>
      BY <2>1, <2>4 DEF TransferLegs, ConversionLegs
    <3>. HIDE DEF p, t, m
    <3>3. /\ legs \in Seq(Legs) /\ Len(legs) = 4 /\ Pairs(s) = {1, 2}
          /\ TransactionLegs(<<s, 1>>) = <<Leg(q.src, 0 - q.amt), Leg(p, q.amt)>>
          /\ TransactionLegs(<<s, 2>>) = <<Leg(t, 0 - m), Leg(q.dst, m)>>
      BY <1>2, <2>2, <3>1, <3>2 DEF Leg, Legs, Pairs
    <3>. QED
      BY <1>3, <2>2, <3>1, <3>3 DEF Leg
  <2>. QED
    BY <2>3, <2>4
<1>4. CASE IsCapture(s)
  <2>1. q \in CaptureRequests /\ legs = CaptureLegs(q)
    BY <1>1, <1>4, KindOfBody DEF IsCapture, MovementLegs
  <2>2. /\ s \in Active \/ s \in Committed
        /\ q.hold \in Requests /\ holdState[q.hold] # "none"
    BY <1>0, <1>4, <2>1 DEF SessionInv, HoldOK, Active, CaptureRequests
  <2>3. HeldAccount(q) \in Accounts /\ q.dst \in Accounts /\ q.amt \in Nat
    BY <1>0, <2>1, <2>2, HoldIsPlaced, AmountAssumption
    DEF HeldAccount, PlaceRequests, CaptureRequests, Amounts
  <2>4. SameCurrency(HeldAccount(q), q.dst)
    BY <1>0, <1>4, <2>2 DEF HoldInv
  <2>5. legs = <<Leg(HeldAccount(q), 0 - q.amt), Leg(q.dst, q.amt)>>
    BY <2>1 DEF CaptureLegs, Entry
  <2>6. /\ legs \in Seq(Legs) /\ Len(legs) = 2 /\ Pairs(s) = {1}
        /\ TransactionLegs(<<s, 1>>) = <<Leg(HeldAccount(q), 0 - q.amt), Leg(q.dst, q.amt)>>
    BY <1>2, <2>3, <2>5 DEF Leg, Legs, Pairs
  <2>. QED
    BY <1>4, <2>3, <2>4, <2>6 DEF Leg
<1>5. CASE ~IsTransfer(s) /\ ~IsCapture(s)
  <2>1. legs = <<>>
    BY <1>5 DEF IsTransfer, IsCapture, MovementLegs
  <2>2. Pairs(s) = {}
    BY <2>1 DEF Pairs
  <2>. QED
    BY <1>5, <2>2
<1>. QED
  BY <1>3, <1>4, <1>5

(* A commit adds its transactions to the snapshots, or takes back the one  *)
(* it reverses.                                                            *)
LEMMA CommitEffect ==
  ASSUME IInv, NEW r \in Requests, AnyStep(r), Commits(r), NEW x \in Accounts
  PROVE  /\ IsPlace(r) \/ IsRelease(r) => balance'[x] = balance[x]
         /\ IsReverse(r) => balance'[x] = balance[x] - NetOn(req[r].txn, x)
         /\ Pairs(r) = {1} => balance'[x] = balance[x] + NetOn(<<r, 1>>, x)
         /\ Pairs(r) = {1, 2} =>
              balance'[x] = balance[x] + NetOn(<<r, 1>>, x) + NetOn(<<r, 2>>, x)
<1>. DEFINE legs == LegsOf(r)
<1>0. /\ TypeOK /\ SessionInv /\ pc[r] = "commit" /\ balance[x] \in Int
      /\ legs \in Seq(Legs)
      /\ balance'[x] = balance[x] + Posted(legs, Len(legs), x)
  BY CommitPosts DEF IInv, TypeOK, Commits
<1>1. req[r] \in RequestBodies
  BY <1>0 DEF SessionInv, SessionOK
<1>2. CASE IsPlace(r) \/ IsRelease(r)
  <2>1. legs = <<>> /\ ~IsReverse(r) /\ Pairs(r) = {}
    BY <1>2 DEF IsPlace, IsRelease, IsReverse, LegsOf, MovementLegs, Pairs
  <2>2. Len(legs) = 0
    BY <2>1
  <2>3. Posted(legs, Len(legs), x) = 0
    BY <1>0, <2>2, PostedInPairs
  <2>. HIDE DEF legs
  <2>. QED
    BY <1>0, <2>1, <2>3
<1>3. CASE IsReverse(r)
  <2>. DEFINE t == req[r].txn
              l1 == TransactionLegs(t)[1]
              l2 == TransactionLegs(t)[2]
  <2>1. /\ legs = ReversalLegs(req[r]) /\ ~IsPlace(r) /\ ~IsRelease(r) /\ Pairs(r) = {}
        /\ req[r] \in ReverseRequests /\ Exists(t)
    BY <1>0, <1>1, <1>3, KindOfBody
    DEF IsReverse, IsPlace, IsRelease, LegsOf, MovementLegs, Pairs, SessionInv, LegsOK
  <2>2. legs = <<Leg(l1.account, 0 - l1.amount), Leg(l2.account, 0 - l2.amount)>>
    BY <2>1 DEF ReversalLegs, Negated
  <2>3. PICK s \in Requests, i \in {1, 2} : t = <<s, i>>
    BY <2>1 DEF ReverseRequests
  <2>4. s \in Committed /\ i \in Pairs(s)
    BY <2>1, <2>3 DEF Exists, Pairs
  <2>5. l1.amount \in Int /\ l2.amount \in Int
    BY <2>3, <2>4, PairBalances
  <2>6. NetOn(t, x) = On(l1, x) + On(l2, x)
    BY DEF NetOn
  <2>. HIDE DEF l1, l2, t
  <2>7. /\ Len(legs) = 2
        /\ legs[1] = Leg(l1.account, 0 - l1.amount) /\ legs[2] = Leg(l2.account, 0 - l2.amount)
    BY <2>2
  <2>. HIDE DEF legs
  <2>8. Posted(legs, Len(legs), x) = On(legs[1], x) + On(legs[2], x)
    BY <1>0, <2>7, PostedInPairs
  <2>9. On(legs[1], x) = 0 - On(l1, x) /\ On(legs[2], x) = 0 - On(l2, x)
    BY <2>5, <2>7 DEF On, Leg
  <2>10. On(l1, x) \in Int /\ On(l2, x) \in Int
    BY <2>5 DEF On
  <2>11. balance'[x] = balance[x] - NetOn(t, x)
    <3>. DEFINE m == Posted(legs, Len(legs), x)
    <3>1. balance'[x] = balance[x] + m /\ balance[x] \in Int
      BY <1>0
    <3>2. m = 0 - NetOn(t, x) /\ NetOn(t, x) \in Int
      BY <2>6, <2>8, <2>9, <2>10
    <3>. HIDE DEF m
    <3>. QED
      BY <3>1, <3>2
  <2>. QED
    BY <1>3, <2>1, <2>11 DEF t
<1>4. CASE IsTransfer(r) \/ IsCapture(r)
  <2>1. /\ legs = MovementLegs(req[r]) /\ ~IsPlace(r) /\ ~IsRelease(r) /\ ~IsReverse(r)
        /\ \/ Len(legs) = 2 /\ Pairs(r) = {1}
           \/ Len(legs) = 4 /\ Pairs(r) = {1, 2}
    BY <1>0, <1>4, PairBalances
    DEF IsTransfer, IsCapture, IsPlace, IsRelease, IsReverse, LegsOf
  <2>2. \A i \in {1, 2} :
          NetOn(<<r, i>>, x) = On(legs[2 * i - 1], x) + On(legs[2 * i], x)
    BY <2>1 DEF NetOn, TransactionLegs
  <2>3. /\ NetOn(<<r, 1>>, x) = On(legs[1], x) + On(legs[2], x)
        /\ NetOn(<<r, 2>>, x) = On(legs[3], x) + On(legs[4], x)
    BY <2>2
  <2>. HIDE DEF legs
  <2>4. \A i \in 1..Len(legs) : On(legs[i], x) \in Int
    <3>. SUFFICES ASSUME NEW i \in 1..Len(legs) PROVE On(legs[i], x) \in Int
      OBVIOUS
    <3>1. legs[i] \in Legs
      BY <1>0
    <3>2. legs[i].amount \in Int
      BY <3>1 DEF Legs
    <3>. QED
      BY <3>2 DEF On
  <2>5. CASE Len(legs) = 2 /\ Pairs(r) = {1}
    <3>1. Posted(legs, Len(legs), x) = NetOn(<<r, 1>>, x) /\ Pairs(r) # {1, 2}
      <4>1. Posted(legs, Len(legs), x) = NetOn(<<r, 1>>, x)
        BY <1>0, <2>3, <2>5, PostedInPairs
      <4>. QED
        BY <2>5, <4>1
    <3>. QED
      BY <1>0, <2>1, <2>5, <3>1
  <2>6. CASE Len(legs) = 4 /\ Pairs(r) = {1, 2}
    <3>1. Posted(legs, Len(legs), x) = NetOn(<<r, 1>>, x) + NetOn(<<r, 2>>, x)
      BY <1>0, <2>3, <2>6, PostedInPairs
    <3>2. NetOn(<<r, 1>>, x) \in Int /\ NetOn(<<r, 2>>, x) \in Int
      BY <2>3, <2>4, <2>6
    <3>3. Pairs(r) # {1}
      BY <2>6
    <3>4. balance'[x] = balance[x] + NetOn(<<r, 1>>, x) + NetOn(<<r, 2>>, x)
      <4>. DEFINE m == Posted(legs, Len(legs), x)
      <4>1. balance'[x] = balance[x] + m /\ balance[x] \in Int
        BY <1>0
      <4>2. m = NetOn(<<r, 1>>, x) + NetOn(<<r, 2>>, x)
        BY <3>1
      <4>. HIDE DEF m
      <4>. QED
        BY <3>2, <4>1, <4>2
    <3>. QED
      BY <2>1, <3>3, <3>4, Zenon
  <2>7. \/ Len(legs) = 2 /\ Pairs(r) = {1}
        \/ Len(legs) = 4 /\ Pairs(r) = {1, 2}
    BY <2>1, Zenon
  <2>. QED
    BY <2>5, <2>6, <2>7
<1>. QED
  BY <1>1, <1>2, <1>3, <1>4, KindOfBody
  DEF IsTransfer, IsPlace, IsCapture, IsRelease, IsReverse

(* Only a commit adds to the committed requests, and only its own.         *)
LEMMA CommittedStep ==
  ASSUME TypeOK, SessionInv, NEW r \in Requests, AnyStep(r)
  PROVE  /\ Commits(r) => /\ r \notin Committed /\ Committed' = Committed \cup {r}
                          /\ req' = req /\ req[r] \in RequestBodies
         /\ ~Commits(r) => Committed' = Committed
<1>1. CASE Commits(r)
  <2>1. /\ pc[r] = "commit" /\ req' = req /\ outcome' = [outcome EXCEPT ![r] = "ok"]
    BY <1>1 DEF Commits, Commit, EndSession
  <2>2. r \notin Committed /\ req[r] \in RequestBodies
    BY <2>1 DEF SessionInv, SessionOK, Committed
  <2>3. Committed' = Committed \cup {r}
    BY <2>1 DEF Committed, TypeOK
  <2>. QED
    BY <1>1, <2>1, <2>2, <2>3
<1>2. CASE ~Commits(r)
  <2>1. \A s \in Requests : outcome'[s] = "ok" <=> outcome[s] = "ok"
    BY <1>2 DEF AnyStep, RequestStep, Begins, Answers, Locks, Reads, Decides, Posts,
      ReadAfterCapture, Fails, Open, Answer, TakeAdvisory, ReadPosted, Goto, Failures,
      PostLeg, Rollback, EndSession, Expire, vars, session, TypeOK, SessionInv, SessionOK, Active
  <2>. QED
    BY <1>2, <2>1 DEF Committed
<1>. QED
  BY <1>1, <1>2

(* Which transactions there are.                                           *)
LEMMA TransactionsStep ==
  ASSUME IInv, NEW r \in Requests, AnyStep(r)
  PROVE  /\ IsFiniteSet(Transactions)
         /\ \A t \in Transactions : Exists(t)' /\ TransactionLegs(t)' = TransactionLegs(t)
         /\ ~Commits(r) => Transactions' = Transactions
         /\ Commits(r) =>
              /\ Transactions' = Transactions \cup {<<r, i>> : i \in Pairs(r)}
              /\ \A i \in {1, 2} : /\ <<r, i>> \notin Transactions
                                   /\ TransactionLegs(<<r, i>>)' = TransactionLegs(<<r, i>>)
<1>0. TypeOK /\ SessionInv
  BY DEF IInv
<1>1. IsFiniteSet(Transactions)
  <2>1. IsFiniteSet({1, 2})
    <3>1. IsFiniteSet({1} \cup {2}) /\ {1} \cup {2} = {1, 2}
      BY FS_Singleton, FS_AddElement
    <3>. QED
      BY <3>1, Zenon
  <2>2. IsFiniteSet(Requests \X {1, 2})
    BY <2>1, RequestAssumption, FS_Product
  <2>. QED
    BY <2>2, FS_Subset DEF Transactions
<1>2. \A t \in Transactions : Exists(t)' /\ TransactionLegs(t)' = TransactionLegs(t)
  BY <1>0, TransactionsPersist DEF Transactions
<1>3. ASSUME NEW s \in Committed
      PROVE  MovementLegs(req[s])' = MovementLegs(req[s])
  BY <1>0, LegsAreFixed DEF Committed
<1>4. CASE ~Commits(r)
  <2>1. Committed' = Committed
    BY <1>0, <1>4, CommittedStep
  <2>2. \A t \in Requests \X {1, 2} : Exists(t)' <=> Exists(t)
    BY <1>3, <2>1 DEF Exists
  <2>. QED
    BY <1>1, <1>2, <1>4, <2>2 DEF Transactions
<1>5. CASE Commits(r)
  <2>1. r \notin Committed /\ Committed' = Committed \cup {r} /\ r \in Active
    BY <1>0, <1>5, CommittedStep DEF Commits, Active
  <2>2. MovementLegs(req[r])' = MovementLegs(req[r])
    BY <1>0, <2>1, LegsAreFixed
  <2>3. \A t \in Requests \X {1, 2} :
          Exists(t)' <=> Exists(t) \/ (t[1] = r /\ t[2] \in Pairs(r))
    BY <1>3, <2>1, <2>2 DEF Exists, Pairs
  <2>4. Transactions' = Transactions \cup {<<r, i>> : i \in Pairs(r)}
    BY <2>3 DEF Transactions, Pairs
  <2>5. \A i \in {1, 2} : /\ <<r, i>> \notin Transactions
                          /\ TransactionLegs(<<r, i>>)' = TransactionLegs(<<r, i>>)
    BY <2>1, <2>2 DEF Transactions, Exists, TransactionLegs
  <2>. QED
    BY <1>1, <1>2, <1>5, <2>4, <2>5
<1>. QED
  BY <1>4, <1>5

-----------------------------------------------------------------------------
(* Funds. *)

(* A step that changes nothing guards the same accounts.                   *)
LEMMA GuardStays ==
  ASSUME UNCHANGED vars
  PROVE  TakenBack' = TakenBack /\ Guarded' = Guarded
<1>1. Committed' = Committed /\ req' = req
  BY DEF vars, Committed
<1>2. \A s : IsReverse(s)' <=> IsReverse(s)
  BY <1>1 DEF IsReverse
<1>3. \A s : TransactionLegs(s)' = TransactionLegs(s)
  BY <1>1 DEF TransactionLegs, MovementLegs, TransferLegs, CaptureLegs, HeldAccount
<1>4. TakenBack' = TakenBack
  BY <1>1, <1>2, <1>3 DEF TakenBack
<1>. QED
  BY <1>4 DEF Guarded, ConversionAccounts

(* Only a committed reversal, of a transaction that exists, takes the      *)
(* guard off an account.                                                   *)
LEMMA TakenBackStep ==
  ASSUME IInv, NEW r \in Requests, AnyStep(r)
  PROVE  /\ TakenBack' =
              IF Commits(r) /\ IsReverse(r)
              THEN TakenBack \cup {TransactionLegs(req[r].txn)[2].account}
              ELSE TakenBack
         /\ Guarded' \subseteq Guarded
         /\ Guarded \subseteq Customers /\ Customers \subseteq Accounts
<1>. DEFINE undone(s) == TransactionLegs(req[s].txn)[2].account
            back == {s \in Committed : IsReverse(s)}
<1>0. TypeOK /\ SessionInv /\ PostedInv
  BY DEF IInv
<1>1. ASSUME NEW s \in Requests, IsReverse(s), s \in back \/ (s = r /\ Commits(r))
      PROVE  undone(s)' = undone(s)
  <2>1. req[s] \in ReverseRequests /\ req'[s] = req[s] /\ Exists(req[s].txn)
    <3>1. pc[s] # "idle"
      BY <1>0, <1>1 DEF Commits, Committed, SessionInv, SessionOK
    <3>2. Exists(req[s].txn)
      BY <1>0, <1>1 DEF Commits, SessionInv, LegsOK, PostedInv, PostedOK
    <3>. QED
      BY <1>0, <1>1, <3>1, <3>2, BodiesAreFixed, KindOfBody DEF IsReverse, SessionInv, SessionOK
  <2>2. req[s].txn \in Requests \X {1, 2}
    BY <2>1 DEF ReverseRequests
  <2>3. TransactionLegs(req[s].txn)' = TransactionLegs(req[s].txn)
    BY <1>0, <2>1, <2>2, TransactionsPersist
  <2>. QED
    BY <2>3
<1>2. \A s \in back : IsReverse(s)' /\ undone(s)' = undone(s)
  BY <1>0, <1>1, BodiesAreFixed DEF Committed, IsReverse, SessionInv, SessionOK
<1>3. CASE Commits(r) /\ IsReverse(r)
  <2>1. back' = back \cup {r} /\ undone(r)' = undone(r)
    BY <1>0, <1>1, <1>3, CommittedStep DEF IsReverse
  <2>2. TakenBack = {undone(s) : s \in back} /\ TakenBack' = {undone(s)' : s \in back'}
    BY DEF TakenBack
  <2>. HIDE DEF undone, back
  <2>3. ASSUME NEW y \in TakenBack' PROVE y \in TakenBack \cup {undone(r)}
    <3>1. PICK s \in back' : y = undone(s)'
      BY <2>2, <2>3
    <3>2. CASE s = r
      BY <2>1, <3>1, <3>2
    <3>3. CASE s \in back
      BY <1>2, <2>2, <3>1, <3>3
    <3>. QED
      BY <2>1, <3>1, <3>2, <3>3
  <2>4. \A y \in TakenBack \cup {undone(r)} : y \in TakenBack'
    BY <1>2, <2>1, <2>2
  <2>5. TakenBack' = TakenBack \cup {undone(r)}
    BY <2>3, <2>4
  <2>. QED
    BY <1>3, <2>5 DEF undone, Guarded, Customers, ConversionAccounts
<1>4. CASE ~(Commits(r) /\ IsReverse(r))
  <2>1. back' = back
    <3>1. \A s \in Committed : IsReverse(s)' <=> IsReverse(s)
      BY <1>0, BodiesAreFixed DEF Committed, IsReverse, SessionInv, SessionOK
    <3>2. Committed' = Committed \/ (Committed' = Committed \cup {r} /\ ~IsReverse(r)')
      BY <1>0, <1>4, CommittedStep DEF IsReverse
    <3>3. \A s : s \in back' <=> s \in back
      BY <3>1, <3>2
    <3>. QED
      BY <3>3
  <2>2. TakenBack = {undone(s) : s \in back} /\ TakenBack' = {undone(s)' : s \in back'}
    BY DEF TakenBack
  <2>. HIDE DEF undone, back
  <2>3. TakenBack' = TakenBack
    BY <1>2, <2>1, <2>2
  <2>. QED
    BY <1>4, <2>3 DEF Guarded, Customers, ConversionAccounts
<1>. QED
  BY <1>3, <1>4

(* The snapshot of a guarded account only loses money to who holds its     *)
(* lock.                                                                   *)
LEMMA BalanceStep ==
  ASSUME IInv, NEW r \in Requests, AnyStep(r), NEW x \in Guarded', advisory[x] # r
  PROVE  balance'[x] >= balance[x]
<1>0. TypeOK /\ SessionInv /\ RowInv /\ x \in Customers /\ x \in Accounts
  BY TakenBackStep DEF IInv
<1>1. CASE Commits(r) /\ ~IsReverse(r)
  <2>1. rowOwner[x] = r => draft[x] >= balance[x]
    BY <1>0, <1>1 DEF RowInv, RowOK
  <2>. QED
    BY <1>0, <1>1, <2>1, RowEffects DEF TypeOK
<1>2. CASE Commits(r) /\ IsReverse(r)
  <2>. DEFINE l1 == TransactionLegs(req[r].txn)[1]
              l2 == TransactionLegs(req[r].txn)[2]
  <2>1. x # l2.account
    BY <1>2, TakenBackStep DEF Guarded
  <2>2. PICK s \in Requests, i \in {1, 2} : req[r].txn = <<s, i>>
    BY <1>0, <1>2, KindOfBody DEF Commits, IsReverse, ReverseRequests, SessionInv, SessionOK
  <2>3. s \in Committed /\ i \in Pairs(s)
    BY <1>0, <1>2, <2>2 DEF Commits, Exists, Pairs, SessionInv, LegsOK
  <2>4. l2.amount \in Nat /\ l1.amount = 0 - l2.amount
    BY <2>2, <2>3, PairBalances
  <2>5. balance'[x] = balance[x] - NetOn(req[r].txn, x) /\ balance[x] \in Int
    BY <1>0, <1>2, CommitEffect DEF TypeOK
  <2>6. NetOn(req[r].txn, x) = On(l1, x) + On(l2, x)
    BY DEF NetOn
  <2>. HIDE DEF l1, l2
  <2>7. On(l2, x) = 0 /\ On(l1, x) \in Int /\ On(l1, x) <= 0
    BY <2>1, <2>4 DEF On
  <2>. QED
    BY <2>5, <2>6, <2>7
<1>3. CASE ~Commits(r)
  BY <1>0, <1>3, RowEffects DEF TypeOK
<1>. QED
  BY <1>1, <1>2, <1>3

(* A step overdraws no guarded row.                                        *)
LEMMA SolventStep ==
  ASSUME IInv, NEW r \in Requests, AnyStep(r), NEW x \in Guarded'
  PROVE  Solvent(x)'
<1>. TypeOK /\ SessionInv /\ LockInv /\ RowInv /\ x \in Guarded /\ x \in Customers
  BY TakenBackStep DEF IInv
<1>0. Solvent(x) /\ Covered(r) /\ RowOK(x) /\ x \in Accounts
  BY DEF IInv, FundsInv, RowInv, Guarded
<1>1. CASE Posts(r)
  <2>. DEFINE leg == LegsOf(r)[applied[r] + 1]
  <2>1. /\ rowOwner' = [rowOwner EXCEPT ![leg.account] = r]
        /\ draft' = [draft EXCEPT ![leg.account] = @ + leg.amount]
        /\ UNCHANGED <<balance, req>>
    BY <1>1, RowEffects
  <2>2. /\ leg.account \in Accounts /\ leg.amount \in Int
        /\ rowOwner[leg.account] = Nobody \/ rowOwner[leg.account] = r
        /\ ~IsReverse(r) /\ leg.account \in Customers =>
              \/ leg.amount >= 0
              \/ /\ applied[r] = 0 /\ rowOwner[leg.account] = Nobody
                 /\ Holding(r) /\ ~IsPlace(r) /\ LockedAccount(r) = leg.account
                 /\ leg.amount = 0 - req[r].amt /\ req[r].amt \in Nat
    BY <1>1, NextLeg
  <2>. HIDE DEF leg
  <2>3. \A s \in Requests : IsReverse(s)' = IsReverse(s)
    BY <2>1 DEF IsReverse
  <2>4. CASE x # leg.account
    BY <1>0, <2>1, <2>3, <2>4 DEF Solvent, TypeOK
  <2>5. CASE x = leg.account
    <3>1. rowOwner'[x] = r /\ draft'[x] = draft[x] + leg.amount
      BY <2>1, <2>2, <2>5 DEF TypeOK
    <3>2. ~IsReverse(r) => draft[x] >= 0
      BY <1>0, <2>2, <2>5 DEF Solvent, RowOK
    <3>3. pc[r] = "posting"
      BY <1>1 DEF Posts, PostLeg
    <3>4. ~IsReverse(r) => draft[x] + leg.amount >= 0
      <4>1. CASE leg.amount >= 0
        BY <1>0, <2>2, <3>2, <4>1 DEF TypeOK
      <4>2. CASE /\ applied[r] = 0 /\ rowOwner[leg.account] = Nobody
                 /\ Holding(r) /\ ~IsPlace(r) /\ LockedAccount(r) = leg.account
                 /\ leg.amount = 0 - req[r].amt /\ req[r].amt \in Nat
        <5>1. req[r].amt <= balance[x]
          <6>1. Besides(r) \in Nat
            BY HeldType DEF Besides
          <6>2. Besides(r) + req[r].amt <= balance[x]
            BY <1>0, <2>5, <3>3, <4>2 DEF Covered
          <6>. QED
            BY <1>0, <4>2, <6>1, <6>2 DEF TypeOK
        <5>2. draft[x] = balance[x]
          BY <1>0, <2>5, <4>2 DEF RowOK
        <5>. QED
          BY <1>0, <4>2, <5>1, <5>2 DEF TypeOK
      <4>. QED
        BY <2>2, <2>5, <4>1, <4>2
    <3>. QED
      BY <1>0, <2>1, <2>3, <3>1, <3>4 DEF Solvent
  <2>. QED
    BY <2>4, <2>5
<1>2. CASE Commits(r)
  <2>1. /\ rowOwner'[x] = IF rowOwner[x] = r THEN Nobody ELSE rowOwner[x]
        /\ draft'[x] = draft[x] /\ req' = req
        /\ balance'[x] = IF rowOwner[x] = r THEN draft[x] ELSE balance[x]
    BY <1>0, <1>2, RowEffects DEF Unlocked
  <2>2. balance'[x] >= 0
    <3>1. CASE advisory[x] # r
      BY <1>0, <2>1, <3>1, BalanceStep, TypeStep DEF Solvent, TypeOK
    <3>2. CASE advisory[x] = r
      <4>1. Holding(r)
        BY <1>0, <3>2 DEF LockInv
      <4>2. ~IsReverse(r)
        BY <4>1 DEF Holding, IsReverse
      <4>. QED
        BY <1>0, <2>1, <4>2 DEF Solvent
    <3>. QED
      BY <3>1, <3>2
  <2>. QED
    BY <1>0, <2>1, <2>2, NobodyAssumption DEF Solvent, IsReverse
<1>3. CASE Fails(r)
  <2>1. /\ rowOwner'[x] = IF rowOwner[x] = r THEN Nobody ELSE rowOwner[x]
        /\ draft'[x] = IF rowOwner[x] = r THEN balance[x] ELSE draft[x]
        /\ balance'[x] = balance[x] /\ req' = req
    BY <1>0, <1>3, RowEffects DEF Unlocked
  <2>. QED
    BY <1>0, <2>1, NobodyAssumption DEF Solvent, IsReverse
<1>4. CASE ~(Posts(r) \/ Commits(r) \/ Fails(r))
  <2>1. UNCHANGED <<rowOwner, draft, balance>>
    BY <1>4, RowEffects
  <2>2. ASSUME NEW s \in Requests, rowOwner[x] = s
        PROVE  IsReverse(s)' = IsReverse(s)
    BY <1>0, <2>2, BodiesAreFixed DEF RowOK, IsReverse
  <2>. QED
    BY <1>0, <2>1, <2>2 DEF Solvent
<1>. QED
  BY <1>1, <1>2, <1>3, <1>4

(* What a handler checked its request against stays covered: on the        *)
(* account it has locked nobody else takes money away or reserves any.     *)
LEMMA CoveredStep ==
  ASSUME IInv, NEW r \in Requests, AnyStep(r), NEW s \in Requests
  PROVE  Covered(s)'
<1>. TypeOK /\ SessionInv /\ LockInv /\ RowInv /\ HoldInv /\ FundsInv
  BY DEF IInv
<1>. SUFFICES ASSUME Holding(s)', LockedAccount(s)' \in Guarded'
              PROVE  /\ pc'[s] = "held" => seen'[s] <= balance'[LockedAccount(s)']
                     /\ pc'[s] \in {"posting", "after", "commit"} =>
                          Besides(s)' + req'[s].amt <= balance'[LockedAccount(s)']
  BY DEF Covered
<1>. PICK x \in Guarded' : x = LockedAccount(s)'
  OBVIOUS
<1>. x \in Guarded /\ x \in Accounts
  BY TakenBackStep
<1>. DEFINE h == Held(x, expired)
<1>0. Covered(s) /\ SessionOK(s) /\ LegsOK(s)
  BY DEF FundsInv, SessionInv
<1>1. CASE s = r /\ Locks(r)
  <2>1. pc'[s] = "posted"
    BY <1>1 DEF Locks, TakeAdvisory, TypeOK
  <2>. QED
    BY <2>1
<1>2. CASE ~(s = r /\ Locks(r))
  <2>1. Holding(s) /\ req'[s] = req[s] /\ LockedAccount(s) = x
    <3>1. Holding(s)
      BY <1>2, HoldingStep
    <3>. QED
      BY <3>1, LegsAreFixed, BodiesAreFixed DEF Holding, Active
  <2>2. /\ req[s].amt \in Nat /\ seen[s] \in Int /\ x \in Accounts
        /\ balance[x] \in Int /\ balance'[x] \in Int
    <3>1. req[s] \in RequestBodies
      BY <1>0, <2>1 DEF SessionOK, Holding
    <3>2. req[s].amt \in Nat
      BY <2>1, <3>1, KindOfBody, AmountAssumption
      DEF Holding, TransferRequests, PlaceRequests, CaptureRequests, Amounts
    <3>. QED
      BY <2>1, <3>2, TypeStep DEF TypeOK
  <2>3. /\ Besides(s) = IF IsCapture(s) THEN 0 ELSE h
        /\ Besides(s)' = IF IsCapture(s) THEN 0 ELSE Held(x, expired)'
    <3>1. IsCapture(s)' = IsCapture(s)
      BY <2>1 DEF IsCapture
    <3>2. Reserving(LockedAccount(s), expired)' = Reserving(x, expired)'
      BY <2>1 DEF Reserving
    <3>3. Held(LockedAccount(s), expired)' = Held(x, expired)'
      BY <3>2 DEF Held
    <3>4. Besides(s) = IF IsCapture(s) THEN 0 ELSE h
      BY <2>1 DEF Besides
    <3>5. Besides(s)' = IF IsCapture(s) THEN 0 ELSE Held(x, expired)'
      BY <3>1, <3>3 DEF Besides
    <3>. QED
      BY <3>4, <3>5
  <2>4. advisory[x] = s
    BY <2>1, <2>2 DEF LockInv
  <2>5. h \in Nat /\ Held(x, expired)' \in Nat
    BY HeldStep
  <2>6. s # r \/ ~(Commits(r) \/ Fails(r))
    BY HoldingStep
  <2>7. Held(x, expired)' <= h
    <3>1. ~(Places(r) /\ req[r].src = x)
      <4>. SUFFICES ASSUME Places(r), req[r].src = x PROVE FALSE
        OBVIOUS
      <4>1. Holding(r) /\ LockedAccount(r) = x
        BY DEF Places, Commits, IsPlace, IsCapture, Holding, LockedAccount
      <4>2. advisory[x] = r
        BY <2>2, <4>1 DEF LockInv
      <4>. QED
        BY <2>4, <2>6, <4>2 DEF Places
    <3>. QED
      BY <3>1, HeldStep
  <2>8. balance'[x] >= balance[x]
    <3>1. CASE s # r
      BY <2>1, <2>4, <3>1, BalanceStep
    <3>2. CASE s = r
      <4>1. balance' = balance
        BY <2>6, <3>2, RowEffects
      <4>. QED
        BY <2>2, <4>1
    <3>. QED
      BY <3>1, <3>2
  <2>9. /\ pc[s] = "held" => seen[s] <= balance[x]
        /\ pc[s] \in {"posting", "after", "commit"} => Besides(s) + req[s].amt <= balance[x]
    BY <1>0, <2>1 DEF Covered
  <2>10. CASE \/ pc'[s] = pc[s] /\ seen'[s] = seen[s]
              \/ /\ pc[s] \in {"posting", "after", "commit"}
                 /\ pc'[s] \in {"posting", "after", "commit"}
    <3>1. pc'[s] = "held" => pc[s] = "held" /\ seen'[s] = seen[s]
      BY <2>10
    <3>2. pc'[s] \in {"posting", "after", "commit"} => pc[s] \in {"posting", "after", "commit"}
      BY <2>10
    <3>. HIDE DEF h
    <3>. QED
      BY <2>1, <2>2, <2>3, <2>5, <2>7, <2>8, <2>9, <3>1, <3>2
  <2>11. CASE s = r /\ Reads(r)
    <3>1. pc'[s] = "held" /\ seen'[s] = balance[x]
      BY <2>1, <2>11 DEF Reads, ReadPosted, TypeOK
    <3>. HIDE DEF h
    <3>. QED
      BY <2>1, <2>2, <2>8, <3>1
  <2>12. CASE s = r /\ Decides(r)
    <3>1. pc[s] = "held" /\ pc'[s] \in {"posting", "commit"}
      BY <2>1, <2>12 DEF Decides, Goto, Holding, IsReverse, TypeOK
    <3>2. Besides(s) + req[s].amt <= seen[s]
      <4>1. CASE IsCapture(s)
        BY <2>2, <2>3, <2>12, <3>1, <4>1
        DEF Decides, IsTransfer, IsPlace, IsCapture
      <4>2. CASE ~IsCapture(s)
        <5>0. x = req[s].src
          BY <2>1, <4>2 DEF LockedAccount
        <5>1. seen[s] - Held(req[s].src, began[s]) >= req[s].amt
          BY <2>12, <3>1, <4>2
          DEF Decides, IsTransfer, IsPlace, IsCapture, IsReverse, Available
        <5>2. began[s] \subseteq expired
          BY DEF HoldInv
        <5>3. h <= Held(x, began[s]) /\ Held(x, began[s]) \in Nat
          BY <5>2, HeldLess, HeldType
        <5>4. seen[s] - Held(x, began[s]) >= req[s].amt
          BY <5>0, <5>1
        <5>. HIDE DEF h
        <5>. QED
          BY <2>2, <2>3, <2>5, <4>2, <5>3, <5>4
      <4>. QED
        BY <4>1, <4>2
    <3>. HIDE DEF h
    <3>. QED
      BY <2>1, <2>2, <2>3, <2>5, <2>7, <2>8, <2>9, <3>1, <3>2
  <2>. QED
    <3>1. CASE s # r
      BY <2>10, <3>1, StepsAreFrugal
    <3>2. CASE s = r /\ (Posts(r) \/ ReadAfterCapture(r))
      BY <2>10, <3>2 DEF Posts, PostLeg, ReadAfterCapture, TypeOK
    <3>3. CASE s = r /\ (Begins(r) \/ Answers(r))
      BY <2>1, <3>3 DEF Begins, Answers, Holding
    <3>4. CASE s = r /\ (Expire(r) \/ UNCHANGED vars)
      BY <2>10, <3>4 DEF Expire, vars, session
    <3>. QED
      BY <1>2, <2>6, <2>11, <2>12, <3>1, <3>2, <3>3, <3>4 DEF AnyStep, RequestStep
<1>. QED
  BY <1>1, <1>2

(* Funds stay covered.                                                     *)
LEMMA FundsStep ==
  ASSUME IInv, NEW r \in Requests, AnyStep(r)
  PROVE  FundsInv'
BY SolventStep, CoveredStep DEF FundsInv

-----------------------------------------------------------------------------
(* The invariant. *)

(* The opening state satisfies the invariant: nobody has begun, and every  *)
(* account opens with funds.                                               *)
LEMMA InitIInv ==
  ASSUME Init
  PROVE  IInv
<1>1. TypeOK
  BY OpeningAssumption DEF Init, TypeOK, HoldStates, Points, Outcomes
<1>2. SessionInv
  <2>. SUFFICES ASSUME NEW r \in Requests PROVE SessionOK(r) /\ HoldOK(r) /\ LegsOK(r)
    BY DEF SessionInv
  <2>1. /\ pc[r] = "idle" /\ req[r] = NoRequest /\ outcome[r] = "none"
        /\ applied[r] = 0 /\ holdState[r] = "none"
    BY DEF Init
  <2>2. r \notin Committed /\ r \notin Active
    BY <2>1 DEF Committed, Active
  <2>. QED
    BY <2>1, <2>2 DEF SessionOK, HoldOK, LegsOK
<1>3. LockInv
  BY NobodyAssumption DEF Init, LockInv, Holding
<1>4. KeyInv
  BY NobodyAssumption DEF Init, KeyInv, Committed
<1>5. RowInv
  BY NobodyAssumption DEF Init, RowInv, RowOK
<1>6. PostedInv
  BY NobodyAssumption DEF Init, PostedInv, PostedOK, Committed
<1>7. HoldInv
  BY DEF Init, HoldInv, Active, Committed
<1>8. FundsInv
  BY OpeningAssumption, NobodyAssumption
  DEF Init, FundsInv, Solvent, Covered, Holding, Guarded
<1>. QED
  BY <1>1, <1>2, <1>3, <1>4, <1>5, <1>6, <1>7, <1>8 DEF IInv

(* Every step of the system preserves the invariant.                       *)
LEMMA IInvStep ==
  ASSUME IInv, [Next]_vars
  PROVE  IInv'
<1>1. ASSUME NEW r \in Requests, AnyStep(r)
      PROVE  IInv'
  BY <1>1, TypeStep, SessionStep, LockStep, KeyStep, RowStep, PostedStep,
     HoldInvStep, FundsStep
  DEF IInv
<1>2. CASE UNCHANGED vars /\ Requests = {}
  BY <1>2, GuardStays DEF vars, IInv, TypeOK, SessionInv, LockInv, KeyInv, RowInv, RowOK,
    PostedInv, HoldInv, FundsInv, Solvent, Customers, ConversionAccounts, Committed
<1>3. CASE UNCHANGED vars /\ Requests # {}
  BY <1>1, <1>3 DEF AnyStep
<1>. QED
  BY <1>1, <1>2, <1>3, NextShapes DEF AnyStep

(* IInv is an invariant of the ledger, for any accounts, finitely many     *)
(* requests, any keys, amounts, currencies, rates and kinds of requests.   *)
THEOREM Invariance == Spec => []IInv
BY InitIInv, IInvStep, PTL DEF Spec

-----------------------------------------------------------------------------
(* What the invariant says of the code. *)

(* Every table and every local of a handler has its type at all times.     *)
THEOREM TypeCorrect == Spec => []TypeOK
<1>1. IInv => TypeOK
  BY DEF IInv
<1>. QED
  BY <1>1, Invariance, PTL

(* transfers_locking.py: between account_lock and the end of its           *)
(* transaction a handler is alone on the account whose funds it checks.    *)
THEOREM MutualExclusion == Spec => []OneCheckerPerAccount
<1>1. ASSUME IInv, NEW r \in Requests, NEW s \in Requests,
             Holding(r), Holding(s), LockedAccount(r) = LockedAccount(s)
      PROVE  r = s
  <2>1. LockedAccount(r) \in Accounts
    <3>1. r \in Active /\ req[r] \in RequestBodies
      BY <1>1 DEF IInv, SessionInv, SessionOK, Holding, Active
    <3>2. CASE IsCapture(r)
      <4>1. req[r] \in CaptureRequests
        BY <3>1, <3>2, KindOfBody DEF IsCapture
      <4>2. req[r].hold \in Requests /\ holdState[req[r].hold] # "none"
        BY <1>1, <3>1, <3>2, <4>1 DEF IInv, SessionInv, HoldOK, CaptureRequests
      <4>. QED
        BY <1>1, <3>2, <4>1, <4>2, HoldIsPlaced, CaptureLegsShape DEF IInv, LockedAccount
    <3>3. CASE ~IsCapture(r)
      BY <1>1, <3>1, <3>3, KindOfBody
      DEF Holding, IsCapture, LockedAccount, TransferRequests, PlaceRequests
    <3>. QED
      BY <3>2, <3>3
  <2>2. advisory[LockedAccount(r)] = r /\ advisory[LockedAccount(r)] = s
    BY <1>1, <2>1 DEF IInv, LockInv
  <2>. QED
    BY <2>2
<1>2. IInv => OneCheckerPerAccount
  BY <1>1 DEF OneCheckerPerAccount
<1>. QED
  BY <1>2, Invariance, PTL

(* idempotency_store.py: of all the requests that carry one key to one     *)
(* endpoint, the recorded one is committed and no other is.                *)
THEOREM KeysAreOnce == Spec => []OncePerKey
<1>1. ASSUME IInv, NEW r \in Requests, Keyed(r)
      PROVE  r \in Committed <=> idem[Slot(req[r])] = r
  <2>1. req[r] \in RequestBodies
    BY <1>1 DEF IInv, TypeOK, Keyed, Endpoints, NoRequest
  <2>2. Slot(req[r]) \in Slots
    BY <1>1, <2>1, SlotType DEF Keyed
  <2>. QED
    BY <1>1, <2>2 DEF IInv, KeyInv
<1>2. IInv => OncePerKey
  BY <1>1 DEF OncePerKey
<1>. QED
  BY <1>2, Invariance, PTL

(* transfers_service.py, holds_service.py: no interleaving of transfers,   *)
(* holds, captures, releases, reversals and crashes overdraws an account,  *)
(* except a conversion account and one that a reversal took money from.    *)
THEOREM FundsAreSafe == Spec => []NoOverdraft
<1>1. IInv => NoOverdraft
  BY DEF IInv, FundsInv, Solvent, NoOverdraft
<1>. QED
  BY <1>1, Invariance, PTL
-----------------------------------------------------------------------------
(* Money is conserved. *)

Own(c) == {a \in Accounts : CurrencyOf[a] = c}

(* g is f after transaction i of s, on the accounts of currency c.         *)
Books(f, g, c, s, i) == \A x \in Own(c) : f[x] \in Int /\ g[x] = f[x] + NetOn(<<s, i>>, x)

(* A transaction leaves the sum over the accounts of a currency alone.     *)
LEMMA PairMoves ==
  ASSUME IInv, NEW s \in Requests, pc[s] = "commit" \/ s \in Committed, NEW i \in Pairs(s),
         NEW c, NEW f, NEW g, Books(f, g, c, s, i)
  PROVE  SumFunctionOnSet(g, Own(c)) = SumFunctionOnSet(f, Own(c))
<1>. DEFINE own == Own(c)
            y == TransactionLegs(<<s, i>>)[1].account
            z == TransactionLegs(<<s, i>>)[2].account
            n == TransactionLegs(<<s, i>>)[2].amount
<1>1. IsFiniteSet(own)
  BY AccountAssumption, FS_Subset DEF Own
<1>2. /\ y \in own <=> z \in own
      /\ n \in Int /\ TransactionLegs(<<s, i>>)[1].amount = 0 - n
  BY PairBalances DEF SameCurrency, Own
<1>3. \A x \in own : /\ f[x] \in Int
                     /\ g[x] = f[x] + NetOn(<<s, i>>, x)
  BY DEF Books
<1>4. \A x \in own : NetOn(<<s, i>>, x) = (IF x = y THEN 0 - n ELSE 0) + (IF x = z THEN n ELSE 0)
  BY <1>2 DEF NetOn, On
<1>. HIDE DEF own, y, z, n
<1>5. Moves(f, g, own, y, z, n)
  BY <1>2, <1>3, <1>4 DEF Moves
<1>6. SumFunctionOnSet(g, own) = SumFunctionOnSet(f, own)
  BY <1>1, <1>2, <1>5, SumPair
<1>. QED
  BY <1>6 DEF own

(* No step makes or takes money of a currency.                             *)
LEMMA MoneyStep ==
  ASSUME IInv, NEW r \in Requests, AnyStep(r), NEW c
  PROVE  SumFunctionOnSet(balance', Own(c)) = SumFunctionOnSet(balance, Own(c))
<1>. DEFINE own == Own(c)
<1>0. TypeOK /\ SessionInv /\ TypeOK'
  BY TypeStep DEF IInv
<1>1. CASE ~Commits(r)
  BY <1>0, <1>1, RowEffects
<1>2. CASE Commits(r)
  <2>0. /\ pc[r] = "commit" /\ req[r] \in RequestBodies
        /\ \A x \in own : x \in Accounts /\ balance[x] \in Int /\ balance'[x] \in Int
    BY <1>0, <1>2 DEF Commits, SessionInv, SessionOK, TypeOK, Own
  <2>1. CASE IsPlace(r) \/ IsRelease(r)
    <3>1. \A x \in own : balance'[x] = balance[x]
      BY <1>2, <2>0, <2>1, CommitEffect
    <3>2. IsFiniteSet(own)
      BY AccountAssumption, FS_Subset DEF Own
    <3>. HIDE DEF own
    <3>3. SumFunctionOnSet(balance', own) = SumFunctionOnSet(balance, own)
      BY <2>0, <3>1, <3>2, SumAgree
    <3>. QED
      BY <3>3 DEF own
  <2>2. CASE IsReverse(r)
    <3>1. PICK s \in Requests, i \in {1, 2} : req[r].txn = <<s, i>>
      BY <2>0, <2>2, KindOfBody DEF IsReverse, ReverseRequests
    <3>2. Exists(req[r].txn)
      BY <1>0, <2>0, <2>2 DEF SessionInv, LegsOK
    <3>3. s \in Committed /\ i \in Pairs(s)
      BY <3>1, <3>2 DEF Exists, Pairs
    <3>4. \A x \in own : balance'[x] \in Int /\ balance[x] = balance'[x] + NetOn(<<s, i>>, x)
      <4>. SUFFICES ASSUME NEW x \in own
                    PROVE  balance[x] = balance'[x] + NetOn(<<s, i>>, x)
        BY <2>0
      <4>1. balance'[x] = balance[x] - NetOn(<<s, i>>, x)
        BY <1>2, <2>0, <2>2, <3>1, CommitEffect
      <4>2. NetOn(<<s, i>>, x) \in Int
        BY <3>3, PairBalances DEF NetOn, On
      <4>. QED
        BY <2>0, <4>1, <4>2
    <3>5. Books(balance', balance, c, s, i)
      BY <3>4 DEF Books
    <3>. QED
      BY <3>3, <3>5, PairMoves
  <2>3. CASE Pairs(r) = {1}
    <3>1. \A x \in own : balance[x] \in Int /\ balance'[x] = balance[x] + NetOn(<<r, 1>>, x)
      BY <1>2, <2>0, <2>3, CommitEffect
    <3>2. Books(balance, balance', c, r, 1) /\ 1 \in Pairs(r)
      BY <2>3, <3>1 DEF Books
    <3>. QED
      BY <2>0, <3>2, PairMoves
  <2>4. CASE Pairs(r) = {1, 2}
    <3>. DEFINE mid == [x \in own |-> balance[x] + NetOn(<<r, 1>>, x)]
    <3>1. \A x \in own : NetOn(<<r, 1>>, x) \in Int
      BY <2>0, <2>4, PairBalances DEF NetOn, On
    <3>2. \A x \in own : balance[x] \in Int /\ mid[x] = balance[x] + NetOn(<<r, 1>>, x)
      BY <2>0
    <3>3. \A x \in own : mid[x] \in Int /\ balance'[x] = mid[x] + NetOn(<<r, 2>>, x)
      BY <1>2, <2>0, <2>4, <3>1, CommitEffect
    <3>. HIDE DEF mid
    <3>4. Books(balance, mid, c, r, 1) /\ Books(mid, balance', c, r, 2)
      BY <3>2, <3>3 DEF Books
    <3>5. 1 \in Pairs(r) /\ 2 \in Pairs(r)
      BY <2>4
    <3>6. SumFunctionOnSet(mid, own) = SumFunctionOnSet(balance, own)
      BY <2>0, <3>4, <3>5, PairMoves
    <3>7. SumFunctionOnSet(balance', own) = SumFunctionOnSet(mid, own)
      BY <2>0, <3>4, <3>5, PairMoves
    <3>. QED
      BY <3>6, <3>7
  <2>5. IsTransfer(r) \/ IsCapture(r) => Pairs(r) = {1} \/ Pairs(r) = {1, 2}
    BY <2>0, PairBalances
  <2>. QED
    BY <2>0, <2>1, <2>2, <2>3, <2>4, <2>5, KindOfBody
    DEF IsTransfer, IsPlace, IsCapture, IsRelease, IsReverse
<1>. QED
  BY <1>1, <1>2

(* fx_service.py: whatever runs concurrently, fails or is reversed, the    *)
(* money of each currency, its conversion account included, adds up to     *)
(* what it was at the start.                                               *)
THEOREM MoneyIsConserved == Spec => []MoneyConserved
<1>1. Init => MoneyConserved
  BY DEF Init, MoneyConserved
<1>2. IInv /\ MoneyConserved /\ [Next]_vars => MoneyConserved'
  <2>. SUFFICES ASSUME IInv, MoneyConserved, [Next]_vars PROVE MoneyConserved'
    OBVIOUS
  <2>1. ASSUME NEW r \in Requests, AnyStep(r) PROVE MoneyConserved'
    <3>. SUFFICES ASSUME NEW c \in Currencies
                  PROVE  SumFunctionOnSet(balance', Own(c)) = SumFunctionOnSet(Opening, Own(c))
      BY DEF MoneyConserved, Own, Currencies
    <3>1. SumFunctionOnSet(balance, Own(c)) = SumFunctionOnSet(Opening, Own(c))
      BY DEF MoneyConserved, Own
    <3>. QED
      BY <2>1, <3>1, MoneyStep
  <2>2. CASE UNCHANGED vars
    BY <2>2 DEF vars, MoneyConserved
  <2>. QED
    BY <2>1, <2>2, NextShapes DEF AnyStep
<1>. QED
  BY <1>1, <1>2, Invariance, PTL DEF Spec

-----------------------------------------------------------------------------
(* The snapshot is the sum of the postings. *)

(* Which reversals there are of a transaction.                             *)
LEMMA ReversalsStep ==
  ASSUME IInv, NEW r \in Requests, AnyStep(r), NEW t \in Requests \X {1, 2}
  PROVE  /\ Cardinality(ReversalsOf(t)) \in Nat
         /\ ReversalsOf(t) # {} => Exists(t)
         /\ IF Commits(r) /\ IsReverse(r) /\ req[r].txn = t
            THEN Cardinality(ReversalsOf(t))' = Cardinality(ReversalsOf(t)) + 1
            ELSE ReversalsOf(t)' = ReversalsOf(t)
<1>0. TypeOK /\ SessionInv /\ PostedInv
  BY DEF IInv
<1>1. IsFiniteSet(ReversalsOf(t)) /\ Cardinality(ReversalsOf(t)) \in Nat
  <2>1. ReversalsOf(t) \subseteq Requests
    BY DEF ReversalsOf, Committed
  <2>. QED
    BY <2>1, RequestAssumption, FS_Subset, FS_CardinalityType
<1>2. ReversalsOf(t) # {} => Exists(t)
  BY <1>0 DEF PostedInv, PostedOK, ReversalsOf, Committed
<1>3. \A s \in Committed : req'[s] = req[s]
  BY <1>0, BodiesAreFixed DEF Committed, SessionInv, SessionOK
<1>4. CASE Commits(r) /\ IsReverse(r) /\ req[r].txn = t
  <2>1. r \notin Committed /\ Committed' = Committed \cup {r} /\ req' = req
    BY <1>0, <1>4, CommittedStep
  <2>2. r \notin ReversalsOf(t) /\ ReversalsOf(t)' = ReversalsOf(t) \cup {r}
    BY <1>4, <2>1 DEF ReversalsOf, IsReverse
  <2>3. Cardinality(ReversalsOf(t) \cup {r}) = Cardinality(ReversalsOf(t)) + 1
    BY <1>1, <2>2, FS_AddElement
  <2>. QED
    BY <1>1, <1>2, <1>4, <2>2, <2>3
<1>5. CASE ~(Commits(r) /\ IsReverse(r) /\ req[r].txn = t)
  <2>1. CASE Commits(r)
    BY <1>0, <1>1, <1>2, <1>5, <2>1, CommittedStep DEF ReversalsOf, IsReverse
  <2>2. CASE ~Commits(r)
    BY <1>0, <1>1, <1>2, <1>3, <1>5, <2>2, CommittedStep DEF ReversalsOf, IsReverse
  <2>. QED
    BY <2>1, <2>2
<1>. QED
  BY <1>4, <1>5

(* What transaction t still contributes to account x.                      *)
Share(t, x) == (1 - Cardinality(ReversalsOf(t))) * NetOn(t, x)

(* It changes only when a reversal of the transaction commits.             *)
LEMMA ShareStep ==
  ASSUME IInv, NEW r \in Requests, AnyStep(r), NEW x, NEW t \in Transactions
  PROVE  /\ Share(t, x) \in Int /\ NetOn(t, x) \in Int
         /\ Share(t, x)' =
              IF Commits(r) /\ IsReverse(r) /\ req[r].txn = t THEN Share(t, x) - NetOn(t, x)
                                                              ELSE Share(t, x)
<1>1. t \in Requests \X {1, 2} /\ Exists(t)
  BY DEF Transactions
<1>2. NetOn(t, x) \in Int
  <2>1. PICK s \in Requests, i \in {1, 2} : t = <<s, i>>
    BY <1>1
  <2>2. s \in Committed /\ i \in Pairs(s)
    BY <1>1, <2>1 DEF Exists, Pairs
  <2>3. TransactionLegs(t)[1].amount \in Int /\ TransactionLegs(t)[2].amount \in Int
    BY <2>1, <2>2, PairBalances
  <2>. QED
    BY <2>3 DEF NetOn, On
<1>3. NetOn(t, x)' = NetOn(t, x)
  <2>1. TransactionLegs(t)' = TransactionLegs(t)
    BY TransactionsStep
  <2>. QED
    BY <2>1 DEF NetOn, On
<1>. DEFINE n == NetOn(t, x)
            c == Cardinality(ReversalsOf(t))
<1>4. n \in Int /\ c \in Nat /\ n' = n
  BY <1>1, <1>2, <1>3, ReversalsStep
<1>5. Share(t, x) = (1 - c) * n /\ Share(t, x)' = (1 - c') * n'
  BY DEF Share
<1>6. IF Commits(r) /\ IsReverse(r) /\ req[r].txn = t THEN c' = c + 1 ELSE c' = c
  BY <1>1, ReversalsStep
<1>. HIDE DEF n, c
<1>7. (1 - c) * n \in Int /\ (1 - (c + 1)) * n = (1 - c) * n - n
  BY <1>4, Z3
<1>. QED
  BY <1>4, <1>5, <1>6, <1>7 DEF n

(* A commit changes the sum of the postings as it changes the snapshot,    *)
(* and nothing else changes either.                                        *)
LEMMA RecomputedStep ==
  ASSUME IInv, NEW r \in Requests, AnyStep(r), NEW x \in Accounts
  PROVE  /\ Recomputed(x) \in Int
         /\ Recomputed(x)' = Recomputed(x) + (balance'[x] - balance[x])
<1>. DEFINE old == Transactions
            new == Transactions'
            f == [t \in old |-> (1 - Cardinality(ReversalsOf(t))) * NetOn(t, x)]
            g == [t \in new |-> ((1 - Cardinality(ReversalsOf(t))) * NetOn(t, x))']
<1>1. Recomputed(x) = SumFunctionOnSet(f, old) /\ Recomputed(x)' = SumFunctionOnSet(g, new)
  BY DEF Recomputed
<1>2. /\ \A t \in old : f[t] = Share(t, x)
      /\ \A t \in new : g[t] = Share(t, x)'
  BY DEF Share
<1>3. /\ IsFiniteSet(old)
      /\ ~Commits(r) => new = old
      /\ Commits(r) => new = old \cup {<<r, i>> : i \in Pairs(r)}
      /\ Commits(r) => <<r, 1>> \notin old /\ <<r, 2>> \notin old
  BY TransactionsStep
<1>4. old \subseteq Requests \X {1, 2}
  BY DEF Transactions
<1>5. \A t \in old : /\ Share(t, x) \in Int /\ NetOn(t, x) \in Int
                     /\ Share(t, x)' =
                          IF Commits(r) /\ IsReverse(r) /\ req[r].txn = t
                          THEN Share(t, x) - NetOn(t, x) ELSE Share(t, x)
  BY ShareStep
<1>6. TypeOK /\ SessionInv /\ balance[x] \in Int
  BY DEF IInv, TypeOK
<1>. HIDE DEF old, new, f, g
<1>7. \A t \in old : f[t] \in Int
  BY <1>2, <1>5
<1>8. SumFunctionOnSet(f, old) \in Int
  BY <1>3, <1>7, SumType
<1>9. CASE \A t \in old : ~(Commits(r) /\ IsReverse(r) /\ req[r].txn = t)
  <2>1. \A t \in old : t \in new => f[t] \in Int /\ f[t] = g[t]
    BY <1>2, <1>5, <1>7, <1>9
  <2>2. CASE ~Commits(r)
    <3>1. SumFunctionOnSet(f, old) = SumFunctionOnSet(g, old)
      BY <1>3, <2>1, <2>2, SumAgree
    <3>2. balance'[x] = balance[x]
      BY <1>6, <2>2, RowEffects
    <3>. QED
      BY <1>1, <1>3, <1>6, <1>8, <2>2, <3>1, <3>2
  <2>3. CASE Commits(r)
    <3>1. old \subseteq new
      BY <1>3, <2>3
    <3>2. SumFunctionOnSet(f, old) = SumFunctionOnSet(g, old)
      BY <1>3, <2>1, <3>1, SumAgree
    <3>3. \A i \in Pairs(r) : g[<<r, i>>] = NetOn(<<r, i>>, x) /\ NetOn(<<r, i>>, x) \in Int
      <4>. SUFFICES ASSUME NEW i \in Pairs(r)
                    PROVE  g[<<r, i>>] = NetOn(<<r, i>>, x) /\ NetOn(<<r, i>>, x) \in Int
        OBVIOUS
      <4>. DEFINE t == <<r, i>>
      <4>1. i \in {1, 2} /\ t \in new /\ t \notin old
        BY <1>3, <2>3 DEF Pairs
      <4>2. NetOn(t, x) \in Int
        BY <2>3, PairBalances DEF NetOn, On, Commits
      <4>3. NetOn(t, x)' = NetOn(t, x)
        <5>1. TransactionLegs(t)' = TransactionLegs(t)
          BY <2>3, <4>1, TransactionsStep
        <5>. QED
          BY <5>1 DEF NetOn, On
      <4>4. ReversalsOf(t) = {} /\ ReversalsOf(t)' = ReversalsOf(t)
        <5>1. t \in Requests \X {1, 2} /\ ~Exists(t)
          BY <4>1 DEF Transactions, old
        <5>2. ~IsReverse(r)
          BY <2>3, PairBalances DEF Commits, IsReverse, IsTransfer, IsCapture
        <5>. QED
          BY <5>1, <5>2, ReversalsStep
      <4>5. Share(t, x)' = (1 - 0) * NetOn(t, x)
        <5>1. Share(t, x)' = (1 - Cardinality(ReversalsOf(t)')) * NetOn(t, x)'
          BY DEF Share
        <5>2. Cardinality(ReversalsOf(t)') = 0
          BY <4>4, FS_EmptySet, Zenon
        <5>. QED
          BY <4>3, <5>1, <5>2, Zenon
      <4>6. Share(t, x)' = NetOn(t, x)
        <5>. DEFINE n == NetOn(t, x)
        <5>1. n \in Int /\ Share(t, x)' = (1 - 0) * n
          BY <4>2, <4>5
        <5>. HIDE DEF n
        <5>2. (1 - 0) * n = n
          BY <5>1
        <5>. QED
          BY <5>1, <5>2 DEF n
      <4>. QED
        BY <1>2, <4>1, <4>2, <4>6
    <3>4. CASE Pairs(r) = {}
      <4>1. new = old
        BY <1>3, <2>3, <3>4
      <4>2. IsPlace(r) \/ IsRelease(r) \/ IsReverse(r)
        BY <1>6, <2>3, <3>4, PairBalances, KindOfBody
        DEF Commits, SessionInv, SessionOK, IsPlace, IsRelease, IsReverse, IsTransfer, IsCapture
      <4>3. ~IsReverse(r)
        <5>1. IsReverse(r) => req[r].txn \in old
          BY <1>6, <2>3, KindOfBody
          DEF Commits, SessionInv, SessionOK, LegsOK, IsReverse, ReverseRequests, Transactions, old
        <5>. QED
          BY <1>9, <2>3, <5>1
      <4>4. balance'[x] = balance[x]
        BY <2>3, <4>2, <4>3, CommitEffect
      <4>. QED
        BY <1>1, <1>6, <1>8, <3>2, <4>1, <4>4
    <3>5. CASE Pairs(r) = {1}
      <4>1. new = old \cup {<<r, 1>>}
        BY <1>3, <2>3, <3>5
      <4>2. SumFunctionOnSet(g, old \cup {<<r, 1>>}) = g[<<r, 1>>] + SumFunctionOnSet(g, old)
        <5>1. \A t \in old \cup {<<r, 1>>} : g[t] \in Int
          BY <2>1, <3>1, <3>3, <3>5
        <5>. QED
          BY <1>3, <2>3, <5>1, SumAdd
      <4>3. balance'[x] = balance[x] + NetOn(<<r, 1>>, x)
        BY <2>3, <3>5, CommitEffect
      <4>. QED
        BY <1>1, <1>6, <1>8, <3>2, <3>3, <3>5, <4>1, <4>2, <4>3
    <3>6. CASE Pairs(r) = {1, 2}
      <4>. DEFINE mid == old \cup {<<r, 1>>}
      <4>1. /\ new = mid \cup {<<r, 2>>} /\ IsFiniteSet(mid) /\ <<r, 2>> \notin mid
        <5>1. new = mid \cup {<<r, 2>>} /\ <<r, 2>> \notin mid
          BY <1>3, <2>3, <3>6
        <5>. QED
          BY <1>3, <5>1, FS_AddElement
      <4>2. \A t \in mid \cup {<<r, 2>>} : g[t] \in Int
        BY <2>1, <3>1, <3>3, <3>6
      <4>3. SumFunctionOnSet(g, mid) = g[<<r, 1>>] + SumFunctionOnSet(g, old)
        BY <1>3, <2>3, <4>2, SumAdd
      <4>. HIDE DEF mid
      <4>4. SumFunctionOnSet(g, mid \cup {<<r, 2>>}) = g[<<r, 2>>] + SumFunctionOnSet(g, mid)
        BY <4>1, <4>2, SumAdd
      <4>5. balance'[x] = balance[x] + NetOn(<<r, 1>>, x) + NetOn(<<r, 2>>, x)
        BY <2>3, <3>6, CommitEffect
      <4>. QED
        BY <1>1, <1>6, <1>8, <3>2, <3>3, <3>6, <4>1, <4>3, <4>4, <4>5
    <3>7. Pairs(r) = {} \/ Pairs(r) = {1} \/ Pairs(r) = {1, 2}
      BY <2>3, PairBalances DEF Commits
    <3>. QED
      BY <3>4, <3>5, <3>6, <3>7
  <2>. QED
    BY <2>2, <2>3
<1>10. CASE \E t \in old : Commits(r) /\ IsReverse(r) /\ req[r].txn = t
  <2>1. PICK t \in old : Commits(r) /\ IsReverse(r) /\ req[r].txn = t
    BY <1>10
  <2>2. new = old
    <3>1. Pairs(r) = {}
      BY <2>1, PairBalances DEF Commits, IsReverse, IsTransfer, IsCapture
    <3>. QED
      BY <1>3, <2>1, <3>1
  <2>3. balance'[x] = balance[x] - NetOn(t, x)
    BY <2>1, CommitEffect
  <2>4. SumFunctionOnSet(f, old) = f[t] + SumFunctionOnSet(f, old \ {t})
    BY <1>3, <1>7, <2>1, SumRemove
  <2>5. \A u \in old : g[u] \in Int /\ (u # t => g[u] = f[u])
    BY <1>2, <1>5, <1>7, <2>1, <2>2
  <2>6. SumFunctionOnSet(g, old) = g[t] + SumFunctionOnSet(g, old \ {t})
    BY <1>3, <2>1, <2>5, SumRemove
  <2>7. SumFunctionOnSet(f, old \ {t}) = SumFunctionOnSet(g, old \ {t})
        /\ SumFunctionOnSet(f, old \ {t}) \in Int
    <3>1. IsFiniteSet(old \ {t}) /\ \A u \in old \ {t} : f[u] \in Int /\ f[u] = g[u]
      BY <1>3, <1>7, <2>5, FS_RemoveElement
    <3>. QED
      BY <3>1, SumAgree, SumType
  <2>8. g[t] = f[t] - NetOn(t, x) /\ NetOn(t, x) \in Int /\ f[t] \in Int
    BY <1>2, <1>5, <1>7, <2>1, <2>2
  <2>9. Recomputed(x) \in Int /\ Recomputed(x)' = Recomputed(x) - NetOn(t, x)
    BY <1>1, <1>8, <2>2, <2>4, <2>6, <2>7, <2>8
  <2>. QED
    BY <1>6, <2>3, <2>8, <2>9
<1>. QED
  BY <1>9, <1>10

(* balances_service.recompute: whatever interleaves, crashes, is aborted   *)
(* or is reversed, more than once even, each snapshot row is its opening   *)
(* figure and the postings that were committed.                            *)
THEOREM SnapshotAddsUp == Spec => []SnapshotIsSumOfPostings
<1>1. Init => SnapshotIsSumOfPostings
  <2>. SUFFICES ASSUME Init, NEW x \in Accounts PROVE balance[x] = Opening[x] + Recomputed(x)
    BY DEF SnapshotIsSumOfPostings
  <2>. DEFINE f == [t \in Transactions |-> (1 - Cardinality(ReversalsOf(t))) * NetOn(t, x)]
  <2>1. Transactions = {}
    BY DEF Init, Transactions, Exists, Committed
  <2>2. Recomputed(x) = SumFunctionOnSet(f, Transactions)
    BY DEF Recomputed
  <2>. HIDE DEF f
  <2>3. Recomputed(x) = 0
    BY <2>1, <2>2, SumEmpty
  <2>4. balance[x] = Opening[x] /\ Opening[x] \in Int
    BY OpeningAssumption DEF Init
  <2>. QED
    BY <2>3, <2>4
<1>2. IInv /\ SnapshotIsSumOfPostings /\ [Next]_vars => SnapshotIsSumOfPostings'
  <2>. SUFFICES ASSUME IInv, SnapshotIsSumOfPostings, [Next]_vars PROVE SnapshotIsSumOfPostings'
    OBVIOUS
  <2>1. ASSUME NEW r \in Requests, AnyStep(r) PROVE SnapshotIsSumOfPostings'
    <3>. SUFFICES ASSUME NEW x \in Accounts
                  PROVE  balance'[x] = Opening[x] + Recomputed(x)'
      BY DEF SnapshotIsSumOfPostings
    <3>1. /\ Recomputed(x) \in Int
          /\ Recomputed(x)' = Recomputed(x) + (balance'[x] - balance[x])
      BY <2>1, RecomputedStep
    <3>2. balance[x] \in Int /\ balance'[x] \in Int
      BY <2>1, TypeStep DEF IInv, TypeOK
    <3>3. balance[x] = Opening[x] + Recomputed(x) /\ Opening[x] \in Int
      BY OpeningAssumption DEF SnapshotIsSumOfPostings
    <3>. QED
      BY <3>1, <3>2, <3>3
  <2>2. CASE UNCHANGED vars
    <3>1. \A x \in Accounts : Recomputed(x)' = Recomputed(x) /\ balance' = balance
      BY <2>2 DEF vars, Recomputed, Transactions, Exists, ReversalsOf, NetOn, On, Committed,
        TransactionLegs, MovementLegs, CaptureLegs, HeldAccount, IsReverse
    <3>. QED
      BY <3>1 DEF SnapshotIsSumOfPostings
  <2>. QED
    BY <2>1, <2>2, NextShapes DEF AnyStep
<1>. QED
  BY <1>1, <1>2, Invariance, PTL DEF Spec

-----------------------------------------------------------------------------
(* What is reserved is there. *)

(* A transfer or a capture that commits takes its amount from the account  *)
(* it has locked, and from no other customer anything.                     *)
LEMMA CommitDebits ==
  ASSUME IInv, NEW r \in Requests, AnyStep(r), Commits(r), IsTransfer(r) \/ IsCapture(r),
         NEW x \in Customers
  PROVE  /\ req[r].amt \in Nat
         /\ balance'[x] >= balance[x] - IF x = LockedAccount(r) THEN req[r].amt ELSE 0
<1>. DEFINE q == req[r]
            legs == LegsOf(r)
            src == LockedAccount(r)
<1>0. /\ TypeOK /\ SessionInv /\ pc[r] = "commit" /\ x \in Accounts
      /\ legs \in Seq(Legs)
      /\ balance[x] \in Int /\ balance'[x] = balance[x] + Posted(legs, Len(legs), x)
  BY CommitPosts DEF IInv, Commits, TypeOK, Customers
<1>1. q \in RequestBodies /\ legs = MovementLegs(q)
  BY <1>0 DEF SessionInv, SessionOK, LegsOf, IsTransfer, IsCapture, IsReverse
<1>2. /\ q.amt \in Nat
      /\ Len(legs) \in {2, 4}
      /\ legs[1] = Leg(src, 0 - q.amt)
      /\ \A i \in 2..Len(legs) : legs[i].account \in ConversionAccounts \/ legs[i].amount >= 0
  <2>1. CASE IsTransfer(r)
    <3>1. q \in TransferRequests /\ Postable(q)
      BY <1>0, <1>1, <2>1, KindOfBody DEF IsTransfer, SessionInv, LegsOK
    <3>2. legs = TransferLegs(q) /\ src = q.src
      BY <1>1, <2>1 DEF IsTransfer, IsCapture, MovementLegs, LockedAccount
    <3>3. q.amt \in Nat
      BY <3>1, AmountAssumption DEF TransferRequests, Amounts
    <3>. QED
      BY <3>1, <3>2, <3>3, TransferLegsShape
  <2>2. CASE IsCapture(r)
    <3>1. q \in CaptureRequests
      BY <1>1, <2>2, KindOfBody DEF IsCapture
    <3>2. q.hold \in Requests /\ holdState[q.hold] # "none"
      BY <1>0, <2>2, <3>1 DEF SessionInv, HoldOK, Active, CaptureRequests
    <3>3. legs = CaptureLegs(q) /\ src = HeldAccount(q)
      BY <1>1, <2>2 DEF IsCapture, MovementLegs, LockedAccount
    <3>4. q.amt \in Nat
      BY <3>1, AmountAssumption DEF CaptureRequests, Amounts
    <3>5. req[q.hold] \in PlaceRequests
      BY <1>0, <3>2, HoldIsPlaced
    <3>. QED
      BY <3>1, <3>3, <3>4, <3>5, CaptureLegsShape
  <2>. QED
    BY <2>1, <2>2
<1>. DEFINE due == IF x = src THEN q.amt ELSE 0
<1>. HIDE DEF legs, src
<1>3. On(legs[1], x) = 0 - due /\ due \in Nat
  BY <1>2 DEF On, Leg
<1>4. \A i \in 2..Len(legs) : On(legs[i], x) \in Nat
  <2>. SUFFICES ASSUME NEW i \in 2..Len(legs) PROVE On(legs[i], x) \in Nat
    OBVIOUS
  <2>1. legs[i] \in Legs
    BY <1>0
  <2>2. legs[i].amount \in Int
    BY <2>1 DEF Legs
  <2>3. legs[i].account = x => legs[i].amount >= 0
    BY <1>2 DEF Customers
  <2>. QED
    BY <2>2, <2>3 DEF On
<1>. HIDE DEF due
<1>5. Posted(legs, Len(legs), x) >= 0 - due /\ Posted(legs, Len(legs), x) \in Int
  <2>1. CASE Len(legs) = 2
    <3>1. Posted(legs, Len(legs), x) = On(legs[1], x) + On(legs[2], x)
      BY <1>0, <2>1, PostedInPairs
    <3>2. On(legs[2], x) \in Nat
      BY <1>4, <2>1
    <3>. QED
      BY <1>3, <3>1, <3>2
  <2>2. CASE Len(legs) = 4
    <3>1. Posted(legs, Len(legs), x) =
            On(legs[1], x) + On(legs[2], x) + (On(legs[3], x) + On(legs[4], x))
      BY <1>0, <2>2, PostedInPairs
    <3>. DEFINE second == On(legs[2], x)
                third == On(legs[3], x)
                fourth == On(legs[4], x)
    <3>2. second \in Nat /\ third \in Nat /\ fourth \in Nat
      BY <1>4, <2>2
    <3>3. Posted(legs, Len(legs), x) = 0 - due + second + (third + fourth)
      BY <1>3, <3>1
    <3>. HIDE DEF second, third, fourth
    <3>. QED
      BY <1>3, <3>2, <3>3
  <2>. QED
    BY <1>2, <2>1, <2>2
<1>6. balance'[x] >= balance[x] - due
  <2>. DEFINE m == Posted(legs, Len(legs), x)
  <2>1. m >= 0 - due /\ m \in Int /\ balance'[x] = balance[x] + m
    BY <1>0, <1>5
  <2>. HIDE DEF m
  <2>. QED
    BY <1>0, <1>3, <2>1
<1>. QED
  BY <1>2, <1>6 DEF due, src

OrderlyOn(x) == \A h \in Captured : req[h].src = x => Orderly(h)

(* A hold that is captured in order was still reserving its funds, and had *)
(* not been captured before.                                               *)
LEMMA OrderlyStep ==
  ASSUME IInv, NEW r \in Requests, AnyStep(r), NEW x, OrderlyOn(x)'
  PROVE  /\ OrderlyOn(x)
         /\ Commits(r) /\ IsCapture(r) /\ LockedAccount(r) = x =>
              req[r].hold \in Reserving(x, expired)
<1>0. TypeOK /\ SessionInv /\ HoldInv
  BY DEF IInv
<1>1. \A s \in Committed : s \in Committed' /\ req'[s] = req[s]
  BY <1>0, BodiesAreFixed DEF Committed, SessionInv, SessionOK
<1>2. Captured \subseteq Captured' /\ Released \subseteq Released'
  BY <1>1 DEF Captured, Released, IsCapture, IsRelease
<1>3. expired \subseteq expired'
  BY DEF AnyStep, RequestStep, Begins, Answers, Locks, Reads, Decides, Posts,
       ReadAfterCapture, Commits, Fails, Open, Answer, TakeAdvisory, ReadPosted, Goto,
       PostLeg, Commit, Rollback, EndSession, Expire, vars, tables
<1>4. ASSUME NEW h PROVE CapturesOf(h) \subseteq CapturesOf(h)'
  BY <1>1 DEF CapturesOf, IsCapture
<1>5. ASSUME NEW h \in Captured', req'[h].src = x
      PROVE  /\ h \notin expired' /\ h \notin Released'
             /\ \E s : CapturesOf(h)' = {s}
  <2>1. Orderly(h)'
    BY <1>5 DEF OrderlyOn
  <2>2. IsFiniteSet(CapturesOf(h)')
    <3>1. CapturesOf(h)' \subseteq Requests
      BY DEF CapturesOf, Committed
    <3>. QED
      BY <3>1, RequestAssumption, FS_Subset
  <2>. QED
    BY <2>1, <2>2, FS_Singleton DEF Orderly
<1>6. OrderlyOn(x)
  <2>. SUFFICES ASSUME NEW h \in Captured, req[h].src = x PROVE Orderly(h)
    BY DEF OrderlyOn
  <2>0. req'[h].src = x
    <3>1. PICK s \in Committed : IsCapture(s) /\ h = req[s].hold
      BY DEF Captured
    <3>2. s \in Requests /\ req[s] \in CaptureRequests
      BY <1>0, <3>1, KindOfBody DEF IsCapture, Committed, SessionInv, SessionOK
    <3>3. h \in Requests /\ pc[h] # "idle"
      BY <1>0, <3>1, <3>2 DEF CaptureRequests, SessionInv, SessionOK, HoldOK, Committed
    <3>. QED
      BY <1>0, <3>3, BodiesAreFixed
  <2>1. PICK s : CapturesOf(h)' = {s}
    BY <1>2, <1>5, <2>0
  <2>2. CapturesOf(h) # {}
    BY DEF Captured, CapturesOf
  <2>3. CapturesOf(h) = {s}
    BY <1>4, <2>1, <2>2
  <2>4. Cardinality(CapturesOf(h)) = 1
    BY <2>3, FS_Singleton
  <2>. QED
    BY <1>2, <1>3, <1>5, <2>0, <2>4 DEF Orderly
<1>7. ASSUME Commits(r), IsCapture(r), LockedAccount(r) = x
      PROVE  req[r].hold \in Reserving(x, expired)
  <2>. PICK h : h = req[r].hold
    OBVIOUS
  <2>1. /\ r \notin Committed /\ Committed' = Committed \cup {r} /\ req' = req
        /\ req[r] \in CaptureRequests
    BY <1>0, <1>7, CommittedStep, KindOfBody DEF IsCapture
  <2>2. h \in Requests /\ holdState[h] # "none"
    BY <1>0, <1>7, <2>1 DEF SessionInv, HoldOK, Active, Commits, CaptureRequests
  <2>3. r \in CapturesOf(h)' /\ h \in Captured' /\ req'[h].src = x
    BY <1>7, <2>1 DEF CapturesOf, Captured, IsCapture, LockedAccount, HeldAccount
  <2>4. h \notin Captured
    <3>. SUFFICES ASSUME NEW s \in CapturesOf(h) PROVE FALSE
      BY DEF Captured, CapturesOf
    <3>1. s \in CapturesOf(h)' /\ s # r
      BY <1>4, <2>1 DEF CapturesOf
    <3>2. PICK u : CapturesOf(h)' = {u}
      BY <1>5, <2>3
    <3>. QED
      BY <2>3, <3>1, <3>2
  <2>5. h \notin Released /\ h \notin expired
    BY <1>2, <1>3, <1>5, <2>3
  <2>6. holdState[h] = "active"
    BY <1>0, <2>2, <2>4, <2>5 DEF HoldInv, TypeOK, HoldStates
  <2>7. LockedAccount(r) = req[h].src
    BY <1>7 DEF LockedAccount, HeldAccount
  <2>8. h \in Reserving(x, expired)
    BY <1>7, <2>2, <2>5, <2>6, <2>7 DEF Reserving
  <2>. QED
    BY <2>8
<1>. QED
  BY <1>6, <1>7

(* Reserved funds are still there after a step.                            *)
LEMMA ReservedFundsStep ==
  ASSUME IInv, ReservedFundsCovered, NEW r \in Requests, AnyStep(r)
  PROVE  ReservedFundsCovered'
<1>. SUFFICES ASSUME NEW x \in Guarded', OrderlyOn(x)'
              PROVE  balance'[x] >= Held(x, expired)'
  BY DEF ReservedFundsCovered, OrderlyOn
<1>1. x \in Guarded /\ x \in Customers /\ x \in Accounts
  BY TakenBackStep
<1>0. /\ TypeOK /\ SessionInv /\ LockInv /\ RowInv /\ HoldInv /\ FundsInv /\ x \in Accounts
      /\ balance[x] \in Int /\ balance'[x] \in Int
  BY <1>1, TypeStep DEF IInv, TypeOK
<1>2. balance[x] >= Held(x, expired)
  BY <1>1, OrderlyStep DEF ReservedFundsCovered, OrderlyOn
<1>3. Held(x, expired) \in Nat /\ Held(x, expired)' \in Nat
  BY <1>0, HeldStep
<1>. DEFINE old == Held(x, expired)
            new == Held(x, expired)'
<1>4. CASE ~Commits(r)
  <2>1. balance' = balance
    BY <1>0, <1>4, RowEffects
  <2>2. new <= old
    BY <1>0, <1>4, HeldStep DEF Places
  <2>. HIDE DEF old, new
  <2>. QED
    BY <1>0, <1>2, <1>3, <2>1, <2>2 DEF old, new
<1>5. CASE Commits(r)
  <2>0. pc[r] = "commit" /\ req[r] \in RequestBodies /\ Covered(r) /\ ~Expire(r)
    BY <1>0, <1>5 DEF Commits, Commit, EndSession, Expire, session, TypeOK, SessionInv,
      SessionOK, FundsInv
  <2>1. CASE IsRelease(r)
    <3>1. balance'[x] = balance[x]
      BY <1>0, <1>5, <2>1, CommitEffect
    <3>2. new <= old
      BY <1>0, <2>1, HeldStep DEF Places, IsPlace, IsRelease
    <3>. QED
      BY <1>0, <1>2, <1>3, <3>1, <3>2
  <2>2. CASE IsPlace(r)
    <3>1. balance'[x] = balance[x]
      BY <1>0, <1>5, <2>2, CommitEffect
    <3>2. /\ req[r].amt \in Nat
          /\ new = old + IF req[r].src = x /\ r \notin expired THEN req[r].amt ELSE 0
      BY <1>0, <1>5, <2>2, HeldStep DEF Places
    <3>3. req[r].src = x => old + req[r].amt <= balance[x]
      BY <1>1, <2>0, <2>2 DEF Covered, Holding, LockedAccount, IsPlace, IsCapture, Besides
    <3>. QED
      BY <1>0, <1>2, <1>3, <3>1, <3>2, <3>3
  <2>3. CASE IsTransfer(r)
    <3>1. new = old
      <4>1. ~Places(r) /\ ~Resolves(r)
        BY <2>3 DEF Places, Resolves, IsPlace, IsCapture, IsRelease, IsTransfer
      <4>. QED
        BY <1>0, <2>0, <4>1, HeldStep
    <3>2. /\ req[r].amt \in Nat
          /\ balance'[x] >= balance[x] - IF x = LockedAccount(r) THEN req[r].amt ELSE 0
      BY <1>1, <1>5, <2>3, CommitDebits
    <3>3. x = LockedAccount(r) => old + req[r].amt <= balance[x]
      BY <1>1, <2>0, <2>3 DEF Covered, Holding, IsTransfer, IsCapture, Besides
    <3>. QED
      BY <1>0, <1>2, <1>3, <3>1, <3>2, <3>3
  <2>4. CASE IsCapture(r)
    <3>. DEFINE h == req[r].hold
                n == req[h].amt
    <3>1. x = LockedAccount(r) => h \in Reserving(x, expired)
      BY <1>5, <2>4, OrderlyStep
    <3>2. x = LockedAccount(r) => n \in Nat /\ req[r].amt <= n
      BY <1>0, <2>0, <2>4, <3>1, ReservingType, AmountAssumption
      DEF HoldInv, Active, Amounts
    <3>3. /\ req[r].amt \in Nat
          /\ balance'[x] >= balance[x] - IF x = LockedAccount(r) THEN req[r].amt ELSE 0
      BY <1>1, <1>5, <2>4, CommitDebits
    <3>4. new = old - IF h \in Reserving(x, expired) THEN n ELSE 0
      BY <1>0, <1>5, <2>4, HeldStep DEF Resolves
    <3>5. CASE x = LockedAccount(r)
      <4>. HIDE DEF h, n
      <4>. QED
        BY <1>0, <1>2, <1>3, <3>1, <3>2, <3>3, <3>4, <3>5
    <3>6. CASE x # LockedAccount(r)
      <4>1. new <= old
        BY <1>0, <2>4, HeldStep DEF Places, IsPlace, IsCapture
      <4>. QED
        BY <1>0, <1>2, <1>3, <3>3, <3>6, <4>1
    <3>. QED
      BY <3>5, <3>6
  <2>5. CASE IsReverse(r)
    <3>1. new = old
      <4>1. ~Places(r) /\ ~Resolves(r)
        BY <2>5 DEF Places, Resolves, IsPlace, IsCapture, IsRelease, IsReverse
      <4>. QED
        BY <1>0, <2>0, <4>1, HeldStep
    <3>2. advisory[x] # r
      BY <1>0, <2>5 DEF LockInv, Holding, IsReverse
    <3>3. balance'[x] >= balance[x]
      BY <3>2, BalanceStep
    <3>. QED
      BY <1>0, <1>2, <1>3, <3>1, <3>3
  <2>. QED
    BY <2>0, <2>1, <2>2, <2>3, <2>4, <2>5, KindOfBody
    DEF IsTransfer, IsPlace, IsCapture, IsRelease, IsReverse
<1>. QED
  BY <1>4, <1>5

(* DECISIONS.md, available-vs-posted-split: as long as every captured hold *)
(* on an account was captured once, in time and without a release, and no  *)
(* reversal took money back from it, no interleaving lets it fall below    *)
(* what its active holds reserve.                                          *)
THEOREM ReservationsAreSafe == Spec => []ReservedFundsCovered
<1>1. Init => ReservedFundsCovered
  <2>. SUFFICES ASSUME Init, NEW x \in Accounts PROVE balance[x] >= Held(x, expired)
    BY DEF ReservedFundsCovered, Guarded
  <2>. DEFINE f == [h \in Reserving(x, expired) |-> req[h].amt]
  <2>1. Reserving(x, expired) = {}
    BY DEF Init, Reserving
  <2>2. Held(x, expired) = SumFunctionOnSet(f, Reserving(x, expired))
    BY DEF Held
  <2>. HIDE DEF f
  <2>3. Held(x, expired) = 0
    BY <2>1, <2>2, SumEmpty
  <2>. QED
    BY <2>3, OpeningAssumption DEF Init
<1>2. IInv /\ ReservedFundsCovered /\ [Next]_vars => ReservedFundsCovered'
  <2>. SUFFICES ASSUME IInv, ReservedFundsCovered, [Next]_vars PROVE ReservedFundsCovered'
    OBVIOUS
  <2>1. CASE UNCHANGED vars
    <3>1. \A x \in Accounts : Held(x, expired)' = Held(x, expired)
      BY <2>1 DEF vars, Held, Reserving
    <3>2. /\ balance' = balance /\ req' = req /\ expired' = expired
          /\ Committed' = Committed
      BY <2>1 DEF vars, Committed
    <3>3. /\ Captured' = Captured /\ Released' = Released
          /\ \A h : CapturesOf(h)' = CapturesOf(h)
      BY <3>2 DEF Captured, Released, CapturesOf, IsCapture, IsRelease
    <3>4. \A h : Orderly(h)' <=> Orderly(h)
      BY <3>2, <3>3 DEF Orderly
    <3>5. Guarded' = Guarded
      BY <2>1, GuardStays
    <3>6. ASSUME NEW x \in Guarded', OrderlyOn(x)' PROVE balance'[x] >= Held(x, expired)'
      <4>1. OrderlyOn(x) /\ x \in Guarded /\ x \in Accounts
        BY <3>2, <3>3, <3>4, <3>5, <3>6 DEF OrderlyOn, Guarded
      <4>2. balance[x] >= Held(x, expired)
        BY <4>1 DEF ReservedFundsCovered, OrderlyOn
      <4>. QED
        BY <3>1, <3>2, <4>1, <4>2
    <3>. QED
      BY <3>6 DEF ReservedFundsCovered, OrderlyOn
  <2>. QED
    BY <2>1, ReservedFundsStep, NextShapes DEF AnyStep
<1>. QED
  BY <1>1, <1>2, Invariance, PTL DEF Spec

-----------------------------------------------------------------------------
(* The ledger implements ReservedPayments. *)

(* What LedgerRefinement substitutes for the abstract variables. *)
ReservedNow == [x \in Accounts |-> Held(x, expired)]
SettledNow == {s \in Slots : idem[s] # Nobody}
MovesNow == {MoveOf(t) : t \in Transactions}
ExemptNow == ConversionAccounts \cup TakenBack

(* Money carried from one account to another. *)
LEMMA CarryOn ==
  ASSUME NEW f \in [Accounts -> Int], NEW m,
         m.from \in Accounts, m.to \in Accounts, m.amount \in Int
  PROVE  /\ Abstract!Carry(f, m) \in [Accounts -> Int]
         /\ \A x \in Accounts :
              Abstract!Carry(f, m)[x] = f[x] + (IF x = m.from THEN 0 - m.amount ELSE 0)
                                             + (IF x = m.to THEN m.amount ELSE 0)
<1>. DEFINE g == Abstract!Carry(f, m)
<1>1. g = [[f EXCEPT ![m.from] = @ - m.amount] EXCEPT ![m.to] = @ + m.amount]
  BY DEF Abstract!Carry
<1>. HIDE DEF g
<1>2. g \in [Accounts -> Int]
  BY <1>1
<1>3. \A x \in Accounts : g[x] = f[x] + (IF x = m.from THEN 0 - m.amount ELSE 0)
                                      + (IF x = m.to THEN m.amount ELSE 0)
  BY <1>1
<1>. QED
  BY <1>2, <1>3 DEF g

(* A transaction is a movement within a currency.                          *)
LEMMA PairIsMove ==
  ASSUME IInv, NEW s \in Requests, pc[s] = "commit" \/ s \in Committed, NEW i \in Pairs(s)
  PROVE  LET m == MoveOf(<<s, i>>) IN
         /\ m.from \in Accounts /\ m.to \in Accounts /\ m.amount \in Int
         /\ \A x : NetOn(<<s, i>>, x) =
                     (IF x = m.from THEN 0 - m.amount ELSE 0) + (IF x = m.to THEN m.amount ELSE 0)
<1>. DEFINE l1 == TransactionLegs(<<s, i>>)[1]
            l2 == TransactionLegs(<<s, i>>)[2]
            m == MoveOf(<<s, i>>)
<1>1. /\ l1.account \in Accounts /\ l2.account \in Accounts
      /\ l2.amount \in Nat /\ l1.amount = 0 - l2.amount
  BY PairBalances
<1>2. m = [from |-> l1.account, to |-> l2.account, amount |-> l2.amount]
  BY DEF MoveOf
<1>3. \A x : NetOn(<<s, i>>, x) = On(l1, x) + On(l2, x)
  BY DEF NetOn
<1>. HIDE DEF l1, l2, m
<1>4. m.from = l1.account /\ m.to = l2.account /\ m.amount = l2.amount
  BY <1>2
<1>. QED
  BY <1>1, <1>3, <1>4 DEF On, m

(* A commit carries the amounts of its transactions, or carries back the   *)
(* one it reverses.                                                        *)
LEMMA CommitCarries ==
  ASSUME IInv, NEW r \in Requests, AnyStep(r), Commits(r)
  PROVE  /\ IsPlace(r) \/ IsRelease(r) => balance' = balance
         /\ Pairs(r) = {1} => balance' = Abstract!Carry(balance, MoveOf(<<r, 1>>))
         /\ Pairs(r) = {1, 2} =>
              balance' = Abstract!Carry(Abstract!Carry(balance, MoveOf(<<r, 1>>)), MoveOf(<<r, 2>>))
         /\ IsReverse(r) =>
              LET m == MoveOf(req[r].txn) IN
              /\ m \in MovesNow
              /\ balance' = Abstract!Carry(balance, Abstract!Move(m.to, m.from, m.amount))
<1>0. /\ pc[r] = "commit" /\ req[r] \in RequestBodies /\ SessionInv
      /\ balance \in [Accounts -> Int] /\ balance' \in [Accounts -> Int]
  BY TypeStep DEF IInv, TypeOK, Commits, SessionInv, SessionOK
<1>1. CASE IsPlace(r) \/ IsRelease(r)
  <2>1. \A x \in Accounts : balance'[x] = balance[x]
    BY <1>1, CommitEffect
  <2>2. balance' = balance
    BY <1>0, <2>1
  <2>3. Pairs(r) = {} /\ ~IsReverse(r)
    BY <1>1 DEF IsPlace, IsRelease, IsReverse, Pairs, MovementLegs
  <2>. QED
    BY <2>2, <2>3
<1>2. ASSUME Pairs(r) = {1}
      PROVE  balance' = Abstract!Carry(balance, MoveOf(<<r, 1>>))
  <2>. DEFINE m == MoveOf(<<r, 1>>)
              g == Abstract!Carry(balance, m)
  <2>1. /\ m.from \in Accounts /\ m.to \in Accounts /\ m.amount \in Int
        /\ \A x : NetOn(<<r, 1>>, x) =
                    (IF x = m.from THEN 0 - m.amount ELSE 0) + (IF x = m.to THEN m.amount ELSE 0)
    BY <1>0, <1>2, PairIsMove
  <2>2. \A x \in Accounts : balance'[x] = balance[x] + NetOn(<<r, 1>>, x)
    BY <1>2, CommitEffect
  <2>. HIDE DEF m
  <2>3. /\ g \in [Accounts -> Int]
        /\ \A x \in Accounts : g[x] = balance[x] + (IF x = m.from THEN 0 - m.amount ELSE 0)
                                                 + (IF x = m.to THEN m.amount ELSE 0)
    BY <1>0, <2>1, CarryOn
  <2>. HIDE DEF g
  <2>4. ASSUME NEW x \in Accounts PROVE balance'[x] = g[x]
    BY <1>0, <2>1, <2>2, <2>3
  <2>5. balance' = g
    BY <1>0, <2>3, <2>4
  <2>. QED
    BY <2>5 DEF g, m
<1>3. ASSUME Pairs(r) = {1, 2}
      PROVE  balance' =
               Abstract!Carry(Abstract!Carry(balance, MoveOf(<<r, 1>>)), MoveOf(<<r, 2>>))
  <2>. DEFINE m == MoveOf(<<r, 1>>)
              o == MoveOf(<<r, 2>>)
              g == Abstract!Carry(balance, m)
              h == Abstract!Carry(g, o)
  <2>1. /\ m.from \in Accounts /\ m.to \in Accounts /\ m.amount \in Int
        /\ \A x : NetOn(<<r, 1>>, x) =
                    (IF x = m.from THEN 0 - m.amount ELSE 0) + (IF x = m.to THEN m.amount ELSE 0)
    BY <1>0, <1>3, PairIsMove
  <2>2. /\ o.from \in Accounts /\ o.to \in Accounts /\ o.amount \in Int
        /\ \A x : NetOn(<<r, 2>>, x) =
                    (IF x = o.from THEN 0 - o.amount ELSE 0) + (IF x = o.to THEN o.amount ELSE 0)
    BY <1>0, <1>3, PairIsMove
  <2>3. \A x \in Accounts : balance'[x] = balance[x] + NetOn(<<r, 1>>, x) + NetOn(<<r, 2>>, x)
    BY <1>3, CommitEffect
  <2>. HIDE DEF m, o
  <2>4. /\ g \in [Accounts -> Int]
        /\ \A x \in Accounts : g[x] = balance[x] + (IF x = m.from THEN 0 - m.amount ELSE 0)
                                                 + (IF x = m.to THEN m.amount ELSE 0)
    BY <1>0, <2>1, CarryOn
  <2>. HIDE DEF g
  <2>5. /\ h \in [Accounts -> Int]
        /\ \A x \in Accounts : h[x] = g[x] + (IF x = o.from THEN 0 - o.amount ELSE 0)
                                           + (IF x = o.to THEN o.amount ELSE 0)
    BY <2>2, <2>4, CarryOn
  <2>. HIDE DEF h
  <2>6. ASSUME NEW x \in Accounts PROVE balance'[x] = h[x]
    BY <1>0, <2>1, <2>2, <2>3, <2>4, <2>5
  <2>7. balance' = h
    BY <1>0, <2>5, <2>6
  <2>. QED
    BY <2>7 DEF h, g, m, o
<1>4. CASE IsReverse(r)
  <2>. DEFINE t == req[r].txn
              m == MoveOf(t)
              g == Abstract!Carry(balance, Abstract!Move(m.to, m.from, m.amount))
  <2>1. t \in Requests \X {1, 2} /\ Exists(t)
    BY <1>0, <1>4, KindOfBody DEF IsReverse, SessionInv, LegsOK, ReverseRequests
  <2>2. t \in Transactions /\ m \in MovesNow
    BY <2>1 DEF Transactions, MovesNow
  <2>3. PICK s \in Requests, i \in {1, 2} : t = <<s, i>>
    BY <2>1
  <2>4. s \in Committed /\ i \in Pairs(s)
    BY <2>1, <2>3 DEF Exists, Pairs
  <2>5. /\ m.from \in Accounts /\ m.to \in Accounts /\ m.amount \in Int
        /\ \A x : NetOn(t, x) =
                    (IF x = m.from THEN 0 - m.amount ELSE 0) + (IF x = m.to THEN m.amount ELSE 0)
    BY <2>3, <2>4, PairIsMove
  <2>6. \A x \in Accounts : balance'[x] = balance[x] - NetOn(t, x)
    BY <1>4, CommitEffect
  <2>. HIDE DEF m, t
  <2>7. /\ g \in [Accounts -> Int]
        /\ \A x \in Accounts : g[x] = balance[x] + (IF x = m.to THEN 0 - m.amount ELSE 0)
                                                 + (IF x = m.from THEN m.amount ELSE 0)
    <3>. DEFINE u == Abstract!Move(m.to, m.from, m.amount)
    <3>1. u.from = m.to /\ u.to = m.from /\ u.amount = m.amount
      BY DEF Abstract!Move
    <3>. HIDE DEF u
    <3>2. /\ Abstract!Carry(balance, u) \in [Accounts -> Int]
          /\ \A x \in Accounts :
               Abstract!Carry(balance, u)[x] = balance[x] + (IF x = u.from THEN 0 - u.amount ELSE 0)
                                                          + (IF x = u.to THEN u.amount ELSE 0)
      BY <1>0, <2>5, <3>1, CarryOn
    <3>. QED
      BY <3>1, <3>2 DEF u
  <2>. HIDE DEF g
  <2>8. ASSUME NEW x \in Accounts PROVE balance'[x] = g[x]
    BY <1>0, <2>5, <2>6, <2>7
  <2>9. balance' = g
    BY <1>0, <2>7, <2>8
  <2>10. Pairs(r) = {} /\ ~IsPlace(r) /\ ~IsRelease(r)
    BY <1>4 DEF IsPlace, IsRelease, IsReverse, Pairs, MovementLegs
  <2>. QED
    BY <2>2, <2>9, <2>10 DEF g, m, t
<1>. QED
  BY <1>0, <1>1, <1>2, <1>3, <1>4

(* The transactions of a handler that commits: a transfer within a         *)
(* currency and a capture have one, a conversion has its two halves.       *)
LEMMA CommitMoves ==
  ASSUME IInv, NEW r \in Requests, Commits(r), IsTransfer(r) \/ IsCapture(r)
  PROVE  LET q == req[r]
             a == LockedAccount(r)
             c == CurrencyOf[a]
             d == CurrencyOf[q.dst]
         IN
         /\ a \in Accounts /\ q.dst \in Accounts /\ q.amt \in Amounts /\ q.amt \in Nat
         /\ IsCapture(r) => c = d
         /\ c = d => Pairs(r) = {1} /\ MoveOf(<<r, 1>>) = Abstract!Move(a, q.dst, q.amt)
         /\ c # d =>
              /\ <<c, d>> \in DOMAIN Converted /\ {c, d} \subseteq DOMAIN ConversionAccount
              /\ Pairs(r) = {1, 2}
              /\ MoveOf(<<r, 1>>) = Abstract!Move(a, ConversionAccount[c], q.amt)
              /\ MoveOf(<<r, 2>>) =
                   Abstract!Move(ConversionAccount[d], q.dst, Converted[<<c, d>>][q.amt])
<1>. DEFINE q == req[r]
            a == LockedAccount(r)
            legs == MovementLegs(q)
<1>0. /\ TypeOK /\ SessionInv /\ HoldInv /\ pc[r] = "commit"
      /\ q \in RequestBodies /\ r \in Active
  BY DEF IInv, Commits, SessionInv, SessionOK, Active
<1>1. \A i \in {1, 2} :
        MoveOf(<<r, i>>) =
          [from |-> legs[2 * i - 1].account, to |-> legs[2 * i].account,
           amount |-> legs[2 * i].amount]
  BY DEF MoveOf, TransactionLegs
<1>2. ASSUME NEW y, NEW z, NEW n, legs = Entry(y, z, n)
      PROVE  Pairs(r) = {1} /\ MoveOf(<<r, 1>>) = Abstract!Move(y, z, n)
  <2>1. Len(legs) = 2 /\ legs[1] = Leg(y, 0 - n) /\ legs[2] = Leg(z, n)
    BY <1>2 DEF Entry
  <2>2. Pairs(r) = {1}
    BY <2>1 DEF Pairs
  <2>3. MoveOf(<<r, 1>>) =
          [from |-> legs[1].account, to |-> legs[2].account, amount |-> legs[2].amount]
    BY <1>1
  <2>. QED
    BY <2>1, <2>2, <2>3 DEF Leg, Abstract!Move
<1>3. CASE IsTransfer(r)
  <2>1. /\ q \in TransferRequests /\ Postable(q) /\ legs = TransferLegs(q)
        /\ a = q.src /\ ~IsCapture(r)
    BY <1>0, <1>3, KindOfBody
    DEF IsTransfer, IsCapture, MovementLegs, LockedAccount, SessionInv, LegsOK
  <2>2. q.src \in Accounts /\ q.dst \in Accounts /\ q.amt \in Amounts /\ q.amt \in Nat
    BY <2>1, AmountAssumption DEF TransferRequests, Amounts
  <2>3. CASE CurrencyOf[q.src] = CurrencyOf[q.dst]
    <3>1. legs = Entry(q.src, q.dst, q.amt)
      BY <2>1, <2>3 DEF TransferLegs, SameCurrency
    <3>. QED
      BY <1>2, <2>1, <2>2, <2>3, <3>1
  <2>4. CASE CurrencyOf[q.src] # CurrencyOf[q.dst]
    <3>. DEFINE c == CurrencyOf[q.src]
                d == CurrencyOf[q.dst]
                p == ConversionAccount[c]
                t == ConversionAccount[d]
                m == Converted[<<c, d>>][q.amt]
    <3>1. <<c, d>> \in DOMAIN Converted /\ {c, d} \subseteq DOMAIN ConversionAccount
      BY <2>1, <2>4 DEF Postable, Routable, SameCurrency
    <3>2. legs = <<Leg(q.src, 0 - q.amt), Leg(p, q.amt), Leg(t, 0 - m), Leg(q.dst, m)>>
      BY <2>1, <2>4 DEF TransferLegs, ConversionLegs, SameCurrency
    <3>3. /\ MoveOf(<<r, 1>>) = [from |-> legs[1].account, to |-> legs[2].account,
                                 amount |-> legs[2].amount]
          /\ MoveOf(<<r, 2>>) = [from |-> legs[3].account, to |-> legs[4].account,
                                 amount |-> legs[4].amount]
      BY <1>1
    <3>. HIDE DEF p, t, m
    <3>4. /\ Len(legs) = 4
          /\ legs[1].account = q.src /\ legs[2].account = p /\ legs[2].amount = q.amt
          /\ legs[3].account = t /\ legs[4].account = q.dst /\ legs[4].amount = m
      BY <3>2 DEF Leg
    <3>5. Pairs(r) = {1, 2}
      BY <3>4 DEF Pairs
    <3>6. MoveOf(<<r, 1>>) = Abstract!Move(a, p, q.amt) /\ MoveOf(<<r, 2>>) = Abstract!Move(t, q.dst, m)
      BY <2>1, <3>3, <3>4 DEF Abstract!Move
    <3>. QED
      BY <2>1, <2>2, <2>4, <3>1, <3>5, <3>6 DEF p, t, m
  <2>. QED
    BY <2>3, <2>4
<1>4. CASE IsCapture(r)
  <2>1. q \in CaptureRequests /\ legs = CaptureLegs(q) /\ a = HeldAccount(q)
    BY <1>0, <1>4, KindOfBody DEF IsCapture, MovementLegs, LockedAccount
  <2>2. q.hold \in Requests /\ holdState[q.hold] # "none"
    BY <1>0, <1>4, <2>1 DEF SessionInv, HoldOK, Active, CaptureRequests
  <2>3. a \in Accounts /\ q.dst \in Accounts /\ q.amt \in Amounts /\ q.amt \in Nat
    BY <1>0, <2>1, <2>2, HoldIsPlaced, AmountAssumption
    DEF HeldAccount, PlaceRequests, CaptureRequests, Amounts
  <2>4. CurrencyOf[a] = CurrencyOf[q.dst]
    BY <1>0, <1>4, <2>1 DEF HoldInv, SameCurrency
  <2>5. legs = Entry(a, q.dst, q.amt)
    BY <2>1 DEF CaptureLegs
  <2>. QED
    BY <1>2, <2>3, <2>4, <2>5
<1>. QED
  BY <1>3, <1>4

(* What a step does to the movements there are.                            *)
LEMMA MovesStep ==
  ASSUME IInv, NEW r \in Requests, AnyStep(r)
  PROVE  MovesNow' =
           IF Commits(r) THEN MovesNow \cup {MoveOf(<<r, i>>) : i \in Pairs(r)} ELSE MovesNow
<1>1. ASSUME NEW t, TransactionLegs(t)' = TransactionLegs(t)
      PROVE  MoveOf(t)' = MoveOf(t)
  BY <1>1 DEF MoveOf
<1>2. \A t \in Transactions : MoveOf(t)' = MoveOf(t)
  BY <1>1, TransactionsStep
<1>3. MovesNow' = {MoveOf(t)' : t \in Transactions'}
  BY DEF MovesNow
<1>4. CASE ~Commits(r)
  <2>1. Transactions' = Transactions
    BY <1>4, TransactionsStep
  <2>. QED
    BY <1>2, <1>3, <1>4, <2>1 DEF MovesNow
<1>5. CASE Commits(r)
  <2>. DEFINE added == {<<r, i>> : i \in Pairs(r)}
              new == {MoveOf(<<r, i>>) : i \in Pairs(r)}
  <2>1. Transactions' = Transactions \cup added
    BY <1>5, TransactionsStep
  <2>2. \A i \in {1, 2} : MoveOf(<<r, i>>)' = MoveOf(<<r, i>>)
    BY <1>1, <1>5, TransactionsStep
  <2>3. \A t \in added : MoveOf(t)' = MoveOf(t)
    BY <2>2 DEF Pairs
  <2>4. MovesNow' = {MoveOf(t) : t \in Transactions \cup added}
    BY <1>2, <1>3, <2>1, <2>3
  <2>5. {MoveOf(t) : t \in Transactions \cup added} = MovesNow \cup {MoveOf(t) : t \in added}
    BY DEF MovesNow
  <2>6. {MoveOf(t) : t \in added} = new
    OBVIOUS
  <2>. QED
    BY <1>5, <2>4, <2>5, <2>6
<1>. QED
  BY <1>4, <1>5

(* What a step does to the keys that have taken effect.                    *)
LEMMA SettledStep ==
  ASSUME IInv, NEW r \in Requests, AnyStep(r)
  PROVE  /\ Commits(r) /\ Keyed(r) =>
              /\ Slot(req[r]) \notin SettledNow
              /\ SettledNow' = SettledNow \cup {Slot(req[r])}
              /\ \E k \in Keys : Slot(req[r]) = <<req[r].kind, k>>
         /\ ~(Commits(r) /\ Keyed(r)) => SettledNow' = SettledNow
<1>0. TypeOK /\ SessionInv
  BY DEF IInv
<1>1. CASE Commits(r) /\ Keyed(r)
  <2>1. req[r] \in RequestBodies
    BY <1>0, <1>1 DEF Commits, SessionInv, SessionOK
  <2>2. Slot(req[r]) \in Slots
    BY <1>1, <2>1, SlotType DEF Keyed
  <2>3. idem[Slot(req[r])] = Nobody /\ idem' = [idem EXCEPT ![Slot(req[r])] = r]
    BY <1>1 DEF Commits, KeyUnused
  <2>4. Slot(req[r]) \notin SettledNow /\ SettledNow' = SettledNow \cup {Slot(req[r])}
    BY <1>0, <2>2, <2>3, NobodyAssumption DEF SettledNow, TypeOK
  <2>. QED
    BY <1>1, <2>2, <2>4 DEF Slot, Slots
<1>2. CASE ~(Commits(r) /\ Keyed(r))
  <2>1. idem' = idem
    <3>1. CASE Commits(r)
      BY <1>2, <3>1 DEF Commits
    <3>2. CASE ~Commits(r)
      BY <3>2 DEF AnyStep, RequestStep, Begins, Answers, Locks, Reads, Decides, Posts,
        ReadAfterCapture, Fails, Open, Answer, TakeAdvisory, ReadPosted, Goto,
        PostLeg, Rollback, EndSession, Expire, vars, tables
    <3>. QED
      BY <3>1, <3>2
  <2>. QED
    BY <1>2, <2>1 DEF SettledNow
<1>. QED
  BY <1>1, <1>2

EndsNow(a) ==
  \E n \in Amounts \cap 1..ReservedNow[a] : ReservedNow' = [ReservedNow EXCEPT ![a] = @ - n]

(* What a step does to what is reserved: a hold that is resolved or lapses *)
(* ends one reservation, unless it had lapsed before.                      *)
LEMMA ReservedStep ==
  ASSUME IInv, NEW r \in Requests, AnyStep(r)
  PROVE  /\ ReservedNow \in [Accounts -> Nat] /\ ReservedNow' \in [Accounts -> Nat]
         /\ Places(r) =>
              \/ ReservedNow' = [ReservedNow EXCEPT ![req[r].src] = @ + req[r].amt]
              \/ ReservedNow' = ReservedNow
         /\ Resolves(r) => EndsNow(req[req[r].hold].src) \/ ReservedNow' = ReservedNow
         /\ Expire(r) =>
              \/ req[r].src \in Accounts /\ EndsNow(req[r].src)
              \/ ReservedNow' = ReservedNow
         /\ ~(Places(r) \/ Resolves(r) \/ Expire(r)) => ReservedNow' = ReservedNow
<1>0. TypeOK /\ SessionInv /\ HoldInv
  BY DEF IInv
<1>1. \A x \in Accounts : /\ ReservedNow[x] = Held(x, expired)
                          /\ ReservedNow'[x] = Held(x, expired)'
  BY DEF ReservedNow
<1>2. ReservedNow \in [Accounts -> Nat] /\ ReservedNow' \in [Accounts -> Nat]
  BY <1>0, HeldStep DEF ReservedNow
<1>3. ASSUME Places(r)
      PROVE  \/ ReservedNow' = [ReservedNow EXCEPT ![req[r].src] = @ + req[r].amt]
             \/ ReservedNow' = ReservedNow
  <2>. DEFINE a == req[r].src
              n == req[r].amt
  <2>1. \A x \in Accounts :
          ReservedNow'[x] = ReservedNow[x] + IF a = x /\ r \notin expired THEN n ELSE 0
    BY <1>0, <1>1, <1>3, HeldStep
  <2>2. n \in Nat
    BY <1>0, <1>3, HeldStep
  <2>. HIDE DEF a, n
  <2>3. r \notin expired => ReservedNow' = [ReservedNow EXCEPT ![a] = @ + n]
    BY <1>2, <2>1, <2>2
  <2>4. r \in expired => ReservedNow' = ReservedNow
    BY <1>2, <2>1
  <2>. QED
    BY <2>3, <2>4 DEF a, n
<1>4. ASSUME NEW h \in Requests, holdState[h] = "active", h \notin expired,
             \A x : Held(x, expired)' =
                      Held(x, expired) - IF h \in Reserving(x, expired) THEN req[h].amt ELSE 0
      PROVE  req[h].src \in Accounts /\ EndsNow(req[h].src)
  <2>. DEFINE a == req[h].src
              n == req[h].amt
  <2>1. a \in Accounts /\ n \in Amounts /\ n \in Nat /\ n >= 1
    BY <1>0, <1>4, HoldIsPlaced, AmountAssumption DEF PlaceRequests, Amounts
  <2>2. \A x : h \in Reserving(x, expired) <=> x = a
    BY <1>4 DEF Reserving
  <2>. HIDE DEF a
  <2>3. \A x \in Accounts : ReservedNow'[x] = ReservedNow[x] - IF x = a THEN n ELSE 0
    BY <1>1, <1>4, <2>2
  <2>. HIDE DEF n
  <2>4. ReservedNow'[a] = ReservedNow[a] - n
    BY <2>1, <2>3
  <2>5. n \in Amounts \cap 1..ReservedNow[a]
    BY <1>2, <2>1, <2>4
  <2>6. ReservedNow' = [ReservedNow EXCEPT ![a] = @ - n]
    BY <1>2, <2>1, <2>3
  <2>. QED
    BY <2>1, <2>5, <2>6 DEF EndsNow, a
<1>5. ASSUME Expire(r)
      PROVE  \/ req[r].src \in Accounts /\ EndsNow(req[r].src)
             \/ ReservedNow' = ReservedNow
  <2>1. r \notin expired
    BY <1>5 DEF Expire
  <2>2. \A x : Held(x, expired)' =
                 Held(x, expired) - IF r \in Reserving(x, expired) THEN req[r].amt ELSE 0
    BY <1>0, <1>5, HeldStep
  <2>3. CASE holdState[r] = "active"
    BY <1>4, <2>1, <2>2, <2>3
  <2>4. CASE holdState[r] # "active"
    <3>1. \A x : r \notin Reserving(x, expired)
      BY <2>4 DEF Reserving
    <3>2. \A x \in Accounts : ReservedNow'[x] = ReservedNow[x]
      BY <1>1, <1>2, <2>2, <3>1
    <3>. QED
      BY <1>2, <3>2
  <2>. QED
    BY <2>3, <2>4
<1>6. ASSUME Resolves(r)
      PROVE  EndsNow(req[req[r].hold].src) \/ ReservedNow' = ReservedNow
  <2>. PICK h : h = req[r].hold
    OBVIOUS
  <2>1. \A x : Held(x, expired)' =
                 Held(x, expired) - IF h \in Reserving(x, expired) THEN req[h].amt ELSE 0
    BY <1>0, <1>6, HeldStep
  <2>2. CASE h \in Requests /\ holdState[h] = "active" /\ h \notin expired
    BY <1>4, <2>1, <2>2
  <2>3. CASE ~(h \in Requests /\ holdState[h] = "active" /\ h \notin expired)
    <3>1. \A x : h \notin Reserving(x, expired)
      BY <2>3 DEF Reserving
    <3>2. \A x \in Accounts : ReservedNow'[x] = ReservedNow[x]
      BY <1>1, <1>2, <2>1, <3>1
    <3>. QED
      BY <1>2, <3>2
  <2>. QED
    BY <2>2, <2>3
<1>7. ASSUME ~(Places(r) \/ Resolves(r) \/ Expire(r)) PROVE ReservedNow' = ReservedNow
  <2>1. \A x \in Accounts : ReservedNow'[x] = ReservedNow[x]
    BY <1>0, <1>1, <1>7, HeldStep
  <2>. QED
    BY <1>2, <2>1
<1>. QED
  BY <1>2, <1>3, <1>5, <1>6, <1>7

(* Every step takes effect at one instant, as a step of ReservedPayments,  *)
(* or changes nothing of it.                                               *)
LEMMA AbstractStep ==
  ASSUME IInv, NEW r \in Requests, AnyStep(r)
  PROVE  Abstract!Next \/ UNCHANGED <<balance, ReservedNow, SettledNow, MovesNow, ExemptNow>>
<1>0. TypeOK /\ SessionInv /\ FundsInv
  BY DEF IInv
<1>1. ~(Commits(r) /\ IsReverse(r)) => ExemptNow' = ExemptNow
  BY TakenBackStep DEF ExemptNow, ConversionAccounts
<1>2. CASE ~Commits(r)
  <2>1. balance' = balance /\ SettledNow' = SettledNow /\ MovesNow' = MovesNow /\ ExemptNow' = ExemptNow
    BY <1>0, <1>1, <1>2, RowEffects, SettledStep, MovesStep
  <2>2. CASE ~Expire(r)
    <3>1. ReservedNow' = ReservedNow
      BY <1>2, <2>2, ReservedStep DEF Places, Resolves
    <3>. QED
      BY <2>1, <3>1
  <2>3. CASE Expire(r)
    <3>. DEFINE a == req[r].src
    <3>1. (a \in Accounts /\ EndsNow(a)) \/ ReservedNow' = ReservedNow
      BY <2>3, ReservedStep
    <3>. HIDE DEF a
    <3>2. a \in Accounts /\ EndsNow(a) => Abstract!Unreserve(a)
      BY <2>1
      DEF Abstract!Unreserve, Abstract!Ends, EndsNow, ReservedNow, MovesNow, ExemptNow
    <3>. QED
      BY <2>1, <3>1, <3>2 DEF Abstract!Next, SettledNow
  <2>. QED
    BY <2>2, <2>3
<1>3. CASE Commits(r)
  <2>0. /\ pc[r] = "commit" /\ req[r] \in RequestBodies /\ Covered(r) /\ ~Expire(r)
        /\ balance \in [Accounts -> Int] /\ ReservedNow \in [Accounts -> Nat]
    BY <1>0, <1>3, ReservedStep DEF Commits, Commit, EndSession, Expire, session, TypeOK,
      SessionInv, SessionOK, FundsInv
  <2>1. MovesNow' = MovesNow \cup {MoveOf(<<r, i>>) : i \in Pairs(r)}
    BY <1>3, MovesStep
  <2>2. ASSUME NEW kind, kind = req[r].kind, Keyed(r)
        PROVE  Abstract!Once({kind} \X Keys)
    <3>1. PICK k \in Keys : Slot(req[r]) = <<kind, k>>
      BY <1>3, <2>2, SettledStep
    <3>2. <<kind, k>> \notin SettledNow /\ SettledNow' = SettledNow \cup {<<kind, k>>}
      BY <1>3, <2>2, <3>1, SettledStep
    <3>. QED
      BY <3>2 DEF Abstract!Once, SettledNow
  <2>3. CASE IsTransfer(r)
    <3>. PICK a, b, n : a = LockedAccount(r) /\ b = req[r].dst /\ n = req[r].amt
      OBVIOUS
    <3>1. a \in Accounts /\ b \in Accounts /\ n \in Amounts /\ n \in Nat
      BY <1>3, <2>3, CommitMoves
    <3>2. ReservedNow' = ReservedNow
      <4>1. ~Places(r) /\ ~Resolves(r)
        BY <2>3 DEF Places, Resolves, IsPlace, IsCapture, IsRelease, IsTransfer
      <4>. QED
        BY <2>0, <4>1, ReservedStep
    <3>3. ExemptNow' = ExemptNow
      BY <1>1, <2>3 DEF IsTransfer, IsReverse
    <3>4. Abstract!Once({"transfer"} \X Keys)
      BY <2>2, <2>3 DEF IsTransfer, Keyed, Endpoints
    <3>5. a \notin ExemptNow => n <= balance[a] - ReservedNow[a]
      <4>. SUFFICES ASSUME a \in Guarded PROVE n <= balance[a] - ReservedNow[a]
        BY <3>1 DEF Guarded, ExemptNow
      <4>1. Held(a, expired) + n <= balance[a]
        BY <2>0, <2>3 DEF Covered, Holding, IsTransfer, IsCapture, Besides
      <4>2. ReservedNow[a] = Held(a, expired) /\ ReservedNow[a] \in Nat /\ balance[a] \in Int
        BY <2>0, <3>1 DEF ReservedNow
      <4>. QED
        BY <3>1, <4>1, <4>2
    <3>6. CASE CurrencyOf[a] = CurrencyOf[b]
      <4>1. Pairs(r) = {1} /\ MoveOf(<<r, 1>>) = Abstract!Move(a, b, n)
        BY <1>3, <2>3, <3>6, CommitMoves
      <4>2. balance' = Abstract!Carry(balance, Abstract!Move(a, b, n))
        BY <1>3, <4>1, CommitCarries
      <4>3. MovesNow' = MovesNow \cup {Abstract!Move(a, b, n)}
        BY <2>1, <4>1
      <4>4. Abstract!Pay(a, b, n)
        BY <3>2, <3>3, <3>5, <3>6, <4>2, <4>3
        DEF Abstract!Pay, Abstract!Free, ReservedNow, MovesNow, ExemptNow
      <4>. QED
        BY <3>1, <3>4, <4>4 DEF Abstract!Next
    <3>7. CASE CurrencyOf[a] # CurrencyOf[b]
      <4>. DEFINE c == CurrencyOf[a]
                  d == CurrencyOf[b]
                  out == Abstract!Move(a, ConversionAccount[c], n)
                  in == Abstract!Move(ConversionAccount[d], b, Converted[<<c, d>>][n])
      <4>1. /\ <<c, d>> \in DOMAIN Converted /\ {c, d} \subseteq DOMAIN ConversionAccount
            /\ Pairs(r) = {1, 2} /\ MoveOf(<<r, 1>>) = out /\ MoveOf(<<r, 2>>) = in
        BY <1>3, <2>3, <3>7, CommitMoves
      <4>2. balance' = Abstract!Carry(Abstract!Carry(balance, out), in)
        BY <1>3, <4>1, CommitCarries
      <4>3. MovesNow' = MovesNow \cup {out, in}
        BY <2>1, <4>1
      <4>. HIDE DEF out, in
      <4>4. Abstract!Exchange(a, b, n)
        BY <3>2, <3>3, <3>5, <3>7, <4>1, <4>2, <4>3
        DEF Abstract!Exchange, Abstract!Free, ReservedNow, MovesNow, ExemptNow, out, in
      <4>. QED
        BY <3>1, <3>4, <4>4 DEF Abstract!Next
    <3>. QED
      BY <3>6, <3>7
  <2>4. CASE IsPlace(r)
    <3>. PICK a, n : a = req[r].src /\ n = req[r].amt
      OBVIOUS
    <3>1. a \in Accounts /\ n \in Amounts /\ n \in Nat
      BY <2>0, <2>4, KindOfBody, AmountAssumption DEF IsPlace, PlaceRequests, Amounts
    <3>2. balance' = balance /\ MovesNow' = MovesNow /\ ExemptNow' = ExemptNow
      <4>1. Pairs(r) = {} /\ ~IsReverse(r)
        BY <2>4 DEF IsPlace, IsReverse, Pairs, MovementLegs
      <4>. QED
        BY <1>1, <1>3, <2>1, <2>4, <4>1, CommitCarries
    <3>3. ReservedNow' = [ReservedNow EXCEPT ![a] = @ + n] \/ ReservedNow' = ReservedNow
      BY <1>3, <2>4, ReservedStep DEF Places
    <3>4. Abstract!Once({"place"} \X Keys)
      BY <2>2, <2>4 DEF IsPlace, Keyed, Endpoints
    <3>5. a \notin ExemptNow => n <= balance[a] - ReservedNow[a]
      <4>. SUFFICES ASSUME a \in Guarded PROVE n <= balance[a] - ReservedNow[a]
        BY <3>1 DEF Guarded, ExemptNow
      <4>1. Held(a, expired) + n <= balance[a]
        BY <2>0, <2>4 DEF Covered, Holding, IsPlace, IsCapture, Besides, LockedAccount
      <4>2. ReservedNow[a] = Held(a, expired) /\ ReservedNow[a] \in Nat /\ balance[a] \in Int
        BY <2>0, <3>1 DEF ReservedNow
      <4>. QED
        BY <3>1, <4>1, <4>2
    <3>6. Abstract!Reserve(a, n)
      BY <3>2, <3>3, <3>5
      DEF Abstract!Reserve, Abstract!Free, ReservedNow, MovesNow, ExemptNow
    <3>. QED
      BY <3>1, <3>4, <3>6 DEF Abstract!Next
  <2>5. CASE IsCapture(r)
    <3>. PICK a, b, n : a = LockedAccount(r) /\ b = req[r].dst /\ n = req[r].amt
      OBVIOUS
    <3>1. /\ a \in Accounts /\ b \in Accounts /\ n \in Amounts /\ n \in Nat
          /\ CurrencyOf[a] = CurrencyOf[b]
          /\ Pairs(r) = {1} /\ MoveOf(<<r, 1>>) = Abstract!Move(a, b, n)
      BY <1>3, <2>5, CommitMoves
    <3>2. balance' = Abstract!Carry(balance, Abstract!Move(a, b, n))
      BY <1>3, <3>1, CommitCarries
    <3>3. MovesNow' = MovesNow \cup {Abstract!Move(a, b, n)}
      BY <2>1, <3>1
    <3>4. ExemptNow' = ExemptNow
      BY <1>1, <2>5 DEF IsCapture, IsReverse
    <3>5. SettledNow' = SettledNow
      BY <2>5, SettledStep DEF IsCapture, Keyed, Endpoints
    <3>6. EndsNow(a) \/ ReservedNow' = ReservedNow
      BY <1>3, <2>5, ReservedStep DEF Resolves, LockedAccount, HeldAccount
    <3>7. a \notin ExemptNow => n <= balance[a]
      <4>. SUFFICES ASSUME a \in Guarded PROVE n <= balance[a]
        BY <3>1 DEF Guarded, ExemptNow
      <4>1. 0 + n <= balance[a]
        BY <2>0, <2>5 DEF Covered, Holding, IsCapture, Besides
      <4>. QED
        BY <3>1, <4>1
    <3>8. Abstract!Capture(a, b, n)
      BY <3>1, <3>2, <3>3, <3>4, <3>6, <3>7
      DEF Abstract!Capture, Abstract!Ends, EndsNow, ReservedNow, MovesNow, ExemptNow
    <3>. QED
      BY <3>1, <3>5, <3>8 DEF Abstract!Next, SettledNow
  <2>6. CASE IsRelease(r)
    <3>. PICK h : h = req[r].hold
      OBVIOUS
    <3>1. balance' = balance /\ MovesNow' = MovesNow /\ ExemptNow' = ExemptNow
      <4>1. Pairs(r) = {} /\ ~IsReverse(r)
        BY <2>6 DEF IsRelease, IsReverse, Pairs, MovementLegs
      <4>. QED
        BY <1>1, <1>3, <2>1, <2>6, <4>1, CommitCarries
    <3>2. SettledNow' = SettledNow
      BY <2>6, SettledStep DEF IsRelease, Keyed, Endpoints
    <3>3. req[h].src \in Accounts
      <4>1. h \in Requests /\ holdState[h] # "none"
        BY <1>0, <2>0, <2>6, KindOfBody
        DEF IsRelease, ReleaseRequests, SessionInv, HoldOK, Active
      <4>. QED
        BY <1>0, <4>1, HoldIsPlaced DEF PlaceRequests
    <3>4. EndsNow(req[h].src) \/ ReservedNow' = ReservedNow
      BY <1>3, <2>6, ReservedStep DEF Resolves
    <3>5. CASE EndsNow(req[h].src)
      <4>. PICK a : a = req[h].src
        OBVIOUS
      <4>1. Abstract!Unreserve(a)
        BY <3>1, <3>5
        DEF Abstract!Unreserve, Abstract!Ends, EndsNow, ReservedNow, MovesNow, ExemptNow
      <4>. QED
        BY <3>2, <3>3, <4>1 DEF Abstract!Next, SettledNow
    <3>. QED
      BY <3>1, <3>2, <3>4, <3>5
  <2>7. CASE IsReverse(r)
    <3>. DEFINE m == MoveOf(req[r].txn)
    <3>1. m \in MovesNow /\ balance' = Abstract!Carry(balance, Abstract!Move(m.to, m.from, m.amount))
      BY <1>3, <2>7, CommitCarries
    <3>2. ExemptNow' = ExemptNow \cup {m.to}
      BY <1>3, <2>7, TakenBackStep DEF ExemptNow, ConversionAccounts, MoveOf
    <3>. HIDE DEF m
    <3>3. MovesNow' = MovesNow
      <4>1. Pairs(r) = {}
        BY <2>7 DEF IsReverse, Pairs, MovementLegs
      <4>. QED
        BY <2>1, <4>1
    <3>4. ReservedNow' = ReservedNow
      <4>1. ~Places(r) /\ ~Resolves(r)
        BY <2>7 DEF Places, Resolves, IsPlace, IsCapture, IsRelease, IsReverse
      <4>. QED
        BY <2>0, <4>1, ReservedStep
    <3>5. Abstract!Once({"reverse"} \X Keys)
      BY <2>2, <2>7 DEF IsReverse, Keyed, Endpoints
    <3>6. Abstract!Undo(m)
      BY <3>1, <3>2, <3>3, <3>4 DEF Abstract!Undo, ReservedNow, MovesNow, ExemptNow
    <3>. QED
      BY <3>1, <3>5, <3>6 DEF Abstract!Next, MovesNow
  <2>. QED
    BY <2>0, <2>3, <2>4, <2>5, <2>6, <2>7, KindOfBody
    DEF IsTransfer, IsPlace, IsCapture, IsRelease, IsReverse
<1>. QED
  BY <1>2, <1>3

(* transfers_service.py, fx_service.py, holds_service.py and               *)
(* reversals_service.py: whatever interleaves, crashes or lapses, every    *)
(* request takes effect at one instant, its commit, once per key, and out  *)
(* of what is free at that instant on every account that no reversal took  *)
(* money back from.                                                        *)
THEOREM ReservedPaymentsImplemented == Spec => ImplementsReservedPayments
<1>1. Init => Abstract!Init
  <2>. SUFFICES ASSUME Init PROVE Abstract!Init
    OBVIOUS
  <2>1. \A x \in Accounts : Held(x, expired) = 0
    <3>. SUFFICES ASSUME NEW x \in Accounts PROVE Held(x, expired) = 0
      OBVIOUS
    <3>. DEFINE f == [h \in Reserving(x, expired) |-> req[h].amt]
    <3>1. Reserving(x, expired) = {}
      BY DEF Init, Reserving
    <3>2. Held(x, expired) = SumFunctionOnSet(f, Reserving(x, expired))
      BY DEF Held
    <3>. HIDE DEF f
    <3>. QED
      BY <3>1, <3>2, SumEmpty
  <2>2. balance = Opening /\ SettledNow = {}
    BY DEF Init, SettledNow
  <2>3. Committed = {}
    BY DEF Init, Committed
  <2>4. MovesNow = {} /\ TakenBack = {}
    BY <2>3 DEF MovesNow, Transactions, Exists, TakenBack
  <2>5. ExemptNow = Abstract!Pools
    BY <2>4 DEF ExemptNow, ConversionAccounts, Abstract!Pools
  <2>. QED
    BY <2>1, <2>2, <2>4, <2>5 DEF Abstract!Init, SettledNow, MovesNow, ExemptNow
<1>2. IInv /\ [Next]_vars => [Abstract!Next]_(Abstract!vars)
  <2>. SUFFICES ASSUME IInv, [Next]_vars PROVE Abstract!Next \/ UNCHANGED Abstract!vars
    OBVIOUS
  <2>1. CASE UNCHANGED vars
    <3>1. \A x \in Accounts : Held(x, expired)' = Held(x, expired)
      BY <2>1 DEF vars, Held, Reserving
    <3>2. balance' = balance /\ ReservedNow' = ReservedNow /\ SettledNow' = SettledNow
      BY <2>1, <3>1 DEF vars, ReservedNow, SettledNow
    <3>3. Committed' = Committed /\ req' = req
      BY <2>1 DEF vars, Committed
    <3>4. \A t : TransactionLegs(t)' = TransactionLegs(t)
      BY <3>3 DEF TransactionLegs, MovementLegs, TransferLegs, CaptureLegs, HeldAccount
    <3>5. \A t : MoveOf(t)' = MoveOf(t)
      BY <3>4 DEF MoveOf
    <3>6. Transactions' = Transactions
      BY <3>3 DEF Transactions, Exists, MovementLegs, TransferLegs, CaptureLegs, HeldAccount
    <3>7. MovesNow' = MovesNow
      BY <3>5, <3>6 DEF MovesNow
    <3>8. ExemptNow' = ExemptNow
      BY <2>1, GuardStays DEF ExemptNow, ConversionAccounts
    <3>. QED
      BY <3>2, <3>7, <3>8 DEF Abstract!vars, ReservedNow, SettledNow, MovesNow, ExemptNow
  <2>2. CASE \E r \in Requests : AnyStep(r)
    <3>1. Abstract!Next \/ UNCHANGED <<balance, ReservedNow, SettledNow, MovesNow, ExemptNow>>
      BY <2>2, AbstractStep
    <3>. QED
      BY <3>1 DEF Abstract!vars, ReservedNow, SettledNow, MovesNow, ExemptNow
  <2>. QED
    BY <2>1, <2>2, NextShapes DEF AnyStep
<1>. QED
  BY <1>1, <1>2, Invariance, PTL DEF Spec, ImplementsReservedPayments, Abstract!Spec
=============================================================================
