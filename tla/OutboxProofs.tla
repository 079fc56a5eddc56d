----------------------------- MODULE OutboxProofs -----------------------------
(***************************************************************************)
(* Theorems about Outbox for every number of handlers, relays and events,  *)
(* every limit and every order of the ids.                                 *)
(***************************************************************************)
EXTENDS Outbox, FiniteSetTheorems, TLAPS

(* There are finitely many events. *)
LEMMA EventsFinite == IsFiniteSet(Events)
<1>1. IsFiniteSet(1..MaxEvents)
  BY EventAssumption, FS_Interval
<1>. QED
  BY <1>1, HandlerAssumption, FS_Product DEF Events

(* ORDER BY ... LIMIT: with an event that is read, every older one of the  *)
(* same selection is read.                                                 *)
LEMMA OldestIsDownwardClosed ==
  ASSUME TypeOK, NEW S \in SUBSET Events, NEW n \in Nat,
         NEW e \in S, NEW f \in OldestOf(S, n), created[e] < created[f]
  PROVE  e \in OldestOf(S, n)
<1>. DEFINE Older(x) == {g \in S : Before(g, x)}
<1>1. f \in S /\ Cardinality(Older(f)) < n
  BY DEF OldestOf
<1>2. Older(e) \subseteq Older(f)
  <2>1. SUFFICES ASSUME NEW g \in S, Before(g, e)
                 PROVE  Before(g, f)
    OBVIOUS
  <2>2. created[g] \in Nat /\ created[e] \in Nat /\ created[f] \in Nat
    BY <1>1 DEF TypeOK
  <2>3. created[g] <= created[e]
    BY <2>1, <2>2 DEF Before
  <2>. QED
    BY <2>2, <2>3 DEF Before
<1>3. IsFiniteSet(Older(e)) /\ IsFiniteSet(Older(f))
  BY EventsFinite, FS_Subset
<1>4. /\ Cardinality(Older(e)) <= Cardinality(Older(f))
      /\ Cardinality(Older(e)) \in Nat /\ Cardinality(Older(f)) \in Nat
  BY <1>2, <1>3, FS_Subset, FS_CardinalityType
<1>. QED
  BY <1>1, <1>4 DEF OldestOf

-----------------------------------------------------------------------------
(* The invariant holds before anything has been written. *)
LEMMA InitIInv == Init => IInv
BY DEF Init, IInv, TypeOK, HandlerInv, CallInv, OrderInv, Precedes, Events

(* A step keeps the types. *)
LEMMA TypeStep ==
  ASSUME TypeOK, Next
  PROVE  TypeOK'
<1>. USE DEF TypeOK
<1>1. ASSUME NEW h \in Handlers, Enqueue(h) PROVE TypeOK'
  BY <1>1 DEF Enqueue
<1>2. ASSUME NEW h \in Handlers, CommitHandler(h) PROVE TypeOK'
  BY <1>2 DEF CommitHandler
<1>3. ASSUME NEW h \in Handlers, RollbackHandler(h) PROVE TypeOK'
  BY <1>3 DEF RollbackHandler
<1>4. ASSUME NEW r \in Relays, ReadPending(r) PROVE TypeOK'
  BY <1>4 DEF ReadPending, OldestOf, Pending
<1>5. ASSUME NEW r \in Relays, ReadNothing(r) PROVE TypeOK'
  BY <1>5 DEF ReadNothing, vars
<1>6. ASSUME NEW r \in Relays, MarkPublished(r) PROVE TypeOK'
  BY <1>6 DEF MarkPublished
<1>7. ASSUME NEW r \in Relays, Respond(r) PROVE TypeOK'
  BY <1>7 DEF Respond
<1>8. ASSUME NEW r \in Relays, CrashCall(r) PROVE TypeOK'
  BY <1>8 DEF CrashCall
<1>. QED
  BY <1>1, <1>2, <1>3, <1>4, <1>5, <1>6, <1>7, <1>8 DEF Next

(* A step keeps what the end of a transaction means for its events.        *)
LEMMA HandlerStep ==
  ASSUME IInv, Next
  PROVE  HandlerInv'
<1>. USE DEF IInv, TypeOK, HandlerInv, Events
<1>1. ASSUME NEW h \in Handlers, Enqueue(h) PROVE HandlerInv'
  BY <1>1 DEF Enqueue
<1>2. ASSUME NEW h \in Handlers, CommitHandler(h) PROVE HandlerInv'
  BY <1>2 DEF CommitHandler, Written
<1>3. ASSUME NEW h \in Handlers, RollbackHandler(h) PROVE HandlerInv'
  BY <1>3 DEF RollbackHandler
<1>4. ASSUME NEW r \in Relays, MarkPublished(r) PROVE HandlerInv'
  BY <1>4 DEF MarkPublished, CallInv
<1>5. CASE UNCHANGED <<clock, created, status, committedAt, phase>>
  BY <1>5
<1>. QED
  BY <1>1, <1>2, <1>3, <1>4, <1>5
  DEF Next, ReadPending, ReadNothing, Respond, CrashCall, vars

(* A step keeps what a call holds.                                         *)
LEMMA CallStep ==
  ASSUME IInv, Next
  PROVE  CallInv'
<1>. USE DEF IInv, TypeOK, HandlerInv, CallInv
<1>1. ASSUME NEW h \in Handlers, Enqueue(h) PROVE CallInv'
  BY <1>1 DEF Enqueue
<1>2. ASSUME NEW h \in Handlers, CommitHandler(h) PROVE CallInv'
  BY <1>2 DEF CommitHandler, Written, Events
<1>3. ASSUME NEW h \in Handlers, RollbackHandler(h) PROVE CallInv'
  BY <1>3 DEF RollbackHandler
<1>4. ASSUME NEW r \in Relays, ReadPending(r) PROVE CallInv'
  BY <1>4 DEF ReadPending, OldestOf, Pending
<1>5. ASSUME NEW r \in Relays, ReadNothing(r) PROVE CallInv'
  BY <1>5 DEF ReadNothing, vars
<1>6. ASSUME NEW r \in Relays, MarkPublished(r) PROVE CallInv'
  BY <1>6 DEF MarkPublished
<1>7. ASSUME NEW r \in Relays, Respond(r) PROVE CallInv'
  BY <1>7 DEF Respond
<1>8. ASSUME NEW r \in Relays, CrashCall(r) PROVE CallInv'
  BY <1>8 DEF CrashCall
<1>. QED
  BY <1>1, <1>2, <1>3, <1>4, <1>5, <1>6, <1>7, <1>8 DEF Next

(* A step keeps the order: a commit makes nothing older than what has been *)
(* written before it, and a read that takes an event takes the older ones. *)
LEMMA OrderStep ==
  ASSUME IInv, Next
  PROVE  OrderInv'
<1>. USE DEF IInv, TypeOK, HandlerInv, OrderInv, Precedes
<1>1. ASSUME NEW h \in Handlers, Enqueue(h) PROVE OrderInv'
  BY <1>1 DEF Enqueue, CallInv, Events
<1>2. ASSUME NEW h \in Handlers, CommitHandler(h) PROVE OrderInv'
  BY <1>2 DEF CommitHandler, Written, Events
<1>3. ASSUME NEW h \in Handlers, RollbackHandler(h) PROVE OrderInv'
  BY <1>3 DEF RollbackHandler
<1>4. ASSUME NEW r \in Relays, ReadPending(r) PROVE OrderInv'
  <2>1. PICK n \in 1..MaxLimit : batch' = [batch EXCEPT ![r] = OldestOf(Pending, n)]
    BY <1>4 DEF ReadPending
  <2>2. SUFFICES ASSUME NEW e \in Events, NEW f \in Events, Precedes(e, f),
                        f \in OldestOf(Pending, n), status[e] # "published"
                 PROVE  e \in OldestOf(Pending, n)
    BY <1>4, <2>1 DEF ReadPending
  <2>3. created[e] < created[f]
    BY <2>2 DEF Events
  <2>4. e \in Pending
    BY <2>2 DEF Pending, Events
  <2>. QED
    BY <2>2, <2>3, <2>4, OldestIsDownwardClosed, EventAssumption DEF Pending
<1>5. ASSUME NEW r \in Relays, ReadNothing(r) PROVE OrderInv'
  BY <1>5 DEF ReadNothing, vars
<1>6. ASSUME NEW r \in Relays, MarkPublished(r) PROVE OrderInv'
  BY <1>6 DEF MarkPublished
<1>7. ASSUME NEW r \in Relays, Respond(r) PROVE OrderInv'
  BY <1>7 DEF Respond
<1>8. ASSUME NEW r \in Relays, CrashCall(r) PROVE OrderInv'
  BY <1>8 DEF CrashCall
<1>. QED
  BY <1>1, <1>2, <1>3, <1>4, <1>5, <1>6, <1>7, <1>8 DEF Next

-----------------------------------------------------------------------------
(* Whatever interleaves and crashes, the invariant holds.                  *)
THEOREM OutboxInvariance == Spec => []IInv
<1>1. IInv /\ [Next]_vars => IInv'
  <2>1. ASSUME IInv, Next PROVE IInv'
    BY <2>1, TypeStep, HandlerStep, CallStep, OrderStep DEF IInv
  <2>2. ASSUME IInv, UNCHANGED vars PROVE IInv'
    BY <2>2 DEF IInv, TypeOK, HandlerInv, CallInv, OrderInv, Precedes, vars
  <2>. QED
    BY <2>1, <2>2
<1>. QED
  BY InitIInv, <1>1, PTL DEF Spec

(* outbox-same-transaction: events exist exactly for what has committed.   *)
THEOREM EventsAreCommitted == Spec => []EventIffCommitted
<1>1. IInv => EventIffCommitted
  BY DEF IInv, TypeOK, HandlerInv, CallInv, EventIffCommitted
<1>. QED
  BY <1>1, OutboxInvariance, PTL

(* A relay never gets an event twice.                                      *)
THEOREM NoRedelivery == Spec => []NeverTwiceToOneRelay
<1>1. IInv => NeverTwiceToOneRelay
  BY DEF IInv, TypeOK, CallInv, NeverTwiceToOneRelay
<1>. QED
  BY <1>1, OutboxInvariance, PTL

(* Events of transactions that do not overlap are published in order.      *)
THEOREM PublishedInOrder == Spec => []NotOvertaken
<1>1. IInv => NotOvertaken
  BY DEF IInv, OrderInv, NotOvertaken
<1>. QED
  BY <1>1, OutboxInvariance, PTL
=============================================================================
