-------------------------------- MODULE Outbox --------------------------------
(***************************************************************************)
(* The transactional outbox: services/postings_engine.py writes an event   *)
(* in the transaction that posts, services/outbox_service.py hands pending *)
(* events to whoever calls POST /outbox/dispatch.  A handler posts one or  *)
(* more transactions in one database transaction and commits it or not; a  *)
(* relay calls dispatch again and again, and several may do so at once.    *)
(***************************************************************************)
EXTENDS Integers, FiniteSets

CONSTANTS
  Handlers,   \* requests that post
  Relays,     \* callers of POST /outbox/dispatch
  MaxEvents,  \* bound: transactions a handler posts; a conversion posts two
  MaxLimit,   \* bound: largest limit a relay asks for
  IdOrder     \* OutboxEvent.id, as its place in the order of the ids

Events == Handlers \X (1..MaxEvents)

ASSUME HandlerAssumption == IsFiniteSet(Handlers)
ASSUME EventAssumption   == MaxEvents \in Nat /\ MaxLimit \in Nat
ASSUME IdAssumption ==
  /\ IdOrder \in [Events -> Nat]
  /\ \A e, f \in Events : IdOrder[e] = IdOrder[f] => e = f

VARIABLES
  clock,       \* datetime.now() of the server; a commit takes at least a unit
  created,     \* OutboxEvent.created_at, 0 before the event is written
  status,      \* OutboxEvent.status as the other sessions see it
  committedAt, \* when a handler's transaction committed, 0 before
  phase,       \* the handler's transaction
  pc,          \* what a relay's call does next
  batch,       \* the events a call has read
  given        \* how often an event was in the response to a relay

vars == <<clock, created, status, committedAt, phase, pc, batch, given>>

Init ==
  /\ clock = 1
  /\ created = [e \in Events |-> 0]
  /\ status = [e \in Events |-> "none"]
  /\ committedAt = [h \in Handlers |-> 0]
  /\ phase = [h \in Handlers |-> "open"]
  /\ pc = [r \in Relays |-> "idle"]
  /\ batch = [r \in Relays |-> {}]
  /\ given = [r \in Relays |-> [e \in Events |-> 0]]

-----------------------------------------------------------------------------
(* The writing side. *)

Written(h) == {e \in Events : e[1] = h /\ created[e] # 0}

(* _enqueue_outbox_event at the end of post_transaction: the event gets    *)
(* its created_at now, and its row is the open transaction's.              *)
SelfCommitting(h) ==          \* mutant: the event has a transaction of its own
  /\ phase[h] = "open"
  /\ \E e \in Events :
       /\ e[1] = h /\ created[e] = 0
       /\ created' = [created EXCEPT ![e] = clock]
       /\ status' = [status EXCEPT ![e] = "pending"]
  /\ UNCHANGED <<clock, committedAt, phase, pc, batch, given>>
Enqueue(h) ==
  /\ phase[h] = "open"
  /\ \E e \in Events :
       /\ e[1] = h /\ created[e] = 0
       /\ created' = [created EXCEPT ![e] = clock]
  /\ UNCHANGED <<clock, status, committedAt, phase, pc, batch, given>>

(* The handler's commit: its events become visible, all at once.           *)
CommitHandler(h) ==
  /\ phase[h] = "open" /\ Written(h) # {}
  /\ clock' = clock + 1
  /\ committedAt' = [committedAt EXCEPT ![h] = clock + 1]
  /\ phase' = [phase EXCEPT ![h] = "committed"]
  /\ status' = [e \in Events |-> IF e \in Written(h) THEN "pending" ELSE status[e]]
  /\ UNCHANGED <<created, pc, batch, given>>

(* An error, a lost key or a crash: the transaction is rolled back.        *)
RollbackHandler(h) ==
  /\ phase[h] = "open"
  /\ phase' = [phase EXCEPT ![h] = "rolledBack"]
  /\ UNCHANGED <<clock, created, status, committedAt, pc, batch, given>>

-----------------------------------------------------------------------------
(* The reading side. *)

(* ORDER BY created_at, id *)
Before(e, f) ==
  \/ created[e] < created[f]
  \/ created[e] = created[f] /\ IdOrder[e] < IdOrder[f]

Visible == {e \in Events : status[e] # "none"}
AnyStatus == Visible          \* mutant: the status filter is dropped
SinceLast ==                  \* mutant: a cursor in place of the status
  {e \in Visible : \A f \in Visible : status[f] = "published" => Before(f, e)}
Pending == {e \in Events : status[e] = "pending"}

(* The first n of S in that order. *)
NewestOf(S, n) ==             \* mutant: ORDER BY created_at DESC, id DESC
  {e \in S : Cardinality({f \in S : Before(e, f)}) < n}
OldestOf(S, n) == {e \in S : Cardinality({f \in S : Before(f, e)}) < n}

(* list_events of dispatch_pending. *)
ReadPending(r) ==
  /\ pc[r] = "idle"
  /\ Pending # {}
  /\ \E n \in 1..MaxLimit : batch' = [batch EXCEPT ![r] = OldestOf(Pending, n)]
  /\ pc' = [pc EXCEPT ![r] = "read"]
  /\ UNCHANGED <<clock, created, status, committedAt, phase, given>>

(* With nothing pending the call returns an empty list and writes nothing. *)
ReadNothing(r) ==
  /\ pc[r] = "idle"
  /\ Pending = {}
  /\ UNCHANGED vars

(* The commit flushes PUBLISHED for every event read, whatever its row     *)
(* holds by now.                                                           *)
MarkPublished(r) ==
  /\ pc[r] = "read"
  /\ status' = [e \in Events |-> IF e \in batch[r] THEN "published" ELSE status[e]]
  /\ pc' = [pc EXCEPT ![r] = "marked"]
  /\ UNCHANGED <<clock, created, committedAt, phase, batch, given>>

(* Only now the events leave the server, in the response.                  *)
Respond(r) ==
  /\ pc[r] = "marked"
  /\ given' = [given EXCEPT ![r] =
                [e \in Events |-> IF e \in batch[r] THEN @[e] + 1 ELSE @[e]]]
  /\ batch' = [batch EXCEPT ![r] = {}]
  /\ pc' = [pc EXCEPT ![r] = "idle"]
  /\ UNCHANGED <<clock, created, status, committedAt, phase>>

(* The server, the connection or the relay dies during the call.           *)
CrashCall(r) ==
  /\ pc[r] # "idle"
  /\ batch' = [batch EXCEPT ![r] = {}]
  /\ pc' = [pc EXCEPT ![r] = "idle"]
  /\ UNCHANGED <<clock, created, status, committedAt, phase, given>>

Next ==
  \/ \E h \in Handlers : Enqueue(h) \/ CommitHandler(h) \/ RollbackHandler(h)
  \/ \E r \in Relays :
       \/ ReadPending(r) \/ ReadNothing(r)
       \/ MarkPublished(r) \/ Respond(r) \/ CrashCall(r)

Spec == Init /\ [][Next]_vars

(* Relays keep calling, the server runs the calls, and not every call of a *)
(* relay crashes between its read and its commit.                          *)
Fairness ==
  \A r \in Relays :
    WF_vars(ReadPending(r)) /\ SF_vars(MarkPublished(r)) /\ WF_vars(Respond(r))

FairSpec == Spec /\ Fairness

-----------------------------------------------------------------------------
(* Types of the table and of the calls' locals. *)
TypeOK ==
  /\ clock \in Nat \ {0}
  /\ created \in [Events -> Nat]
  /\ status \in [Events -> {"none", "pending", "published"}]
  /\ committedAt \in [Handlers -> Nat]
  /\ phase \in [Handlers -> {"open", "committed", "rolledBack"}]
  /\ pc \in [Relays -> {"idle", "read", "marked"}]
  /\ batch \in [Relays -> SUBSET Events]
  /\ given \in [Relays -> [Events -> Nat]]

(* DECISIONS.md, outbox-same-transaction: there is no event for a          *)
(* transaction that never landed, neither in a call nor with a relay, and  *)
(* no transaction that landed without its events.                          *)
EventIffCommitted ==
  /\ \A e \in Events :
       status[e] # "none" <=> phase[e[1]] = "committed" /\ created[e] # 0
  /\ \A r \in Relays, e \in Events :
       e \in batch[r] \/ given[r][e] > 0 => phase[e[1]] = "committed"

(* outbox_service.py: published events are not read again, so a relay that *)
(* makes one call at a time never gets an event twice, whatever crashes;   *)
(* only calls that overlap hand out one event more than once.              *)
NeverTwiceToOneRelay == \A r \in Relays, e \in Events : given[r][e] <= 1

(* The transaction of e was over before the one of f got to its event.     *)
Precedes(e, f) ==
  /\ committedAt[e[1]] # 0 /\ created[e] # 0
  /\ committedAt[e[1]] <= created[f]

(* DECISIONS.md, outbox-order-by-sequence, as far as it holds: an event is *)
(* not published before the events of transactions that had committed when *)
(* it was written, whatever limits the relays ask for and however their    *)
(* calls interleave.                                                       *)
NotOvertaken ==
  \A e, f \in Events :
    status[f] = "published" /\ Precedes(e, f) => status[e] = "published"

(* The inductive invariant: what a transaction's end means for its events, *)
(* what a call holds between its steps, and that with an event it holds    *)
(* the older ones that were there to be read.                              *)
HandlerInv ==
  /\ \A h \in Handlers : committedAt[h] # 0 <=> phase[h] = "committed"
  /\ \A e \in Events :
       /\ created[e] <= clock
       /\ status[e] # "none" <=> phase[e[1]] = "committed" /\ created[e] # 0
       /\ phase[e[1]] = "committed" => created[e] < committedAt[e[1]]

CallInv ==
  \A r \in Relays, e \in Events :
    /\ e \in batch[r] =>
         /\ pc[r] # "idle" /\ status[e] # "none" /\ given[r][e] = 0
         /\ pc[r] = "marked" => status[e] = "published"
    /\ given[r][e] > 0 => status[e] = "published" /\ given[r][e] = 1

OrderInv ==
  \A e, f \in Events : Precedes(e, f) =>
    /\ status[f] = "published" => status[e] = "published"
    /\ \A r \in Relays : f \in batch[r] => e \in batch[r] \/ status[e] = "published"

IInv == TypeOK /\ HandlerInv /\ CallInv /\ OrderInv

(* Every event that has been committed is published at last, whatever else *)
(* is enqueued before its turn comes.                                      *)
EveryEventPublished ==
  \A e \in Events : status[e] = "pending" ~> status[e] = "published"

(* outbox_service.py: dispatch is "at-least-once: an event is only flipped *)
(* to PUBLISHED after the caller's delivery attempt returns".              *)
EveryEventDelivered ==
  \A e \in Events : status[e] = "pending" ~> \E r \in Relays : given[r][e] > 0
=============================================================================
