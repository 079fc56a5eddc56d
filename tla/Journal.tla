-------------------------------- MODULE Journal --------------------------------
(***************************************************************************)
(* The history of one account as its readers see it, while transactions go *)
(* on being posted: services/accounts_service.py opens it, the posting     *)
(* engine adds postings and folds them into the snapshot, and three kinds  *)
(* of readers look: the paged journal of services/admin_service.py, the    *)
(* statements of services/statements_service.py and the drift check of     *)
(* api/observability.py.                                                   *)
(*                                                                         *)
(* A transaction may have two postings on the account (a transfer to       *)
(* itself), and their effective_at is the client's or datetime.now(), so   *)
(* commits come in any order of effective_at.                              *)
(***************************************************************************)
EXTENDS Partitioning, FiniteSetsExt

CONSTANTS
  Transactions,   \* transactions with postings on the account
  Readers,        \* callers of the reading endpoints
  Times,          \* bound: the instants at which postings take effect
  MaxLimit,       \* bound: postings on a page
  IdOrder,        \* Posting.id, as its place in the order of the ids
  CreatedOrder    \* Posting.created_at, of which no two are equal, likewise

Postings == Transactions \X {1, 2}

ASSUME TimesAssumption == Times \subseteq Instants
ASSUME LimitAssumption == MaxLimit \in Nat
ASSUME OrderAssumption ==
  \A order \in {IdOrder, CreatedOrder} :
    /\ order \in [Postings -> Nat]
    /\ \A p, q \in Postings : order[p] = order[q] => p = q
ASSUME TransactionsAssumption == IsFiniteSet(Transactions)

Unset == [amount |-> 0]
Entries == [amount : {-1, 1}, at : Times]

VARIABLES
  account,    \* the accounts row is there
  snapshot,   \* the account_balances row is there
  balance,    \* its balance
  posting,    \* the Posting rows
  rows,       \* the committed ones
  pc,         \* what a reader does next
  cursor,     \* the after of a journal's next page, none for the first
  given,      \* how often a posting was on a page
  seen,       \* the figure a drift check holds, and then reports
  issued,     \* the statement a reader was given, if any
  from,       \* history: the rows when a reader began
  upto        \* history: the rows when it read last

table  == <<account, snapshot, balance, posting, rows>>
reader == <<pc, cursor, given, seen, issued, from, upto>>
vars   == <<account, snapshot, balance, posting, rows,
            pc, cursor, given, seen, issued, from, upto>>

Init ==
  /\ account = FALSE /\ snapshot = FALSE
  /\ balance = 0
  /\ posting = [p \in Postings |-> Unset]
  /\ rows = {}
  /\ pc = [r \in Readers |-> "idle"]
  /\ cursor = [r \in Readers |-> {}]
  /\ given = [r \in Readers |-> [p \in Postings |-> 0]]
  /\ seen = [r \in Readers |-> 0]
  /\ issued = [r \in Readers |-> {}]
  /\ from = [r \in Readers |-> {}]
  /\ upto = [r \in Readers |-> {}]

Sum(S) == SumFunctionOnSet([p \in Postings |-> posting[p].amount], S)

-----------------------------------------------------------------------------
(* open_account: the account and its zero snapshot, in one transaction.    *)
OpenBare ==                   \* mutant: the account without its snapshot
  /\ ~account
  /\ account' = TRUE
  /\ UNCHANGED <<snapshot, balance, posting, rows, reader>>
OpenAccount ==
  /\ ~account
  /\ account' = TRUE /\ snapshot' = TRUE
  /\ balance' = 0
  /\ UNCHANGED <<posting, rows, reader>>

(* What the legs of a transaction add to the snapshot. *)
FirstLeg(legs, amount) == amount       \* mutant: an account is locked and folded once
Folded(legs, amount) == IF legs = {1} THEN amount ELSE 0

(* The commit of a transaction with legs on the account, all at one        *)
(* instant.  An UPDATE of a snapshot that is not there changes nothing.    *)
PostTransaction(t) ==
  /\ account
  /\ \A i \in {1, 2} : posting[<<t, i>>] = Unset
  /\ \E L \in {{1}, {1, 2}}, e \in Entries :
       LET leg(i) == [e EXCEPT !.amount = IF i = 1 THEN @ ELSE 0 - @] IN
       /\ posting' = [p \in Postings |->
            IF p[1] = t /\ p[2] \in L THEN leg(p[2]) ELSE posting[p]]
       /\ rows' = rows \cup {<<t, i>> : i \in L}
       /\ balance' = IF snapshot THEN balance + Folded(L, e.amount) ELSE balance
  /\ UNCHANGED <<account, snapshot, reader>>

-----------------------------------------------------------------------------
(* account_journal, page by page. *)

(* ORDER BY effective_at, id *)
Before(p, q) ==
  \/ Earlier(posting[p].at, posting[q].at)
  \/ posting[p].at = posting[q].at /\ IdOrder[p] < IdOrder[q]

(* effective_at > after *)
From(r) ==                    \* mutant: effective_at >= after
  {p \in rows : \A after \in cursor[r] : ~Earlier(posting[p].at, after)}
Beyond(r) ==
  {p \in rows : \A after \in cursor[r] : Earlier(after, posting[p].at)}

(* LIMIT n: the first n of S, or all of them. *)
LastPages(S, n) ==            \* mutant: the newest first
  {P \in SUBSET S :
     /\ \A p \in P, q \in S \ P : Before(q, p)
     /\ Cardinality(P) = n \/ (P = S /\ Cardinality(S) < n)}
Pages(S, n) ==
  {P \in SUBSET S :
     /\ \A p \in P, q \in S \ P : Before(p, q)
     /\ Cardinality(P) = n \/ (P = S /\ Cardinality(S) < n)}

BeginJournal(r) ==
  /\ pc[r] = "idle" /\ account
  /\ pc' = [pc EXCEPT ![r] = "paging"]
  /\ from' = [from EXCEPT ![r] = rows]
  /\ upto' = [upto EXCEPT ![r] = rows]
  /\ UNCHANGED <<table, cursor, given, seen, issued>>

(* One call of the endpoint: a full page has a next_cursor, its last       *)
(* effective_at; any other page is the end.                                *)
ReadPage(r) ==
  /\ pc[r] = "paging"
  /\ \E n \in 1..MaxLimit : \E P \in Pages(Beyond(r), n) :
       /\ given' = [given EXCEPT ![r] = [p \in Postings |-> IF p \in P THEN @[p] + 1 ELSE @[p]]]
       /\ \/ /\ Cardinality(P) = n
             /\ \E last \in P :
                  /\ \A p \in P \ {last} : Before(p, last)
                  /\ cursor' = [cursor EXCEPT ![r] = {posting[last].at}]
             /\ UNCHANGED pc
          \/ /\ Cardinality(P) # n
             /\ pc' = [pc EXCEPT ![r] = "done"]
             /\ UNCHANGED cursor
  /\ upto' = [upto EXCEPT ![r] = rows]
  /\ UNCHANGED <<table, seen, issued, from>>

-----------------------------------------------------------------------------
(* check_balance_drift: the snapshot, then the sum of the postings.        *)

ReadSnapshot(r) ==
  /\ pc[r] = "idle" /\ snapshot
  /\ seen' = [seen EXCEPT ![r] = balance]
  /\ pc' = [pc EXCEPT ![r] = "sum"]
  /\ from' = [from EXCEPT ![r] = rows]
  /\ upto' = [upto EXCEPT ![r] = rows]
  /\ UNCHANGED <<table, cursor, given, issued>>

Recompute(r) ==
  /\ pc[r] = "sum"
  /\ seen' = [seen EXCEPT ![r] = @ - Sum(rows)]
  /\ pc' = [pc EXCEPT ![r] = "reported"]
  /\ upto' = [upto EXCEPT ![r] = rows]
  /\ UNCHANGED <<table, cursor, given, issued, from>>

-----------------------------------------------------------------------------
(* stream_statement: one SELECT.                                           *)

ClosedWindow(S, start, end) ==    \* mutant: effective_at <= end
  {p \in S : ~Earlier(posting[p].at, start) /\ ~Earlier(end, posting[p].at)}
Window(S, start, end) == {p \in S : Within(posting[p].at, start, end)}

(* The running balance of its last row; the route opens it with zero. *)
Closing(start, end) == Sum(Window(rows, start, end))

(* ORDER BY effective_at, created_at *)
Precedes(p, q) ==
  \/ Earlier(posting[p].at, posting[q].at)
  \/ posting[p].at = posting[q].at /\ CreatedOrder[p] < CreatedOrder[q]

(* Its StatementRows, each with the running balance. *)
StatementAsCreated(S, start, end) ==   \* mutant: ORDER BY created_at
  LET W == Window(S, start, end) IN
  {[posting |-> p, balance |-> Sum({q \in W : CreatedOrder[q] <= CreatedOrder[p]})] : p \in W}
Statement(S, start, end) ==
  LET W == Window(S, start, end) IN
  {[posting |-> p, balance |-> Sum({q \in W : q = p \/ Precedes(q, p)})] : p \in W}

IssueStatement(r) ==
  /\ pc[r] = "idle" /\ account
  /\ \E start, end \in Times :
       issued' = [issued EXCEPT ![r] =
         {[start |-> start, end |-> end, lines |-> Statement(rows, start, end)]}]
  /\ pc' = [pc EXCEPT ![r] = "issued"]
  /\ from' = [from EXCEPT ![r] = rows]
  /\ upto' = [upto EXCEPT ![r] = rows]
  /\ UNCHANGED <<table, cursor, given, seen>>

Next ==
  \/ OpenAccount
  \/ \E t \in Transactions : PostTransaction(t)
  \/ \E r \in Readers :
       \/ BeginJournal(r) \/ ReadPage(r)
       \/ ReadSnapshot(r) \/ Recompute(r)
       \/ IssueStatement(r)

Spec == Init /\ [][Next]_vars

-----------------------------------------------------------------------------
Statements ==
  [start : Times, end : Times, lines : SUBSET [posting : Postings, balance : Int]]

(* Types of the tables and of the readers' locals.                         *)
TypeOK ==
  /\ account \in BOOLEAN /\ snapshot \in BOOLEAN
  /\ balance \in Int
  /\ posting \in [Postings -> Entries \cup {Unset}]
  /\ rows \in SUBSET Postings
  /\ pc \in [Readers -> {"idle", "paging", "sum", "reported", "done", "issued"}]
  /\ cursor \in [Readers -> SUBSET Times]
  /\ given \in [Readers -> [Postings -> Nat]]
  /\ seen \in [Readers -> Int]
  /\ issued \in [Readers -> SUBSET Statements]
  /\ from \in [Readers -> SUBSET Postings]
  /\ upto \in [Readers -> SUBSET Postings]

SameInstant(p, q) == p # q /\ posting[p].at = posting[q].at

(* admin_service.py: whoever reads the journal to its end, while postings  *)
(* are backdated in front of the cursor and behind it, has every posting   *)
(* that was committed before the first page, but for one that shares its   *)
(* effective_at with a posting that was on a page: the cursor skips it.    *)
JournalIsComplete ==
  \A r \in Readers : pc[r] = "done" =>
    \A p \in from[r] :
      given[r][p] > 0 \/ \E q \in Postings : given[r][q] > 0 /\ SameInstant(p, q)

(* admin_service.py, "an exclusive cursor": no posting is on two pages,    *)
(* and none is on a page that was not committed.                           *)
JournalRepeatsNothing ==
  \A r \in Readers, p \in Postings :
    given[r][p] <= 1 /\ (given[r][p] > 0 => p \in rows)

(* observability.py: "a non-zero result means the materialized balance and *)
(* the posting ledger disagree".  They never do: what is reported is what  *)
(* was committed between the two reads, and nothing else.                  *)
DriftIsInFlight ==
  \A r \in Readers : pc[r] = "reported" => seen[r] = 0 - Sum(upto[r] \ from[r])

(* accounts_service.py and balances_service.py: an open account has its    *)
(* snapshot, and wherever its history is cut the statements of the two     *)
(* parts add up to it, with no posting in both and none in neither.        *)
StatementsAddUp ==
  account => \A first, cut, end \in Times :
    (\A p \in rows : Within(posting[p].at, first, end)) /\ Within(cut, first, end) =>
      balance = Closing(first, cut) + Closing(cut, end)

(* statements_service.py, "immutable once issued": issued again, whatever   *)
(* was committed since, a statement has the rows it had and those that     *)
(* were backdated into its period, and a running balance differs by the    *)
(* backdated postings before it, and by nothing else: it is the same if    *)
(* there are none.                                                         *)
ReissueAddsLatePostings ==
  \A r \in Readers : \A s \in issued[r] :
    LET again == Statement(rows, s.start, s.end)
        late  == Window(rows \ from[r], s.start, s.end)
    IN  /\ {l.posting : l \in again} = {l.posting : l \in s.lines} \cup late
        /\ \A l \in s.lines :
             [l EXCEPT !.balance = @ + Sum({q \in late : Precedes(q, l.posting)})] \in again

(* The inductive invariant: rows have entries, and behind the cursor of a  *)
(* journal nothing is missing that has no companion at its instant.        *)
RowInv == \A p \in Postings : p \in rows <=> posting[p] \in Entries

Covered(r, p) ==
  \/ given[r][p] > 0
  \/ \E q \in Postings : given[r][q] > 0 /\ SameInstant(p, q)
Behind(r, p) == \E after \in cursor[r] : ~Earlier(after, posting[p].at)

PageInv ==
  \A r \in Readers :
    /\ from[r] \subseteq rows
    /\ pc[r] = "idle" => from[r] = {} /\ cursor[r] = {}
    /\ pc[r] # "paging" /\ pc[r] # "done" => \A p \in Postings : given[r][p] = 0
    /\ \A p \in Postings :
         given[r][p] > 0 =>
           /\ p \in rows /\ given[r][p] = 1
           /\ pc[r] = "paging" => Behind(r, p)
    /\ pc[r] \in {"paging", "done"} => \A p \in from[r] :
         pc[r] = "done" \/ Behind(r, p) => Covered(r, p)

(* An open account has its snapshot, which is the sum of the rows, and a   *)
(* drift check holds the sum of the rows its first read saw, then the      *)
(* difference to the sum of those its second read saw.                     *)
SumInv ==
  /\ account <=> snapshot
  /\ ~account => rows = {}
  /\ balance = Sum(rows)
  /\ \A r \in Readers :
       /\ pc[r] = "sum" => seen[r] = Sum(from[r])
       /\ pc[r] = "reported" =>
            /\ from[r] \subseteq upto[r] /\ upto[r] \subseteq rows
            /\ seen[r] = 0 - Sum(upto[r] \ from[r])

(* An issued statement is that of the rows there were. *)
StatementInv ==
  \A r \in Readers :
    /\ pc[r] = "issued" \/ issued[r] = {}
    /\ \A s \in issued[r] : s.lines = Statement(from[r], s.start, s.end)

IInv == TypeOK /\ RowInv /\ PageInv /\ SumInv /\ StatementInv
=============================================================================
