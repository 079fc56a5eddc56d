-------------------------------- MODULE FxRates --------------------------------
(***************************************************************************)
(* services/fx_rates.py and routers/fx_routes.py: rates are published, one *)
(* append-only row each, while quotes and conversions resolve the rate     *)
(* that is effective for a pair at an instant.  A resolution is up to two  *)
(* statements, the pair and then its inverse, and each sees the rows that  *)
(* are committed when it runs.                                             *)
(*                                                                         *)
(* Instants are client-given or datetime.now() at either side, so at any   *)
(* moment any instant may be stamped or asked for.  A publication reads    *)
(* nothing: it is the instant of its commit, and a failed one is nothing.  *)
(***************************************************************************)
EXTENDS Integers, FiniteSets

CONSTANTS
  Currencies,     \* the currencies
  Publications,   \* calls of POST /fx/rates, each the id of its row
  Calls,          \* calls of resolve_rate
  Rates,          \* published rates, in units of 10^-11
  Quoted,         \* bound: the pairs that rates are published for
  MaxTime         \* bound: the latest instant

NoRow == {"pending", "identity", "unavailable"}

ASSUME RowAssumption  == Publications \cap NoRow = {}
ASSUME RateAssumption == Rates \subseteq Nat \ {0}

Times == 1..MaxTime

(* NUMERIC(20, 10) rounds half up: a rate above zero may be stored as zero. *)
Stored(n) == (n + 5) \div 10

Bodies ==
  {b \in [base : Currencies, quote : Currencies, rate : Rates, at : Times] :
     <<b.base, b.quote>> \in Quoted}
Questions == [base : Currencies, quote : Currencies, at : Times]
NoBody    == [base |-> "none"]

VARIABLES
  row,      \* the FxRate row of a publication
  rows,     \* the committed rows
  pc,       \* what a resolution does next
  ask,      \* its pair and its as_of
  answer,   \* the row it has resolved
  from,     \* history: the rows when it began
  upto      \* history: the rows when it read last

vars == <<row, rows, pc, ask, answer, from, upto>>

Init ==
  /\ row = [p \in Publications |-> NoBody]
  /\ rows = {}
  /\ pc = [c \in Calls |-> "idle"]
  /\ ask = [c \in Calls |-> NoBody]
  /\ answer = [c \in Calls |-> "pending"]
  /\ from = [c \in Calls |-> {}]
  /\ upto = [c \in Calls |-> {}]

-----------------------------------------------------------------------------
(* upsert_rate_endpoint: one INSERT, for any instant, early or late.       *)
SamePair(p, r) == row[p].base = row[r].base /\ row[p].quote = row[r].quote
Replaced(b) ==                \* mutant: the upsert its name speaks of
  {r \in rows : row[r].base # b.base \/ row[r].quote # b.quote}
Kept(b) == rows

UpsertRate(p) ==
  /\ row[p] = NoBody
  /\ \E b \in Bodies :
       /\ row' = [row EXCEPT ![p] = b]
       /\ rows' = Kept(b) \cup {p}
  /\ UNCHANGED <<pc, ask, answer, from, upto>>

-----------------------------------------------------------------------------
(* resolve_rate *)

(* The rows of S for a pair that are effective at t. *)
Effective(S, b, q, t) ==
  {p \in S : row[p].base = b /\ row[p].quote = q /\ row[p].at <= t}

(* ORDER BY effective_at DESC LIMIT 1: any of the newest, should they tie. *)
Newest(E) == {p \in E : \A r \in E : row[r].at <= row[p].at}
Oldest(E) ==                  \* mutant: ORDER BY effective_at LIMIT 1
  {p \in E : \A r \in E : row[p].at <= row[r].at}
Latest(E) == Newest(E)

Direct(S, u)  == Effective(S, u.base, u.quote, u.at)
Inverse(S, u) == Effective(S, u.quote, u.base, u.at)
Usable(p) == Stored(row[p].rate) # 0

(* An identity pair never hits the table. *)
AskIdentity(c) ==
  /\ pc[c] = "idle"
  /\ \E u \in Questions : u.base = u.quote /\ ask' = [ask EXCEPT ![c] = u]
  /\ pc' = [pc EXCEPT ![c] = "done"]
  /\ answer' = [answer EXCEPT ![c] = "identity"]
  /\ UNCHANGED <<row, rows, from, upto>>

Ask(c) ==
  /\ pc[c] = "idle"
  /\ \E u \in Questions : u.base # u.quote /\ ask' = [ask EXCEPT ![c] = u]
  /\ pc' = [pc EXCEPT ![c] = "direct"]
  /\ from' = [from EXCEPT ![c] = rows]
  /\ upto' = [upto EXCEPT ![c] = rows]
  /\ UNCHANGED <<row, rows, answer>>

Resolve(c, result) ==
  /\ pc' = [pc EXCEPT ![c] = "done"]
  /\ answer' = [answer EXCEPT ![c] = result]

(* The first _latest. *)
ReadDirect(c) ==
  LET quoted == Direct(rows, ask[c]) IN
  /\ pc[c] = "direct"
  /\ \/ \E p \in Latest(quoted) : Resolve(c, p)
     \/ quoted = {} /\ pc' = [pc EXCEPT ![c] = "inverse"] /\ UNCHANGED answer
  /\ upto' = [upto EXCEPT ![c] = rows]
  /\ UNCHANGED <<row, rows, ask, from>>

(* The second one, for the reciprocal. *)
DirectOnly(c) ==              \* mutant: the reciprocal is not looked for
  /\ pc[c] = "inverse"
  /\ Resolve(c, "unavailable")
  /\ UNCHANGED <<row, rows, ask, from, upto>>
ReadInverse(c) ==
  LET quoted == Inverse(rows, ask[c]) IN
  /\ pc[c] = "inverse"
  /\ \/ \E p \in Latest(quoted) : Resolve(c, IF Usable(p) THEN p ELSE "unavailable")
     \/ quoted = {} /\ Resolve(c, "unavailable")
  /\ upto' = [upto EXCEPT ![c] = rows]
  /\ UNCHANGED <<row, rows, ask, from>>

Next ==
  \/ \E p \in Publications : UpsertRate(p)
  \/ \E c \in Calls : AskIdentity(c) \/ Ask(c) \/ ReadDirect(c) \/ ReadInverse(c)

Spec == Init /\ [][Next]_vars

-----------------------------------------------------------------------------
(* Types of the table and of the calls' locals. *)
TypeOK ==
  /\ row \in [Publications -> Bodies \cup {NoBody}]
  /\ rows \in SUBSET Publications
  /\ pc \in [Calls -> {"idle", "direct", "inverse", "done"}]
  /\ ask \in [Calls -> Questions \cup {NoBody}]
  /\ answer \in [Calls -> Publications \cup NoRow]
  /\ from \in [Calls -> SUBSET Publications]
  /\ upto \in [Calls -> SUBSET Publications]

(* What one statement over the rows of S would have answered. *)
AtOnce(S, u) ==
  LET inverse == Newest(Inverse(S, u)) IN
  IF Direct(S, u) # {} THEN Newest(Direct(S, u))
  ELSE {p \in inverse : Usable(p)}
         \cup {x \in {"unavailable"} : Inverse(S, u) = {} \/ \E p \in inverse : ~Usable(p)}

Answered(c) == pc[c] = "done" /\ ask[c].base # ask[c].quote

OneSided(S, u) == Direct(S, u) = {} \/ Inverse(S, u) = {}

(* fx_rates.py: the answer is the rate that was effective.  As long as     *)
(* only one side of the pair is maintained, the two statements answer what *)
(* one would have, at the beginning or at the end of the call, however     *)
(* publications and rollbacks fall between them.                           *)
AnswerWasEffective ==
  \A c \in Calls :
    Answered(c) /\ OneSided(upto[c], ask[c]) =>
      \E S \in {from[c], upto[c]} : answer[c] \in AtOnce(S, ask[c])

(* fx_rates.py, "raises when neither direction has an effective quote", as *)
(* far as it holds: a pair is refused only if no direct quote was there    *)
(* when the call began, and no inverse one either, unless the newest       *)
(* inverse row the call has read is stored as zero.  Such a row refuses    *)
(* the pair whatever older quotes there are, since only the newest is      *)
(* read.  It holds also if both sides are maintained and change meanwhile. *)
QuotedPairIsAnswered ==
  \A c \in Calls :
    Answered(c) /\ answer[c] = "unavailable" =>
      /\ Direct(from[c], ask[c]) = {}
      /\ \/ Inverse(from[c], ask[c]) = {}
         \/ \E p \in Newest(Inverse(upto[c], ask[c])) : ~Usable(p)

(* d began when everything that c saw was committed. *)
After(d, c) == Answered(c) /\ Answered(d) /\ upto[c] \subseteq from[d]
SameQuestion(c, d) == ask[c] = ask[d]

(* A quote that was not there when c began, for an instant up to c's.      *)
LateFor(c, d) ==
  (Direct(upto[d], ask[c]) \cup Inverse(upto[d], ask[c])) \ from[c] # {}
Tied(p, r) == p # r /\ SamePair(p, r) /\ row[p].at = row[r].at

(* "A historical conversion always resolves the same row it originally     *)
(* saw", as far as it holds: another row is resolved for the same instant  *)
(* only if a quote for it came in late, by its stamp or by its commit, or  *)
(* two rows share their effective_at.                                      *)
HistoryRepeats ==
  \A c, d \in Calls :
    After(d, c) /\ SameQuestion(c, d) /\ answer[c] # answer[d] =>
      \/ LateFor(c, d)
      \/ \E p, r \in Direct(from[c], ask[c]) \cup Inverse(from[c], ask[c]) : Tied(p, r)

(* Append-only rates: what an instant resolves to only ever becomes newer, *)
(* if one side of the pair is maintained and no rate is stored as zero.    *)
NeverOlder ==
  \A c, d \in Calls :
    /\ After(d, c) /\ SameQuestion(c, d)
    /\ OneSided(upto[d], ask[d])
    /\ \A p \in upto[d] : Usable(p)
    /\ answer[c] \in Publications
    => answer[d] \in Publications /\ row[answer[c]].at <= row[answer[d]].at

(* The inductive invariant: the table has every row that was published,    *)
(* and what a call has read is newest among all it could have read.        *)
RowInv == \A p \in Publications : p \in rows <=> row[p] \in Bodies

RightAnswer(c) ==
  LET inverse == Newest(Inverse(upto[c], ask[c])) IN
  \/ answer[c] \in Newest(Direct(upto[c], ask[c]))
  \/ /\ Direct(from[c], ask[c]) = {}
     /\ \/ answer[c] \in inverse /\ Usable(answer[c])
        \/ answer[c] = "unavailable" /\ \E p \in inverse : ~Usable(p)
        \/ answer[c] = "unavailable" /\ Inverse(upto[c], ask[c]) = {}

CallInv ==
  \A c \in Calls :
    /\ from[c] \subseteq upto[c] /\ upto[c] \subseteq rows
    /\ pc[c] = "idle" => answer[c] = "pending" /\ upto[c] = {}
    /\ pc[c] # "idle" => ask[c] \in Questions
    /\ pc[c] = "inverse" => Direct(from[c], ask[c]) = {}
    /\ Answered(c) => RightAnswer(c)

IInv == TypeOK /\ RowInv /\ CallInv
=============================================================================
