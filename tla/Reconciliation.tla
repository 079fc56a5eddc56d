----------------------------- MODULE Reconciliation -----------------------------
(***************************************************************************)
(* Bank statements: services/reconciliation_importer.py stores the lines   *)
(* of an uploaded file once, by the hash of the file, and                  *)
(* services/reconciliation_matcher.py proposes a posting for a line.       *)
(*                                                                         *)
(* An upload is one call of import_statement in a session of its own at    *)
(* READ COMMITTED; no column of statement_imports but its id is unique, so *)
(* nothing but the lookup keeps two uploads of a file apart.  What the     *)
(* matcher is given are the postings of the account, which are only added  *)
(* to; it writes nothing.                                                  *)
(***************************************************************************)
EXTENDS Integers

CONSTANTS
  Uploads,     \* calls of import_statement, and the ids of their imports
  TenantIds,
  Accounts,
  Files,       \* files, as their hashes
  LineNos,     \* the lines of a file
  FileLine,    \* the file's lines, parsed: [amount, day, ref]
  Postings,    \* posting ids
  Arriving,    \* bound: what a posting may say
  Amounts,     \* bound: amounts
  Days,        \* bound: days
  Refs,        \* external references
  Blank        \* the reference that was left out, ""

Items == [amount : Amounts, day : Days, ref : Refs]
Candidates == [id : Postings, item : Arriving]    \* PostingCandidate
Requests == [tenant : TenantIds, account : Accounts, file : Files]
Imports == [id : Uploads, of : Requests]          \* StatementImport
Rows == Uploads \X LineNos                        \* StatementLine

ASSUME DaysAssumption == Days \subseteq Int
ASSUME FileAssumption == FileLine \in [Files -> [LineNos -> Items]]
ASSUME ArrivingAssumption == Arriving \subseteq Items

VARIABLES
  pc,         \* what an upload does next
  request,    \* what it uploads
  imports,    \* the statement_imports rows committed
  lines,      \* the statement_lines rows committed
  answer,     \* the import an upload was answered with
  known,      \* history: the imports committed when an upload looked
  postings,   \* the postings of the account
  result      \* the matcher's latest proposal for a line

tables == <<imports, lines>>
vars == <<pc, request, imports, lines, answer, known, postings, result>>

Unseen == [kind |-> "unseen", link |-> {}]
Unmatched == [kind |-> "unmatched", link |-> {}]
Ambiguous == [kind |-> "ambiguous", link |-> {}]
Matched(c) == [kind |-> "matched", link |-> {c.id}]

Init ==
  /\ pc = [u \in Uploads |-> "idle"]
  /\ request \in [Uploads -> Requests]
  /\ imports = {} /\ lines = {}
  /\ answer = [u \in Uploads |-> {}]
  /\ known = [u \in Uploads |-> {}]
  /\ postings = {}
  /\ result = [row \in Rows |-> Unseen]

-----------------------------------------------------------------------------
(* import_statement *)

(* StatementImport.tenant_id == tenant_id, StatementImport.file_hash == digest *)
FoundForAccount(r) ==         \* mutant: and the account's
  {i \in imports : i.of = r}
FoundAnywhere(r) ==           \* mutant: another tenant's too
  {i \in imports : i.of.file = r.file}
Found(r) == {i \in imports : i.of.tenant = r.tenant /\ i.of.file = r.file}

Lookup(u) ==
  /\ pc[u] = "idle"
  /\ known' = [known EXCEPT ![u] = imports]
  /\ \/ \E i \in Found(request[u]) :
          /\ answer' = [answer EXCEPT ![u] = {i}]
          /\ pc' = [pc EXCEPT ![u] = "answered"]
     \/ /\ Found(request[u]) = {}
        /\ pc' = [pc EXCEPT ![u] = "insert"]
        /\ UNCHANGED answer
  /\ UNCHANGED <<request, tables, postings, result>>

(* The flush of the import: a row that nobody sees before the commit. *)
CommitsImport(u) ==           \* mutant: a commit where the flush is
  /\ pc[u] = "insert"
  /\ imports' = imports \cup {[id |-> u, of |-> request[u]]}
  /\ pc' = [pc EXCEPT ![u] = "lines"]
  /\ UNCHANGED <<request, lines, answer, known, postings, result>>
InsertImport(u) ==
  /\ pc[u] = "insert"
  /\ pc' = [pc EXCEPT ![u] = "lines"]
  /\ UNCHANGED <<request, tables, answer, known, postings, result>>

(* The lines, and the commit of all. *)
CommitLines(u) ==
  /\ pc[u] = "lines"
  /\ imports' = imports \cup {[id |-> u, of |-> request[u]]}
  /\ lines' = lines \cup ({u} \X LineNos)
  /\ answer' = [answer EXCEPT ![u] = {[id |-> u, of |-> request[u]]}]
  /\ pc' = [pc EXCEPT ![u] = "answered"]
  /\ UNCHANGED <<request, known, postings, result>>

(* The process or the connection is lost: what was not committed is gone. *)
Crash(u) ==
  /\ pc[u] \in {"insert", "lines"}
  /\ pc' = [pc EXCEPT ![u] = "failed"]
  /\ UNCHANGED <<request, tables, answer, known, postings, result>>

-----------------------------------------------------------------------------
(* match_line *)

MatchWindow == 2

NotLater(d, e) == d - e <= MatchWindow       \* mutant: a difference without abs
Near(d, e) == d - e <= MatchWindow /\ e - d <= MatchWindow
Agree(s, t) == s = Blank \/ t = Blank \/ s = t

Line(row) == FileLine[request[row[1]].file][row[2]]
AnyAmount(row) ==             \* mutant: days and references only
  {c \in postings : Near(c.item.day, Line(row).day) /\ Agree(c.item.ref, Line(row).ref)}
Hits(row) ==
  {c \in postings :
     /\ c.item.amount = Line(row).amount
     /\ Near(c.item.day, Line(row).day)
     /\ Agree(c.item.ref, Line(row).ref)}

AnyHit(row) ==                \* mutant: the first of several
  IF Hits(row) = {} THEN Unmatched ELSE Matched(CHOOSE c \in Hits(row) : TRUE)
MatchLine(row) ==
  IF Hits(row) = {} THEN Unmatched
  ELSE IF \E c \in Hits(row) : Hits(row) = {c}
    THEN Matched(CHOOSE c \in Hits(row) : TRUE)
    ELSE Ambiguous

Match(row) ==
  /\ row \in lines
  /\ result' = [result EXCEPT ![row] = MatchLine(row)]
  /\ UNCHANGED <<pc, request, tables, answer, known, postings>>

(* The ledger goes on: a posting more. *)
AddPosting(c) ==
  /\ \A d \in postings : d.id # c.id
  /\ postings' = postings \cup {c}
  /\ UNCHANGED <<pc, request, tables, answer, known, result>>

Next ==
  \/ \E u \in Uploads : Lookup(u) \/ InsertImport(u) \/ CommitLines(u) \/ Crash(u)
  \/ \E row \in Rows : Match(row)
  \/ \E c \in Candidates : AddPosting(c)

Spec == Init /\ [][Next]_vars

-----------------------------------------------------------------------------
(* Types of the tables and of the uploads' locals. *)
TypeOK ==
  /\ pc \in [Uploads -> {"idle", "insert", "lines", "answered", "failed"}]
  /\ request \in [Uploads -> Requests]
  /\ imports \in SUBSET Imports
  /\ lines \in SUBSET Rows
  /\ answer \in [Uploads -> SUBSET Imports]
  /\ known \in [Uploads -> SUBSET Imports]
  /\ postings \in SUBSET Candidates
  /\ result \in [Rows -> [kind : {"unseen", "unmatched", "matched", "ambiguous"},
                          link : SUBSET Postings]]

SameFile(i, j) == i.of.tenant = j.of.tenant /\ i.of.file = j.of.file

(* reconciliation_importer.py, "re-uploading the same file returns the     *)
(* existing import": a tenant has two imports of one file only from two    *)
(* uploads that overlapped, each begun before the other's commit.          *)
RetryFindsImport ==
  \A i, j \in imports :
    i # j /\ SameFile(i, j) => i \notin known[j.id] /\ j \notin known[i.id]

(* reconciliation_importer.py: an import is there with all its lines or    *)
(* not at all, wherever the upload crashed.                                *)
ImportIsWhole ==
  lines = {i.id : i \in imports} \X LineNos

(* reconciliation_importer.py: whoever was answered, the first upload or a *)
(* retry or an upload that overlapped with it, finds the file's lines      *)
(* stored for its own tenant.  The account may be another one's.           *)
AnsweredIsStored ==
  \A u \in Uploads : pc[u] = "answered" =>
    \E i \in imports :
      /\ answer[u] = {i}
      /\ i.of.tenant = request[u].tenant
      /\ request[i.id] = i.of
      /\ \A n \in LineNos :
           /\ <<i.id, n>> \in lines
           /\ Line(<<i.id, n>>) = FileLine[request[u].file][n]

(* reconciliation_matcher.py, "reported AMBIGUOUS rather than guessed": as *)
(* postings are added, the posting proposed for a line never changes to    *)
(* another one, and what was ambiguous stays so.                           *)
LinkNeverMoves ==
  [][\A row \in Rows :
       /\ result[row].kind = "matched" => result'[row] \in {result[row], Ambiguous}
       /\ result[row].kind = "ambiguous" => result'[row] = Ambiguous]_vars

(* reconciliation_matcher.py: the matcher does not remember what it        *)
(* proposed, so a posting may be proposed for several lines; they have one *)
(* amount then, and their days are at most two windows apart.              *)
SharedPostingAgrees ==
  \A row, other \in Rows :
    result[row].link \cap result[other].link # {} =>
      /\ Line(row).amount = Line(other).amount
      /\ Line(row).day - Line(other).day <= 2 * MatchWindow

(* The inductive invariant. *)
UploadInv ==
  /\ \A i \in imports : pc[i.id] = "answered" /\ i.of = request[i.id]
  /\ \A u \in Uploads : pc[u] = "idle" => known[u] = {}
  /\ \A u \in Uploads : known[u] \subseteq imports
  /\ \A i \in imports : \A j \in known[i.id] : ~SameFile(i, j)
  /\ \A u \in Uploads : pc[u] \in {"insert", "lines"} =>
       \A i \in known[u] : i.of.tenant # request[u].tenant \/ i.of.file # request[u].file

MatchInv ==
  /\ \A c, d \in postings : c.id = d.id => c = d
  /\ \A row \in Rows :
       /\ result[row].kind # "matched" => result[row].link = {}
       /\ result[row].kind = "matched" => \E c \in Hits(row) : result[row] = Matched(c)
       /\ result[row].kind = "ambiguous" =>
            result[row] = Ambiguous /\ \E c, d \in Hits(row) : c # d

IInv == TypeOK /\ UploadInv /\ ImportIsWhole /\ AnsweredIsStored /\ MatchInv
=============================================================================
