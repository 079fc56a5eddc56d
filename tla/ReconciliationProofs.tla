-------------------------- MODULE ReconciliationProofs --------------------------
(***************************************************************************)
(* Theorems about Reconciliation, for every set of uploads, tenants, files *)
(* and postings.                                                           *)
(***************************************************************************)
EXTENDS Reconciliation, TLAPS

-----------------------------------------------------------------------------
(* Lemmas about the matcher. *)

(* A row of an import is a line of its file.                               *)
LEMMA LineIsItem ==
  ASSUME TypeOK, NEW row \in Rows
  PROVE  Line(row) \in Items
<1>1. row[1] \in Uploads /\ row[2] \in LineNos
  BY DEF Rows
<1>2. request[row[1]].file \in Files
  BY <1>1 DEF TypeOK, Requests
<1> QED
  BY <1>1, <1>2, FileAssumption DEF Line

(* The three outcomes of match_line. *)
LEMMA MatchLineCases ==
  ASSUME TypeOK, NEW row \in Rows
  PROVE  \/ MatchLine(row) = Unmatched /\ Hits(row) = {}
         \/ \E c \in Hits(row) : Hits(row) = {c} /\ MatchLine(row) = Matched(c)
         \/ MatchLine(row) = Ambiguous /\ \E c, d \in Hits(row) : c # d
<1>1. CASE Hits(row) = {}
  BY <1>1 DEF MatchLine
<1>2. CASE Hits(row) # {} /\ \E c \in Hits(row) : Hits(row) = {c}
  <2>1. PICK c \in Hits(row) : Hits(row) = {c}
    BY <1>2
  <2>2. (CHOOSE d \in Hits(row) : TRUE) = c
    BY <2>1
  <2> QED
    BY <1>2, <2>1, <2>2 DEF MatchLine
<1>3. CASE Hits(row) # {} /\ ~\E c \in Hits(row) : Hits(row) = {c}
  <2>1. MatchLine(row) = Ambiguous
    BY <1>3 DEF MatchLine
  <2>2. PICK c : c \in Hits(row)
    BY <1>3
  <2>3. \E d \in Hits(row) : d # c
    BY <1>3, <2>2
  <2> QED
    BY <2>1, <2>2, <2>3
<1> QED
  BY <1>1, <1>2, <1>3

(* The matcher answers with an outcome and postings there can be.          *)
LEMMA MatchLineTyped ==
  ASSUME TypeOK, NEW row \in Rows
  PROVE  MatchLine(row) \in [kind : {"unseen", "unmatched", "matched", "ambiguous"},
                             link : SUBSET Postings]
<1>1. \A c \in Hits(row) : c.id \in Postings
  BY DEF Hits, TypeOK, Candidates
<1> QED
  BY <1>1, MatchLineCases DEF Unmatched, Ambiguous, Matched

-----------------------------------------------------------------------------
(* The invariant. *)

(* The invariant holds before the first upload.                            *)
LEMMA InitIInv == Init => IInv
<1> SUFFICES ASSUME Init PROVE IInv
  OBVIOUS
<1>1. TypeOK
  BY DEF Init, TypeOK, Unseen
<1>2. UploadInv /\ ImportIsWhole /\ AnsweredIsStored
  BY DEF Init, UploadInv, ImportIsWhole, AnsweredIsStored
<1>3. MatchInv
  BY DEF Init, MatchInv, Unseen
<1> QED
  BY <1>1, <1>2, <1>3 DEF IInv

(* A step that leaves the files and the matcher alone. *)
LEMMA MatcherUntouched ==
  ASSUME MatchInv, UNCHANGED <<request, postings, result>>
  PROVE  MatchInv'
<1>1. \A row \in Rows : Hits(row)' = Hits(row)
  BY DEF Hits, Line
<1> QED
  BY <1>1 DEF MatchInv

(* An upload that goes on has seen no import of its file.                  *)
LEMMA LookupKeepsIInv ==
  ASSUME IInv, NEW u \in Uploads, Lookup(u)
  PROVE  IInv'
<1> USE DEF IInv
<1>1. /\ pc[u] = "idle" /\ known' = [known EXCEPT ![u] = imports]
      /\ UNCHANGED <<request, imports, lines, postings, result>>
  BY DEF Lookup, tables
<1>2. \/ \E i \in Found(request[u]) :
           answer' = [answer EXCEPT ![u] = {i}] /\ pc' = [pc EXCEPT ![u] = "answered"]
      \/ Found(request[u]) = {} /\ UNCHANGED answer /\ pc' = [pc EXCEPT ![u] = "insert"]
  BY DEF Lookup
<1>3. Found(request[u]) \subseteq imports
  BY DEF Found
<1>4. TypeOK'
  BY <1>1, <1>2, <1>3 DEF TypeOK
<1>5. \A i \in imports : i.id # u /\ pc'[i.id] = "answered" /\ i.id \in Uploads
  BY <1>1, <1>2 DEF UploadInv, TypeOK, Imports
<1>6. UploadInv'
  <2>1. \A i \in imports' : pc'[i.id] = "answered" /\ i.of = request'[i.id]
    BY <1>1, <1>5 DEF UploadInv
  <2>2. \A v \in Uploads : pc'[v] = "idle" => known'[v] = {}
    BY <1>1, <1>2 DEF UploadInv, TypeOK
  <2>3. \A v \in Uploads : known'[v] \subseteq imports'
    BY <1>1 DEF UploadInv, TypeOK
  <2>4. \A i \in imports' : \A j \in known'[i.id] : ~SameFile(i, j)
    BY <1>1, <1>5 DEF UploadInv, TypeOK
  <2>5. ASSUME NEW v \in Uploads, pc'[v] \in {"insert", "lines"}, NEW i \in known'[v]
        PROVE  i.of.tenant # request'[v].tenant \/ i.of.file # request'[v].file
    <3>1. CASE v = u
      <4>1. Found(request[u]) = {} /\ i \in imports
        BY <1>1, <1>2, <2>5, <3>1 DEF TypeOK
      <4> QED
        BY <1>1, <3>1, <4>1 DEF Found
    <3>2. CASE v # u
      <4>1. pc'[v] = pc[v] /\ known'[v] = known[v]
        BY <1>1, <1>2, <3>2 DEF TypeOK
      <4> QED
        BY <1>1, <2>5, <4>1 DEF UploadInv
    <3> QED
      BY <3>1, <3>2
  <2> QED
    BY <2>1, <2>2, <2>3, <2>4, <2>5 DEF UploadInv
<1>7. ImportIsWhole'
  BY <1>1 DEF ImportIsWhole
<1>8. AnsweredIsStored'
  <2> SUFFICES ASSUME NEW v \in Uploads, pc'[v] = "answered"
               PROVE  \E i \in imports :
                        /\ answer'[v] = {i}
                        /\ i.of.tenant = request[v].tenant
                        /\ request[i.id] = i.of
                        /\ \A n \in LineNos :
                             /\ <<i.id, n>> \in lines
                             /\ Line(<<i.id, n>>) = FileLine[request[v].file][n]
    BY <1>1 DEF AnsweredIsStored, Line
  <2>1. CASE v # u
    BY <1>1, <1>2, <2>1 DEF AnsweredIsStored, TypeOK
  <2>2. CASE v = u
    <3>1. PICK i \in Found(request[u]) : answer' = [answer EXCEPT ![u] = {i}]
      BY <1>2, <2>2 DEF TypeOK
    <3>2. /\ i \in imports /\ i.of.tenant = request[u].tenant
          /\ i.of.file = request[u].file
      BY <3>1 DEF Found
    <3>3. request[i.id] = i.of
      BY <3>2 DEF UploadInv
    <3>4. \A n \in LineNos : <<i.id, n>> \in lines
      BY <3>2 DEF ImportIsWhole
    <3>5. \A n \in LineNos : Line(<<i.id, n>>) = FileLine[request[u].file][n]
      BY <3>2, <3>3 DEF Line
    <3>6. answer'[u] = {i}
      BY <3>1 DEF TypeOK
    <3> QED
      BY <2>2, <3>2, <3>3, <3>4, <3>5, <3>6
  <2> QED
    BY <2>1, <2>2
<1> QED
  BY <1>1, <1>4, <1>6, <1>7, <1>8, MatcherUntouched

(* The flush and the crash: an upload's own state only. *)
LEMMA InsertOrCrashKeepsIInv ==
  ASSUME IInv, NEW u \in Uploads, InsertImport(u) \/ Crash(u)
  PROVE  IInv'
<1> USE DEF IInv
<1>1. PICK s \in {"lines", "failed"} : pc' = [pc EXCEPT ![u] = s]
  BY DEF InsertImport, Crash
<1>2. /\ pc[u] \in {"insert", "lines"}
      /\ UNCHANGED <<request, imports, lines, answer, known, postings, result>>
  BY DEF InsertImport, Crash, tables
<1>3. TypeOK'
  BY <1>1, <1>2 DEF TypeOK
<1>4. \A i \in imports : i.id \in Uploads /\ i.id # u
  BY <1>2 DEF UploadInv, TypeOK, Imports
<1>5. \A v \in Uploads : pc'[v] # pc[v] => v = u /\ pc'[v] \in {"lines", "failed"}
  BY <1>1 DEF TypeOK
<1>6. UploadInv'
  BY <1>1, <1>2, <1>4, <1>5 DEF UploadInv, SameFile, TypeOK
<1>7. ImportIsWhole'
  BY <1>2 DEF ImportIsWhole
<1>8. AnsweredIsStored'
  BY <1>2, <1>5 DEF AnsweredIsStored, Line
<1> QED
  BY <1>2, <1>3, <1>6, <1>7, <1>8, MatcherUntouched

(* An import is committed with all its lines.                              *)
LEMMA CommitLinesKeepsIInv ==
  ASSUME IInv, NEW u \in Uploads, CommitLines(u)
  PROVE  IInv'
<1> USE DEF IInv
<1> DEFINE new == [id |-> u, of |-> request[u]]
<1>1. /\ pc[u] = "lines" /\ imports' = imports \cup {new}
      /\ lines' = lines \cup ({u} \X LineNos)
      /\ answer' = [answer EXCEPT ![u] = {new}]
      /\ pc' = [pc EXCEPT ![u] = "answered"]
      /\ UNCHANGED <<request, known, postings, result>>
  BY DEF CommitLines
<1>2. new \in Imports /\ new.id = u /\ new.of = request[u]
  BY DEF TypeOK, Imports
<1>3. TypeOK'
  <2>1. {u} \X LineNos \in SUBSET Rows
    BY DEF Rows
  <2> QED
    BY <1>1, <1>2, <2>1 DEF TypeOK
<1>4. \A i \in imports : i.id \in Uploads /\ i.id # u
  BY <1>1 DEF UploadInv, TypeOK, Imports
<1>5. UploadInv'
  <2>1. \A i \in imports' : pc'[i.id] = "answered" /\ i.of = request'[i.id]
    BY <1>1, <1>2, <1>4 DEF UploadInv, TypeOK
  <2>2. \A v \in Uploads : pc'[v] = "idle" => known'[v] = {}
    BY <1>1 DEF UploadInv, TypeOK
  <2>3. \A v \in Uploads : known'[v] \subseteq imports'
    BY <1>1 DEF UploadInv
  <2>4. \A i \in imports' : \A j \in known'[i.id] : ~SameFile(i, j)
    BY <1>1, <1>2 DEF UploadInv, SameFile
  <2>5. \A v \in Uploads : pc'[v] \in {"insert", "lines"} =>
          \A i \in known'[v] : i.of.tenant # request'[v].tenant \/ i.of.file # request'[v].file
    BY <1>1 DEF UploadInv, TypeOK
  <2> QED
    BY <2>1, <2>2, <2>3, <2>4, <2>5 DEF UploadInv
<1>6. ImportIsWhole'
  <2>1. {i.id : i \in imports'} = {i.id : i \in imports} \cup {u}
    BY <1>1, <1>2
  <2>2. lines' = ({i.id : i \in imports} \cup {u}) \X LineNos
    BY <1>1 DEF ImportIsWhole
  <2> QED
    BY <2>1, <2>2 DEF ImportIsWhole
<1>7. AnsweredIsStored'
  <2> SUFFICES ASSUME NEW v \in Uploads, pc'[v] = "answered"
               PROVE  \E i \in imports' :
                        /\ answer'[v] = {i}
                        /\ i.of.tenant = request[v].tenant
                        /\ request[i.id] = i.of
                        /\ \A n \in LineNos :
                             /\ <<i.id, n>> \in lines'
                             /\ Line(<<i.id, n>>) = FileLine[request[v].file][n]
    BY <1>1 DEF AnsweredIsStored, Line
  <2>1. CASE v # u
    BY <1>1, <2>1 DEF AnsweredIsStored, TypeOK
  <2>2. CASE v = u
    <3>1. answer'[u] = {new} /\ new \in imports'
      BY <1>1 DEF TypeOK
    <3>2. \A n \in LineNos : <<u, n>> \in lines' /\ Line(<<u, n>>) = FileLine[request[u].file][n]
      BY <1>1 DEF Line
    <3> QED
      BY <1>2, <2>2, <3>1, <3>2
  <2> QED
    BY <2>1, <2>2
<1> QED
  BY <1>1, <1>3, <1>5, <1>6, <1>7, MatcherUntouched

(* A step of the matcher or of the ledger leaves the uploads alone. *)
LEMMA UploadsUntouched ==
  ASSUME UploadInv, ImportIsWhole, AnsweredIsStored,
         UNCHANGED <<pc, request, imports, lines, answer, known>>
  PROVE  UploadInv' /\ ImportIsWhole' /\ AnsweredIsStored'
BY DEF UploadInv, SameFile, ImportIsWhole, AnsweredIsStored, Line

(* A proposal has the postings behind it that made it one.                 *)
LEMMA MatchKeepsIInv ==
  ASSUME IInv, NEW row \in Rows, Match(row)
  PROVE  IInv'
<1> USE DEF IInv
<1>1. /\ result' = [result EXCEPT ![row] = MatchLine(row)]
      /\ UNCHANGED <<pc, request, imports, lines, answer, known, postings>>
  BY DEF Match, tables
<1>2. TypeOK'
  BY <1>1, MatchLineTyped DEF TypeOK
<1>3. \A r \in Rows : Hits(r)' = Hits(r)
  BY <1>1 DEF Hits, Line
<1>4. MatchInv'
  <2> SUFFICES ASSUME NEW r \in Rows
               PROVE /\ result'[r].kind # "matched" => result'[r].link = {}
                     /\ result'[r].kind = "matched" =>
                          \E c \in Hits(r) : result'[r] = Matched(c)
                     /\ result'[r].kind = "ambiguous" =>
                          result'[r] = Ambiguous /\ \E c, d \in Hits(r) : c # d
    BY <1>1, <1>3 DEF MatchInv
  <2>1. CASE r # row
    BY <1>1, <2>1 DEF MatchInv, TypeOK
  <2>2. CASE r = row
    <3>1. result'[r] = MatchLine(row)
      BY <1>1, <2>2 DEF TypeOK
    <3>2. CASE MatchLine(row) = Unmatched
      BY <3>1, <3>2 DEF Unmatched
    <3>3. CASE \E c \in Hits(row) : MatchLine(row) = Matched(c)
      <4>1. PICK c \in Hits(row) : MatchLine(row) = Matched(c)
        BY <3>3
      <4>2. Matched(c).kind = "matched"
        BY DEF Matched
      <4> QED
        BY <2>2, <3>1, <4>1, <4>2
    <3>4. CASE MatchLine(row) = Ambiguous /\ \E c, d \in Hits(row) : c # d
      BY <2>2, <3>1, <3>4 DEF Ambiguous
    <3> QED
      BY <3>2, <3>3, <3>4, MatchLineCases
  <2> QED
    BY <2>1, <2>2
<1> QED
  BY <1>1, <1>2, <1>4, UploadsUntouched

(* A posting that is added takes no proposal its backing away.             *)
LEMMA AddPostingKeepsIInv ==
  ASSUME IInv, NEW c \in Candidates, AddPosting(c)
  PROVE  IInv'
<1> USE DEF IInv
<1>1. /\ \A d \in postings : d.id # c.id
      /\ postings' = postings \cup {c}
      /\ UNCHANGED <<pc, request, imports, lines, answer, known, result>>
  BY DEF AddPosting, tables
<1>2. TypeOK'
  BY <1>1 DEF TypeOK
<1>3. \A r \in Rows : Hits(r) \subseteq Hits(r)'
  BY <1>1 DEF Hits, Line
<1>4. MatchInv'
  BY <1>1, <1>3 DEF MatchInv
<1> QED
  BY <1>1, <1>2, <1>4, UploadsUntouched

(* A step that changes nothing keeps the invariant.                        *)
LEMMA StutterKeepsIInv ==
  ASSUME IInv, UNCHANGED vars
  PROVE  IInv'
<1>1. UNCHANGED <<pc, request, imports, lines, answer, known, postings, result>>
  BY DEF vars, tables
<1>2. TypeOK'
  BY <1>1 DEF IInv, TypeOK
<1> QED
  BY <1>1, <1>2, UploadsUntouched, MatcherUntouched DEF IInv

(* The inductive invariant: what an upload saw when it looked has no       *)
(* import of its file if it goes on to insert one, imports and lines are   *)
(* committed together, and a proposal is backed by the postings.           *)
THEOREM ReconciliationInvariance == Spec => []IInv
<1>1. ASSUME IInv, [Next]_vars PROVE IInv'
  <2>1. ASSUME NEW u \in Uploads, Lookup(u) \/ InsertImport(u) \/ CommitLines(u) \/ Crash(u)
        PROVE  IInv'
    BY <1>1, <2>1, LookupKeepsIInv, InsertOrCrashKeepsIInv, CommitLinesKeepsIInv
  <2>2. ASSUME NEW row \in Rows, Match(row) PROVE IInv'
    BY <1>1, <2>2, MatchKeepsIInv
  <2>3. ASSUME NEW c \in Candidates, AddPosting(c) PROVE IInv'
    BY <1>1, <2>3, AddPostingKeepsIInv
  <2> QED
    BY <1>1, <2>1, <2>2, <2>3, StutterKeepsIInv DEF Next
<1> QED
  BY <1>1, InitIInv, PTL DEF Spec

-----------------------------------------------------------------------------
(* reconciliation_importer.py: a retry that starts after an import of its  *)
(* file was committed makes no second one.                                 *)
THEOREM RetriesFindTheImport == Spec => []RetryFindsImport
<1>1. ASSUME IInv PROVE RetryFindsImport
  BY <1>1 DEF IInv, UploadInv, RetryFindsImport, SameFile
<1> QED
  BY <1>1, ReconciliationInvariance, PTL

(* reconciliation_importer.py: an answer stands for stored lines.          *)
THEOREM AnswersAreStored == Spec => []AnsweredIsStored
<1>1. IInv => AnsweredIsStored
  BY DEF IInv
<1> QED
  BY <1>1, ReconciliationInvariance, PTL

(* reconciliation_matcher.py: a proposal for a line never moves to another *)
(* posting, however many postings are added.                               *)
THEOREM LinksNeverMove == Spec => LinkNeverMoves
<1>1. ASSUME IInv, Next \/ UNCHANGED vars, NEW r \in Rows
      PROVE  /\ result[r].kind = "matched" => result'[r] \in {result[r], Ambiguous}
             /\ result[r].kind = "ambiguous" => result'[r] = Ambiguous
  <2>1. CASE result'[r] = result[r]
    BY <1>1, <2>1 DEF IInv, MatchInv
  <2>2. ASSUME NEW row \in Rows, Match(row), r = row
        PROVE  /\ result[r].kind = "matched" => result'[r] \in {result[r], Ambiguous}
               /\ result[r].kind = "ambiguous" => result'[r] = Ambiguous
    <3>1. result'[r] = MatchLine(r)
      BY <1>1, <2>2 DEF Match, IInv, TypeOK
    <3>2. CASE result[r].kind = "matched"
      <4>1. PICK c \in Hits(r) : result[r] = Matched(c)
        BY <1>1, <3>2 DEF IInv, MatchInv
      <4> QED
        BY <1>1, <3>1, <3>2, <4>1, MatchLineCases DEF IInv, Matched, Ambiguous
    <3>3. CASE result[r].kind = "ambiguous"
      <4>1. \E c, d \in Hits(r) : c # d
        BY <1>1, <3>3 DEF IInv, MatchInv
      <4> QED
        BY <1>1, <3>1, <3>3, <4>1, MatchLineCases DEF IInv, Matched, Ambiguous
    <3> QED
      BY <3>2, <3>3
  <2>3. ASSUME NEW row \in Rows, Match(row), r # row PROVE result'[r] = result[r]
    BY <1>1, <2>3 DEF Match, IInv, TypeOK
  <2>4. ASSUME NEW u \in Uploads, Lookup(u) \/ InsertImport(u) \/ CommitLines(u) \/ Crash(u)
        PROVE  result'[r] = result[r]
    BY <2>4 DEF Lookup, InsertImport, CommitLines, Crash
  <2>5. ASSUME NEW c \in Candidates, AddPosting(c) PROVE result'[r] = result[r]
    BY <2>5 DEF AddPosting
  <2>6. CASE UNCHANGED vars
    BY <2>1, <2>6 DEF vars
  <2> QED
    BY <1>1, <2>1, <2>2, <2>3, <2>4, <2>5, <2>6 DEF Next
<1>2. IInv /\ [Next]_vars =>
        [\A row \in Rows :
           /\ result[row].kind = "matched" => result'[row] \in {result[row], Ambiguous}
           /\ result[row].kind = "ambiguous" => result'[row] = Ambiguous]_vars
  BY <1>1
<1> QED
  BY <1>2, ReconciliationInvariance, PTL DEF Spec, LinkNeverMoves

(* reconciliation_matcher.py: lines that are proposed one posting have one *)
(* amount and days within twice the window.                                *)
THEOREM SharedPostingsAgree == Spec => []SharedPostingAgrees
<1>1. ASSUME IInv PROVE SharedPostingAgrees
  <2> SUFFICES ASSUME NEW row \in Rows, NEW other \in Rows, NEW p,
                      p \in result[row].link, p \in result[other].link
               PROVE  /\ Line(row).amount = Line(other).amount
                      /\ Line(row).day - Line(other).day <= 2 * MatchWindow
    BY DEF SharedPostingAgrees
  <2>1. PICK c \in Hits(row) : result[row] = Matched(c)
    BY <1>1 DEF IInv, MatchInv
  <2>2. PICK d \in Hits(other) : result[other] = Matched(d)
    BY <1>1 DEF IInv, MatchInv
  <2>3. c.id = d.id
    BY <2>1, <2>2 DEF Matched
  <2>4. c = d
    BY <1>1, <2>3 DEF IInv, MatchInv, Hits
  <2>5. Line(row).day \in Int /\ Line(other).day \in Int /\ c.item.day \in Int
    <3>1. c.item \in Items
      BY <1>1, ArrivingAssumption DEF IInv, TypeOK, Hits, Candidates
    <3>2. Line(row) \in Items /\ Line(other) \in Items
      BY <1>1, LineIsItem DEF IInv
    <3> QED
      BY <3>1, <3>2, DaysAssumption DEF Items
  <2>6. Line(row).amount = Line(other).amount
    BY <2>4 DEF Hits
  <2>7. Near(c.item.day, Line(row).day) /\ Near(c.item.day, Line(other).day)
    BY <2>4 DEF Hits
  <2> QED
    BY <2>5, <2>6, <2>7 DEF Near, MatchWindow
<1> QED
  BY <1>1, ReconciliationInvariance, PTL
=============================================================================
