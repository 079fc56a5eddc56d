----------------------------- MODULE FxRatesProofs -----------------------------
(***************************************************************************)
(* Theorems about FxRates, for every set of currencies, publications and   *)
(* calls, every rate and every instant.                                    *)
(***************************************************************************)
EXTENDS FxRates, TLAPS

-----------------------------------------------------------------------------
(* Lemmas about the query. *)

(* More rows have no fewer effective ones. *)
LEMMA EffectiveGrows ==
  ASSUME NEW S, NEW T, S \subseteq T, NEW u
  PROVE  Direct(S, u) \subseteq Direct(T, u) /\ Inverse(S, u) \subseteq Inverse(T, u)
BY DEF Direct, Inverse, Effective

(* The newest of some rows are rows of them.                               *)
LEMMA NewestIsEffective ==
  ASSUME NEW E
  PROVE  Newest(E) \subseteq E
BY DEF Newest

(* Two rows that are both newest share their instant. *)
LEMMA NewestTie ==
  ASSUME RowInv, NEW S, S \subseteq rows, rows \subseteq Publications, NEW b, NEW q, NEW t,
         NEW p \in Newest(Effective(S, b, q, t)), NEW r \in Newest(Effective(S, b, q, t)),
         p # r
  PROVE  Tied(p, r)
<1>1. p \in S /\ r \in S
  BY DEF Newest, Effective
<1>2. row[p] \in Bodies /\ row[r] \in Bodies
  BY <1>1 DEF RowInv
<1>3. row[p].at \in Int /\ row[r].at \in Int
  BY <1>2 DEF Bodies, Times
<1>4. row[p].at <= row[r].at /\ row[r].at <= row[p].at
  BY DEF Newest
<1>5. SamePair(p, r)
  BY DEF SamePair, Newest, Effective
<1> QED
  BY <1>3, <1>4, <1>5 DEF Tied

-----------------------------------------------------------------------------
(* The invariant. *)

(* What a client has not asked or published yet is no request.             *)
LEMMA NoBodyIsNone == NoBody \notin Bodies /\ NoBody \notin Questions
BY DEF NoBody, Bodies, Questions

(* The invariant holds before anything is published or asked.              *)
LEMMA InitIInv == Init => IInv
<1> SUFFICES ASSUME Init PROVE IInv
  OBVIOUS
<1>1. TypeOK
  BY DEF Init, TypeOK, NoRow
<1>2. RowInv
  BY NoBodyIsNone DEF Init, RowInv
<1>3. CallInv
  BY DEF Init, CallInv, Answered
<1> QED
  BY <1>1, <1>2, <1>3 DEF IInv

(* A new row changes nothing for the calls that have read before. *)
LEMMA UpsertKeepsIInv ==
  ASSUME IInv, NEW p \in Publications, UpsertRate(p)
  PROVE  IInv'
<1>1. PICK b \in Bodies :
        /\ row' = [row EXCEPT ![p] = b]
        /\ rows' = rows \cup {p}
  BY DEF UpsertRate, Kept
<1>2. UNCHANGED <<pc, ask, answer, from, upto>> /\ row[p] = NoBody
  BY DEF UpsertRate
<1>3. p \notin rows
  BY <1>2, NoBodyIsNone DEF IInv, RowInv
<1>4. TypeOK'
  BY <1>1, <1>2 DEF IInv, TypeOK
<1>5. RowInv'
  BY <1>1, <1>2 DEF IInv, RowInv, TypeOK
<1>6. CallInv'
  <2> SUFFICES ASSUME NEW c \in Calls
               PROVE  /\ from[c] \subseteq upto[c] /\ upto[c] \subseteq rows'
                      /\ pc[c] = "idle" => answer[c] = "pending" /\ upto[c] = {}
                      /\ pc[c] # "idle" => ask[c] \in Questions
                      /\ pc[c] = "inverse" => Direct(from[c], ask[c])' = {}
                      /\ Answered(c) => RightAnswer(c)'
    BY <1>2 DEF CallInv, Answered
  <2>1. from[c] \subseteq upto[c] /\ upto[c] \subseteq rows
    BY DEF IInv, CallInv
  <2>2. \A r \in upto[c] : row'[r] = row[r]
    BY <1>1, <1>3, <2>1 DEF IInv, TypeOK
  <2>3. /\ Direct(from[c], ask[c])' = Direct(from[c], ask[c])
        /\ Direct(upto[c], ask[c])' = Direct(upto[c], ask[c])
        /\ Inverse(upto[c], ask[c])' = Inverse(upto[c], ask[c])
    BY <1>2, <2>1, <2>2 DEF Direct, Inverse, Effective
  <2>4. /\ Newest(Direct(upto[c], ask[c]))' = Newest(Direct(upto[c], ask[c]))
        /\ Newest(Inverse(upto[c], ask[c]))' = Newest(Inverse(upto[c], ask[c]))
    <3>1. Direct(upto[c], ask[c]) \subseteq upto[c] /\ Inverse(upto[c], ask[c]) \subseteq upto[c]
      BY DEF Direct, Inverse, Effective
    <3> QED
      BY <3>1, <2>2, <2>3 DEF Newest
  <2>5. \A r \in Newest(Inverse(upto[c], ask[c])) : Usable(r)' = Usable(r)
    BY <2>2 DEF Usable, Newest, Inverse, Effective
  <2>6. Answered(c) => RightAnswer(c)'
    BY <1>2, <2>3, <2>4, <2>5 DEF RightAnswer, IInv, CallInv
  <2> QED
    BY <1>1, <1>2, <2>1, <2>3, <2>6 DEF IInv, CallInv
<1> QED
  BY <1>4, <1>5, <1>6 DEF IInv

(* A call that begins: the identity pair is answered at once. *)
LEMMA AskKeepsIInv ==
  ASSUME IInv, NEW c \in Calls, AskIdentity(c) \/ Ask(c)
  PROVE  IInv'
<1>1. PICK u \in Questions, next \in {"done", "direct"}, a \in NoRow, S \in SUBSET rows :
        /\ ask' = [ask EXCEPT ![c] = u]
        /\ pc' = [pc EXCEPT ![c] = next]
        /\ answer' = [answer EXCEPT ![c] = a]
        /\ from' = [from EXCEPT ![c] = S]
        /\ upto' = [upto EXCEPT ![c] = S]
        /\ next = "done" => u.base = u.quote
  <2>1. CASE AskIdentity(c)
    <3>1. upto[c] = {} /\ from[c] = {}
      BY <2>1 DEF AskIdentity, IInv, CallInv
    <3>2. from' = [from EXCEPT ![c] = {}] /\ upto' = [upto EXCEPT ![c] = {}]
      BY <2>1, <3>1 DEF AskIdentity, IInv, TypeOK
    <3> QED
      BY <2>1, <3>2 DEF AskIdentity, NoRow
  <2>2. CASE Ask(c)
    <3>1. answer[c] \in NoRow /\ answer' = [answer EXCEPT ![c] = answer[c]]
      BY <2>2 DEF Ask, IInv, CallInv, TypeOK, NoRow
    <3> QED
      BY <2>2, <3>1 DEF Ask
  <2> QED
    BY <2>1, <2>2
<1>2. UNCHANGED <<row, rows>>
  BY DEF AskIdentity, Ask
<1>3. TypeOK'
  BY <1>1, <1>2 DEF IInv, TypeOK, NoRow
<1>4. RowInv'
  BY <1>2 DEF IInv, RowInv
<1>5. CallInv'
  <2> SUFFICES ASSUME NEW d \in Calls
               PROVE  /\ from'[d] \subseteq upto'[d] /\ upto'[d] \subseteq rows'
                      /\ pc'[d] = "idle" => answer'[d] = "pending" /\ upto'[d] = {}
                      /\ pc'[d] # "idle" => ask'[d] \in Questions
                      /\ pc'[d] = "inverse" => Direct(from[d], ask[d])' = {}
                      /\ Answered(d)' => RightAnswer(d)'
    BY DEF CallInv
  <2>1. CASE d = c
    BY <2>1, <1>1, <1>2 DEF IInv, TypeOK, Answered
  <2>2. CASE d # c
    <3>1. /\ pc'[d] = pc[d] /\ ask'[d] = ask[d] /\ answer'[d] = answer[d]
          /\ from'[d] = from[d] /\ upto'[d] = upto[d]
      BY <2>2, <1>1, <1>2 DEF IInv, TypeOK
    <3> QED
      BY <3>1, <1>2 DEF IInv, CallInv, Answered, RightAnswer, Direct, Inverse,
                         Effective, Newest, Usable
  <2> QED
    BY <2>1, <2>2
<1> QED
  BY <1>3, <1>4, <1>5 DEF IInv

(* A read of one call leaves the others as they are. *)
LEMMA OtherCalls ==
  ASSUME IInv, NEW c \in Calls, NEW d \in Calls, d # c,
         NEW p, NEW a, NEW v,
         pc' = [pc EXCEPT ![c] = p], answer' = [answer EXCEPT ![c] = a],
         upto' = [upto EXCEPT ![c] = v],
         UNCHANGED <<row, rows, ask, from>>
  PROVE  /\ from'[d] \subseteq upto'[d] /\ upto'[d] \subseteq rows'
         /\ pc'[d] = "idle" => answer'[d] = "pending" /\ upto'[d] = {}
         /\ pc'[d] # "idle" => ask'[d] \in Questions
         /\ pc'[d] = "inverse" => Direct(from[d], ask[d])' = {}
         /\ Answered(d)' => RightAnswer(d)'
<1>1. /\ pc'[d] = pc[d] /\ ask'[d] = ask[d] /\ answer'[d] = answer[d]
      /\ from'[d] = from[d] /\ upto'[d] = upto[d]
  BY DEF IInv, TypeOK
<1> QED
  BY <1>1 DEF IInv, CallInv, Answered, RightAnswer, Direct, Inverse, Effective, Newest, Usable

(* The statement for the pair itself answers, or finds nothing.            *)
LEMMA ReadDirectKeepsIInv ==
  ASSUME IInv, NEW c \in Calls, ReadDirect(c)
  PROVE  IInv'
<1> DEFINE quoted == Direct(rows, ask[c])
<1>1. /\ pc[c] = "direct"
      /\ upto' = [upto EXCEPT ![c] = rows]
      /\ UNCHANGED <<row, rows, ask, from>>
  BY DEF ReadDirect
<1>2. PICK next, a :
        /\ pc' = [pc EXCEPT ![c] = next]
        /\ answer' = [answer EXCEPT ![c] = a]
        /\ \/ next = "done" /\ a \in Newest(quoted)
           \/ next = "inverse" /\ a = answer[c] /\ quoted = {}
  <2>1. CASE \E p \in Newest(quoted) : Resolve(c, p)
    BY <2>1 DEF Resolve
  <2>2. CASE quoted = {} /\ pc' = [pc EXCEPT ![c] = "inverse"] /\ UNCHANGED answer
    BY <2>2 DEF IInv, TypeOK
  <2> QED
    BY <2>1, <2>2 DEF ReadDirect, Latest
<1>3. a \in Publications \cup NoRow
  BY <1>2 DEF Newest, Direct, Effective, IInv, TypeOK
<1>4. TypeOK'
  BY <1>1, <1>2, <1>3 DEF IInv, TypeOK
<1>5. RowInv'
  BY <1>1 DEF IInv, RowInv
<1>6. CallInv'
  <2> SUFFICES ASSUME NEW d \in Calls
               PROVE  /\ from'[d] \subseteq upto'[d] /\ upto'[d] \subseteq rows'
                      /\ pc'[d] = "idle" => answer'[d] = "pending" /\ upto'[d] = {}
                      /\ pc'[d] # "idle" => ask'[d] \in Questions
                      /\ pc'[d] = "inverse" => Direct(from[d], ask[d])' = {}
                      /\ Answered(d)' => RightAnswer(d)'
    BY DEF CallInv
  <2>1. CASE d # c
    BY <2>1, <1>1, <1>2, OtherCalls
  <2>2. CASE d = c
    <3>1. /\ upto'[c] = rows /\ from'[c] = from[c] /\ ask'[c] = ask[c]
          /\ pc'[c] = next /\ answer'[c] = a
      BY <1>1, <1>2 DEF IInv, TypeOK
    <3>2. from[c] \subseteq rows
      BY DEF IInv, CallInv
    <3>3. ask[c] \in Questions
      BY <1>1 DEF IInv, CallInv
    <3>4. next = "inverse" => Direct(from[c], ask[c])' = {}
      BY <1>1, <1>2, <3>1, <3>2 DEF Direct, Effective
    <3>5. next = "done" => RightAnswer(c)'
      BY <1>1, <1>2, <3>1 DEF RightAnswer, Newest, Direct, Effective
    <3> QED
      BY <1>2, <2>2, <3>1, <3>2, <3>3, <3>4, <3>5, <1>1 DEF Answered
  <2> QED
    BY <2>1, <2>2
<1> QED
  BY <1>4, <1>5, <1>6 DEF IInv

(* The statement for the inverse answers, or the call is refused.          *)
LEMMA ReadInverseKeepsIInv ==
  ASSUME IInv, NEW c \in Calls, ReadInverse(c)
  PROVE  IInv'
<1> DEFINE quoted == Inverse(rows, ask[c])
<1>1. /\ pc[c] = "inverse"
      /\ upto' = [upto EXCEPT ![c] = rows]
      /\ UNCHANGED <<row, rows, ask, from>>
  BY DEF ReadInverse
<1>2. PICK a :
        /\ pc' = [pc EXCEPT ![c] = "done"]
        /\ answer' = [answer EXCEPT ![c] = a]
        /\ \/ a \in Newest(quoted) /\ Usable(a)
           \/ a = "unavailable" /\ \E p \in Newest(quoted) : ~Usable(p)
           \/ a = "unavailable" /\ quoted = {}
  BY DEF ReadInverse, Resolve, Latest
<1>3. a \in Publications \cup NoRow
  BY <1>2 DEF Newest, Inverse, Effective, IInv, TypeOK, NoRow
<1>4. TypeOK'
  BY <1>1, <1>2, <1>3 DEF IInv, TypeOK
<1>5. RowInv'
  BY <1>1 DEF IInv, RowInv
<1>6. CallInv'
  <2> SUFFICES ASSUME NEW d \in Calls
               PROVE  /\ from'[d] \subseteq upto'[d] /\ upto'[d] \subseteq rows'
                      /\ pc'[d] = "idle" => answer'[d] = "pending" /\ upto'[d] = {}
                      /\ pc'[d] # "idle" => ask'[d] \in Questions
                      /\ pc'[d] = "inverse" => Direct(from[d], ask[d])' = {}
                      /\ Answered(d)' => RightAnswer(d)'
    BY DEF CallInv
  <2>1. CASE d # c
    BY <2>1, <1>1, <1>2, OtherCalls
  <2>2. CASE d = c
    <3>1. /\ upto'[c] = rows /\ from'[c] = from[c] /\ ask'[c] = ask[c]
          /\ pc'[c] = "done" /\ answer'[c] = a
      BY <1>1, <1>2 DEF IInv, TypeOK
    <3>2. from[c] \subseteq rows /\ Direct(from[c], ask[c]) = {} /\ ask[c] \in Questions
      BY <1>1 DEF IInv, CallInv
    <3>3. Direct(from[c], ask[c])' = {}
      BY <1>1, <3>1, <3>2 DEF Direct, Effective
    <3>4. Inverse(upto[c], ask[c])' = quoted /\ Newest(Inverse(upto[c], ask[c]))' = Newest(quoted)
      BY <1>1, <3>1 DEF Inverse, Effective, Newest
    <3>5. RightAnswer(c)'
      BY <1>1, <1>2, <3>1, <3>3, <3>4 DEF RightAnswer, Usable
    <3> QED
      BY <2>2, <3>1, <3>2, <3>5, <1>1 DEF Answered
  <2> QED
    BY <2>1, <2>2
<1> QED
  BY <1>4, <1>5, <1>6 DEF IInv

(* Spec => []IInv: the table and every call under way or answered, for any *)
(* number of publications and calls.                                       *)
THEOREM RatesInvariance == Spec => []IInv
<1>1. ASSUME IInv, [Next]_vars PROVE IInv'
  <2>1. ASSUME NEW p \in Publications, UpsertRate(p) PROVE IInv'
    BY <1>1, <2>1, UpsertKeepsIInv
  <2>2. ASSUME NEW c \in Calls, AskIdentity(c) \/ Ask(c) PROVE IInv'
    BY <1>1, <2>2, AskKeepsIInv
  <2>3. ASSUME NEW c \in Calls, ReadDirect(c) PROVE IInv'
    BY <1>1, <2>3, ReadDirectKeepsIInv
  <2>4. ASSUME NEW c \in Calls, ReadInverse(c) PROVE IInv'
    BY <1>1, <2>4, ReadInverseKeepsIInv
  <2>5. CASE UNCHANGED vars
    BY <1>1, <2>5 DEF vars, IInv, TypeOK, RowInv, CallInv, Answered, RightAnswer, Direct,
                      Inverse, Effective, Newest, Usable
  <2> QED
    BY <1>1, <2>1, <2>2, <2>3, <2>4, <2>5 DEF Next
<1> QED
  BY InitIInv, <1>1, PTL DEF Spec

-----------------------------------------------------------------------------
(* What the invariant says of the answers. *)

(* The two statements answer what one would have, if one side of the pair  *)
(* is maintained.                                                          *)
THEOREM RateWasEffective == Spec => []AnswerWasEffective
<1>1. ASSUME IInv PROVE AnswerWasEffective
  <2> SUFFICES ASSUME NEW c \in Calls, Answered(c), OneSided(upto[c], ask[c])
               PROVE  \E S \in {from[c], upto[c]} : answer[c] \in AtOnce(S, ask[c])
    BY DEF AnswerWasEffective
  <2> DEFINE direct == Direct(upto[c], ask[c])
             inverse == Inverse(upto[c], ask[c])
  <2>1. RightAnswer(c) /\ from[c] \subseteq upto[c]
    BY <1>1 DEF IInv, CallInv
  <2>2. CASE answer[c] \in Newest(direct)
    <3>1. direct # {}
      BY <2>2, NewestIsEffective
    <3> QED
      BY <2>2, <3>1 DEF AtOnce
  <2>3. CASE answer[c] \in Newest(inverse) /\ Usable(answer[c])
    <3>1. direct = {}
      BY <2>3, NewestIsEffective DEF OneSided
    <3> QED
      BY <2>3, <3>1 DEF AtOnce
  <2>4. CASE answer[c] = "unavailable" /\ \E p \in Newest(inverse) : ~Usable(p)
    <3>1. direct = {}
      BY <2>4, NewestIsEffective DEF OneSided
    <3> QED
      BY <2>4, <3>1 DEF AtOnce
  <2>5. CASE /\ answer[c] = "unavailable" /\ inverse = {}
             /\ Direct(from[c], ask[c]) = {}
    <3>1. Inverse(from[c], ask[c]) = {}
      BY <2>1, <2>5, EffectiveGrows
    <3> QED
      BY <2>5, <3>1 DEF AtOnce
  <2> QED
    BY <2>1, <2>2, <2>3, <2>4, <2>5 DEF RightAnswer
<1> QED
  BY <1>1, RatesInvariance, PTL

(* A pair is refused only if neither direction had an effective quote when *)
(* the call began, or if the newest inverse row is stored as zero.         *)
THEOREM NoFalseRefusal == Spec => []QuotedPairIsAnswered
<1>1. ASSUME IInv PROVE QuotedPairIsAnswered
  <2> SUFFICES ASSUME NEW c \in Calls, Answered(c), answer[c] = "unavailable"
               PROVE  /\ Direct(from[c], ask[c]) = {}
                      /\ \/ Inverse(from[c], ask[c]) = {}
                         \/ \E p \in Newest(Inverse(upto[c], ask[c])) : ~Usable(p)
    BY DEF QuotedPairIsAnswered
  <2>1. RightAnswer(c) /\ from[c] \subseteq upto[c] /\ upto[c] \subseteq Publications
    BY <1>1 DEF IInv, CallInv, TypeOK
  <2>2. answer[c] \notin Publications
    BY RowAssumption DEF NoRow
  <2>3. /\ Newest(Direct(upto[c], ask[c])) \subseteq Publications
        /\ Newest(Inverse(upto[c], ask[c])) \subseteq Publications
    BY <2>1 DEF Newest, Direct, Inverse, Effective
  <2>4. Inverse(upto[c], ask[c]) = {} => Inverse(from[c], ask[c]) = {}
    BY <2>1, EffectiveGrows
  <2> QED
    BY <2>1, <2>2, <2>3, <2>4 DEF RightAnswer
<1> QED
  BY <1>1, RatesInvariance, PTL

(* A historical conversion resolves another row than before only through a *)
(* late quote or a tie.                                                    *)
THEOREM HistoryIsStable == Spec => []HistoryRepeats
<1>1. ASSUME IInv PROVE HistoryRepeats
  <2> SUFFICES ASSUME NEW c \in Calls, NEW d \in Calls,
                      After(d, c), SameQuestion(c, d), ~LateFor(c, d),
                      ~\E p, r \in Direct(from[c], ask[c]) \cup Inverse(from[c], ask[c]) :
                         Tied(p, r)
               PROVE  answer[c] = answer[d]
    BY DEF HistoryRepeats
  <2> DEFINE u == ask[c]
  <2>1. /\ RightAnswer(c) /\ RightAnswer(d) /\ ask[d] = u
        /\ from[c] \subseteq upto[c] /\ upto[c] \subseteq from[d]
        /\ from[d] \subseteq upto[d] /\ upto[d] \subseteq rows
        /\ RowInv /\ rows \subseteq Publications
    BY <1>1 DEF IInv, CallInv, After, SameQuestion, TypeOK
  <2>2. /\ Direct(from[c], u) \subseteq Direct(upto[c], u)
        /\ Direct(upto[c], u) \subseteq Direct(from[d], u)
        /\ Direct(from[d], u) \subseteq Direct(upto[d], u)
        /\ Inverse(from[c], u) \subseteq Inverse(upto[c], u)
        /\ Inverse(upto[c], u) \subseteq Inverse(from[d], u)
        /\ Inverse(from[d], u) \subseteq Inverse(upto[d], u)
    BY <2>1, EffectiveGrows
  <2>3. Direct(upto[d], u) \subseteq Direct(from[c], u)
        /\ Inverse(upto[d], u) \subseteq Inverse(from[c], u)
    BY <2>1 DEF LateFor, Direct, Inverse, Effective
  <2>4. /\ Direct(upto[d], u) = Direct(from[c], u) /\ Direct(upto[c], u) = Direct(from[c], u)
        /\ Direct(from[d], u) = Direct(from[c], u)
        /\ Inverse(upto[d], u) = Inverse(from[c], u) /\ Inverse(upto[c], u) = Inverse(from[c], u)
    BY <2>2, <2>3
  <2> DEFINE D == Newest(Direct(from[c], u))
             I == Newest(Inverse(from[c], u))
  <2>5. \A p, r \in D : p = r
    BY <2>1, NewestTie, NewestIsEffective DEF Direct
  <2>6. \A p, r \in I : p = r
    BY <2>1, NewestTie, NewestIsEffective DEF Inverse
  <2>7. D \subseteq Direct(from[c], u) /\ I \subseteq Inverse(from[c], u)
    BY NewestIsEffective
  <2>8. \/ answer[c] \in D
        \/ /\ Direct(from[c], u) = {}
           /\ \/ answer[c] \in I /\ Usable(answer[c])
              \/ answer[c] = "unavailable" /\ \E p \in I : ~Usable(p)
              \/ answer[c] = "unavailable" /\ Inverse(from[c], u) = {}
    BY <2>1, <2>4 DEF RightAnswer
  <2>9. \/ answer[d] \in D
        \/ /\ Direct(from[c], u) = {}
           /\ \/ answer[d] \in I /\ Usable(answer[d])
              \/ answer[d] = "unavailable" /\ \E p \in I : ~Usable(p)
              \/ answer[d] = "unavailable" /\ Inverse(from[c], u) = {}
    BY <2>1, <2>4 DEF RightAnswer
  <2> QED
    BY <2>5, <2>6, <2>7, <2>8, <2>9
<1> QED
  BY <1>1, RatesInvariance, PTL

(* What an instant resolves to only becomes newer. *)
THEOREM RatesMoveForward == Spec => []NeverOlder
<1>1. ASSUME IInv PROVE NeverOlder
  <2> SUFFICES ASSUME NEW c \in Calls, NEW d \in Calls,
                      After(d, c), SameQuestion(c, d), OneSided(upto[d], ask[d]),
                      \A p \in upto[d] : Usable(p), answer[c] \in Publications
               PROVE  answer[d] \in Publications /\ row[answer[c]].at <= row[answer[d]].at
    BY DEF NeverOlder
  <2> DEFINE u == ask[c]
  <2>1. /\ RightAnswer(c) /\ RightAnswer(d) /\ ask[d] = u
        /\ upto[c] \subseteq from[d] /\ from[d] \subseteq upto[d]
        /\ upto[d] \subseteq Publications
    BY <1>1 DEF IInv, CallInv, After, SameQuestion, TypeOK
  <2>2. /\ Direct(upto[c], u) \subseteq Direct(from[d], u)
        /\ Direct(from[d], u) \subseteq Direct(upto[d], u)
        /\ Inverse(upto[c], u) \subseteq Inverse(from[d], u)
        /\ Inverse(from[d], u) \subseteq Inverse(upto[d], u)
    BY <2>1, EffectiveGrows
  <2>3. /\ Direct(upto[d], u) \subseteq upto[d] /\ Inverse(upto[d], u) \subseteq upto[d]
    BY DEF Direct, Inverse, Effective
  <2>4. CASE answer[c] \in Newest(Direct(upto[c], u))
    <3>1. answer[c] \in Direct(from[d], u) /\ answer[c] \in Direct(upto[d], u)
      BY <2>2, <2>4, NewestIsEffective
    <3>2. answer[d] \in Newest(Direct(upto[d], u))
      BY <2>1, <3>1 DEF RightAnswer
    <3> QED
      BY <2>1, <2>3, <3>1, <3>2 DEF Newest
  <2>5. CASE answer[c] \in Newest(Inverse(upto[c], u))
    <3>1. answer[c] \in Inverse(upto[d], u)
      BY <2>2, <2>5, NewestIsEffective
    <3>2. Direct(upto[d], u) = {}
      BY <2>1, <3>1 DEF OneSided
    <3>3. answer[d] \in Newest(Inverse(upto[d], u))
      BY <2>1, <2>3, <3>1, <3>2, NewestIsEffective DEF RightAnswer
    <3> QED
      BY <2>1, <2>3, <3>1, <3>3 DEF Newest
  <2>6. answer[c] # "unavailable"
    BY RowAssumption DEF NoRow
  <2> QED
    BY <2>1, <2>4, <2>5, <2>6 DEF RightAnswer
<1> QED
  BY <1>1, RatesInvariance, PTL
=============================================================================
