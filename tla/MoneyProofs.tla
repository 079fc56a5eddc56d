----------------------------- MODULE MoneyProofs -----------------------------
(***************************************************************************)
(* What rounding promises, for every amount and every rate, and what a sum *)
(* of amounts over a finite set is.                                        *)
(***************************************************************************)
EXTENDS Money, FiniteSetsExt, FiniteSetTheorems, WellFoundedInduction, TLAPS

(* Division with remainder. *)
LEMMA DivMod ==
  ASSUME NEW n \in Int, NEW d \in Nat \ {0}
  PROVE  /\ n \div d \in Int /\ n % d \in Nat /\ n % d < d
         /\ n = (n \div d) * d + (n % d)
BY Z3

(* Quotient and remainder are unique.                                      *)
LEMMA DivModUnique ==
  ASSUME NEW d \in Nat \ {0}, NEW a \in Int, NEW b \in Int,
         NEW s \in 0..(d - 1), NEW t \in 0..(d - 1),
         a * d + s = b * d + t
  PROVE  a = b /\ s = t
<1>1. CASE a < b
  <2>1. (b - a) * d >= d
    BY <1>1, Z3
  <2>. QED
    BY <2>1, Z3
<1>2. CASE b < a
  <2>1. (a - b) * d >= d
    BY <1>2, Z3
  <2>. QED
    BY <2>1, Z3
<1>3. CASE a = b
  BY <1>3, Z3
<1>. QED
  BY <1>1, <1>2, <1>3

(* round_minor: the result is as near as a whole number can be. *)
THEOREM RoundingIsNearest ==
  \A n \in Int, d \in Nat \ {0} :
    RoundHalfEven(n, d) \in Int /\ Nearest(RoundHalfEven(n, d), n, d)
<1>. SUFFICES ASSUME NEW n \in Int, NEW d \in Nat \ {0}
              PROVE  RoundHalfEven(n, d) \in Int /\ Nearest(RoundHalfEven(n, d), n, d)
  OBVIOUS
<1>. DEFINE b == n \div d
            s == n % d
<1>1. b \in Int /\ s \in Nat /\ s < d /\ n = b * d + s
  BY DivMod
<1>2. (b + 1) * d = b * d + d /\ b * d \in Int
  BY <1>1
<1>3. RoundHalfEven(n, d) = IF 2 * s < d \/ (2 * s = d /\ b % 2 = 0) THEN b ELSE b + 1
  BY DEF RoundHalfEven
<1>. HIDE DEF b, s
<1>. QED
  BY <1>1, <1>2, <1>3 DEF Nearest

(* "Banker's rounding": a tie goes to the even neighbour. *)
THEOREM TiesGoToEven ==
  \A n \in Int, d \in Nat \ {0} : Tie(n, d) => RoundHalfEven(n, d) % 2 = 0
<1>. SUFFICES ASSUME NEW n \in Int, NEW d \in Nat \ {0}, Tie(n, d)
              PROVE  RoundHalfEven(n, d) % 2 = 0
  OBVIOUS
<1>. DEFINE b == n \div d
<1>1. b \in Int /\ 2 * (n % d) = d /\ d \in Int
  BY DivMod DEF Tie
<1>2. RoundHalfEven(n, d) = IF b % 2 = 0 THEN b ELSE b + 1
  BY <1>1 DEF RoundHalfEven
<1>. HIDE DEF b
<1>. QED
  BY <1>1, <1>2

(* "Cannot accumulate a directional bias": credits and debits are rounded  *)
(* alike.                                                                  *)
THEOREM RoundingIsUnbiased ==
  \A n \in Int, d \in Nat \ {0} : RoundHalfEven(0 - n, d) = 0 - RoundHalfEven(n, d)
<1>. SUFFICES ASSUME NEW n \in Int, NEW d \in Nat \ {0}
              PROVE  RoundHalfEven(0 - n, d) = 0 - RoundHalfEven(n, d)
  OBVIOUS
<1>. DEFINE b == n \div d
            s == n % d
            c == (0 - n) \div d
            t == (0 - n) % d
<1>1. b \in Int /\ s \in Nat /\ s < d /\ n = b * d + s
  BY DivMod
<1>2. c \in Int /\ t \in Nat /\ t < d /\ 0 - n = c * d + t
  BY DivMod
<1>3. RoundHalfEven(n, d) = IF 2 * s < d \/ (2 * s = d /\ b % 2 = 0) THEN b ELSE b + 1
  BY DEF RoundHalfEven
<1>4. RoundHalfEven(0 - n, d) = IF 2 * t < d \/ (2 * t = d /\ c % 2 = 0) THEN c ELSE c + 1
  BY DEF RoundHalfEven
<1>. HIDE DEF b, s, c, t
<1>5. CASE s = 0
  <2>1. c * d + t = (0 - b) * d + 0
    BY <1>1, <1>2, <1>5
  <2>2. c = 0 - b /\ t = 0
    BY <1>1, <1>2, <2>1, DivModUnique
  <2>. QED
    BY <1>1, <1>3, <1>4, <1>5, <2>2
<1>6. CASE s # 0
  <2>1. c * d + t = (0 - b - 1) * d + (d - s)
    BY <1>1, <1>2
  <2>2. c = 0 - b - 1 /\ t = d - s
    BY <1>1, <1>2, <1>6, <2>1, DivModUnique
  <2>3. c % 2 = 0 <=> b % 2 # 0
    BY <1>1, <2>2
  <2>. QED
    BY <1>1, <1>3, <1>4, <1>6, <2>2, <2>3
<1>. QED
  BY <1>5, <1>6

-----------------------------------------------------------------------------
(* Sums.  SumFunctionOnSet folds a finite set in the order of CHOOSE by a  *)
(* recursive function; each fact is proved at a minimal set at which it    *)
(* would fail.                                                             *)

(* Among subsets of a finite set there is one with no other inside it. *)
LEMMA MinimalSubset ==
  ASSUME NEW S, IsFiniteSet(S), NEW C \in SUBSET SUBSET S, C # {}
  PROVE  \E T \in C : \A U \in C : U \subseteq T => U = T
<1>1. /\ IsWellFoundedOn(StrictSubsetOrdering(S), FiniteSubsetsOf(S))
      /\ C \subseteq FiniteSubsetsOf(S)
  BY FS_StrictSubsetOrderingWellFounded, FS_FiniteSubsetsOfFinite
<1>2. PICK T \in C : \A U \in C : <<U, T>> \notin StrictSubsetOrdering(S)
  BY <1>1, WFMin
<1>3. \A U \in C : U \subseteq T => U = T
  BY <1>2 DEF StrictSubsetOrdering
<1> QED
  BY <1>3

Pick(S) == CHOOSE x \in S : TRUE

(* The equation of the recursive function behind a sum. *)
Unfold(f, S, g) ==
  [s \in SUBSET S |-> IF s = {} THEN 0 ELSE f[Pick(s)] + g[s \ {Pick(s)}]]

(* A sum is defined as a solution of the equation.                         *)
LEMMA SumUnfolds ==
  ASSUME NEW f, NEW S
  PROVE  SumFunctionOnSet(f, S) = (CHOOSE g : g = Unfold(f, S, g))[S]
BY DEF SumFunctionOnSet, FoldFunctionOnSet, MapThenFoldSet, Unfold, Pick

(* The equation has one solution, whatever set it is solved over. *)
LEMMA UnfoldUnique ==
  ASSUME NEW f, NEW S, NEW g, g = Unfold(f, S, g), IsFiniteSet(S),
         NEW R, NEW h, h = Unfold(f, R, h)
  PROVE  \A s \in SUBSET S : s \subseteq R => g[s] = h[s]
<1> DEFINE C == {s \in SUBSET S : s \subseteq R /\ g[s] # h[s]}
<1>1. SUFFICES ASSUME C # {} PROVE FALSE
  OBVIOUS
<1>2. PICK s \in C : \A u \in C : u \subseteq s => u = s
  <2>1. C \in SUBSET SUBSET S
    OBVIOUS
  <2> HIDE DEF C
  <2> QED
    BY <1>1, <2>1, MinimalSubset
<1> DEFINE u == s \ {Pick(s)}
<1>3. g[s] = (IF s = {} THEN 0 ELSE f[Pick(s)] + g[u])
  BY DEF Unfold
<1>4. h[s] = (IF s = {} THEN 0 ELSE f[Pick(s)] + h[u])
  BY DEF Unfold
<1>5. s # {} => Pick(s) \in s
  BY DEF Pick
<1>6. s # {} => g[u] = h[u]
  BY <1>2, <1>5
<1> QED
  BY <1>3, <1>4, <1>6

(* The equation has a solution over every finite set. *)
LEMMA UnfoldExists ==
  ASSUME NEW f, NEW S, IsFiniteSet(S)
  PROVE  \E g : g = Unfold(f, S, g)
<1> DEFINE C == {s \in SUBSET S : ~ \E g : g = Unfold(f, s, g)}
           V(s) == SumFunctionOnSet(f, s)
<1>1. SUFFICES ASSUME C # {} PROVE FALSE
  OBVIOUS
<1>2. PICK T \in C : \A U \in C : U \subseteq T => U = T
  <2>1. C \in SUBSET SUBSET S
    OBVIOUS
  <2> HIDE DEF C
  <2> QED
    BY <1>1, <2>1, MinimalSubset
<1> DEFINE G == [s \in SUBSET T |-> IF s = {} THEN 0 ELSE f[Pick(s)] + V(s \ {Pick(s)})]
<1>3. ASSUME NEW u \in SUBSET T, u # T
      PROVE  \E g : /\ g = Unfold(f, u, g)
                    /\ V(u) = g[u]
  <2>1. \E g : g = Unfold(f, u, g)
    BY <1>2, <1>3
  <2> DEFINE g == CHOOSE g : g = Unfold(f, u, g)
  <2>2. g = Unfold(f, u, g)
    BY <2>1
  <2>3. V(u) = g[u]
    BY SumUnfolds
  <2> QED
    BY <2>2, <2>3
<1>4. ASSUME NEW u \in SUBSET T, u # T
      PROVE  V(u) = G[u]
  <2>1. PICK g : g = Unfold(f, u, g) /\ V(u) = g[u]
    BY <1>3, <1>4
  <2>2. g[u] = (IF u = {} THEN 0 ELSE f[Pick(u)] + g[u \ {Pick(u)}])
    <3> HIDE DEF V
    <3> QED
      BY <2>1 DEF Unfold
  <2>3. ASSUME u # {}
        PROVE  g[u \ {Pick(u)}] = V(u \ {Pick(u)})
    <3> DEFINE w == u \ {Pick(u)}
    <3>1. Pick(u) \in u
      BY <2>3 DEF Pick
    <3>2. w \in SUBSET T /\ w # T /\ w \subseteq u
      BY <3>1
    <3>3. PICK h : h = Unfold(f, w, h) /\ V(w) = h[w]
      BY <1>3, <3>2
    <3>4. IsFiniteSet(w)
      BY <3>2, FS_Subset
    <3>5. h[w] = g[w]
      BY <3>3, <3>4, <3>2, <2>1, UnfoldUnique
    <3> QED
      BY <3>3, <3>5
  <2> QED
    BY <2>1, <2>2, <2>3
<1>5. G = Unfold(f, T, G)
  <2>1. ASSUME NEW s \in SUBSET T, s # {}
        PROVE  V(s \ {Pick(s)}) = G[s \ {Pick(s)}]
    <3>1. Pick(s) \in s
      BY <2>1 DEF Pick
    <3> QED
      BY <3>1, <1>4
  <2> HIDE DEF V
  <2> QED
    BY <2>1 DEF Unfold
<1> QED
  BY <1>5
(* A sum over the empty set. *)
LEMMA SumEmpty ==
  ASSUME NEW f
  PROVE  SumFunctionOnSet(f, {}) = 0
<1> DEFINE g == CHOOSE g : g = Unfold(f, {}, g)
<1>1. g = Unfold(f, {}, g)
  BY UnfoldExists, FS_EmptySet
<1>2. g[{}] = 0
  <2> HIDE DEF g
  <2> QED
    BY <1>1 DEF Unfold
<1> QED
  BY <1>2, SumUnfolds

(* A sum takes out the element the fold picks. *)
LEMMA SumPicks ==
  ASSUME NEW f, NEW S, IsFiniteSet(S), S # {}
  PROVE  /\ Pick(S) \in S
         /\ SumFunctionOnSet(f, S) = f[Pick(S)] + SumFunctionOnSet(f, S \ {Pick(S)})
<1> DEFINE T == S \ {Pick(S)}
           g == CHOOSE g : g = Unfold(f, S, g)
           h == CHOOSE h : h = Unfold(f, T, h)
<1>1. Pick(S) \in S
  BY DEF Pick
<1>2. IsFiniteSet(T)
  BY FS_RemoveElement
<1>3. g = Unfold(f, S, g) /\ SumFunctionOnSet(f, S) = g[S]
  BY UnfoldExists, SumUnfolds
<1>4. h = Unfold(f, T, h) /\ SumFunctionOnSet(f, T) = h[T]
  BY <1>2, UnfoldExists, SumUnfolds
<1> HIDE DEF g, h
<1>5. g[S] = f[Pick(S)] + g[T]
  BY <1>3 DEF Unfold
<1>6. h[T] = g[T]
  BY <1>2, <1>3, <1>4, UnfoldUnique
<1> QED
  BY <1>1, <1>3, <1>4, <1>5, <1>6

(* A sum of integers is one. *)
LEMMA SumType ==
  ASSUME NEW S, IsFiniteSet(S), NEW f, \A x \in S : f[x] \in Int
  PROVE  SumFunctionOnSet(f, S) \in Int
<1> DEFINE C == {T \in SUBSET S : SumFunctionOnSet(f, T) \notin Int}
<1>1. SUFFICES ASSUME C # {} PROVE FALSE
  OBVIOUS
<1>2. PICK T \in C : \A U \in C : U \subseteq T => U = T
  <2>1. C \in SUBSET SUBSET S
    OBVIOUS
  <2> HIDE DEF C
  <2> QED
    BY <1>1, <2>1, MinimalSubset
<1>3. CASE T = {}
  BY <1>2, <1>3, SumEmpty
<1>4. CASE T # {}
  <2>1. IsFiniteSet(T)
    BY FS_Subset
  <2>2. /\ Pick(T) \in T
        /\ SumFunctionOnSet(f, T) = f[Pick(T)] + SumFunctionOnSet(f, T \ {Pick(T)})
    BY <1>4, <2>1, SumPicks
  <2>3. SumFunctionOnSet(f, T \ {Pick(T)}) \in Int
    BY <1>2, <2>2
  <2> QED
    BY <1>2, <2>2, <2>3
<1> QED
  BY <1>3, <1>4

(* Whichever element is taken out, the sum is the same. *)
LEMMA SumRemove ==
  ASSUME NEW S, IsFiniteSet(S), NEW f, \A x \in S : f[x] \in Int, NEW z \in S
  PROVE  SumFunctionOnSet(f, S) = f[z] + SumFunctionOnSet(f, S \ {z})
<1> DEFINE V(T) == SumFunctionOnSet(f, T)
           C == {T \in SUBSET S : \E x \in T : V(T) # f[x] + V(T \ {x})}
<1>1. SUFFICES ASSUME C # {} PROVE FALSE
  OBVIOUS
<1>2. PICK T \in C : \A U \in C : U \subseteq T => U = T
  <2>1. C \in SUBSET SUBSET S
    OBVIOUS
  <2> HIDE DEF C
  <2> QED
    BY <1>1, <2>1, MinimalSubset
<1>3. PICK x \in T : V(T) # f[x] + V(T \ {x})
  BY <1>2
<1>4. \A U \in SUBSET S : IsFiniteSet(U) /\ V(U) \in Int
  BY FS_Subset, SumType
<1>5. \A U \in SUBSET S : U # {} => Pick(U) \in U /\ V(U) = f[Pick(U)] + V(U \ {Pick(U)})
  BY <1>4, SumPicks
<1> DEFINE p == Pick(T)
           R == T \ {p, x}
<1>6. p \in T /\ V(T) = f[p] + V(T \ {p})
  BY <1>3, <1>5
<1>7. CASE p = x
  BY <1>3, <1>6, <1>7
<1>8. CASE p # x
  <2>1. V(T \ {p}) = f[x] + V(R)
    <3>1. T \ {p} \notin C /\ T \ {p} \in SUBSET S
      BY <1>2, <1>6
    <3>2. (T \ {p}) \ {x} = R /\ x \in T \ {p}
      BY <1>3, <1>8
    <3> HIDE DEF V, p
    <3> QED
      BY <3>1, <3>2
  <2>2. V(T \ {x}) = f[p] + V(R)
    <3>1. T \ {x} \notin C /\ T \ {x} \in SUBSET S
      BY <1>2, <1>3
    <3>2. (T \ {x}) \ {p} = R /\ p \in T \ {x}
      BY <1>6, <1>8
    <3> HIDE DEF V, p
    <3> QED
      BY <3>1, <3>2
  <2>3. V(R) \in Int /\ f[p] \in Int /\ f[x] \in Int
    BY <1>4, <1>3, <1>6
  <2> HIDE DEF V, R, p
  <2> QED
    BY <1>3, <1>6, <2>1, <2>2, <2>3
<1> QED
  BY <1>7, <1>8

(* One more element. *)
LEMMA SumAdd ==
  ASSUME NEW S, IsFiniteSet(S), NEW z, z \notin S,
         NEW f, \A x \in S \cup {z} : f[x] \in Int
  PROVE  SumFunctionOnSet(f, S \cup {z}) = f[z] + SumFunctionOnSet(f, S)
<1>1. IsFiniteSet(S \cup {z}) /\ (S \cup {z}) \ {z} = S
  BY FS_AddElement
<1> QED
  BY <1>1, SumRemove

(* Sums add up pointwise. *)
LEMMA SumPlus ==
  ASSUME NEW S, IsFiniteSet(S), NEW f, NEW g, NEW h,
         \A x \in S : f[x] \in Int /\ g[x] \in Int /\ h[x] = f[x] + g[x]
  PROVE  SumFunctionOnSet(h, S) = SumFunctionOnSet(f, S) + SumFunctionOnSet(g, S)
<1> DEFINE V(k, T) == SumFunctionOnSet(k, T)
           C == {T \in SUBSET S : V(h, T) # V(f, T) + V(g, T)}
<1>1. SUFFICES ASSUME C # {} PROVE FALSE
  OBVIOUS
<1>2. PICK T \in C : \A U \in C : U \subseteq T => U = T
  <2>1. C \in SUBSET SUBSET S
    OBVIOUS
  <2> HIDE DEF C
  <2> QED
    BY <1>1, <2>1, MinimalSubset
<1>3. CASE T = {}
  BY <1>2, <1>3, SumEmpty
<1>4. CASE T # {}
  <2>1. IsFiniteSet(T)
    BY FS_Subset
  <2> DEFINE p == Pick(T)
             R == T \ {p}
  <2>2. p \in T /\ V(h, T) = h[p] + V(h, R) /\ V(f, T) = f[p] + V(f, R) /\ V(g, T) = g[p] + V(g, R)
    BY <1>4, <2>1, SumPicks
  <2>3. IsFiniteSet(R) /\ R \notin C /\ R \in SUBSET S
    BY <1>2, <2>1, <2>2, FS_RemoveElement
  <2>4. V(f, R) \in Int /\ V(g, R) \in Int
    BY <2>3, SumType
  <2>5. f[p] \in Int /\ g[p] \in Int /\ h[p] = f[p] + g[p]
    BY <2>2
  <2>6. V(h, R) = V(f, R) + V(g, R)
    BY <2>3
  <2>7. V(h, T) # V(f, T) + V(g, T)
    BY <1>2
  <2> HIDE DEF V, C, R, p
  <2> QED
    BY <2>2, <2>4, <2>5, <2>6, <2>7
<1> QED
  BY <1>3, <1>4

(* A sum of zeros is zero. *)
LEMMA SumZero ==
  ASSUME NEW S, IsFiniteSet(S), NEW f, \A x \in S : f[x] = 0
  PROVE  SumFunctionOnSet(f, S) = 0
<1> DEFINE C == {T \in SUBSET S : SumFunctionOnSet(f, T) # 0}
<1>1. SUFFICES ASSUME C # {} PROVE FALSE
  OBVIOUS
<1>2. PICK T \in C : \A U \in C : U \subseteq T => U = T
  <2>1. C \in SUBSET SUBSET S
    OBVIOUS
  <2> HIDE DEF C
  <2> QED
    BY <1>1, <2>1, MinimalSubset
<1>3. CASE T = {}
  BY <1>2, <1>3, SumEmpty
<1>4. CASE T # {}
  <2>1. IsFiniteSet(T)
    BY FS_Subset
  <2>2. Pick(T) \in T /\ SumFunctionOnSet(f, T) = f[Pick(T)] + SumFunctionOnSet(f, T \ {Pick(T)})
    BY <1>4, <2>1, SumPicks
  <2>3. SumFunctionOnSet(f, T \ {Pick(T)}) = 0
    BY <1>2, <2>2
  <2> QED
    BY <1>2, <2>2, <2>3
<1> QED
  BY <1>3, <1>4

(* Only the values on the set matter. *)
LEMMA SumAgree ==
  ASSUME NEW S, IsFiniteSet(S), NEW f, NEW g, \A x \in S : f[x] \in Int /\ f[x] = g[x]
  PROVE  SumFunctionOnSet(f, S) = SumFunctionOnSet(g, S)
<1> DEFINE z == [x \in S |-> 0]
<1>1. SumFunctionOnSet(z, S) = 0
  BY SumZero
<1>2. SumFunctionOnSet(f, S) = SumFunctionOnSet(g, S) + SumFunctionOnSet(z, S)
  <2>1. \A x \in S : g[x] \in Int /\ z[x] \in Int /\ f[x] = g[x] + z[x]
    OBVIOUS
  <2> QED
    BY <2>1, SumPlus
<1>3. SumFunctionOnSet(g, S) \in Int
  BY SumType
<1> QED
  BY <1>1, <1>2, <1>3

(* A function that is zero but at one point. *)
LEMMA SumPoint ==
  ASSUME NEW S, IsFiniteSet(S), NEW z, NEW n \in Int,
         NEW f, \A x \in S : f[x] = IF x = z THEN n ELSE 0
  PROVE  SumFunctionOnSet(f, S) = IF z \in S THEN n ELSE 0
<1>1. CASE z \notin S
  BY <1>1, SumZero
<1>2. CASE z \in S
  <2>1. \A x \in S : f[x] \in Int
    OBVIOUS
  <2>2. SumFunctionOnSet(f, S) = f[z] + SumFunctionOnSet(f, S \ {z})
    BY <1>2, <2>1, SumRemove
  <2>3. SumFunctionOnSet(f, S \ {z}) = 0
    <3>1. IsFiniteSet(S \ {z}) /\ \A x \in S \ {z} : f[x] = 0
      BY FS_RemoveElement
    <3> QED
      BY <3>1, SumZero
  <2> QED
    BY <1>2, <2>2, <2>3
<1> QED
  BY <1>1, <1>2

(* The sum over two sets with nothing in common. *)
LEMMA SumUnion ==
  ASSUME NEW S, IsFiniteSet(S), NEW T, IsFiniteSet(T), S \cap T = {},
         NEW f, \A x \in S \cup T : f[x] \in Int
  PROVE  SumFunctionOnSet(f, S \cup T) = SumFunctionOnSet(f, S) + SumFunctionOnSet(f, T)
<1> DEFINE V(U) == SumFunctionOnSet(f, U)
           C == {U \in SUBSET T : V(S \cup U) # V(S) + V(U)}
<1>1. SUFFICES ASSUME C # {} PROVE FALSE
  OBVIOUS
<1>2. PICK U \in C : \A W \in C : W \subseteq U => W = U
  <2>1. C \in SUBSET SUBSET T
    OBVIOUS
  <2> HIDE DEF C
  <2> QED
    BY <1>1, <2>1, MinimalSubset
<1>0. V(S) \in Int
  BY SumType
<1>3. CASE U = {}
  BY <1>0, <1>2, <1>3, SumEmpty
<1>4. CASE U # {}
  <2>1. IsFiniteSet(U) /\ IsFiniteSet(S \cup U)
    BY FS_Subset, FS_Union
  <2>2. PICK x : x \in U
    BY <1>4
  <2> DEFINE W == U \ {x}
  <2>3. IsFiniteSet(W) /\ W \in SUBSET T /\ W # U /\ W \subseteq U
    BY <2>1, <2>2, FS_RemoveElement
  <2>4. V(S \cup W) = V(S) + V(W)
    BY <1>2, <2>3
  <2>5. V(U) = f[x] + V(W)
    BY <2>1, <2>2, SumRemove
  <2>6. V(S \cup U) = f[x] + V(S \cup W)
    <3>1. (S \cup U) \ {x} = S \cup W /\ x \in S \cup U
      BY <2>2
    <3>2. \A y \in S \cup U : f[y] \in Int
      OBVIOUS
    <3>3. V(S \cup U) = f[x] + V((S \cup U) \ {x})
      BY <2>1, <3>1, <3>2, SumRemove
    <3> QED
      BY <3>1, <3>3
  <2>7. V(W) \in Int /\ f[x] \in Int
    BY <2>2, <2>3, SumType
  <2>8. V(S \cup U) # V(S) + V(U)
    BY <1>2
  <2> HIDE DEF V, C, W
  <2> QED
    BY <1>0, <2>4, <2>5, <2>6, <2>7, <2>8
<1> QED
  BY <1>3, <1>4

(* A sum of natural numbers is one, and is no less over a larger set. *)
LEMMA SumNat ==
  ASSUME NEW S, IsFiniteSet(S), NEW f, \A x \in S : f[x] \in Nat
  PROVE  SumFunctionOnSet(f, S) \in Nat
<1> DEFINE C == {T \in SUBSET S : SumFunctionOnSet(f, T) \notin Nat}
<1>1. SUFFICES ASSUME C # {} PROVE FALSE
  OBVIOUS
<1>2. PICK T \in C : \A U \in C : U \subseteq T => U = T
  <2>1. C \in SUBSET SUBSET S
    OBVIOUS
  <2> HIDE DEF C
  <2> QED
    BY <1>1, <2>1, MinimalSubset
<1>3. CASE T = {}
  BY <1>2, <1>3, SumEmpty
<1>4. CASE T # {}
  <2>1. IsFiniteSet(T)
    BY FS_Subset
  <2>2. /\ Pick(T) \in T
        /\ SumFunctionOnSet(f, T) = f[Pick(T)] + SumFunctionOnSet(f, T \ {Pick(T)})
    BY <1>4, <2>1, SumPicks
  <2>3. SumFunctionOnSet(f, T \ {Pick(T)}) \in Nat
    BY <1>2, <2>2
  <2> QED
    BY <1>2, <2>2, <2>3
<1> QED
  BY <1>3, <1>4

(* A sum of natural numbers is no less over a larger set.                  *)
LEMMA SumSubset ==
  ASSUME NEW S, IsFiniteSet(S), NEW T \in SUBSET S, NEW f, \A x \in S : f[x] \in Nat
  PROVE  SumFunctionOnSet(f, T) <= SumFunctionOnSet(f, S)
<1>1. /\ IsFiniteSet(T) /\ IsFiniteSet(S \ T)
      /\ T \cap (S \ T) = {} /\ T \cup (S \ T) = S
  BY FS_Subset, FS_Difference
<1>2. SumFunctionOnSet(f, T) \in Nat /\ SumFunctionOnSet(f, S \ T) \in Nat
  BY <1>1, SumNat
<1>3. SumFunctionOnSet(f, T \cup (S \ T)) = SumFunctionOnSet(f, T) + SumFunctionOnSet(f, S \ T)
  <2>1. \A x \in T \cup (S \ T) : f[x] \in Int
    OBVIOUS
  <2> QED
    BY <1>1, <2>1, SumUnion
<1>4. SumFunctionOnSet(f, S) = SumFunctionOnSet(f, T) + SumFunctionOnSet(f, S \ T)
  BY <1>1, <1>3, Zenon
<1> QED
  BY <1>2, <1>4

(* The sum of a sequence's first numbers, and of the first one more. *)
LEMMA SumNext ==
  ASSUME NEW n \in Nat, NEW f, \A i \in 1..(n + 1) : f[i] \in Int
  PROVE  /\ SumFunctionOnSet(f, 1..n) \in Int
         /\ SumFunctionOnSet(f, 1..(n + 1)) = SumFunctionOnSet(f, 1..n) + f[n + 1]
<1>1. IsFiniteSet(1..n)
  BY FS_Interval
<1>2. (n + 1) \notin 1..n /\ 1..(n + 1) = (1..n) \cup {n + 1}
  OBVIOUS
<1>3. f[n + 1] \in Int /\ \A i \in 1..n : f[i] \in Int
  OBVIOUS
<1>4. SumFunctionOnSet(f, 1..n) \in Int
  BY <1>1, <1>3, SumType
<1>5. SumFunctionOnSet(f, (1..n) \cup {n + 1}) = f[n + 1] + SumFunctionOnSet(f, 1..n)
  <2>1. \A i \in (1..n) \cup {n + 1} : f[i] \in Int
    BY <1>3
  <2> QED
    BY <1>1, <1>2, <2>1, SumAdd
<1>6. SumFunctionOnSet(f, 1..(n + 1)) = f[n + 1] + SumFunctionOnSet(f, 1..n)
  BY <1>2, <1>5, Zenon
<1> QED
  BY <1>3, <1>4, <1>6

(* What leaves one element and enters another of the same set leaves the   *)
(* sum over the set alone.                                                 *)
Moves(f, g, S, x, y, n) ==
  \A z \in S : /\ f[z] \in Int
              /\ g[z] = f[z] + (IF z = x THEN 0 - n ELSE 0) + (IF z = y THEN n ELSE 0)

(* What moves between two points of a set leaves its sum alone.            *)
LEMMA SumPair ==
  ASSUME NEW S, IsFiniteSet(S), NEW x, NEW y, x \in S <=> y \in S, NEW n \in Int,
         NEW f, NEW g, Moves(f, g, S, x, y, n)
  PROVE  SumFunctionOnSet(g, S) = SumFunctionOnSet(f, S)
<1> DEFINE out  == [z \in S |-> IF z = x THEN 0 - n ELSE 0]
           in   == [z \in S |-> IF z = y THEN n ELSE 0]
           mid  == [z \in S |-> f[z] + out[z]]
<1>1. /\ \A z \in S : f[z] \in Int /\ out[z] \in Int /\ in[z] \in Int /\ mid[z] \in Int
      /\ \A z \in S : out[z] = IF z = x THEN 0 - n ELSE 0
      /\ \A z \in S : in[z] = IF z = y THEN n ELSE 0
      /\ \A z \in S : mid[z] = f[z] + out[z] /\ g[z] = mid[z] + in[z]
      /\ 0 - n \in Int
  BY DEF Moves
<1> HIDE DEF out, in, mid
<1>2. SumFunctionOnSet(out, S) = IF x \in S THEN 0 - n ELSE 0
  BY <1>1, SumPoint
<1>3. SumFunctionOnSet(in, S) = IF y \in S THEN n ELSE 0
  BY <1>1, SumPoint
<1>4. SumFunctionOnSet(mid, S) = SumFunctionOnSet(f, S) + SumFunctionOnSet(out, S)
  BY <1>1, SumPlus
<1>5. SumFunctionOnSet(g, S) = SumFunctionOnSet(mid, S) + SumFunctionOnSet(in, S)
  BY <1>1, SumPlus
<1>6. SumFunctionOnSet(f, S) \in Int
  BY <1>1, SumType
<1> QED
  BY <1>2, <1>3, <1>4, <1>5, <1>6
=============================================================================
