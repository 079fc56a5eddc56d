----------------------------- MODULE JournalProofs -----------------------------
(***************************************************************************)
(* Theorems about Partitioning, for every tenant, month and instant, and   *)
(* about Journal, for every set of transactions, readers and instants,     *)
(* every page size and every order of the ids.                             *)
(***************************************************************************)
EXTENDS Journal, MoneyProofs, SequenceTheorems

-----------------------------------------------------------------------------
(* Earlier is a strict total order of the instants. *)

(* Of two different instants exactly one is earlier.                       *)
LEMMA EarlierStrict ==
  ASSUME NEW x \in Instants, NEW y \in Instants
  PROVE  /\ ~Earlier(x, x)
         /\ Earlier(x, y) => ~Earlier(y, x)
         /\ x # y => Earlier(x, y) \/ Earlier(y, x)
<1>1. /\ x.year \in Nat /\ x.month \in Int /\ x.rest \in Nat
      /\ y.year \in Nat /\ y.month \in Int /\ y.rest \in Nat
  BY DEF Instants
<1>2. x # y => x.year # y.year \/ x.month # y.month \/ x.rest # y.rest
  BY DEF Instants
<1> QED
  BY <1>1, <1>2 DEF Earlier

(* What is earlier than an instant is earlier than all that is not before it. *)
LEMMA EarlierTransitive ==
  ASSUME NEW x \in Instants, NEW y \in Instants, NEW z \in Instants,
         Earlier(x, y), ~Earlier(z, y)
  PROVE  Earlier(x, z)
<1>1. /\ x.year \in Nat /\ x.month \in Int /\ x.rest \in Nat
      /\ y.year \in Nat /\ y.month \in Int /\ y.rest \in Nat
      /\ z.year \in Nat /\ z.month \in Int /\ z.rest \in Nat
  BY DEF Instants
<1> QED
  BY <1>1 DEF Earlier

(* The bounds of a partition are instants, December's too.                 *)
LEMMA BoundsAreInstants ==
  ASSUME NEW key \in PartitionKeys
  PROVE  Start(key) \in Instants /\ End(key) \in Instants
<1>1. key.year \in Nat /\ key.month \in 1..12
  BY DEF PartitionKeys
<1>2. CASE key.month = 12
  BY <1>1, <1>2 DEF Start, End, MonthBegin, Instants
<1>3. CASE key.month # 12
  <2>1. key.month + 1 \in 1..12
    BY <1>1, <1>3
  <2> QED
    BY <1>1, <1>3, <2>1 DEF Start, End, MonthBegin, Instants
<1> QED
  BY <1>2, <1>3

-----------------------------------------------------------------------------
(* partitioning.py, _month_bounds: the bounds of a month take the instants *)
(* of that calendar month and no other, December's too.                    *)
THEOREM BoundsAreTheMonth ==
  ASSUME NEW x \in Instants, NEW key \in PartitionKeys
  PROVE  InPartition(x, key) <=> x.year = key.year /\ x.month = key.month
<1>1. /\ key.year \in Nat /\ key.month \in 1..12
      /\ x.year \in Nat /\ x.month \in 1..12 /\ x.rest \in Nat
  BY DEF PartitionKeys, Instants
<1>2. ~Earlier(x, Start(key)) <=>
        x.year > key.year \/ (x.year = key.year /\ x.month >= key.month)
  BY <1>1 DEF Earlier, Start, MonthBegin
<1>3. CASE key.month = 12
  <2>1. Earlier(x, End(key)) <=> x.year <= key.year
    BY <1>1, <1>3 DEF Earlier, End, MonthBegin
  <2> QED
    BY <1>1, <1>2, <1>3, <2>1 DEF InPartition, Within
<1>4. CASE key.month # 12
  <2>1. Earlier(x, End(key)) <=>
          x.year < key.year \/ (x.year = key.year /\ x.month <= key.month)
    BY <1>1, <1>4 DEF Earlier, End, MonthBegin
  <2> QED
    BY <1>1, <1>2, <2>1 DEF InPartition, Within
<1> QED
  BY <1>3, <1>4

(* partitioning.py, route: a row is routed to the one partition of its     *)
(* tenant whose bounds take it, so none is refused and none has a choice.  *)
THEOREM RouteIsTheOnlyPartition ==
  ASSUME NEW x \in Instants, x.year \in 1..MaxYear, NEW tenant \in Seq(Chars)
  PROVE  /\ Route(tenant, x) \in PartitionKeys
         /\ \A key \in PartitionKeys :
              key.tenant = tenant => (InPartition(x, key) <=> key = Route(tenant, x))
<1>1. Route(tenant, x) \in PartitionKeys
  BY DEF Route, PartitionKeys, Instants
<1>2. ASSUME NEW key \in PartitionKeys, key.tenant = tenant
      PROVE  key = Route(tenant, x) <=> x.year = key.year /\ x.month = key.month
  BY <1>2 DEF PartitionKeys, Route
<1> QED
  BY <1>1, <1>2, BoundsAreTheMonth

(* Cutting off a digit.                                                    *)
LEMMA DivTen ==
  ASSUME NEW n \in Nat
  PROVE  /\ n \div 10 \in Nat /\ n % 10 \in 0..9 /\ n = 10 * (n \div 10) + (n % 10)
         /\ \A k \in Nat : n <= 10 * k + 9 => n \div 10 <= k
<1>1. /\ n \div 10 \in Int /\ n % 10 \in Nat /\ n % 10 < 10
      /\ n = (n \div 10) * 10 + (n % 10)
  BY DivMod
<1> DEFINE a == n \div 10
           b == n % 10
<1>2. a \in Int /\ b \in Nat /\ b < 10 /\ n = a * 10 + b
  BY <1>1
<1> HIDE DEF a, b
<1>3. /\ a \in Nat /\ b \in 0..9 /\ n = 10 * a + b
      /\ \A k \in Nat : n <= 10 * k + 9 => a <= k
  BY <1>2
<1> QED
  BY <1>3 DEF a, b

(* A number is its last digit and what comes before it.                    *)
LEMMA SameDigits ==
  ASSUME NEW m \in Nat, NEW n \in Nat, m \div 10 = n \div 10, m % 10 = n % 10
  PROVE  m = n
<1>1. m = 10 * (m \div 10) + (m % 10) /\ n = 10 * (n \div 10) + (n % 10)
  BY DivTen
<1> DEFINE a == n \div 10
           b == n % 10
<1>2. m = 10 * a + b /\ n = 10 * a + b
  BY <1>1
<1> HIDE DEF a, b
<1> QED
  BY <1>2

(* The digits of a year are digits. *)
LEMMA YearDigits ==
  ASSUME NEW y \in 1..MaxYear
  PROVE  /\ y \in Nat /\ y \div 10 \in Nat /\ (y \div 10) \div 10 \in Nat
         /\ ((y \div 10) \div 10) \div 10 \in 0..9 /\ ((y \div 10) \div 10) % 10 \in 0..9
         /\ (y \div 10) % 10 \in 0..9 /\ y % 10 \in 0..9
<1> DEFINE a == y \div 10
           b == a \div 10
           c == b \div 10
<1>1. y \in Nat /\ y <= 10 * 999 + 9
  BY DEF MaxYear
<1>2. a \in Nat /\ y % 10 \in 0..9 /\ a <= 10 * 99 + 9
  <2>1. a <= 999
    BY <1>1, DivTen
  <2> QED
    BY <1>1, <2>1, DivTen
<1> HIDE DEF a
<1>3. b \in Nat /\ a % 10 \in 0..9 /\ b <= 10 * 9 + 9
  <2>1. b <= 99
    BY <1>2, DivTen
  <2> QED
    BY <1>2, <2>1, DivTen
<1> HIDE DEF b
<1>4. c \in Nat /\ b % 10 \in 0..9 /\ c <= 9
  BY <1>3, DivTen
<1> HIDE DEF c
<1>5. c \in 0..9
  BY <1>4
<1> QED
  BY <1>1, <1>2, <1>3, <1>4, <1>5, Zenon DEF a, b, c

(* Tuples are sequences.                                                   *)
LEMMA FourTuple ==
  ASSUME NEW S, NEW a \in S, NEW b \in S, NEW c \in S, NEW d \in S
  PROVE  <<a, b, c, d>> \in Seq(S) /\ Len(<<a, b, c, d>>) = 4
OBVIOUS

(* Equal tuples have equal members.                                        *)
LEMMA FourEqual ==
  ASSUME NEW a, NEW b, NEW c, NEW d, NEW e, NEW f, NEW g, NEW h,
         <<a, b, c, d>> = <<e, f, g, h>>
  PROVE  a = e /\ b = f /\ c = g /\ d = h
OBVIOUS

(* Pairs are sequences.                                                    *)
LEMMA TwoTuple ==
  ASSUME NEW S, NEW a \in S, NEW b \in S
  PROVE  <<a, b>> \in Seq(S) /\ Len(<<a, b>>) = 2
OBVIOUS

(* A single character is a sequence.                                       *)
LEMMA OneTuple ==
  ASSUME NEW S, NEW a \in S
  PROVE  <<a>> \in Seq(S) /\ Len(<<a>>) = 1
OBVIOUS

(* A concatenation is as long as its parts together.                       *)
LEMMA ConcatType ==
  ASSUME NEW S, NEW a \in Seq(S), NEW b \in Seq(S)
  PROVE  a \o b \in Seq(S) /\ Len(a \o b) = Len(a) + Len(b) /\ Len(a) \in Nat /\ Len(b) \in Nat
OBVIOUS

(* A year has four digits.                                                 *)
LEMMA YearType ==
  ASSUME NEW y \in 1..MaxYear
  PROVE  Year(y) \in Seq(Chars) /\ Len(Year(y)) = 4
<1> DEFINE a == y \div 10
           b == a \div 10
           c == b \div 10
<1>1. c \in 0..9 /\ b % 10 \in 0..9 /\ a % 10 \in 0..9 /\ y % 10 \in 0..9
  BY YearDigits, Zenon
<1>2. \A d \in 0..9 : Digit[d] \in Chars
  BY CharAssumption
<1>3. /\ Digit[c] \in Chars /\ Digit[b % 10] \in Chars
      /\ Digit[a % 10] \in Chars /\ Digit[y % 10] \in Chars
  BY <1>1, <1>2, Zenon
<1>4. Year(y) = <<Digit[c], Digit[b % 10], Digit[a % 10], Digit[y % 10]>>
  BY Zenon DEF Year
<1> HIDE DEF a, b, c
<1> QED
  BY <1>3, <1>4, FourTuple

(* A month has two digits.                                                 *)
LEMMA MonthType ==
  ASSUME NEW m \in 1..12
  PROVE  /\ m \div 10 \in 0..9 /\ m % 10 \in 0..9
         /\ Month(m) \in Seq(Chars) /\ Len(Month(m)) = 2
<1>1. m \in Nat /\ m <= 10 * 1 + 9
  OBVIOUS
<1>2. m \div 10 \in 0..9 /\ m % 10 \in 0..9
  <2>1. m \div 10 \in Nat /\ m \div 10 <= 1
    BY <1>1, DivTen
  <2>2. m % 10 \in 0..9
    BY <1>1, DivTen
  <2> QED
    BY <2>1, <2>2
<1>3. Digit[m \div 10] \in Chars /\ Digit[m % 10] \in Chars
  <2>1. \A d \in 0..9 : Digit[d] \in Chars
    BY CharAssumption
  <2> QED
    BY <1>2, <2>1, Zenon
<1> QED
  BY <1>2, <1>3, TwoTuple, Zenon DEF Month

(* A year has digits of its own. *)
LEMMA YearsDiffer ==
  ASSUME NEW y \in 1..MaxYear, NEW z \in 1..MaxYear, Year(y) = Year(z)
  PROVE  y = z
<1> DEFINE a == y \div 10
           b == a \div 10
           c == b \div 10
           e == z \div 10
           f == e \div 10
           g == f \div 10
<1>1. /\ y \in Nat /\ a \in Nat /\ b \in Nat /\ c \in 0..9
      /\ b % 10 \in 0..9 /\ a % 10 \in 0..9 /\ y % 10 \in 0..9
  BY YearDigits, Zenon
<1>2. /\ z \in Nat /\ e \in Nat /\ f \in Nat /\ g \in 0..9
      /\ f % 10 \in 0..9 /\ e % 10 \in 0..9 /\ z % 10 \in 0..9
  BY YearDigits, Zenon
<1>3. /\ Year(y) = <<Digit[c], Digit[b % 10], Digit[a % 10], Digit[y % 10]>>
      /\ Year(z) = <<Digit[g], Digit[f % 10], Digit[e % 10], Digit[z % 10]>>
  BY Zenon DEF Year
<1>4. c = g /\ b % 10 = f % 10 /\ a % 10 = e % 10 /\ y % 10 = z % 10
  <2> HIDE DEF a, b, c, e, f, g
  <2>1. /\ Digit[c] = Digit[g] /\ Digit[b % 10] = Digit[f % 10]
        /\ Digit[a % 10] = Digit[e % 10] /\ Digit[y % 10] = Digit[z % 10]
    <3>1. <<Digit[c], Digit[b % 10], Digit[a % 10], Digit[y % 10]>> =
            <<Digit[g], Digit[f % 10], Digit[e % 10], Digit[z % 10]>>
      BY <1>3, Zenon
    <3> QED
      BY <3>1, FourEqual, Zenon
  <2>2. \A d, k \in 0..9 : Digit[d] = Digit[k] => d = k
    BY CharAssumption
  <2> QED
    BY <1>1, <1>2, <2>1, <2>2, Zenon
<1>5. b = f
  BY <1>1, <1>2, <1>4, SameDigits, Zenon
<1>6. a = e
  BY <1>1, <1>2, <1>4, <1>5, SameDigits, Zenon
<1> QED
  BY <1>1, <1>2, <1>4, <1>6, SameDigits, Zenon

(* A month has digits of its own.                                          *)
LEMMA MonthsDiffer ==
  ASSUME NEW m \in 1..12, NEW n \in 1..12, Month(m) = Month(n)
  PROVE  m = n
<1>1. Digit[m \div 10] = Digit[n \div 10] /\ Digit[m % 10] = Digit[n % 10]
  BY DEF Month
<1>2. m \div 10 = n \div 10 /\ m % 10 = n % 10
  <2>1. \A d, k \in 0..9 : Digit[d] = Digit[k] => d = k
    BY CharAssumption
  <2> QED
    BY <1>1, <2>1, MonthType, Zenon
<1> QED
  BY <1>2, SameDigits

(* A tenant's part of a name is made of the characters of ids.             *)
LEMMA SafeType ==
  ASSUME NEW tenant \in Seq(Chars)
  PROVE  Safe(tenant) \in Seq(Chars) /\ Len(Safe(tenant)) \in Nat
<1>1. CASE tenant = <<>>
  BY <1>1, CharAssumption DEF Safe
<1>2. CASE tenant # <<>>
  <2>1. Len(tenant) \in Nat /\ \A i \in 1..Len(tenant) : Plain[tenant[i]] \in Chars
    BY CharAssumption
  <2>2. [i \in 1..Len(tenant) |-> Plain[tenant[i]]] \in Seq(Chars)
    BY <2>1
  <2> QED
    BY <1>2, <2>2 DEF Safe
<1> QED
  BY <1>1, <1>2

(* A suffix adds eight characters to the tenant's part.                    *)
LEMMA SuffixShape ==
  ASSUME NEW key \in PartitionKeys
  PROVE  /\ Suffix(key) \in Seq(Chars)
         /\ Len(Suffix(key)) = Len(Safe(key.tenant)) + 8
         /\ Len(Safe(key.tenant)) \in Nat
<1> DEFINE s == Safe(key.tenant)
           u == <<Underscore>>
           y == Year(key.year)
           m == Month(key.month)
<1>1. Suffix(key) = s \o u \o y \o u \o m
  BY DEF Suffix
<1>2. key.tenant \in Seq(Chars) /\ key.year \in 1..MaxYear /\ key.month \in 1..12
  BY DEF PartitionKeys
<1>3. s \in Seq(Chars) /\ Len(s) \in Nat
  BY <1>2, SafeType
<1>4. u \in Seq(Chars) /\ Len(u) = 1
  BY CharAssumption, OneTuple
<1>5. y \in Seq(Chars) /\ Len(y) = 4 /\ m \in Seq(Chars) /\ Len(m) = 2
  BY <1>2, YearType, MonthType, Zenon
<1> DEFINE v == s \o u
           w == v \o y
           x == w \o u
<1> HIDE DEF s, u, y, m
<1>6. v \in Seq(Chars) /\ Len(v) = Len(s) + 1
  BY <1>3, <1>4, ConcatType
<1> HIDE DEF v
<1>7. w \in Seq(Chars) /\ Len(w) = Len(s) + 5
  <2>1. w \in Seq(Chars) /\ Len(w) = Len(v) + Len(y)
    BY <1>5, <1>6, ConcatType, Zenon DEF w
  <2> QED
    BY <1>3, <1>5, <1>6, <2>1
<1> HIDE DEF w
<1>8. x \in Seq(Chars) /\ Len(x) = Len(s) + 6
  <2>1. x \in Seq(Chars) /\ Len(x) = Len(w) + Len(u)
    BY <1>4, <1>7, ConcatType, Zenon DEF x
  <2> QED
    BY <1>3, <1>4, <1>7, <2>1
<1> HIDE DEF x
<1>9. x \o m \in Seq(Chars) /\ Len(x \o m) = Len(s) + 8
  <2>1. x \o m \in Seq(Chars) /\ Len(x \o m) = Len(x) + Len(m)
    BY <1>5, <1>8, ConcatType, Zenon
  <2> QED
    BY <1>3, <1>5, <1>8, <2>1
<1>10. Suffix(key) = x \o m
  BY <1>1, Zenon DEF x, w, v
<1> QED
  BY <1>3, <1>9, <1>10 DEF s

(* Of equal sequences parts of the same length are equal.                  *)
LEMMA PartsAreEqual ==
  ASSUME NEW S, NEW a \in Seq(S), NEW b \in Seq(S), NEW c \in Seq(S), NEW d \in Seq(S),
         a \o b = c \o d, Len(b) = Len(d)
  PROVE  a = c /\ b = d
<1>1. Len(a) \in Nat /\ Len(b) \in Nat /\ Len(c) \in Nat /\ Len(d) \in Nat
  OBVIOUS
<1>2. Len(a \o b) = Len(a) + Len(b) /\ Len(c \o d) = Len(c) + Len(d)
  OBVIOUS
<1>3. Len(a) = Len(c)
  BY <1>1, <1>2
<1>4. ASSUME NEW i \in 1..Len(a) PROVE a[i] = c[i]
  <2>1. (a \o b)[i] = a[i] /\ (c \o d)[i] = c[i]
    BY <1>1, <1>3
  <2> QED
    BY <2>1
<1>5. ASSUME NEW i \in 1..Len(b) PROVE b[i] = d[i]
  <2>1. (a \o b)[Len(a) + i] = b[i] /\ (c \o d)[Len(c) + i] = d[i]
    BY <1>1
  <2> QED
    BY <1>3, <2>1
<1> QED
  BY <1>1, <1>3, <1>4, <1>5, SeqEqual

(* A suffix tells the tenant's part, the year and the month.               *)
LEMMA SuffixesDiffer ==
  ASSUME NEW key \in PartitionKeys, NEW other \in PartitionKeys
  PROVE  Suffix(key) = Suffix(other) <=>
           /\ key.year = other.year /\ key.month = other.month
           /\ Safe(key.tenant) = Safe(other.tenant)
<1> DEFINE u == <<Underscore>>
           s1 == Safe(key.tenant)
           y1 == Year(key.year)
           m1 == Month(key.month)
           v1 == s1 \o u
           w1 == v1 \o y1
           x1 == w1 \o u
           s2 == Safe(other.tenant)
           y2 == Year(other.year)
           m2 == Month(other.month)
           v2 == s2 \o u
           w2 == v2 \o y2
           x2 == w2 \o u
<1>1. Suffix(key) = x1 \o m1 /\ Suffix(other) = x2 \o m2
  BY DEF Suffix
<1>2. /\ key.tenant \in Seq(Chars) /\ key.year \in 1..MaxYear /\ key.month \in 1..12
      /\ other.tenant \in Seq(Chars) /\ other.year \in 1..MaxYear /\ other.month \in 1..12
  BY DEF PartitionKeys
<1>3. s1 \in Seq(Chars) /\ s2 \in Seq(Chars)
  BY <1>2, SafeType
<1>4. u \in Seq(Chars)
  BY CharAssumption, OneTuple
<1>5. /\ y1 \in Seq(Chars) /\ y2 \in Seq(Chars) /\ Len(y1) = Len(y2)
      /\ m1 \in Seq(Chars) /\ m2 \in Seq(Chars) /\ Len(m1) = Len(m2)
  BY <1>2, YearType, MonthType, Zenon
<1>6. y1 = y2 => key.year = other.year
  BY <1>2, YearsDiffer, Zenon
<1>7. m1 = m2 => key.month = other.month
  BY <1>2, MonthsDiffer, Zenon
<1>8. key.year = other.year /\ key.month = other.month /\ s1 = s2 =>
        Suffix(key) = Suffix(other)
  BY Zenon DEF Suffix
<1> HIDE DEF u, s1, y1, m1, s2, y2, m2
<1>9. v1 \in Seq(Chars) /\ v2 \in Seq(Chars)
  BY <1>3, <1>4, ConcatType, Zenon
<1>10. w1 \in Seq(Chars) /\ w2 \in Seq(Chars)
  BY <1>5, <1>9, ConcatType, Zenon
<1>11. x1 \in Seq(Chars) /\ x2 \in Seq(Chars)
  BY <1>4, <1>10, ConcatType, Zenon
<1>12. Suffix(key) = Suffix(other) => s1 = s2 /\ y1 = y2 /\ m1 = m2
  <2> SUFFICES ASSUME Suffix(key) = Suffix(other) PROVE s1 = s2 /\ y1 = y2 /\ m1 = m2
    OBVIOUS
  <2> HIDE DEF x1, x2
  <2>1. x1 = x2 /\ m1 = m2
    <3>1. x1 \o m1 = x2 \o m2
      BY <1>1, Zenon
    <3>2. /\ x1 \in Seq(Chars) /\ x2 \in Seq(Chars) /\ Len(m1) = Len(m2)
          /\ m1 \in Seq(Chars) /\ m2 \in Seq(Chars)
      BY <1>5, <1>11
    <3> QED
      BY <3>1, <3>2, PartsAreEqual
  <2>2. w1 \o u = w2 \o u
    BY <2>1, Zenon DEF x1, x2
  <2> HIDE DEF w1, w2
  <2>3. w1 = w2
    BY <1>4, <1>10, <2>2, PartsAreEqual, Zenon
  <2>4. v1 \o y1 = v2 \o y2
    BY <2>3, Zenon DEF w1, w2
  <2> HIDE DEF v1, v2
  <2>5. v1 = v2 /\ y1 = y2
    BY <1>5, <1>9, <2>4, PartsAreEqual, Zenon
  <2>6. s1 \o u = s2 \o u
    BY <2>5, Zenon DEF v1, v2
  <2>7. s1 = s2
    BY <1>3, <1>4, <2>6, PartsAreEqual, Zenon
  <2> QED
    BY <2>1, <2>5, <2>7
<1> QED
  BY <1>6, <1>7, <1>8, <1>12, Zenon DEF s1, s2

(* A name begins like its table, and is cut if it is longer than 63.       *)
LEMMA NameShape ==
  ASSUME NEW t \in PartitionedTables, NEW key \in PartitionKeys
  PROVE  /\ Prefix[t] \o Suffix(key) \in Seq(Chars) /\ Prefix[t] \in Seq(Chars)
         /\ Len(Prefix[t] \o Suffix(key)) = Len(Prefix[t]) + Len(Safe(key.tenant)) + 8
         /\ Len(Prefix[t]) \in {11, 15}
         /\ (Prefix[t] \o Suffix(key))[1] = Prefix[t][1]
<1> DEFINE p == Prefix[t]
           s == Suffix(key)
           n == Len(Safe(key.tenant))
<1>1. p \in Seq(Chars) /\ Len(p) \in {11, 15}
  BY PrefixAssumption DEF PartitionedTables
<1>2. s \in Seq(Chars) /\ n \in Nat /\ Len(s) = n + 8
  BY SuffixShape, Zenon
<1> HIDE DEF p, s, n
<1>3. p \o s \in Seq(Chars) /\ Len(p \o s) = Len(p) + Len(s) /\ (p \o s)[1] = p[1]
  BY <1>1, <1>2
<1>4. Len(p \o s) = Len(p) + n + 8
  BY <1>1, <1>2, <1>3
<1> QED
  BY <1>1, <1>3, <1>4, Zenon DEF p, s, n

(* partitioning.py, suffix and child_table_name: while no name is cut,     *)
(* children of different months or tables have different names, and so     *)
(* have two tenants' unless replace("-", "_") and the folding of case make *)
(* one name of theirs.  The longest tenant's part that is safe has 40      *)
(* characters.                                                             *)
THEOREM NamesAreTheKeys ==
  ASSUME NEW t \in PartitionedTables, NEW v \in PartitionedTables,
         NEW key \in PartitionKeys, NEW other \in PartitionKeys,
         Len(Safe(key.tenant)) <= 40, Len(Safe(other.tenant)) <= 40
  PROVE  ChildTable(t, key) = ChildTable(v, other) <=>
           /\ t = v /\ key.year = other.year /\ key.month = other.month
           /\ Safe(key.tenant) = Safe(other.tenant)
<1>1. /\ ChildTable(t, key) = Prefix[t] \o Suffix(key)
      /\ ChildTable(v, other) = Prefix[v] \o Suffix(other)
  <2>1. ASSUME NEW r \in PartitionedTables, NEW k \in PartitionKeys, Len(Safe(k.tenant)) <= 40
        PROVE  ChildTable(r, k) = Prefix[r] \o Suffix(k)
    <3>1. Len(Safe(k.tenant)) \in Nat
      BY SuffixShape
    <3>2. /\ Len(Prefix[r] \o Suffix(k)) = Len(Prefix[r]) + Len(Safe(k.tenant)) + 8
          /\ Len(Prefix[r]) \in {11, 15}
      BY NameShape, Zenon
    <3>3. ~(Len(Prefix[r] \o Suffix(k)) > 63)
      <4> DEFINE l == Len(Prefix[r] \o Suffix(k))
                 p == Len(Prefix[r])
                 n == Len(Safe(k.tenant))
      <4>1. l = p + n + 8 /\ p \in {11, 15} /\ n \in Nat /\ n <= 40
        BY <2>1, <3>1, <3>2
      <4> HIDE DEF l, p, n
      <4>2. ~(l > 63)
        BY <4>1
      <4> QED
        BY <4>2 DEF l
    <3> QED
      BY <3>3 DEF ChildTable, Identifier, MaxName
  <2> QED
    BY <2>1
<1>2. ASSUME Prefix[t] \o Suffix(key) = Prefix[v] \o Suffix(other) PROVE t = v
  <2>1. Prefix[t][1] = Prefix[v][1]
    <3>1. /\ (Prefix[t] \o Suffix(key))[1] = Prefix[t][1]
          /\ (Prefix[v] \o Suffix(other))[1] = Prefix[v][1]
      BY NameShape, Zenon
    <3> QED
      BY <1>2, <3>1, Zenon
  <2> QED
    BY <2>1, PrefixAssumption DEF PartitionedTables
<1>3. ASSUME t = v, Prefix[t] \o Suffix(key) = Prefix[v] \o Suffix(other)
      PROVE  Suffix(key) = Suffix(other)
  <2>1. /\ Len(Prefix[t] \o Suffix(key)) = Len(Prefix[t]) + Len(Safe(key.tenant)) + 8
        /\ Len(Prefix[t] \o Suffix(other)) = Len(Prefix[t]) + Len(Safe(other.tenant)) + 8
        /\ Len(Prefix[t]) \in {11, 15}
    BY NameShape
  <2>2. /\ Len(Suffix(key)) = Len(Safe(key.tenant)) + 8 /\ Len(Safe(key.tenant)) \in Nat
        /\ Len(Suffix(other)) = Len(Safe(other.tenant)) + 8 /\ Len(Safe(other.tenant)) \in Nat
    BY SuffixShape
  <2>3. Len(Suffix(key)) = Len(Suffix(other))
    BY <1>3, <2>1, <2>2
  <2>4. Prefix[t] \in Seq(Chars) /\ Suffix(key) \in Seq(Chars) /\ Suffix(other) \in Seq(Chars)
    BY NameShape, SuffixShape
  <2> QED
    BY <1>3, <2>3, <2>4, PartsAreEqual, Zenon
<1> QED
  BY <1>1, <1>2, <1>3, SuffixesDiffer

(* partitioning.py, partition_ddl: the children of two keys share a row    *)
(* exactly when the keys have one month.  Two months never collide; two    *)
(* tenants always do, for the bounds do not name the tenant.               *)
THEOREM OnlyMonthsAreApart ==
  ASSUME NEW key \in PartitionKeys, NEW other \in PartitionKeys,
         NEW c \in Children(key), NEW d \in Children(other), c.table = d.table
  PROVE  Overlap(c, d) <=> key.year = other.year /\ key.month = other.month
<1>1. /\ c.from = Start(key) /\ c.to = End(key)
      /\ d.from = Start(other) /\ d.to = End(other)
  BY DEF Children
<1>2. Overlap(c, d) <=> \E x \in Instants : InPartition(x, key) /\ InPartition(x, other)
  BY <1>1 DEF Overlap, InPartition
<1>3. Start(key) \in Instants /\ Start(key).year = key.year /\ Start(key).month = key.month
  BY BoundsAreInstants DEF Start, MonthBegin
<1> QED
  BY <1>2, <1>3, BoundsAreTheMonth

(* A name that is cut keeps its beginning, so a child of postings never    *)
(* has the name of a child of transactions.                                *)
LEMMA TablesAreApart ==
  ASSUME NEW t \in PartitionedTables, NEW v \in PartitionedTables,
         NEW key \in PartitionKeys, NEW other \in PartitionKeys,
         ChildTable(t, key) = ChildTable(v, other)
  PROVE  t = v
<1>1. ASSUME NEW r \in PartitionedTables, NEW k \in PartitionKeys
      PROVE  ChildTable(r, k)[1] = Prefix[r][1]
  <2> DEFINE n == Prefix[r] \o Suffix(k)
  <2>1. n \in Seq(Chars) /\ n[1] = Prefix[r][1]
    BY NameShape, Zenon
  <2>2. ChildTable(r, k) = IF Len(n) > 63 THEN SubSeq(n, 1, 63) ELSE n
    BY DEF ChildTable, Identifier, MaxName
  <2> HIDE DEF n
  <2>3. Len(n) > 63 => SubSeq(n, 1, 63)[1] = n[1]
    BY <2>1
  <2> QED
    BY <2>1, <2>2, <2>3
<1> QED
  BY <1>1, PrefixAssumption DEF PartitionedTables

(* partitioning.py, partition_ddl: of all keys of one calendar month, of   *)
(* whatever tenants, one gets its children.  For any other that comes      *)
(* later the DDL fails: its names are taken, and with them the trigger's,  *)
(* or its bounds are.                                                      *)
THEOREM OneChildPerMonth ==
  ASSUME NEW key \in PartitionKeys, NEW other \in PartitionKeys,
         key.year = other.year, key.month = other.month,
         NEW existing, existing \subseteq UNION {Children(k) : k \in PartitionKeys},
         ~DdlFails(existing, key)
  PROVE  DdlFails(Created(existing, key), other)
<1> DEFINE c == [table |-> "postings", name |-> ChildTable("postings", key),
                 from |-> Start(key), to |-> End(key)]
           d == [table |-> "postings", name |-> ChildTable("postings", other),
                 from |-> Start(other), to |-> End(other)]
           made == Created(existing, key)
<1>1. "postings" \in PartitionedTables
  BY DEF PartitionedTables
<1>2. c \in Children(key) /\ d \in Children(other)
  BY <1>1 DEF Children
<1>3. made = existing \cup Missing(existing, key)
  BY DEF Created
<1>4. ASSUME NEW e \in UNION {Children(k) : k \in PartitionKeys},
             NEW k \in PartitionKeys, e.name = ChildTable("postings", k)
      PROVE  e.table = "postings"
  <2>1. PICK k1 \in PartitionKeys, t \in PartitionedTables :
          e.table = t /\ e.name = ChildTable(t, k1)
    BY DEF Children
  <2> QED
    BY <1>1, <1>4, <2>1, TablesAreApart
<1>5. c \in made
  <2>1. \A e \in existing : e.name # c.name
    BY <1>4 DEF DdlFails, TriggerTaken
  <2> QED
    BY <1>2, <1>3, <2>1 DEF Missing
<1>6. made \subseteq UNION {Children(k) : k \in PartitionKeys}
  BY <1>3 DEF Missing
<1>7. CASE \E e \in made : e.name = d.name
  <2>1. TriggerTaken(made, other)
    BY <1>4, <1>6, <1>7 DEF TriggerTaken
  <2> QED
    BY <2>1 DEF DdlFails
<1>8. CASE \A e \in made : e.name # d.name
  <2>1. d \in Missing(made, other)
    BY <1>2, <1>8 DEF Missing
  <2>2. Overlap(d, c)
    BY <1>2, OnlyMonthsAreApart
  <2> QED
    BY <1>5, <2>1, <2>2 DEF DdlFails
<1> QED
  BY <1>7, <1>8

(* A name keeps the beginning of what comes before its last part.          *)
LEMMA Beginning ==
  ASSUME NEW S, NEW p \in Seq(S), NEW x \in Seq(S), NEW k \in Seq(S),
         NEW tail, tail = x \o k
  PROVE  /\ p \o x \in Seq(S) /\ Len(p \o x) = Len(p) + Len(x)
         /\ p \o tail \in Seq(S) /\ Len(p \o tail) = Len(p \o x) + Len(k)
         /\ \A i \in 1..Len(p \o x) : (p \o tail)[i] = (p \o x)[i]
<1>1. p \o (x \o k) = (p \o x) \o k
  BY ConcatAssociative
<1> DEFINE q == p \o x
<1>2. q \in Seq(S) /\ Len(q) = Len(p) + Len(x)
  BY ConcatType, Zenon
<1> HIDE DEF q
<1>3. q \o k \in Seq(S) /\ Len(q \o k) = Len(q) + Len(k)
  BY <1>2, ConcatType, Zenon
<1>4. \A i \in 1..Len(q) : (q \o k)[i] = q[i]
  BY <1>2
<1> QED
  BY <1>1, <1>2, <1>3, <1>4, Zenon DEF q

(* What begins alike is cut to the same.                                   *)
LEMMA CutIsTheSame ==
  ASSUME NEW S, NEW c \in Nat, NEW p \in Seq(S), NEW x \in Seq(S), NEW m \in Seq(S), NEW n \in Seq(S),
         Len(p) + Len(x) >= c, Len(m) > 0, Len(n) > 0
  PROVE  /\ Len(p \o (x \o m)) > c /\ Len(p \o (x \o n)) > c
         /\ SubSeq(p \o (x \o m), 1, c) = SubSeq(p \o (x \o n), 1, c)
<1> DEFINE q == p \o x
           y == x \o m
           z == x \o n
           a == p \o y
           b == p \o z
<1>0. y = x \o m /\ z = x \o n
  OBVIOUS
<1> HIDE DEF y, z
<1>1. Len(q) = Len(p) + Len(x)
  BY ConcatType, Zenon
<1>2. /\ a \in Seq(S) /\ b \in Seq(S) /\ q \in Seq(S)
      /\ Len(a) = Len(q) + Len(m) /\ Len(b) = Len(q) + Len(n)
      /\ \A i \in 1..Len(q) : a[i] = q[i]
      /\ \A i \in 1..Len(q) : b[i] = q[i]
  <2>1. /\ a \in Seq(S) /\ q \in Seq(S) /\ Len(a) = Len(q) + Len(m)
        /\ \A i \in 1..Len(q) : a[i] = q[i]
    BY <1>0, Beginning
  <2>2. /\ b \in Seq(S) /\ Len(b) = Len(q) + Len(n)
        /\ \A i \in 1..Len(q) : b[i] = q[i]
    BY <1>0, Beginning
  <2> QED
    BY <2>1, <2>2
<1> HIDE DEF q, a, b
<1>3. Len(q) \in Nat /\ Len(m) \in Nat /\ Len(n) \in Nat /\ Len(q) >= c
  BY <1>1, <1>2
<1>4. Len(a) > c /\ Len(b) > c
  BY <1>2, <1>3
<1>5. ASSUME NEW i \in 1..c PROVE a[i] = b[i]
  <2>1. i \in 1..Len(q)
    BY <1>2, <1>3
  <2> QED
    BY <1>2, <2>1, Zenon
<1>6. SubSeq(a, 1, c) = SubSeq(b, 1, c)
  BY <1>2, <1>4, <1>5
<1> QED
  BY <1>4, <1>6 DEF a, b, y, z

(* partitioning.py, partition_ddl: a tenant's part of 42 to 44 characters  *)
(* has the month cut off the name of its child of transactions and not off *)
(* that of postings.  The DDL of a second month of the year then passes,   *)
(* and leaves the month without a child of transactions.                   *)
THEOREM LongNamesLoseMonths ==
  ASSUME NEW key \in PartitionKeys, NEW other \in PartitionKeys,
         key.tenant = other.tenant, key.year = other.year, key.month # other.month,
         Len(Safe(key.tenant)) \in 42..44
  PROVE  LET made == Created(Children(key), other) IN
         /\ ~DdlFails(Children(key), other)
         /\ \E c \in made : c.table = "postings" /\ c.from = Start(other)
         /\ \A c \in made : c.table = "transactions" => c.from # Start(other)
<1>1. "postings" \in PartitionedTables /\ "transactions" \in PartitionedTables
  BY DEF PartitionedTables
<1>2. ChildTable("transactions", key) = ChildTable("transactions", other)
  <2> DEFINE u == <<Underscore>>
             s == Safe(key.tenant)
             y == Year(key.year)
             m == Month(key.month)
             n == Month(other.month)
             v == s \o u
             w == v \o y
             x == w \o u
             p == Prefix["transactions"]
  <2>1. Suffix(key) = x \o m /\ Suffix(other) = x \o n
    BY DEF Suffix
  <2>2. /\ key.tenant \in Seq(Chars) /\ key.year \in 1..MaxYear /\ key.month \in 1..12
        /\ other.month \in 1..12
    BY DEF PartitionKeys
  <2>3. s \in Seq(Chars) /\ Len(s) \in 42..44
    BY <2>2, SafeType, Zenon
  <2>4. u \in Seq(Chars) /\ Len(u) = 1
    BY CharAssumption, OneTuple
  <2>5. /\ y \in Seq(Chars) /\ Len(y) = 4
        /\ m \in Seq(Chars) /\ n \in Seq(Chars) /\ Len(m) = 2 /\ Len(n) = 2
    BY <2>2, YearType, MonthType, Zenon
  <2>6. p \in Seq(Chars) /\ Len(p) = 15
    BY <1>1, PrefixAssumption
  <2> HIDE DEF u, s, y, m, n, p
  <2>7. v \in Seq(Chars) /\ Len(v) = Len(s) + 1
    BY <2>3, <2>4, ConcatType
  <2> HIDE DEF v
  <2>8. w \in Seq(Chars) /\ Len(w) = Len(s) + 5
    <3>1. w \in Seq(Chars) /\ Len(w) = Len(v) + Len(y)
      BY <2>5, <2>7, ConcatType, Zenon DEF w
    <3> QED
      BY <2>3, <2>5, <2>7, <3>1
  <2> HIDE DEF w
  <2>9. x \in Seq(Chars) /\ Len(x) = Len(s) + 6
    <3>1. x \in Seq(Chars) /\ Len(x) = Len(w) + Len(u)
      BY <2>4, <2>8, ConcatType, Zenon DEF x
    <3> QED
      BY <2>3, <2>4, <2>8, <3>1
  <2> HIDE DEF x
  <2>10. Len(p) + Len(x) >= MaxName /\ Len(m) > 0 /\ Len(n) > 0
    <3> DEFINE a == Len(x)
               d == Len(s)
    <3>1. a = d + 6 /\ d \in 42..44
      BY <2>3, <2>9
    <3> HIDE DEF a, d
    <3>2. 15 + a >= MaxName
      BY <3>1 DEF MaxName
    <3> QED
      BY <2>5, <2>6, <3>2 DEF a
  <2>11. /\ Len(p \o (x \o m)) > MaxName /\ Len(p \o (x \o n)) > MaxName
         /\ SubSeq(p \o (x \o m), 1, MaxName) = SubSeq(p \o (x \o n), 1, MaxName)
    <3>1. MaxName \in Nat
      BY DEF MaxName
    <3> QED
      <4>1. /\ p \in Seq(Chars) /\ x \in Seq(Chars) /\ m \in Seq(Chars) /\ n \in Seq(Chars)
            /\ Len(p) + Len(x) >= MaxName /\ Len(m) > 0 /\ Len(n) > 0
        BY <2>5, <2>6, <2>9, <2>10
      <4> QED
        BY <3>1, <4>1, CutIsTheSame
  <2> QED
    BY <2>1, <2>11, Zenon DEF ChildTable, Identifier, p
<1> DEFINE c(t, k) == [table |-> t, name |-> ChildTable(t, k), from |-> Start(k), to |-> End(k)]
<1>3. ASSUME NEW k \in PartitionKeys
      PROVE  Children(k) = {c("transactions", k), c("postings", k)}
  BY DEF Children, PartitionedTables
<1>4. ChildTable("postings", key) # ChildTable("postings", other)
  <2>1. ASSUME NEW k \in PartitionKeys, Len(Safe(k.tenant)) \in 42..44
        PROVE  ChildTable("postings", k) = Prefix["postings"] \o Suffix(k)
    <3>1. /\ Len(Prefix["postings"] \o Suffix(k)) = Len(Prefix["postings"]) + Len(Safe(k.tenant)) + 8
          /\ Len(Prefix["postings"]) = 11
      BY <1>1, NameShape, PrefixAssumption, Zenon
    <3> DEFINE l == Len(Prefix["postings"] \o Suffix(k))
               h == Len(Safe(k.tenant))
    <3>2. l = 11 + h + 8 /\ h \in 42..44
      BY <2>1, <3>1
    <3> HIDE DEF l, h
    <3>3. ~(l > 63)
      BY <3>2
    <3> QED
      BY <3>3 DEF ChildTable, Identifier, MaxName, l
  <2>2. ASSUME Prefix["postings"] \o Suffix(key) = Prefix["postings"] \o Suffix(other)
        PROVE  FALSE
    <3>1. /\ Suffix(key) \in Seq(Chars) /\ Suffix(other) \in Seq(Chars)
          /\ Len(Suffix(key)) = Len(Suffix(other)) /\ Prefix["postings"] \in Seq(Chars)
      <4>1. Safe(key.tenant) = Safe(other.tenant)
        OBVIOUS
      <4> QED
        BY <1>1, <4>1, SuffixShape, NameShape
    <3> DEFINE a == Prefix["postings"]
               b == Suffix(key)
               d == Suffix(other)
    <3> HIDE DEF a, b, d
    <3>2. b = d
      <4>1. /\ a \o b = a \o d /\ Len(b) = Len(d)
            /\ a \in Seq(Chars) /\ b \in Seq(Chars) /\ d \in Seq(Chars)
        BY <2>2, <3>1, Zenon DEF a, b, d
      <4> QED
        BY <4>1, PartsAreEqual, Zenon
    <3> QED
      BY <3>2, SuffixesDiffer DEF b, d
  <2> QED
    BY <2>1, <2>2
<1>5. /\ ChildTable("transactions", key) # ChildTable("postings", other)
      /\ ChildTable("postings", key) # ChildTable("transactions", other)
  BY <1>1, TablesAreApart
<1>6. Missing(Children(key), other) = {c("postings", other)}
  <2> SUFFICES ASSUME NEW e
               PROVE  e \in Missing(Children(key), other) <=> e = c("postings", other)
    OBVIOUS
  <2>1. Missing(Children(key), other) =
          {f \in {c("transactions", other), c("postings", other)} :
             f.name # ChildTable("transactions", key) /\ f.name # ChildTable("postings", key)}
    <3>1. \A f : (\A g \in Children(key) : g.name # f.name) <=>
                   f.name # ChildTable("transactions", key) /\ f.name # ChildTable("postings", key)
      <4>1. /\ c("transactions", key).name = ChildTable("transactions", key)
            /\ c("postings", key).name = ChildTable("postings", key)
        OBVIOUS
      <4>2. Children(key) = {c("transactions", key), c("postings", key)}
        BY <1>3
      <4> HIDE DEF c
      <4> QED
        BY <4>1, <4>2
    <3>2. Children(other) = {c("transactions", other), c("postings", other)}
      BY <1>3
    <3> HIDE DEF c
    <3> QED
      BY <3>1, <3>2 DEF Missing
  <2>2. /\ c("transactions", other).name = ChildTable("transactions", other)
        /\ c("postings", other).name = ChildTable("postings", other)
    OBVIOUS
  <2> HIDE DEF c
  <2> QED
    BY <1>2, <1>4, <1>5, <2>1, <2>2
<1>7. ~TriggerTaken(Children(key), other)
  BY <1>3, <1>4 DEF TriggerTaken
<1>8. ~DdlFails(Children(key), other)
  <2>1. ASSUME NEW e \in Children(key) PROVE ~Overlap(c("postings", other), e)
    <3>1. CASE e.table = "postings"
      <4>1. c("postings", other) \in Children(other)
        BY <1>3
      <4> QED
        BY <3>1, <4>1, OnlyMonthsAreApart
    <3>2. CASE e.table # "postings"
      BY <3>2 DEF Overlap
    <3> QED
      BY <3>1, <3>2
  <2> QED
    BY <1>6, <1>7, <2>1 DEF DdlFails
<1>9. Created(Children(key), other) = Children(key) \cup {c("postings", other)}
  BY <1>6, <1>8 DEF Created
<1>10. Start(key) # Start(other)
  BY DEF Start, MonthBegin
<1>11. ASSUME NEW f \in Created(Children(key), other), f.table = "transactions"
       PROVE  f.from # Start(other)
  <2>1. f = c("transactions", key)
    BY <1>3, <1>9, <1>11
  <2> QED
    BY <1>10, <2>1
<1>12. c("postings", other) \in Created(Children(key), other)
  BY <1>9
<1> QED
  BY <1>8, <1>11, <1>12

-----------------------------------------------------------------------------
(* The instants of committed postings. *)

(* A posting that is not there yet has no entry.                           *)
LEMMA UnsetIsNoEntry == Unset \notin Entries
BY DEF Unset, Entries

(* A committed posting takes effect at an instant.                         *)
LEMMA RowsHaveInstants ==
  ASSUME IInv, NEW p \in rows
  PROVE  p \in Postings /\ posting[p].at \in Instants
BY TimesAssumption DEF IInv, TypeOK, RowInv, Entries

(* A cursor is an instant.                                                 *)
LEMMA CursorsAreInstants ==
  ASSUME TypeOK, NEW r \in Readers, NEW after \in cursor[r]
  PROVE  after \in Instants
BY TimesAssumption DEF TypeOK

-----------------------------------------------------------------------------
(* Sums of postings. *)

(* There are finitely many postings.                                       *)
LEMMA PostingsFinite == ASSUME NEW S \in SUBSET Postings PROVE IsFiniteSet(S)
<1>1. IsFiniteSet({1, 2})
  <2>1. IsFiniteSet({1} \cup {2})
    BY FS_Singleton, FS_AddElement
  <2>2. {1, 2} = {1} \cup {2}
    OBVIOUS
  <2> QED
    BY <2>1, <2>2
<1>2. IsFiniteSet(Postings)
  BY <1>1, TransactionsAssumption, FS_Product DEF Postings
<1> QED
  BY <1>2, FS_Subset

(* Postings have amounts, also those that are not there yet.               *)
LEMMA AmountsAreIntegers ==
  ASSUME TypeOK
  PROVE  \A p \in Postings : [q \in Postings |-> posting[q].amount][p] \in Int
BY DEF TypeOK, Entries, Unset

(* A sum of postings is an integer.                                        *)
LEMMA SumIsInteger ==
  ASSUME TypeOK, NEW S \in SUBSET Postings
  PROVE  Sum(S) \in Int
BY PostingsFinite, AmountsAreIntegers, SumType DEF Sum

(* Sums over sets with nothing in common add up. *)
LEMMA SumSplits ==
  ASSUME TypeOK, NEW S \in SUBSET Postings, NEW T \in SUBSET Postings, S \cap T = {}
  PROVE  Sum(S \cup T) = Sum(S) + Sum(T)
<1> DEFINE f == [q \in Postings |-> posting[q].amount]
<1>1. \A p \in S \cup T : f[p] \in Int
  BY AmountsAreIntegers
<1>2. IsFiniteSet(S) /\ IsFiniteSet(T)
  BY PostingsFinite
<1> HIDE DEF f
<1>3. SumFunctionOnSet(f, S \cup T) = SumFunctionOnSet(f, S) + SumFunctionOnSet(f, T)
  BY <1>1, <1>2, SumUnion
<1> QED
  BY <1>3 DEF Sum, f

(* A reader that is not at the drift check, and a table that stays, leave  *)
(* the sums alone.                                                         *)
LEMMA SumInvStays ==
  ASSUME IInv, UNCHANGED <<account, snapshot, balance, posting, rows>>,
         \A s \in Readers : pc'[s] \in {"sum", "reported"} =>
           pc'[s] = pc[s] /\ seen'[s] = seen[s] /\ from'[s] = from[s] /\ upto'[s] = upto[s]
  PROVE  SumInv'
<1>1. Sum(rows)' = Sum(rows)
  BY DEF Sum
<1>2. ASSUME NEW s \in Readers, pc'[s] \in {"sum", "reported"}
      PROVE  /\ Sum(from[s])' = Sum(from[s])
             /\ Sum(upto[s] \ from[s])' = Sum(upto[s] \ from[s])
  BY <1>2 DEF Sum
<1> QED
  BY <1>1, <1>2 DEF IInv, SumInv

(* An issued statement stays that of its rows while those do not change.   *)
LEMMA StatementInvStays ==
  ASSUME IInv, posting' = posting,
         \A s \in Readers :
           /\ issued'[s] = issued[s]
           /\ pc[s] = "issued" => pc'[s] = pc[s] /\ from'[s] = from[s]
  PROVE  StatementInv'
<1> SUFFICES ASSUME NEW s \in Readers
             PROVE  /\ pc'[s] = "issued" \/ issued'[s] = {}
                    /\ \A x \in issued'[s] : x.lines = Statement(from[s], x.start, x.end)'
  BY DEF StatementInv
<1>1. CASE pc[s] # "issued"
  <2>1. issued'[s] = {}
    BY <1>1 DEF IInv, StatementInv
  <2> QED
    BY <2>1
<1>2. CASE pc[s] = "issued"
  <2>1. pc'[s] = "issued" /\ issued'[s] = issued[s] /\ from'[s] = from[s]
    BY <1>2
  <2>2. \A x \in issued[s] : x.lines = Statement(from[s], x.start, x.end)
    BY DEF IInv, StatementInv
  <2>3. \A x : Statement(from[s], x.start, x.end)' = Statement(from[s], x.start, x.end)
    BY <2>1, ZenonT(60) DEF Statement, Window, Precedes, Sum
  <2> QED
    BY <2>1, <2>2, <2>3
<1> QED
  BY <1>1, <1>2

-----------------------------------------------------------------------------
(* The invariant. *)

(* The invariant holds before the account is opened.                       *)
LEMMA InitIInv == Init => IInv
<1> SUFFICES ASSUME Init PROVE IInv
  OBVIOUS
<1>1. TypeOK
  <2>1. posting \in [Postings -> Entries \cup {Unset}]
    BY DEF Init
  <2>2. given \in [Readers -> [Postings -> Nat]]
    BY DEF Init
  <2>3. /\ cursor \in [Readers -> SUBSET Times]
        /\ from \in [Readers -> SUBSET Postings] /\ upto \in [Readers -> SUBSET Postings]
    BY DEF Init
  <2>4. pc \in [Readers -> {"idle", "paging", "sum", "reported", "done", "issued"}]
    BY DEF Init
  <2>5. account \in BOOLEAN /\ snapshot \in BOOLEAN
    BY Zenon DEF Init
  <2>6. balance \in Int /\ rows \in SUBSET Postings /\ seen \in [Readers -> Int]
    BY DEF Init
  <2>7. issued \in [Readers -> SUBSET Statements]
    BY DEF Init
  <2> QED
    BY <2>1, <2>2, <2>3, <2>4, <2>5, <2>6, <2>7, Zenon DEF TypeOK
<1>2. RowInv
  BY UnsetIsNoEntry DEF Init, RowInv
<1>3. PageInv
  BY DEF Init, PageInv
<1>4. SumInv
  <2>1. Sum({}) = 0
    BY SumEmpty DEF Sum
  <2> QED
    BY <2>1 DEF Init, SumInv
<1>5. StatementInv
  BY DEF Init, StatementInv
<1> QED
  BY <1>1, <1>2, <1>3, <1>4, <1>5 DEF IInv

(* An account opens with its snapshot and without postings.                *)
LEMMA OpenKeepsIInv ==
  ASSUME IInv, OpenAccount
  PROVE  IInv'
<1>1. /\ account' = TRUE /\ snapshot' = TRUE /\ balance' = 0
      /\ UNCHANGED <<posting, rows, pc, cursor, given, seen, issued, from, upto>>
  BY DEF OpenAccount, reader
<1>2. TypeOK' /\ RowInv'
  BY <1>1 DEF IInv, TypeOK, RowInv
<1>3. PageInv'
  BY <1>1 DEF IInv, PageInv, Covered, Behind, SameInstant
<1>4. SumInv'
  <2>1. rows = {} /\ Sum({}) = 0 /\ ~account
    BY SumEmpty DEF IInv, SumInv, OpenAccount, Sum
  <2>2. Sum(rows)' = 0
    BY <1>1, <2>1, SumEmpty DEF Sum
  <2>3. ASSUME NEW s \in Readers, pc'[s] \in {"sum", "reported"}
        PROVE  /\ Sum(from[s])' = Sum(from[s])
               /\ Sum(upto[s] \ from[s])' = Sum(upto[s] \ from[s])
    BY <1>1, <2>3 DEF Sum
  <2> QED
    BY <1>1, <2>2, <2>3 DEF IInv, SumInv
<1>5. StatementInv'
  BY <1>1, StatementInvStays
<1> QED
  BY <1>2, <1>3, <1>4, <1>5 DEF IInv

(* A commit adds rows and changes none, so what was on a page and what was *)
(* skipped are as they were, wherever the new postings take effect.        *)
LEMMA PostKeepsIInv ==
  ASSUME IInv, NEW t \in Transactions, PostTransaction(t)
  PROVE  IInv'
<1>1. PICK L \in {{1}, {1, 2}}, e \in Entries :
        /\ posting' = [p \in Postings |->
             IF p[1] = t /\ p[2] \in L
               THEN [e EXCEPT !.amount = IF p[2] = 1 THEN @ ELSE 0 - @] ELSE posting[p]]
        /\ rows' = rows \cup {<<t, i>> : i \in L}
        /\ balance' = IF snapshot THEN balance + Folded(L, e.amount) ELSE balance
  BY DEF PostTransaction
<1>2. /\ \A i \in {1, 2} : posting[<<t, i>>] = Unset
      /\ UNCHANGED <<account, snapshot, pc, cursor, given, seen, issued, from, upto>>
  BY DEF PostTransaction, reader
<1>3. \A i \in {1, 2} : <<t, i>> \notin rows
  BY <1>2, UnsetIsNoEntry DEF IInv, RowInv, Postings
<1>4. ASSUME NEW i \in {1, 2}
      PROVE  [e EXCEPT !.amount = IF i = 1 THEN @ ELSE 0 - @] \in Entries
  BY DEF Entries
<1>5. \A p \in Postings : p[1] \in Transactions /\ p[2] \in {1, 2} /\ p = <<p[1], p[2]>>
  BY DEF Postings
<1>6. TypeOK'
  <2>1. posting' \in [Postings -> Entries \cup {Unset}]
    BY <1>1, <1>4, <1>5 DEF IInv, TypeOK
  <2>2. rows' \in SUBSET Postings
    BY <1>1 DEF IInv, TypeOK, Postings
  <2>3. balance' \in Int
    BY <1>1 DEF IInv, TypeOK, Folded, Entries
  <2> QED
    BY <1>2, <2>1, <2>2, <2>3 DEF IInv, TypeOK
<1>7. RowInv'
  <2> SUFFICES ASSUME NEW p \in Postings PROVE p \in rows' <=> posting'[p] \in Entries
    BY DEF RowInv
  <2>1. CASE p[1] = t /\ p[2] \in L
    <3>1. p \in rows'
      BY <1>1, <1>5, <2>1
    <3>2. posting'[p] \in Entries
      BY <1>1, <1>4, <1>5, <2>1
    <3> QED
      BY <3>1, <3>2
  <2>2. CASE ~(p[1] = t /\ p[2] \in L)
    <3>1. p \in rows' <=> p \in rows
      BY <1>1, <2>2
    <3>2. posting'[p] = posting[p]
      BY <1>1, <2>2
    <3> QED
      BY <3>1, <3>2 DEF IInv, RowInv
  <2> QED
    BY <2>1, <2>2
<1>8. rows \subseteq rows' /\ \A p \in rows : posting'[p] = posting[p]
  <2> SUFFICES ASSUME NEW p \in rows PROVE posting'[p] = posting[p]
    BY <1>1
  <2>1. p \in Postings /\ ~(p[1] = t /\ p[2] \in L)
    BY <1>3, <1>5 DEF IInv, TypeOK
  <2> QED
    BY <1>1, <2>1
<1>9. PageInv'
  <2>1. \A r \in Readers, q \in Postings : given[r][q] > 0 => q \in rows
    BY DEF IInv, PageInv
  <2>2. \A r \in Readers : from[r] \subseteq rows
    BY DEF IInv, PageInv
  <2>3. ASSUME NEW r \in Readers, NEW p \in rows
        PROVE  (Covered(r, p) => Covered(r, p)') /\ (Behind(r, p)' <=> Behind(r, p))
    BY <1>2, <1>8, <2>1 DEF Covered, Behind, SameInstant
  <2> QED
    BY <1>2, <1>8, <2>1, <2>2, <2>3 DEF IInv, PageInv
<1> DEFINE f == [p \in Postings |-> posting[p].amount]
           g == [p \in Postings |-> posting'[p].amount]
           legs == {<<t, i>> : i \in L}
<1>10. /\ \A p \in Postings : f[p] \in Int /\ g[p] \in Int
       /\ \A p \in rows : g[p] = f[p]
       /\ <<t, 1>> \in Postings /\ <<t, 2>> \in Postings /\ e.amount \in Int
  <2>1. \A p \in Postings : posting[p].amount \in Int /\ posting'[p].amount \in Int
    <3>1. \A x \in Entries \cup {Unset} : x.amount \in Int
      BY DEF Entries, Unset
    <3> QED
      BY <1>6, <3>1 DEF IInv, TypeOK
  <2>2. rows \subseteq Postings
    BY DEF IInv, TypeOK
  <2> QED
    BY <1>8, <2>1, <2>2 DEF Postings, Entries
<1>11. g[<<t, 1>>] = e.amount /\ (2 \in L => g[<<t, 2>>] = 0 - e.amount)
  <2>1. posting'[<<t, 1>>] = [e EXCEPT !.amount = e.amount]
    BY <1>1, <1>10
  <2>2. 2 \in L => posting'[<<t, 2>>] = [e EXCEPT !.amount = 0 - e.amount]
    BY <1>1, <1>10
  <2> QED
    BY <1>10, <2>1, <2>2 DEF Entries
<1>12. /\ rows \in SUBSET Postings /\ legs \in SUBSET Postings
       /\ rows \cap legs = {} /\ rows' = rows \cup legs
  <2>1. legs \in SUBSET Postings /\ rows \cap legs = {}
    BY <1>3 DEF Postings
  <2> QED
    BY <1>1, <2>1 DEF IInv, TypeOK
<1>13. SumFunctionOnSet(g, legs) = Folded(L, e.amount)
  <2> HIDE DEF g
  <2>1. SumFunctionOnSet(g, {<<t, 1>>}) = e.amount
    <3>1. SumFunctionOnSet(g, {} \cup {<<t, 1>>}) = g[<<t, 1>>] + SumFunctionOnSet(g, {})
      BY <1>10, FS_EmptySet, SumAdd
    <3>2. {} \cup {<<t, 1>>} = {<<t, 1>>}
      OBVIOUS
    <3> QED
      BY <1>10, <1>11, <3>1, <3>2, SumEmpty
  <2>2. CASE L = {1}
    <3>1. legs = {<<t, 1>>}
      BY <2>2
    <3> QED
      BY <2>1, <2>2, <3>1 DEF Folded
  <2>3. CASE L = {1, 2}
    <3>1. legs = {<<t, 1>>} \cup {<<t, 2>>} /\ <<t, 2>> \notin {<<t, 1>>}
      BY <2>3
    <3>2. \A x \in {<<t, 1>>} \cup {<<t, 2>>} : g[x] \in Int
      BY <1>10
    <3>3. IsFiniteSet({<<t, 1>>})
      BY FS_Singleton
    <3>4. SumFunctionOnSet(g, {<<t, 1>>} \cup {<<t, 2>>}) =
            g[<<t, 2>>] + SumFunctionOnSet(g, {<<t, 1>>})
      BY <3>1, <3>2, <3>3, SumAdd
    <3>5. L # {1} /\ 2 \in L
      BY <2>3
    <3> HIDE DEF legs
    <3>6. SumFunctionOnSet(g, legs) = (0 - e.amount) + e.amount
      BY <1>11, <2>1, <3>1, <3>4, <3>5
    <3> QED
      BY <1>10, <3>5, <3>6 DEF Folded
  <2> QED
    BY <2>2, <2>3
<1>14. ASSUME NEW S \in SUBSET rows
       PROVE  SumFunctionOnSet(g, S) = SumFunctionOnSet(f, S)
  <2>1. IsFiniteSet(S)
    BY <1>12, PostingsFinite
  <2>2. \A p \in S : f[p] \in Int /\ f[p] = g[p]
    BY <1>10, <1>12
  <2> HIDE DEF f, g
  <2> QED
    BY <2>1, <2>2, SumAgree
<1>15. SumFunctionOnSet(g, rows') = SumFunctionOnSet(f, rows) + Folded(L, e.amount)
  <2>1. IsFiniteSet(rows) /\ IsFiniteSet(legs)
    BY <1>12, PostingsFinite
  <2>2. \A p \in rows \cup legs : g[p] \in Int
    BY <1>10, <1>12
  <2> HIDE DEF f, g, legs
  <2>3. SumFunctionOnSet(g, rows \cup legs) =
          SumFunctionOnSet(g, rows) + SumFunctionOnSet(g, legs)
    BY <1>12, <2>1, <2>2, SumUnion
  <2> QED
    BY <1>12, <1>13, <1>14, <2>3
<1>16. SumInv'
  <2>1. /\ Sum(rows)' = SumFunctionOnSet(g, rows') /\ Sum(rows) = SumFunctionOnSet(f, rows)
        /\ \A s \in Readers :
             /\ Sum(from[s])' = SumFunctionOnSet(g, from'[s])
             /\ Sum(upto[s] \ from[s])' = SumFunctionOnSet(g, upto'[s] \ from'[s])
             /\ Sum(from[s]) = SumFunctionOnSet(f, from[s])
             /\ Sum(upto[s] \ from[s]) = SumFunctionOnSet(f, upto[s] \ from[s])
    BY DEF Sum
  <2>2. account /\ snapshot /\ balance = Sum(rows)
    BY DEF PostTransaction, IInv, SumInv
  <2>3. balance' = Sum(rows)'
    <3> HIDE DEF f, g
    <3> QED
      BY <1>1, <1>15, <2>1, <2>2
  <2>4. ASSUME NEW s \in Readers
        PROVE  /\ pc'[s] = "sum" => seen'[s] = Sum(from[s])'
               /\ pc'[s] = "reported" =>
                    /\ from'[s] \subseteq upto'[s] /\ upto'[s] \subseteq rows'
                    /\ seen'[s] = 0 - Sum(upto[s] \ from[s])'
    <3> HIDE DEF f, g
    <3>1. from[s] \in SUBSET rows
      BY DEF IInv, PageInv
    <3>2. pc[s] = "reported" =>
            upto[s] \subseteq rows /\ upto[s] \ from[s] \in SUBSET rows
      BY DEF IInv, SumInv
    <3> QED
      BY <1>2, <1>8, <1>14, <2>1, <3>1, <3>2 DEF IInv, SumInv
  <2>5. account' /\ snapshot'
    BY <1>2, <2>2
  <2> QED
    BY <2>3, <2>4, <2>5 DEF SumInv
<1>17. StatementInv'
  <2> SUFFICES ASSUME NEW s \in Readers, NEW start, NEW end
               PROVE  Statement(from[s], start, end)' = Statement(from[s], start, end)
    BY <1>2 DEF IInv, StatementInv
  <2> DEFINE F == from[s]
             W == Window(F, start, end)
  <2>1. F \in SUBSET rows
    BY DEF IInv, PageInv
  <2>2. from'[s] = F /\ \A q \in F : posting'[q] = posting[q]
    BY <1>2, <1>8, <2>1
  <2>3. Window(from[s], start, end)' = W
    BY <2>2 DEF Window
  <2>4. W \in SUBSET F
    BY DEF Window
  <2>5. \A p, q \in W : Precedes(q, p)' <=> Precedes(q, p)
    BY <2>2, <2>4 DEF Precedes
  <2>6. ASSUME NEW p \in W
        PROVE  Sum({q \in W : q = p \/ Precedes(q, p)})' = Sum({q \in W : q = p \/ Precedes(q, p)})
    <3> DEFINE T == {q \in W : q = p \/ Precedes(q, p)}
    <3>1. T \in SUBSET rows
      BY <2>1, <2>4
    <3>2. SumFunctionOnSet(g, T) = SumFunctionOnSet(f, T)
      BY <1>14, <3>1
    <3>3. {q \in W : q = p \/ Precedes(q, p)}' = T
      BY <2>3, <2>5 DEF W
    <3> QED
      BY <3>2, <3>3 DEF Sum
  <2> QED
    BY <2>3, <2>5, <2>6 DEF Statement
<1> QED
  BY <1>6, <1>7, <1>9, <1>16, <1>17 DEF IInv

(* A journal begins with nothing read and nothing behind its cursor.       *)
LEMMA BeginJournalKeepsIInv ==
  ASSUME IInv, NEW r \in Readers, BeginJournal(r)
  PROVE  IInv'
<1>1. /\ pc[r] = "idle"
      /\ pc' = [pc EXCEPT ![r] = "paging"] /\ from' = [from EXCEPT ![r] = rows]
      /\ upto' = [upto EXCEPT ![r] = rows]
      /\ UNCHANGED <<account, snapshot, balance, posting, rows, cursor, given, seen, issued>>
  BY DEF BeginJournal, table
<1>2. TypeOK' /\ RowInv'
  BY <1>1 DEF IInv, TypeOK, RowInv
<1>3. PageInv'
  <2> SUFFICES ASSUME NEW s \in Readers
               PROVE  /\ from'[s] \subseteq rows
                      /\ pc'[s] = "idle" => from'[s] = {} /\ cursor[s] = {}
                      /\ pc'[s] # "paging" /\ pc'[s] # "done" =>
                           \A p \in Postings : given[s][p] = 0
                      /\ \A p \in Postings :
                           given[s][p] > 0 =>
                             /\ p \in rows /\ given[s][p] = 1
                             /\ pc'[s] = "paging" => Behind(s, p)
                      /\ pc'[s] \in {"paging", "done"} => \A p \in from'[s] :
                           pc'[s] = "done" \/ Behind(s, p) => Covered(s, p)
    BY <1>1 DEF PageInv, Covered, Behind, SameInstant
  <2>1. CASE s # r
    BY <1>1, <2>1 DEF IInv, PageInv, TypeOK
  <2>2. CASE s = r
    <3>1. cursor[s] = {} /\ \A p \in Postings : given[s][p] = 0
      BY <1>1, <2>2 DEF IInv, PageInv
    <3>2. pc'[s] = "paging" /\ from'[s] = rows
      BY <1>1, <2>2 DEF IInv, TypeOK
    <3>3. \A p : ~Behind(s, p)
      BY <3>1 DEF Behind
    <3> QED
      BY <3>1, <3>2, <3>3
  <2> QED
    BY <2>1, <2>2
<1>4. SumInv'
  <2>1. \A s \in Readers : pc'[s] \in {"sum", "reported"} =>
          s # r /\ pc'[s] = pc[s] /\ from'[s] = from[s] /\ upto'[s] = upto[s]
    BY <1>1 DEF IInv, TypeOK
  <2> QED
    BY <1>1, <2>1, SumInvStays
<1>5. StatementInv'
  <2>1. \A s \in Readers : pc[s] = "issued" => pc'[s] = pc[s] /\ from'[s] = from[s]
    BY <1>1 DEF IInv, TypeOK
  <2> QED
    BY <1>1, <2>1, StatementInvStays
<1> QED
  BY <1>2, <1>3, <1>4, <1>5 DEF IInv

(* What a page takes and leaves: it takes from beyond the cursor, and what *)
(* it leaves there comes after all of it.                                  *)
LEMMA PageSplits ==
  ASSUME NEW S, NEW n, NEW P \in Pages(S, n)
  PROVE  /\ P \subseteq S
         /\ \A p \in P, q \in S \ P : Before(p, q)
         /\ Cardinality(P) # n => P = S
BY DEF Pages

(* Rows before others take effect no later than they do.                   *)
LEMMA BeforeIsOrdered ==
  ASSUME IInv, NEW p \in rows, NEW q \in rows, Before(p, q)
  PROVE  /\ ~Earlier(posting[q].at, posting[p].at)
         /\ Earlier(posting[p].at, posting[q].at) \/ posting[p].at = posting[q].at
<1>1. posting[p].at \in Instants /\ posting[q].at \in Instants
  BY RowsHaveInstants
<1> QED
  BY <1>1, EarlierStrict DEF Before

(* A page moves the cursor past what it has, and skips only ties.          *)
LEMMA ReadPageKeepsIInv ==
  ASSUME IInv, NEW r \in Readers, ReadPage(r)
  PROVE  IInv'
<1>0. PICK n \in 1..MaxLimit : \E P \in Pages(Beyond(r), n) :
        /\ given' = [given EXCEPT ![r] =
             [p \in Postings |-> IF p \in P THEN @[p] + 1 ELSE @[p]]]
        /\ \/ /\ Cardinality(P) = n
              /\ \E last \in P :
                   /\ \A p \in P \ {last} : Before(p, last)
                   /\ cursor' = [cursor EXCEPT ![r] = {posting[last].at}]
              /\ UNCHANGED pc
           \/ /\ Cardinality(P) # n
              /\ pc' = [pc EXCEPT ![r] = "done"]
              /\ UNCHANGED cursor
  BY DEF ReadPage
<1>1. PICK P \in Pages(Beyond(r), n) :
        /\ given' = [given EXCEPT ![r] =
             [p \in Postings |-> IF p \in P THEN @[p] + 1 ELSE @[p]]]
        /\ \/ /\ Cardinality(P) = n
              /\ \E last \in P :
                   /\ \A p \in P \ {last} : Before(p, last)
                   /\ cursor' = [cursor EXCEPT ![r] = {posting[last].at}]
              /\ UNCHANGED pc
           \/ /\ Cardinality(P) # n
              /\ pc' = [pc EXCEPT ![r] = "done"]
              /\ UNCHANGED cursor
  BY <1>0
<1>2. /\ pc[r] = "paging" /\ upto' = [upto EXCEPT ![r] = rows]
      /\ UNCHANGED <<account, snapshot, balance, posting, rows, seen, issued, from>>
  BY DEF ReadPage, table
<1>3. Beyond(r) \subseteq rows /\ P \subseteq Beyond(r) /\ rows \subseteq Postings
  BY PageSplits DEF Beyond, IInv, TypeOK
<1>4. /\ \A p \in P : given[r][p] = 0
      /\ \A p \in rows : p \in Beyond(r) <=> ~Behind(r, p)
  <2>1. ASSUME NEW p \in rows PROVE p \in Beyond(r) <=> ~Behind(r, p)
    BY DEF Beyond, Behind
  <2>2. ASSUME NEW p \in P PROVE given[r][p] = 0
    <3>1. ~Behind(r, p) /\ p \in Postings
      BY <1>3, <2>1
    <3>2. ~(given[r][p] > 0) /\ given[r][p] \in Nat
      BY <1>2, <3>1 DEF IInv, PageInv, TypeOK
    <3> QED
      BY <3>2
  <2> QED
    BY <2>1, <2>2
<1>5. /\ given'[r] \in [Postings -> Nat]
      /\ \A p \in Postings : given'[r][p] = IF p \in P THEN 1 ELSE given[r][p]
      /\ \A s \in Readers : s # r => given'[s] = given[s]
  <2>1. given'[r] = [p \in Postings |-> IF p \in P THEN given[r][p] + 1 ELSE given[r][p]]
    BY <1>1 DEF IInv, TypeOK
  <2>2. given[r] \in [Postings -> Nat]
    BY DEF IInv, TypeOK
  <2>3. \A s \in Readers : s # r => given'[s] = given[s]
    BY <1>1 DEF IInv, TypeOK
  <2> QED
    BY <1>4, <2>1, <2>2, <2>3
<1>6. TypeOK'
  <2>1. given' \in [Readers -> [Postings -> Nat]]
    BY <1>1, <1>5 DEF IInv, TypeOK
  <2>2. cursor' \in [Readers -> SUBSET Times]
    <3>1. \A last \in P : {posting[last].at} \in SUBSET Times
      BY <1>3 DEF IInv, RowInv, Entries
    <3>2. cursor \in [Readers -> SUBSET Times]
      BY DEF IInv, TypeOK
    <3>3. \/ cursor' = cursor
          \/ \E last \in P : cursor' = [cursor EXCEPT ![r] = {posting[last].at}]
      BY <1>1
    <3> QED
      BY <3>1, <3>2, <3>3
  <2>3. pc' \in [Readers -> {"idle", "paging", "sum", "reported", "done", "issued"}]
    BY <1>1 DEF IInv, TypeOK
  <2> QED
    BY <1>2, <2>1, <2>2, <2>3 DEF IInv, TypeOK
<1>7. RowInv' /\ SumInv' /\ StatementInv'
  <2>1. \A s \in Readers : pc'[s] \in {"sum", "reported"} =>
          pc'[s] = pc[s] /\ upto'[s] = upto[s]
    BY <1>1, <1>2 DEF IInv, TypeOK
  <2>2. SumInv'
    BY <1>2, <2>1, SumInvStays
  <2>3. \A s \in Readers : pc[s] = "issued" => pc'[s] = pc[s]
    BY <1>1, <1>2 DEF IInv, TypeOK
  <2>4. StatementInv'
    BY <1>2, <2>3, StatementInvStays
  <2> QED
    BY <1>2, <2>2, <2>4 DEF IInv, RowInv
<1>8. ASSUME NEW s \in Readers, s # r
      PROVE  /\ from[s] \subseteq rows
             /\ pc'[s] = "idle" => from[s] = {} /\ cursor'[s] = {}
             /\ pc'[s] # "paging" /\ pc'[s] # "done" => \A p \in Postings : given'[s][p] = 0
             /\ \A p \in Postings :
                  given'[s][p] > 0 =>
                    /\ p \in rows /\ given'[s][p] = 1
                    /\ pc'[s] = "paging" => Behind(s, p)'
             /\ pc'[s] \in {"paging", "done"} => \A p \in from[s] :
                  pc'[s] = "done" \/ Behind(s, p)' => Covered(s, p)'
  <2>1. pc'[s] = pc[s] /\ cursor'[s] = cursor[s] /\ given'[s] = given[s]
    BY <1>1, <1>5, <1>8 DEF IInv, TypeOK
  <2>2. \A p : (Behind(s, p)' <=> Behind(s, p)) /\ (Covered(s, p)' <=> Covered(s, p))
    BY <1>2, <2>1 DEF Behind, Covered, SameInstant
  <2> QED
    BY <2>1, <2>2 DEF IInv, PageInv
<1>9. ASSUME NEW p \in rows, Covered(r, p) PROVE Covered(r, p)'
  <2>1. p \in Postings
    BY <1>3
  <2>2. \A q \in Postings : given[r][q] > 0 => given'[r][q] > 0
    BY <1>5
  <2> QED
    BY <1>2, <1>9, <2>1, <2>2 DEF Covered, SameInstant
<1>10. from[r] \subseteq rows /\ \A q \in P : q \in Postings /\ given'[r][q] = 1
  BY <1>3, <1>5 DEF IInv, PageInv
<1>11. CASE Cardinality(P) = n
  <2>1. PICK last \in P :
          /\ \A p \in P \ {last} : Before(p, last)
          /\ cursor' = [cursor EXCEPT ![r] = {posting[last].at}]
    BY <1>1, <1>11
  <2>2. pc' = pc /\ cursor'[r] = {posting[last].at}
    BY <1>1, <1>11, <2>1 DEF IInv, TypeOK
  <2>3. last \in Beyond(r) /\ last \in rows
    BY <1>3
  <2>4. \A p : Behind(r, p)' <=> ~Earlier(posting[last].at, posting[p].at)
    BY <1>2, <2>2 DEF Behind
  <2>5. ASSUME NEW p \in rows, Behind(r, p) PROVE Behind(r, p)'
    <3>1. PICK after \in cursor[r] : ~Earlier(after, posting[p].at)
      BY <2>5 DEF Behind
    <3>2. Earlier(after, posting[last].at)
      BY <2>3, <3>1 DEF Beyond
    <3>3. after \in Instants /\ posting[last].at \in Instants /\ posting[p].at \in Instants
      BY <2>3, <3>1, CursorsAreInstants, RowsHaveInstants DEF IInv
    <3>4. Earlier(posting[last].at, posting[p].at) => Earlier(after, posting[p].at)
      <4>1. Earlier(posting[last].at, posting[p].at) =>
              ~Earlier(posting[p].at, posting[last].at)
        BY <3>3, EarlierStrict
      <4> QED
        BY <3>2, <3>3, <4>1, EarlierTransitive
    <3> QED
      BY <2>4, <3>1, <3>4
  <2>6. ASSUME NEW p \in P PROVE Behind(r, p)'
    <3>1. p \in rows
      BY <1>3
    <3>2. CASE p = last
      BY <2>3, <2>4, <3>2, RowsHaveInstants, EarlierStrict
    <3>3. CASE p # last
      BY <2>1, <2>3, <2>4, <3>1, <3>3, BeforeIsOrdered
    <3> QED
      BY <3>2, <3>3
  <2>7. ASSUME NEW p \in from[r], Behind(r, p)' PROVE Covered(r, p)'
    <3>0. p \in rows /\ p \in Postings
      BY <1>3, <1>10
    <3>1. CASE Behind(r, p)
      BY <1>2, <1>9, <2>7, <3>0, <3>1 DEF IInv, PageInv
    <3>2. CASE p \in P
      BY <1>10, <3>2 DEF Covered
    <3>3. CASE p \in Beyond(r) \ P
      <4>1. Before(last, p)
        BY <3>3, PageSplits
      <4>2. posting[last].at = posting[p].at
        BY <2>3, <2>4, <2>7, <3>0, <4>1, BeforeIsOrdered
      <4>3. last # p /\ last \in Postings /\ given'[r][last] > 0
        BY <1>10, <3>3
      <4> QED
        BY <1>2, <4>2, <4>3 DEF Covered, SameInstant
    <3> QED
      BY <1>4, <3>0, <3>1, <3>2, <3>3
  <2>8. ASSUME NEW p \in Postings, given'[r][p] > 0
        PROVE  p \in rows /\ given'[r][p] = 1 /\ Behind(r, p)'
    <3>1. CASE p \in P
      BY <1>3, <1>10, <2>6, <3>1
    <3>2. CASE p \notin P
      <4>1. given'[r][p] = given[r][p]
        BY <1>5, <3>2
      <4> QED
        BY <1>2, <2>5, <2>8, <4>1 DEF IInv, PageInv
    <3> QED
      BY <3>1, <3>2
  <2>9. PageInv'
    BY <1>2, <1>8, <1>10, <2>2, <2>7, <2>8 DEF PageInv
  <2> QED
    BY <1>6, <1>7, <2>9 DEF IInv
<1>12. CASE Cardinality(P) # n
  <2>1. pc'[r] = "done" /\ cursor' = cursor /\ P = Beyond(r)
    BY <1>1, <1>12, PageSplits DEF IInv, TypeOK
  <2>2. ASSUME NEW p \in from[r] PROVE Covered(r, p)'
    <3>1. p \in rows /\ p \in Postings
      BY <1>3, <1>10
    <3>2. CASE Behind(r, p)
      BY <1>2, <1>9, <2>2, <3>1, <3>2 DEF IInv, PageInv
    <3>3. CASE ~Behind(r, p)
      BY <1>4, <1>10, <2>1, <3>1, <3>3 DEF Covered
    <3> QED
      BY <3>2, <3>3
  <2>3. ASSUME NEW p \in Postings, given'[r][p] > 0
        PROVE  p \in rows /\ given'[r][p] = 1
    BY <1>3, <1>5, <1>10, <2>3 DEF IInv, PageInv
  <2>4. PageInv'
    BY <1>2, <1>8, <1>10, <2>1, <2>2, <2>3 DEF PageInv
  <2> QED
    BY <1>6, <1>7, <2>4 DEF IInv
<1> QED
  BY <1>11, <1>12

(* The drift check moves a reader that pages nothing; what it subtracts is *)
(* the sum of the rows it has seen, and of those committed since.          *)
LEMMA DriftKeepsIInv ==
  ASSUME IInv, NEW r \in Readers, ReadSnapshot(r) \/ Recompute(r)
  PROVE  IInv'
<1>1. PICK next \in {"sum", "reported"}, R \in {from[r], rows} :
        /\ pc' = [pc EXCEPT ![r] = next] /\ from' = [from EXCEPT ![r] = R]
        /\ upto' = [upto EXCEPT ![r] = rows]
  BY DEF ReadSnapshot, Recompute, IInv, TypeOK
<1>2. /\ pc[r] # "paging" /\ pc[r] # "done"
      /\ UNCHANGED <<account, snapshot, balance, posting, rows, cursor, given, issued>>
  BY DEF ReadSnapshot, Recompute, table
<1>0. rows \in SUBSET Postings /\ Sum(rows) \in Int
  BY SumIsInteger DEF IInv, TypeOK
<1>3. TypeOK' /\ RowInv'
  <2>1. seen' \in [Readers -> Int]
    BY <1>0 DEF ReadSnapshot, Recompute, IInv, TypeOK
  <2> QED
    BY <1>1, <1>2, <2>1 DEF IInv, TypeOK, RowInv
<1>4. PageInv'
  <2>1. \A s, p : (Behind(s, p)' <=> Behind(s, p)) /\ (Covered(s, p)' <=> Covered(s, p))
    BY <1>2 DEF Behind, Covered, SameInstant
  <2>2. \A s \in Readers : s # r => pc'[s] = pc[s] /\ from'[s] = from[s]
    BY <1>1 DEF IInv, TypeOK
  <2>3. pc'[r] \in {"sum", "reported"} /\ from'[r] \subseteq rows
    BY <1>1 DEF IInv, TypeOK, PageInv
  <2> QED
    BY <1>2, <2>1, <2>2, <2>3 DEF IInv, PageInv
<1>5. \A S : Sum(S)' = Sum(S)
  BY <1>2 DEF Sum
<1>6. \A s \in Readers : s # r =>
        pc'[s] = pc[s] /\ seen'[s] = seen[s] /\ from'[s] = from[s] /\ upto'[s] = upto[s]
  BY DEF ReadSnapshot, Recompute, IInv, TypeOK
<1>9. StatementInv'
  <2>1. pc[r] # "issued"
    BY DEF ReadSnapshot, Recompute
  <2>2. \A s \in Readers : pc[s] = "issued" => pc'[s] = pc[s] /\ from'[s] = from[s]
    BY <1>1, <2>1 DEF IInv, TypeOK
  <2> QED
    BY <1>2, <2>2, StatementInvStays
<1>7. CASE ReadSnapshot(r)
  <2>1. pc'[r] = "sum" /\ seen'[r] = balance /\ from'[r] = rows
    BY <1>7 DEF ReadSnapshot, IInv, TypeOK
  <2>2. SumInv'
    BY <1>2, <1>5, <1>6, <2>1 DEF IInv, SumInv
  <2> QED
    BY <1>3, <1>4, <1>9, <2>2 DEF IInv
<1>8. CASE Recompute(r)
  <2>1. /\ pc[r] = "sum" /\ pc'[r] = "reported" /\ seen'[r] = seen[r] - Sum(rows)
        /\ from'[r] = from[r] /\ upto'[r] = rows
    BY <1>8 DEF Recompute, IInv, TypeOK
  <2>2. from[r] \subseteq rows /\ seen[r] = Sum(from[r])
    BY <2>1 DEF IInv, PageInv, SumInv
  <2>3. Sum(rows) = Sum(from[r]) + Sum(rows \ from[r])
    <3>1. from[r] \cup (rows \ from[r]) = rows
      BY <2>2
    <3>2. TypeOK /\ from[r] \in SUBSET Postings /\ rows \ from[r] \in SUBSET Postings
      BY <1>0, <2>2 DEF IInv
    <3>3. Sum(from[r] \cup (rows \ from[r])) = Sum(from[r]) + Sum(rows \ from[r])
      BY <3>2, SumSplits
    <3> QED
      BY <3>1, <3>3
  <2>4. Sum(from[r]) \in Int /\ Sum(rows \ from[r]) \in Int
    BY <1>0, <2>2, SumIsInteger DEF IInv
  <2>5. seen'[r] = 0 - Sum(rows \ from[r])
    BY <2>1, <2>2, <2>3, <2>4
  <2>6. SumInv'
    BY <1>2, <1>5, <1>6, <2>1, <2>2, <2>5 DEF IInv, SumInv
  <2> QED
    BY <1>3, <1>4, <1>9, <2>6 DEF IInv
<1> QED
  BY <1>7, <1>8

(* The lines of a statement are postings with whole balances.              *)
LEMMA StatementType ==
  ASSUME TypeOK, NEW S \in SUBSET Postings, NEW start \in Times, NEW end \in Times
  PROVE  [start |-> start, end |-> end, lines |-> Statement(S, start, end)] \in Statements
<1> DEFINE W == Window(S, start, end)
<1>1. W \in SUBSET Postings
  BY DEF Window
<1>2. ASSUME NEW p \in W PROVE Sum({q \in W : q = p \/ Precedes(q, p)}) \in Int
  <2>1. {q \in W : q = p \/ Precedes(q, p)} \in SUBSET Postings
    BY <1>1
  <2> QED
    BY <2>1, SumIsInteger
<1>3. Statement(S, start, end) \in SUBSET [posting : Postings, balance : Int]
  <2> SUFFICES ASSUME NEW l \in Statement(S, start, end)
               PROVE  l \in [posting : Postings, balance : Int]
    OBVIOUS
  <2>1. PICK p \in W : l = [posting |-> p, balance |-> Sum({q \in W : q = p \/ Precedes(q, p)})]
    BY DEF Statement
  <2>2. p \in Postings
    BY <1>1
  <2> HIDE DEF W
  <2> QED
    BY <1>2, <2>1, <2>2
<1> QED
  BY <1>3 DEF Statements

(* A statement is issued of the rows there are.                            *)
LEMMA IssueKeepsIInv ==
  ASSUME IInv, NEW r \in Readers, IssueStatement(r)
  PROVE  IInv'
<1>1. PICK start \in Times, end \in Times :
        issued' = [issued EXCEPT ![r] =
          {[start |-> start, end |-> end, lines |-> Statement(rows, start, end)]}]
  BY DEF IssueStatement
<1>2. /\ pc[r] = "idle"
      /\ pc' = [pc EXCEPT ![r] = "issued"] /\ from' = [from EXCEPT ![r] = rows]
      /\ upto' = [upto EXCEPT ![r] = rows]
      /\ UNCHANGED <<account, snapshot, balance, posting, rows, cursor, given, seen>>
  BY DEF IssueStatement, table
<1> DEFINE x == [start |-> start, end |-> end, lines |-> Statement(rows, start, end)]
<1>3. TypeOK'
  <2>1. x \in Statements
    BY StatementType DEF IInv, TypeOK
  <2> HIDE DEF x
  <2>2. issued' = [issued EXCEPT ![r] = {x}]
    BY <1>1 DEF x
  <2>3. issued' \in [Readers -> SUBSET Statements]
    BY <2>1, <2>2 DEF IInv, TypeOK
  <2>4. /\ pc' \in [Readers -> {"idle", "paging", "sum", "reported", "done", "issued"}]
        /\ from' \in [Readers -> SUBSET Postings] /\ upto' \in [Readers -> SUBSET Postings]
    BY <1>2 DEF IInv, TypeOK
  <2> QED
    BY <1>2, <2>3, <2>4 DEF IInv, TypeOK
<1>4. RowInv'
  BY <1>2 DEF IInv, RowInv
<1>5. PageInv'
  <2>1. \A s, p : (Behind(s, p)' <=> Behind(s, p)) /\ (Covered(s, p)' <=> Covered(s, p))
    BY <1>2 DEF Behind, Covered, SameInstant
  <2>2. \A s \in Readers : s # r => pc'[s] = pc[s] /\ from'[s] = from[s]
    BY <1>2 DEF IInv, TypeOK
  <2>3. pc'[r] = "issued" /\ from'[r] \subseteq rows
    BY <1>2 DEF IInv, TypeOK
  <2> QED
    BY <1>2, <2>1, <2>2, <2>3 DEF IInv, PageInv
<1>6. SumInv'
  <2>1. \A s \in Readers : pc'[s] \in {"sum", "reported"} =>
          pc'[s] = pc[s] /\ from'[s] = from[s] /\ upto'[s] = upto[s]
    BY <1>2 DEF IInv, TypeOK
  <2> QED
    BY <1>2, <2>1, SumInvStays
<1>7. StatementInv'
  <2> SUFFICES ASSUME NEW s \in Readers
               PROVE  /\ pc'[s] = "issued" \/ issued'[s] = {}
                      /\ \A z \in issued'[s] : z.lines = Statement(from[s], z.start, z.end)'
    BY DEF StatementInv
  <2>1. posting' = posting
    BY <1>2
  <2>2. CASE s = r
    <3>1. pc'[s] = "issued" /\ issued'[s] = {x} /\ from'[s] = rows
      BY <1>1, <1>2, <2>2 DEF IInv, TypeOK
    <3>2. Statement(from[s], start, end)' = Statement(rows, start, end)
      BY <2>1, <3>1, ZenonT(60) DEF Statement, Window, Precedes, Sum
    <3>3. ASSUME NEW z \in {x} PROVE z.lines = Statement(from[s], z.start, z.end)'
      <4>1. z.start = start /\ z.end = end /\ z.lines = Statement(rows, start, end)
        OBVIOUS
      <4> QED
        BY <3>2, <4>1
    <3> QED
      BY <3>1, <3>3
  <2>3. CASE s # r
    <3>1. pc'[s] = pc[s] /\ issued'[s] = issued[s] /\ from'[s] = from[s]
      BY <1>1, <1>2, <2>3 DEF IInv, TypeOK
    <3>2. \A z : Statement(from[s], z.start, z.end)' = Statement(from[s], z.start, z.end)
      BY <2>1, <3>1, ZenonT(60) DEF Statement, Window, Precedes, Sum
    <3> QED
      BY <3>1, <3>2 DEF IInv, StatementInv
  <2> QED
    BY <2>2, <2>3
<1> QED
  BY <1>3, <1>4, <1>5, <1>6, <1>7 DEF IInv

(* A step that changes nothing keeps the invariant.                        *)
LEMMA StutterKeepsIInv ==
  ASSUME IInv, UNCHANGED vars
  PROVE  IInv'
<1>1. UNCHANGED <<account, snapshot, balance, posting, rows, pc, cursor, given, seen,
                  issued, from, upto>>
  BY DEF vars
<1>2. SumInv'
  BY <1>1, SumInvStays
<1>3. StatementInv'
  BY <1>1, StatementInvStays
<1> QED
  BY <1>1, <1>2, <1>3 DEF IInv, TypeOK, RowInv, PageInv, Covered, Behind, SameInstant

(* The inductive invariant: behind the cursor of a journal, nothing that   *)
(* was committed when it began is missing without a companion that was on  *)
(* a page, and everything that was on a page is behind the cursor.         *)
THEOREM JournalInvariance == Spec => []IInv
<1>1. ASSUME IInv, [Next]_vars PROVE IInv'
  <2>1. CASE OpenAccount
    BY <1>1, <2>1, OpenKeepsIInv
  <2>2. ASSUME NEW t \in Transactions, PostTransaction(t) PROVE IInv'
    BY <1>1, <2>2, PostKeepsIInv
  <2>3. ASSUME NEW r \in Readers,
               \/ BeginJournal(r) \/ ReadPage(r)
               \/ ReadSnapshot(r) \/ Recompute(r)
               \/ IssueStatement(r)
        PROVE  IInv'
    BY <1>1, <2>3, BeginJournalKeepsIInv, ReadPageKeepsIInv, DriftKeepsIInv, IssueKeepsIInv
  <2> QED
    BY <1>1, <2>1, <2>2, <2>3, StutterKeepsIInv DEF Next
<1> QED
  BY <1>1, InitIInv, PTL DEF Spec

-----------------------------------------------------------------------------
(* admin_service.py: the journal read to its end misses nothing that was   *)
(* committed before it, but what shares its instant with a posting read.   *)
THEOREM JournalsAreComplete == Spec => []JournalIsComplete
<1>1. ASSUME IInv PROVE JournalIsComplete
  BY <1>1 DEF IInv, PageInv, Covered, JournalIsComplete
<1> QED
  BY <1>1, JournalInvariance, PTL

(* admin_service.py: no posting is on two pages of one journal.            *)
THEOREM JournalsRepeatNothing == Spec => []JournalRepeatsNothing
<1>1. ASSUME IInv PROVE JournalRepeatsNothing
  <2> SUFFICES ASSUME NEW r \in Readers, NEW p \in Postings
               PROVE  given[r][p] <= 1 /\ (given[r][p] > 0 => p \in rows)
    BY DEF JournalRepeatsNothing
  <2>1. given[r][p] \in Nat
    BY <1>1 DEF IInv, TypeOK
  <2> QED
    BY <1>1, <2>1 DEF IInv, PageInv
<1> QED
  BY <1>1, JournalInvariance, PTL

(* observability.py: a drift that is reported is the sum of what was       *)
(* committed between the two reads, with its sign turned.                  *)
THEOREM DriftsAreInFlight == Spec => []DriftIsInFlight
<1>1. ASSUME IInv PROVE DriftIsInFlight
  BY <1>1 DEF IInv, SumInv, DriftIsInFlight
<1> QED
  BY <1>1, JournalInvariance, PTL

(* accounts_service.py, statements_service.py: the statements of two       *)
(* periods that meet split the rows, so they add up to the snapshot.       *)
THEOREM PeriodsAddUp == Spec => []StatementsAddUp
<1>1. ASSUME IInv PROVE StatementsAddUp
  <2> SUFFICES ASSUME NEW first \in Times, NEW cut \in Times, NEW end \in Times,
                      \A p \in rows : Within(posting[p].at, first, end)
               PROVE  balance = Closing(first, cut) + Closing(cut, end)
    BY DEF StatementsAddUp
  <2> DEFINE S == Window(rows, first, cut)
             T == Window(rows, cut, end)
  <2>1. S \cup T = rows /\ S \cap T = {}
    BY DEF Window, Within
  <2>2. S \in SUBSET Postings /\ T \in SUBSET Postings /\ TypeOK
    BY <1>1 DEF Window, IInv, TypeOK
  <2> HIDE DEF S, T
  <2>3. Sum(rows) = Sum(S) + Sum(T)
    BY <2>1, <2>2, SumSplits
  <2> QED
    BY <1>1, <2>3 DEF IInv, SumInv, Closing, S, T
<1> QED
  BY <1>1, JournalInvariance, PTL

(* statements_service.py: a statement issued again differs from what was   *)
(* issued by the postings backdated into its period since, and by those    *)
(* alone.                                                                  *)
THEOREM ReissuesAddLatePostings == Spec => []ReissueAddsLatePostings
<1>1. ASSUME IInv PROVE ReissueAddsLatePostings
  <2> SUFFICES ASSUME NEW r \in Readers, NEW x \in issued[r]
               PROVE  LET again == Statement(rows, x.start, x.end)
                          late  == Window(rows \ from[r], x.start, x.end)
                      IN  /\ {l.posting : l \in again} = {l.posting : l \in x.lines} \cup late
                          /\ \A l \in x.lines :
                               [l EXCEPT !.balance = @ + Sum({q \in late : Precedes(q, l.posting)})]
                                 \in again
    BY DEF ReissueAddsLatePostings
  <2> DEFINE again == Statement(rows, x.start, x.end)
             late == Window(rows \ from[r], x.start, x.end)
             W == Window(from[r], x.start, x.end)
             V == Window(rows, x.start, x.end)
  <2>1. x.lines = Statement(from[r], x.start, x.end) /\ from[r] \subseteq rows
    BY <1>1 DEF IInv, StatementInv, PageInv
  <2>2. V = W \cup late /\ W \cap late = {}
    BY <2>1 DEF Window
  <2>3. V \in SUBSET Postings /\ W \in SUBSET Postings /\ late \in SUBSET Postings /\ TypeOK
    BY <1>1, <2>1 DEF Window, IInv, TypeOK
  <2>4. /\ x.lines = {[posting |-> p, balance |-> Sum({q \in W : q = p \/ Precedes(q, p)})] : p \in W}
        /\ again = {[posting |-> p, balance |-> Sum({q \in V : q = p \/ Precedes(q, p)})] : p \in V}
    BY <2>1 DEF Statement
  <2> HIDE DEF again, late, W, V
  <2>5. {l.posting : l \in again} = {l.posting : l \in x.lines} \cup late
    <3> DEFINE line(S, p) == [posting |-> p, balance |-> Sum({q \in S : q = p \/ Precedes(q, p)})]
    <3>0. \A S, p : line(S, p).posting = p
      OBVIOUS
    <3>3. x.lines = {line(W, p) : p \in W} /\ again = {line(V, p) : p \in V}
      BY <2>4
    <3> HIDE DEF line
    <3>1. ASSUME NEW p PROVE p \in {l.posting : l \in again} <=> p \in V
      BY <3>0, <3>3
    <3>2. ASSUME NEW p PROVE p \in {l.posting : l \in x.lines} <=> p \in W
      BY <3>0, <3>3
    <3> QED
      BY <2>2, <3>1, <3>2
  <2>6. ASSUME NEW l \in x.lines
        PROVE  [l EXCEPT !.balance = @ + Sum({q \in late : Precedes(q, l.posting)})] \in again
    <3>1. PICK p \in W : l = [posting |-> p, balance |-> Sum({q \in W : q = p \/ Precedes(q, p)})]
      BY <2>4
    <3> DEFINE A == {q \in W : q = p \/ Precedes(q, p)}
               B == {q \in late : Precedes(q, p)}
               C == {q \in V : q = p \/ Precedes(q, p)}
    <3>2. C = A \cup B /\ A \cap B = {} /\ A \in SUBSET Postings /\ B \in SUBSET Postings
      BY <2>2, <2>3
    <3>3. p \in V /\ l.posting = p
      BY <2>2, <3>1
    <3>4. [posting |-> p, balance |-> Sum(C)] \in again
      BY <2>4, <3>3
    <3>5. l = [posting |-> p, balance |-> Sum(A)]
      BY <3>1
    <3>6. {q \in late : Precedes(q, l.posting)} = B
      BY <3>3
    <3> HIDE DEF A, B, C
    <3>7. Sum(C) = Sum(A) + Sum(B)
      BY <2>3, <3>2, SumSplits
    <3>8. [l EXCEPT !.balance = @ + Sum(B)] = [posting |-> p, balance |-> Sum(A) + Sum(B)]
      BY <3>5
    <3> QED
      BY <3>4, <3>6, <3>7, <3>8
  <2> QED
    BY <2>5, <2>6 DEF again, late
<1> QED
  BY <1>1, JournalInvariance, PTL
=============================================================================
