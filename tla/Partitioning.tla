------------------------------ MODULE Partitioning ------------------------------
(***************************************************************************)
(* data/database/partitioning.py: which tenant-and-month partition a row   *)
(* belongs to, what that partition is called, which instants it takes and  *)
(* what its DDL does to the children that are there.                       *)
(* An instant is its calendar month, in UTC, and the time into that month. *)
(***************************************************************************)
EXTENDS Integers, Sequences

CONSTANTS
  Chars,       \* the characters of tenant ids: ASCII letters, digits, "-", "_"
  Plain,       \* a character with "-" replaced by "_", in lower case
  Digit,       \* the characters of the digits
  Underscore,  \* "_"
  Default,     \* "default"
  Prefix       \* "transactions_p_" and "postings_p_"

PartitionedTables == {"transactions", "postings"}

ASSUME CharAssumption ==
  /\ Underscore \in Chars /\ Default \in Seq(Chars)
  /\ Plain \in [Chars -> Chars]
  /\ Digit \in [0..9 -> Chars]
  /\ \A d, e \in 0..9 : Digit[d] = Digit[e] => d = e
ASSUME PrefixAssumption ==
  /\ Prefix \in [PartitionedTables -> Seq(Chars)]
  /\ Len(Prefix["transactions"]) = 15 /\ Len(Prefix["postings"]) = 11
  /\ Prefix["transactions"][1] # Prefix["postings"][1]

Instants == [year : Nat, month : 1..12, rest : Nat]

Earlier(x, y) ==
  \/ x.year < y.year
  \/ x.year = y.year /\ x.month < y.month
  \/ x.year = y.year /\ x.month = y.month /\ x.rest < y.rest

(* PartitionKey and route; a name is the sequence of its characters. *)
MaxYear == 9999               \* the last year of a datetime
PartitionKeys == [tenant : Seq(Chars), year : 1..MaxYear, month : 1..12]
Route(tenant, x) == [tenant |-> tenant, year |-> x.year, month |-> x.month]

-----------------------------------------------------------------------------
(* Names.  The DDL does not quote them, so Postgres folds their case and   *)
(* cuts them to 63 bytes; other characters do not parse.                   *)

(* safe_tenant: tenant_id.replace("-", "_") or "default", folded. *)
Safe(tenant) ==
  IF tenant = <<>> THEN Default ELSE [i \in 1..Len(tenant) |-> Plain[tenant[i]]]

Year(y) ==
  LET tens == y \div 10  hundreds == tens \div 10  thousands == hundreds \div 10 IN
  <<Digit[thousands], Digit[hundreds % 10], Digit[tens % 10], Digit[y % 10]>>
Month(m) == <<Digit[m \div 10], Digit[m % 10]>>

Suffix(key) ==
  Safe(key.tenant) \o <<Underscore>> \o Year(key.year) \o <<Underscore>> \o Month(key.month)

MaxName == 63
Identifier(name) == IF Len(name) > MaxName THEN SubSeq(name, 1, MaxName) ELSE name

ChildTable(table, key) == Identifier(Prefix[table] \o Suffix(key))

-----------------------------------------------------------------------------
(* _month_bounds: the month [Start, End). *)
MonthBegin(y, m) == [year |-> y, month |-> m, rest |-> 0]
Start(key) == MonthBegin(key.year, key.month)
End(key) ==
  IF key.month = 12 THEN MonthBegin(key.year + 1, 1)
                    ELSE MonthBegin(key.year, key.month + 1)

Within(x, from, to) == ~Earlier(x, from) /\ Earlier(x, to)
InPartition(x, key) == Within(x, Start(key), End(key))

(* partition_ddl: a child of both tables.  Its bounds are instants only,   *)
(* without the tenant.                                                     *)
Children(key) ==
  {[table |-> t, name |-> ChildTable(t, key), from |-> Start(key), to |-> End(key)] :
     t \in PartitionedTables}

(* What the database refuses: two children of a table with a row in common. *)
Overlap(c, d) ==
  /\ c.table = d.table
  /\ \E x \in Instants : Within(x, c.from, c.to) /\ Within(x, d.from, d.to)

(* CREATE TABLE IF NOT EXISTS passes over a name that is taken. *)
Missing(existing, key) == {c \in Children(key) : \A e \in existing : e.name # c.name}

(* CREATE CONSTRAINT TRIGGER does not: the child of postings that had the  *)
(* name before has a trigger of that name too, cut as it may be.           *)
TriggerTaken(existing, key) ==
  \E e \in existing : e.table = "postings" /\ e.name = ChildTable("postings", key)

DdlFails(existing, key) ==
  \/ TriggerTaken(existing, key)
  \/ \E c \in Missing(existing, key), e \in existing : Overlap(c, e)

(* A migration is one transaction. *)
Created(existing, key) ==
  IF DdlFails(existing, key) THEN existing ELSE existing \cup Missing(existing, key)
=============================================================================
