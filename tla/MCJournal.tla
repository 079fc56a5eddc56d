------------------------------- MODULE MCJournal -------------------------------
(* Small instances of Journal for TLC: months on both sides of the turn of *)
(* a year, and ids and creations that interleave with the legs of the      *)
(* transactions.                                                           *)
EXTENDS Journal, TLC

YearTurn ==
  {[MonthBegin(2025, 12) EXCEPT !.rest = 1], MonthBegin(2026, 1), MonthBegin(2026, 2)}

LegOrder == [p \in Postings |-> IF p[2] = 1 THEN 2 * p[1] ELSE 9 - 2 * p[1]]
LegsCreated == [p \in Postings |-> 2 * p[1] + p[2]]

(* Enough of the alphabet to write the names of partitions. *)
Decimals == <<"0", "1", "2", "3", "4", "5", "6", "7", "8", "9">>
Digits == [d \in 0..9 |-> Decimals[d + 1]]
DefaultName == <<"d", "e", "f", "a", "u", "l", "t">>
Prefixes ==
  "transactions" :> <<"t", "r", "a", "n", "s", "a", "c", "t", "i", "o", "n", "s", "_", "p", "_">> @@
  "postings" :> <<"p", "o", "s", "t", "i", "n", "g", "s", "_", "p", "_">>
Alphabet ==
  {"-", "_", "A"} \cup {"a", "c", "d", "e", "f", "g", "i", "l", "n", "o", "p", "r", "s", "t", "u"}
    \cup {Digits[d] : d \in 0..9}
InLowerCase ==
  [c \in Alphabet |-> CASE c = "-" -> "_" [] c = "A" -> "a" [] OTHER -> c]
=============================================================================
