--------------------------------- MODULE Money ---------------------------------
(***************************************************************************)
(* money/types.py: amounts are whole minor units, and the one place where  *)
(* they are rounded is the conversion into another currency.  A rate is a  *)
(* pair <<p, q>>, p target units for q source units; every currency has    *)
(* two decimals, so the scaling to major units and back cancels out.       *)
(***************************************************************************)
EXTENDS Integers

Rates == (Nat \ {0}) \X (Nat \ {0})

(* ROUND_HALF_EVEN of n/d. *)
RoundHalfEven(n, d) ==
  LET below == n \div d
      twice == 2 * (n % d)
  IN IF twice < d \/ (twice = d /\ below % 2 = 0) THEN below ELSE below + 1

Convert(amount, rate) == RoundHalfEven(amount * rate[1], rate[2])

(* m is a whole number nearest to n/d. *)
Nearest(m, n, d) == 2 * (m * d - n) <= d /\ 2 * (n - m * d) <= d
(* n/d lies in the middle of two whole numbers. *)
Tie(n, d) == 2 * (n % d) = d
=============================================================================
