--------------------------- MODULE ReservedPayments ---------------------------
(***************************************************************************)
(* What the ledger promises its clients, with no sessions, locks or legs:  *)
(* accounts have funds, some of them reserved, and a payment, an exchange  *)
(* or a new reservation happens at one instant, once per key, out of funds *)
(* that are not reserved at that instant.  A capture pays from the funds,  *)
(* reserved or not, and ends its reservation at the same instant.  A       *)
(* movement may be undone, whether the funds are still there or not: from  *)
(* then on the account that had received them is exempt from the promise,  *)
(* as the pools are that exchanges go through.                             *)
(***************************************************************************)
EXTENDS Integers

CONSTANTS
  Accounts,           \* the accounts
  CurrencyOf,         \* the currency of an account
  ConversionAccount,  \* the pool of a currency, if it can be exchanged
  Converted,          \* what an amount is worth in another currency
  Payments,           \* the keys under which clients pay
  Holdings,           \* the keys under which clients reserve
  Corrections,        \* the keys under which clients undo
  Amounts,            \* amounts of money clients ask for
  Funds               \* funds before the first payment

VARIABLES
  funds,      \* money on each account
  reserved,   \* how much of it is reserved
  settled,    \* the keys that have taken effect
  moves,      \* what was moved, and can be undone
  exempt      \* accounts that may be overdrawn

vars == <<funds, reserved, settled, moves, exempt>>

Pools == {ConversionAccount[c] : c \in DOMAIN ConversionAccount}
Free(a) == funds[a] - reserved[a]

Move(a, b, n) == [from |-> a, to |-> b, amount |-> n]
Carry(f, m) == [[f EXCEPT ![m.from] = @ - m.amount] EXCEPT ![m.to] = @ + m.amount]

Init ==
  /\ funds = Funds
  /\ reserved = [a \in Accounts |-> 0]
  /\ settled = {}
  /\ moves = {}
  /\ exempt = Pools

(* A reservation on a is over. *)
Ends(a) ==
  \E n \in Amounts \cap 1..reserved[a] : reserved' = [reserved EXCEPT ![a] = @ - n]

Pay(a, b, n) ==
  /\ CurrencyOf[a] = CurrencyOf[b]
  /\ funds' = Carry(funds, Move(a, b, n))
  /\ a \notin exempt => n <= Free(a)
  /\ moves' = moves \cup {Move(a, b, n)}
  /\ UNCHANGED <<reserved, exempt>>

(* Both halves of an exchange happen at the same instant, and each can be  *)
(* undone.                                                                 *)
Exchange(a, b, n) ==
  LET c == CurrencyOf[a]
      d == CurrencyOf[b]
      out == Move(a, ConversionAccount[c], n)
      in == Move(ConversionAccount[d], b, Converted[<<c, d>>][n])
  IN
  /\ c # d /\ <<c, d>> \in DOMAIN Converted /\ {c, d} \subseteq DOMAIN ConversionAccount
  /\ funds' = Carry(Carry(funds, out), in)
  /\ a \notin exempt => n <= Free(a)
  /\ moves' = moves \cup {out, in}
  /\ UNCHANGED <<reserved, exempt>>

(* A reservation may have lapsed when it is made. *)
Reserve(a, n) ==
  /\ a \notin exempt => n <= Free(a)
  /\ reserved' = [reserved EXCEPT ![a] = @ + n] \/ UNCHANGED reserved
  /\ UNCHANGED <<funds, moves, exempt>>

(* A captured hold may have lapsed or been resolved before: then nothing   *)
(* is reserved for it any more, and the funds have to do.                  *)
Capture(a, b, n) ==
  /\ CurrencyOf[a] = CurrencyOf[b]
  /\ funds' = Carry(funds, Move(a, b, n))
  /\ a \notin exempt => n <= funds[a]
  /\ Ends(a) \/ UNCHANGED reserved
  /\ moves' = moves \cup {Move(a, b, n)}
  /\ UNCHANGED exempt

(* A reservation is released or lapses. *)
Unreserve(a) == Ends(a) /\ UNCHANGED <<funds, moves, exempt>>

Undo(m) ==
  /\ funds' = Carry(funds, Move(m.to, m.from, m.amount))
  /\ exempt' = exempt \cup {m.to}
  /\ UNCHANGED <<reserved, moves>>

(* A key takes effect that has not done so before. *)
Once(keys) == \E k \in keys \ settled : settled' = settled \cup {k}

Next ==
  \/ /\ Once(Payments)
     /\ \E a, b \in Accounts, n \in Amounts : Pay(a, b, n) \/ Exchange(a, b, n)
  \/ Once(Holdings) /\ \E a \in Accounts, n \in Amounts : Reserve(a, n)
  \/ Once(Corrections) /\ \E m \in moves : Undo(m)
  \/ UNCHANGED settled /\ \E a, b \in Accounts, n \in Amounts : Capture(a, b, n)
  \/ UNCHANGED settled /\ \E a \in Accounts : Unreserve(a)

Spec == Init /\ [][Next]_vars
=============================================================================
