------------------------------- MODULE MCOutbox -------------------------------
(* Small instances of Outbox for TLC. *)
EXTENDS Outbox

CONSTANTS h1, h2

(* The ids of two handlers' events, interleaved. *)
Interleaved == [e \in Events |-> 2 * e[2] - (IF e[1] = h1 THEN 1 ELSE 0)]
=============================================================================
