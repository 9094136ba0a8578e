------------------------------ MODULE MCCheckout ------------------------------
(* Checkout for TLC: what two buyers ask for, alone and for each other. *)
EXTENDS Checkout, TLC

CONSTANTS t1, e1, e2

Alone(e) == [tier |-> t1, primary |-> e, seats |-> {e}]
Both(e) == [tier |-> t1, primary |-> e, seats |-> {e1, e2}]

(* One buyer's second seat is another buyer's only one. *)
Overlapping == {Both(e1), Alone(e2)}

(* One buyer who may come back. *)
OneBuyer == {Alone(e1)}
===============================================================================
