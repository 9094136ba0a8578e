------------------------------ MODULE MCRowLocks ------------------------------
(* RowLocks for TLC: two buyers who ask for each other's seat too. *)
EXTENDS RowLocks, TLC
CONSTANTS t1, t2, e1, e2
Asks(t, e, S) == [tier |-> t, primary |-> e, seats |-> S]
Crossing == {Asks(t1, e1, {e1, e2}), Asks(t2, e2, {e1, e2})}
(* Nothing tells sessions or orders apart. *)
Symmetry == Permutations(Transactions) \cup Permutations(Orders)
===============================================================================
