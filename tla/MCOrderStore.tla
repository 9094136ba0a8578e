----------------------------- MODULE MCOrderStore -----------------------------
(* OrderStore for TLC: orders and addresses are interchangeable. *)
EXTENDS OrderStore, TLC

Symmetry == Permutations(Orders) \cup Permutations(Emails)
===============================================================================
