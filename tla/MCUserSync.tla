------------------------------ MODULE MCUserSync -------------------------------
(* UserSync for TLC: nothing tells calls, accounts or addresses apart. *)
EXTENDS UserSync, TLC

Symmetry == Permutations(Calls) \cup Permutations(Accounts)
              \cup Permutations(Emails)
===============================================================================
