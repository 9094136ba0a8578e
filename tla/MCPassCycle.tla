------------------------------ MODULE MCPassCycle ------------------------------
(* PassCycle for TLC: nothing tells calls, ids or addresses apart. *)
EXTENDS PassCycle, TLC

Symmetry == Permutations(Calls) \cup Permutations(Attendees)
              \cup Permutations(Passes) \cup Permutations(Emails)
===============================================================================
