------------------------------ MODULE MCSaleTerms ------------------------------
(* SaleTerms for TLC: nothing tells updates, buyers, prices or currencies  *)
(* apart.                                                                  *)
EXTENDS SaleTerms, TLC

Symmetry == Permutations(Updates) \cup Permutations(Buyers)
              \cup Permutations(Prices) \cup Permutations(Currencies)
===============================================================================
