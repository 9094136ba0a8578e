--------------------------- MODULE MCBackgroundWork ---------------------------
(* BackgroundWork for TLC: orders and runs are model values. *)
EXTENDS BackgroundWork, TLC
===============================================================================
