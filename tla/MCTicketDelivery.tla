--------------------------- MODULE MCTicketDelivery ---------------------------
(* TicketDelivery for TLC: callers and recipients are model values; no     *)
(* symmetry, as the runs check liveness.                                   *)
EXTENDS TicketDelivery, TLC
===============================================================================
