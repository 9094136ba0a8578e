----------------------------- MODULE MCHallBooking -----------------------------
(* HallBooking for TLC: nothing tells calls, events or halls apart. *)
EXTENDS HallBooking, TLC

Symmetry == Permutations(Calls) \cup Permutations(Events)
              \cup Permutations(Halls)

Slot(day, from, to) == [day |-> day, from |-> from, to |-> to]

(* Three slots of one day: two that overlap, and one without an end.       *)
OneDay == {Slot(1, 1, 3), Slot(1, 2, 3), Slot(1, 2, NULL)}

(* The same hours of two days. *)
TwoDays == {Slot(1, 1, 2), Slot(2, 1, 2)}
===============================================================================
