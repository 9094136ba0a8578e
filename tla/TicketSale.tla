------------------------------ MODULE TicketSale ------------------------------
(***************************************************************************)
(* What the ticket inventory promises, without counters, statuses or SQL: *)
(* a tier has a capacity (or none), a checkout holds seats in it, and held *)
(* seats are later bought or given back.  OrderStore implements this with  *)
(* the counters "reservedCount" and "soldCount" of ticket_types.           *)
(***************************************************************************)
EXTENDS Integers, FiniteSets

CONSTANTS Orders, Tiers, Emails, Quantities, NULL

VARIABLES cap,      \* capacity of each tier, NULL when unlimited
          held,     \* seats (checkout, attendee) on hold in each tier
          bought    \* seats paid for in each tier

vars == <<cap, held, bought>>

Seats == Orders \X Emails

(* Seats of checkout o among S. *)
Own(S, o) == {s \in S : s[1] = o}

Room(t, n) ==
  cap[t] # NULL => Cardinality(held[t]) + Cardinality(bought[t]) + n =< cap[t]

Init ==
  /\ cap \in [Tiers -> Quantities \cup {NULL}]
  /\ held = [t \in Tiers |-> {}]
  /\ bought = [t \in Tiers |-> {}]

Hold(t, o, S) ==
  /\ S # {}
  /\ \A u \in Tiers : Own(held[u], o) = {} /\ Own(bought[u], o) = {}
  /\ Room(t, Cardinality(S))
  /\ held' = [held EXCEPT ![t] = @ \cup ({o} \X S)]
  /\ UNCHANGED <<cap, bought>>

Buy(t, o) ==
  /\ Own(held[t], o) # {}
  /\ held' = [held EXCEPT ![t] = @ \ Own(@, o)]
  /\ bought' = [bought EXCEPT ![t] = @ \cup Own(held[t], o)]
  /\ UNCHANGED cap

GiveBack(t, o) ==
  /\ Own(held[t], o) # {}
  /\ held' = [held EXCEPT ![t] = @ \ Own(@, o)]
  /\ UNCHANGED <<cap, bought>>

(* A limited capacity never drops below what is held and bought. *)
Resize(t, q) ==
  /\ q # NULL => Cardinality(held[t]) + Cardinality(bought[t]) =< q
  /\ cap' = [cap EXCEPT ![t] = q]
  /\ UNCHANGED <<held, bought>>

Next ==
  \E t \in Tiers :
    \/ \E o \in Orders :
         \/ \E S \in SUBSET Emails : Hold(t, o, S)
         \/ Buy(t, o)
         \/ GiveBack(t, o)
    \/ \E q \in Quantities \cup {NULL} : Resize(t, q)

Spec == Init /\ [][Next]_vars
===============================================================================
