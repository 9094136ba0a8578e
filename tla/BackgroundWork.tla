----------------------------- MODULE BackgroundWork -----------------------------
(***************************************************************************)
(* processBackgroundWork: the timer that starts it, its two batches        *)
(* (expired checkouts to refresh, paid orders to deliver) and the try      *)
(* around each order.  refreshOrder and emailPaidOrderPass are one step    *)
(* each; what they do is in Checkout and TicketDelivery.                   *)
(*                                                                         *)
(* A batch is limited and comes in no stated order, so it may be any set   *)
(* of that size.  The timer starts a run whether or not the last one has   *)
(* ended.                                                                  *)
(***************************************************************************)
EXTENDS Integers, FiniteSets

CONSTANTS Orders,
          Runs,       \* runs that overlap at most
          Batch,      \* "take: 50"
          MaxFaults   \* bound: calls that fail for once, and crashes

ASSUME BackgroundAssumption ==
  IsFiniteSet(Orders) /\ Batch \in Nat \ {0} /\ MaxFaults \in Nat

VARIABLES
  order,   \* not expired yet; expired and PENDING; PAID, not delivered; neither
  stuck,   \* orders refreshOrder fails for every time
  bare,    \* orders emailPaidOrderPass fails for every time
  run,     \* the runs in progress
  faults

vars == <<order, stuck, bare, run, faults>>

(* A run: its phase, and the orders of its batch it has not come to. *)
Idle == [at |-> "idle", todo |-> {}]

At(w, place) == run[w].at = place
In(state) == {o \in Orders : order[o] = state}

Init ==
  /\ order = [o \in Orders |-> "open"]
  /\ stuck = {} /\ bare = {}
  /\ run = [w \in Runs |-> Idle]
  /\ faults = 0

Fault == faults < MaxFaults /\ faults' = faults + 1

-------------------------------------------------------------------------------
(* What a query with a limit may answer. *)
Answers(rows, B) ==
  /\ B \subseteq rows
  /\ Cardinality(B) = IF Cardinality(rows) < Batch THEN Cardinality(rows) ELSE Batch

Go(w, place, B) == run' = [run EXCEPT ![w] = [at |-> place, todo |-> B]]
Done(w, o) == Go(w, run[w].at, run[w].todo \ {o})

(* The start of the process, or the timer. *)
Start(w) ==
  /\ At(w, "idle")
  /\ \E B \in SUBSET In("expired") :
       Answers(In("expired"), B) /\ Go(w, "refresh", B)
  /\ UNCHANGED <<order, stuck, bare, faults>>

(* What refreshOrder makes of an order: it is released, or paid and then   *)
(* delivered or not; one somebody else has paid meanwhile is delivered.    *)
Outcomes(o) ==
  CASE order[o] = "expired" -> {"paid", "closed"}
    [] order[o] = "paid"    -> IF o \in bare THEN {"paid"} ELSE {"paid", "closed"}
    [] OTHER                -> {order[o]}

Refresh(w) ==
  /\ At(w, "refresh")
  /\ \E o \in run[w].todo \ stuck :
       /\ \E s \in Outcomes(o) : order' = [order EXCEPT ![o] = s]
       /\ Done(w, o)
  /\ UNCHANGED <<stuck, bare, faults>>

(* A bug the runs look for: the exception ends the run. *)
RefreshAborts(w) ==
  /\ At(w, "refresh")
  /\ run[w].todo \cap stuck # {}
  /\ run' = [run EXCEPT ![w] = Idle]
  /\ UNCHANGED <<order, stuck, bare, faults>>

(* It throws, as it will at every attempt: the loop goes on. *)
RefreshFails(w) ==
  /\ At(w, "refresh")
  /\ \E o \in run[w].todo \cap stuck : Done(w, o)
  /\ UNCHANGED <<order, stuck, bare, faults>>

(* The refunds without a confirmation are read and logged in between. *)
StartDelivery(w) ==
  /\ At(w, "refresh") /\ run[w].todo = {}
  /\ \E B \in SUBSET In("paid") : Answers(In("paid"), B) /\ Go(w, "deliver", B)
  /\ UNCHANGED <<order, stuck, bare, faults>>

Deliver(w) ==
  /\ At(w, "deliver")
  /\ \E o \in run[w].todo \ bare :
       /\ order' = [order EXCEPT ![o] = "closed"]
       /\ Done(w, o)
  /\ UNCHANGED <<stuck, bare, faults>>

(* A bug: the exception ends the run. *)
DeliverAborts(w) ==
  /\ At(w, "deliver")
  /\ run[w].todo \cap bare # {}
  /\ run' = [run EXCEPT ![w] = Idle]
  /\ UNCHANGED <<order, stuck, bare, faults>>

DeliverFails(w) ==
  /\ At(w, "deliver")
  /\ \E o \in run[w].todo \cap bare : Done(w, o)
  /\ UNCHANGED <<order, stuck, bare, faults>>

End(w) ==
  /\ At(w, "deliver") /\ run[w].todo = {}
  /\ run' = [run EXCEPT ![w] = Idle]
  /\ UNCHANGED <<order, stuck, bare, faults>>

-------------------------------------------------------------------------------
(* A call fails for once: the loop goes on. *)
FailsOnce(w) ==
  /\ \E o \in run[w].todo : Done(w, o)
  /\ Fault
  /\ UNCHANGED <<order, stuck, bare>>

(* One of the queries fails: the run ends, and the timer's catch logs it. *)
QueryFails(w) ==
  /\ ~At(w, "idle") /\ run[w].todo = {}
  /\ run' = [run EXCEPT ![w] = Idle]
  /\ Fault
  /\ UNCHANGED <<order, stuck, bare>>

Crash ==
  /\ \E w \in Runs : ~At(w, "idle")
  /\ run' = [w \in Runs |-> Idle]
  /\ Fault
  /\ UNCHANGED <<order, stuck, bare>>

(* expiresAt passes. *)
Expires(o) ==
  /\ order[o] = "open"
  /\ order' = [order EXCEPT ![o] = "expired"]
  /\ UNCHANGED <<stuck, bare, run, faults>>

(* The webhook or a poll settles or delivers the order. *)
Elsewhere(o) ==
  /\ \/ order[o] \in {"open", "expired"} /\ o \notin stuck
     \/ order[o] = "paid" /\ o \notin bare
  /\ \E s \in {"paid", "closed"} : order' = [order EXCEPT ![o] = s]
  /\ UNCHANGED <<stuck, bare, run, faults>>

(* Somebody else registers an address of the order before it is paid, or   *)
(* the organizer deletes an attendee of it when it is.                     *)
Spoil(o) ==
  /\ \/ order[o] \in {"open", "expired"} /\ stuck' = stuck \cup {o} /\ UNCHANGED bare
     \/ order[o] = "paid" /\ bare' = bare \cup {o} /\ UNCHANGED stuck
  /\ UNCHANGED <<order, run, faults>>

-------------------------------------------------------------------------------
Step(w) ==
  \/ Refresh(w) \/ RefreshFails(w) \/ StartDelivery(w)
  \/ Deliver(w) \/ DeliverFails(w) \/ End(w)

Next ==
  \/ \E w \in Runs : Start(w) \/ Step(w) \/ FailsOnce(w) \/ QueryFails(w)
  \/ Crash
  \/ \E o \in Orders : Expires(o) \/ Elsewhere(o) \/ Spoil(o)

Spec == Init /\ [][Next]_vars

(* A run goes on; the timer keeps firing, and after a crash the process is *)
(* started again.                                                          *)
FairSpec ==
  /\ Spec
  /\ \A w \in Runs : WF_vars(Step(w))
  /\ SF_vars(\E w \in Runs : Start(w))

-------------------------------------------------------------------------------
(* Properties *)

(* payments.service.ts:664-681: no expired checkout waits for ever for its *)
(* refresh, however the batches are chosen and whatever fails for once, as *)
(* long as fewer orders than a batch holds fail every time.                *)
Refreshed ==
  [](Cardinality(stuck) < Batch) =>
    \A o \in Orders : (order[o] = "expired") ~> (order[o] # "expired" \/ o \in stuck)

(* payments.service.ts:699-723: the same of the delivery of a paid order;  *)
(* and what cannot be refreshed does not keep it back, be it a full batch. *)
Delivered ==
  [](Cardinality(bare) < Batch) =>
    \A o \in Orders : (order[o] = "paid") ~> (order[o] = "closed" \/ o \in bare)
===============================================================================
