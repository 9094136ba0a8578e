------------------------------ MODULE OrderStore ------------------------------
(***************************************************************************)
(* The tables of one event that ticket sales share: ticket_types,          *)
(* payment_orders, payment_order_attendees, attendees and passes.  Every   *)
(* action is one transaction or one SQL statement of the services, with    *)
(* its WHERE clause as guard.  Nothing is assumed here about which handler *)
(* issues a statement or in which order: what this module guarantees, it   *)
(* guarantees against every interleaving.  Checkout adds the handlers.     *)
(*                                                                         *)
(* A variable is a column.  A row of payment_orders that does not exist    *)
(* yet has status "NONE".  Rows of other events never meet these (every    *)
(* query is by eventId, by id, or by the key eventId:email), so one event  *)
(* is modelled.                                                            *)
(***************************************************************************)
EXTENDS Integers, FiniteSets

CONSTANTS Orders,      \* identities of payment orders
          Tiers,       \* ticket types
          Emails,      \* normalised attendee addresses
          Quantities,  \* limited stock an organizer may set
          NULL

ASSUME OrderStoreAssumption ==
  /\ IsFiniteSet(Orders)
  /\ IsFiniteSet(Emails)
  /\ Quantities \subseteq Nat
  /\ NULL \notin Nat
  /\ NULL \notin Emails
  /\ NULL \notin Tiers

VARIABLES
  quantity, reserved, sold, onSale,          \* ticket_types
  status, tier, seats, primary, activeKey,   \* payment_orders
  url, lease, expired,
  attendees,                                 \* registered addresses
  passes                                     \* active passes of order seats

tierVars  == <<quantity, reserved, sold, onSale>>
orderVars == <<status, tier, seats, primary, activeKey, url, lease, expired>>
guestVars == <<attendees, passes>>
storeVars == <<tierVars, orderVars, guestVars>>

Statuses == {"NONE", "PENDING", "PAID", "FAILED", "EXPIRED", "REFUNDING",
             "REFUNDED"}

(* initializationClaimedAt: never claimed (or cleared), within the last    *)
(* five minutes, or older.                                                 *)
Leases == {"none", "fresh", "stale"}

-------------------------------------------------------------------------------
(* A tier is created with empty counters; an order does not exist yet.     *)
Init ==
  /\ quantity \in [Tiers -> Quantities \cup {NULL}]
  /\ onSale \in [Tiers -> BOOLEAN]
  /\ reserved = [t \in Tiers |-> 0]
  /\ sold = [t \in Tiers |-> 0]
  /\ status = [o \in Orders |-> "NONE"]
  /\ tier = [o \in Orders |-> NULL]
  /\ seats = [o \in Orders |-> {}]
  /\ primary = [o \in Orders |-> NULL]
  /\ activeKey = [o \in Orders |-> NULL]
  /\ url = [o \in Orders |-> FALSE]
  /\ lease = [o \in Orders |-> "none"]
  /\ expired = [o \in Orders |-> FALSE]
  /\ attendees = {}
  /\ passes = {}

(* payment_orders.quantity: one ticket per attendee row of the order. *)
Tickets(o) == Cardinality(seats[o])

-------------------------------------------------------------------------------
(* Statements of PaymentsService *)

(* A bug the runs look for: the stock check forgets what is on hold. *)
FitsIgnoringReserved(t, n) ==
  quantity[t] # NULL => sold[t] + n =< quantity[t]

(* The stock condition of the reserving UPDATE. *)
Fits(t, n) == quantity[t] # NULL => sold[t] + reserved[t] + n =< quantity[t]

(* A bug: activeCheckoutKey is not unique. *)
KeyAlwaysFree(e) == e \in Emails

KeyFree(e) == \A o \in Orders : activeKey[o] # e

(* createCheckout's transaction: reserve stock, then insert the order and  *)
(* its attendee rows.  A failed reservation or a duplicate                 *)
(* activeCheckoutKey rolls both back.                                      *)
ReserveAndCreate(o, t, e, S) ==
  /\ status[o] = "NONE"
  /\ e \in S
  /\ onSale[t]
  /\ Fits(t, Cardinality(S))
  /\ KeyFree(e)
  /\ reserved' = [reserved EXCEPT ![t] = @ + Cardinality(S)]
  /\ status' = [status EXCEPT ![o] = "PENDING"]
  /\ tier' = [tier EXCEPT ![o] = t]
  /\ seats' = [seats EXCEPT ![o] = S]
  /\ primary' = [primary EXCEPT ![o] = e]
  /\ activeKey' = [activeKey EXCEPT ![o] = e]
  /\ lease' = [lease EXCEPT ![o] = "fresh"]
  /\ UNCHANGED <<quantity, sold, onSale, url, expired, guestVars>>

(* A bug: the claim asks nothing of initializationClaimedAt. *)
ClaimIgnoringLease(o) ==
  /\ status[o] = "PENDING"
  /\ ~url[o]
  /\ lease' = [lease EXCEPT ![o] = "fresh"]
  /\ UNCHANGED <<tierVars, status, tier, seats, primary, activeKey, url,
                 expired, guestVars>>

(* The updateMany that claims an interrupted initialization. *)
ClaimInitialization(o) ==
  /\ status[o] = "PENDING"
  /\ ~url[o]
  /\ lease[o] # "fresh"
  /\ lease' = [lease EXCEPT ![o] = "fresh"]
  /\ UNCHANGED <<tierVars, status, tier, seats, primary, activeKey, url,
                 expired, guestVars>>

(* The update after Paystack accepted the checkout; it asks nothing of the *)
(* order's status.                                                         *)
SaveAuthorizationUrl(o) ==
  /\ status[o] # "NONE"
  /\ url' = [url EXCEPT ![o] = TRUE]
  /\ lease' = [lease EXCEPT ![o] = "none"]
  /\ UNCHANGED <<tierVars, status, tier, seats, primary, activeKey, expired,
                 guestVars>>

(* A bug: attendees are upserted instead of created. *)
SeatsUpserted(o) == seats[o] \subseteq Emails

(* attendee.create fails on the unique (eventId, email) index. *)
SeatsUnregistered(o) == seats[o] \cap attendees = {}

(* markOrderPaid's transaction; each throw in it rolls everything back. *)
MarkOrderPaid(o) ==
  /\ status[o] = "PENDING"
  /\ reserved[tier[o]] >= Tickets(o)
  /\ SeatsUnregistered(o)
  /\ status' = [status EXCEPT ![o] = "PAID"]
  /\ activeKey' = [activeKey EXCEPT ![o] = NULL]
  /\ reserved' = [reserved EXCEPT ![tier[o]] = @ - Tickets(o)]
  /\ sold' = [sold EXCEPT ![tier[o]] = @ + Tickets(o)]
  /\ attendees' = attendees \cup seats[o]
  /\ passes' = passes \cup ({o} \X seats[o])
  /\ UNCHANGED <<quantity, onSale, tier, seats, primary, url, lease, expired>>

(* Bugs: a release by id alone, and one that repeats a release. *)
ReleaseUnconditionally(o, to) ==
  /\ status[o] # "NONE"
  /\ status' = [status EXCEPT ![o] = to]
  /\ activeKey' = [activeKey EXCEPT ![o] = NULL]
  /\ lease' = [lease EXCEPT ![o] = "none"]
  /\ reserved' = [reserved EXCEPT ![tier[o]] = @ - Tickets(o)]
  /\ UNCHANGED <<quantity, sold, onSale, tier, seats, primary, url, expired,
                 guestVars>>

ReleaseTwice(o, to) ==
  /\ status[o] \in {"PENDING", "FAILED", "EXPIRED"}
  /\ reserved[tier[o]] >= Tickets(o)
  /\ ReleaseUnconditionally(o, to)

(* releaseReservation's transaction, to FAILED or EXPIRED. *)
ReleaseReservation(o, to) ==
  /\ status[o] = "PENDING"
  /\ reserved[tier[o]] >= Tickets(o)
  /\ status' = [status EXCEPT ![o] = to]
  /\ activeKey' = [activeKey EXCEPT ![o] = NULL]
  /\ lease' = [lease EXCEPT ![o] = "none"]
  /\ reserved' = [reserved EXCEPT ![tier[o]] = @ - Tickets(o)]
  /\ UNCHANGED <<quantity, sold, onSale, tier, seats, primary, url, expired,
                 guestVars>>

(* Bugs: a refund claimed for a pending order, and one claimed again. *)
ClaimRefundFrom(o, from) ==
  /\ status[o] \in from
  /\ status' = [status EXCEPT ![o] = "REFUNDING"]
  /\ UNCHANGED <<tierVars, tier, seats, primary, activeKey, url, lease,
                 expired, guestVars>>
ClaimRefundEarly(o) == ClaimRefundFrom(o, {"PENDING", "FAILED", "EXPIRED"})
ClaimRefundAgain(o) == ClaimRefundFrom(o, {"FAILED", "EXPIRED", "REFUNDING"})

(* refundLatePayment: the claim before the request, and the confirmation. *)
ClaimRefund(o) ==
  /\ status[o] \in {"FAILED", "EXPIRED"}
  /\ status' = [status EXCEPT ![o] = "REFUNDING"]
  /\ UNCHANGED <<tierVars, tier, seats, primary, activeKey, url, lease,
                 expired, guestVars>>

ConfirmRefund(o) ==
  /\ status[o] = "REFUNDING"
  /\ status' = [status EXCEPT ![o] = "REFUNDED"]
  /\ activeKey' = [activeKey EXCEPT ![o] = NULL]
  /\ UNCHANGED <<tierVars, tier, seats, primary, url, lease, expired,
                 guestVars>>

-------------------------------------------------------------------------------
(* Statements of EventsService and AttendeesService *)

(* A bug: the new quantity only has to cover what is sold. *)
CoversSold(t, q) == q >= sold[t]

CoversCommitted(t, q) == q >= sold[t] + reserved[t]

(* updateTicketType: a limited quantity is written by a conditional        *)
(* UPDATE, null by an unconditional one.                                   *)
SetQuantity(t, q) ==
  /\ q # NULL => CoversCommitted(t, q)
  /\ quantity' = [quantity EXCEPT ![t] = q]
  /\ UNCHANGED <<reserved, sold, onSale, orderVars, guestVars>>

(* isActive and the sale window, by PATCH, by DELETE or as time passes. *)
SetOnSale(t, b) ==
  /\ onSale' = [onSale EXCEPT ![t] = b]
  /\ UNCHANGED <<quantity, reserved, sold, orderVars, guestVars>>

(* An organizer adds an attendee by hand or by CSV. *)
RegisterAttendee(e) ==
  /\ e \notin attendees
  /\ attendees' = attendees \cup {e}
  /\ UNCHANGED <<tierVars, orderVars, passes>>

PassesOf(e) == {s \in passes : s[2] = e}

(* Deleting an attendee cascades to the passes. *)
RemoveAttendee(e) ==
  /\ e \in attendees
  /\ attendees' = attendees \ {e}
  /\ passes' = passes \ PassesOf(e)
  /\ UNCHANGED <<tierVars, orderVars>>

(* Changing an attendee's address revokes the passes it had. *)
ChangeEmail(e, f) ==
  /\ e \in attendees
  /\ f \notin attendees
  /\ attendees' = (attendees \ {e}) \cup {f}
  /\ passes' = passes \ PassesOf(e)
  /\ UNCHANGED <<tierVars, orderVars>>

-------------------------------------------------------------------------------
(* Time: expiresAt passes, and a claim becomes five minutes old. *)
ExpiryPasses(o) ==
  /\ status[o] # "NONE"
  /\ ~expired[o]
  /\ expired' = [expired EXCEPT ![o] = TRUE]
  /\ UNCHANGED <<tierVars, status, tier, seats, primary, activeKey, url,
                 lease, guestVars>>

LeaseAges(o) ==
  /\ lease[o] = "fresh"
  /\ lease' = [lease EXCEPT ![o] = "stale"]
  /\ UNCHANGED <<tierVars, status, tier, seats, primary, activeKey, url,
                 expired, guestVars>>

-------------------------------------------------------------------------------
OrderNext(o) ==
  \/ \E t \in Tiers, e \in Emails, S \in SUBSET Emails :
       ReserveAndCreate(o, t, e, S)
  \/ ClaimInitialization(o)
  \/ SaveAuthorizationUrl(o)
  \/ MarkOrderPaid(o)
  \/ \E to \in {"FAILED", "EXPIRED"} : ReleaseReservation(o, to)
  \/ ClaimRefund(o)
  \/ ConfirmRefund(o)
  \/ ExpiryPasses(o)
  \/ LeaseAges(o)

TierNext(t) ==
  \/ \E q \in Quantities \cup {NULL} : SetQuantity(t, q)
  \/ \E b \in BOOLEAN : SetOnSale(t, b)

GuestNext(e) ==
  \/ RegisterAttendee(e)
  \/ RemoveAttendee(e)
  \/ \E f \in Emails : ChangeEmail(e, f)

Next ==
  \/ \E o \in Orders : OrderNext(o)
  \/ \E t \in Tiers : TierNext(t)
  \/ \E e \in Emails : GuestNext(e)

Spec == Init /\ [][Next]_storeVars

-------------------------------------------------------------------------------
(* Properties *)

(* Every column has the type the schema gives it; an order that exists has *)
(* a tier and at least one seat, its primary attendee's among them.        *)
TypeOK ==
  /\ quantity \in [Tiers -> Quantities \cup {NULL}]
  /\ reserved \in [Tiers -> Nat]
  /\ sold \in [Tiers -> Nat]
  /\ onSale \in [Tiers -> BOOLEAN]
  /\ status \in [Orders -> Statuses]
  /\ tier \in [Orders -> Tiers \cup {NULL}]
  /\ seats \in [Orders -> SUBSET Emails]
  /\ primary \in [Orders -> Emails \cup {NULL}]
  /\ activeKey \in [Orders -> Emails \cup {NULL}]
  /\ url \in [Orders -> BOOLEAN]
  /\ lease \in [Orders -> Leases]
  /\ expired \in [Orders -> BOOLEAN]
  /\ attendees \in SUBSET Emails
  /\ passes \in SUBSET (Orders \X Emails)
  /\ \A o \in Orders : status[o] # "NONE" =>
       tier[o] \in Tiers /\ primary[o] \in seats[o]

(* Seats of the orders of tier t that are in status st. *)
SeatsIn(t, st) ==
  {s \in Orders \X Emails :
     /\ status[s[1]] = st
     /\ tier[s[1]] = t
     /\ s[2] \in seats[s[1]]}

(* The counters of a tier, which only ever move by increments, equal the   *)
(* seats of its pending and of its paid orders.  In particular the guards  *)
(* reservedCount >= quantity of markOrderPaid and releaseReservation never *)
(* fail: neither 409 about a lost reservation can be answered.             *)
InventoryAccounted ==
  \A t \in Tiers :
    /\ reserved[t] = Cardinality(SeatsIn(t, "PENDING"))
    /\ sold[t] = Cardinality(SeatsIn(t, "PAID"))

(* A limited tier never has more seats sold or on hold than its quantity,  *)
(* whatever the organizer does to the quantity meanwhile.                  *)
NoOversell ==
  \A t \in Tiers : quantity[t] # NULL => sold[t] + reserved[t] =< quantity[t]

(* activeCheckoutKey is held exactly by the pending orders, under their    *)
(* primary attendee; so two pending orders never have the same one.        *)
OneActiveCheckout ==
  /\ \A o \in Orders :
       activeKey[o] = IF status[o] = "PENDING" THEN primary[o] ELSE NULL
  /\ \A o, p \in Orders :
       status[o] = "PENDING" /\ status[p] = "PENDING"
         /\ primary[o] = primary[p] => o = p

(* An active ticket pass is backed by money that is kept: its order is     *)
(* PAID (never one that was, or is being, refunded), it is for a seat of   *)
(* that order and a registered attendee, and no address holds the active   *)
(* passes of two orders.                                                   *)
PassBacked ==
  /\ \A s \in passes :
       status[s[1]] = "PAID" /\ s[2] \in seats[s[1]] /\ s[2] \in attendees
  /\ \A s, r \in passes : s[2] = r[2] => s[1] = r[1]

(* An order's money goes one way: PAID and REFUNDED are final, a refund    *)
(* starts only from FAILED or EXPIRED, and what was bought (tier, seats)   *)
(* never changes once the order exists.                                    *)
SettlementStep ==
  \A o \in Orders : status[o] # "NONE" =>
    /\ tier'[o] = tier[o] /\ seats'[o] = seats[o] /\ primary'[o] = primary[o]
    /\ status'[o] # status[o] =>
         <<status[o], status'[o]>> \in
           {<<"PENDING", "PAID">>, <<"PENDING", "FAILED">>,
            <<"PENDING", "EXPIRED">>, <<"FAILED", "REFUNDING">>,
            <<"EXPIRED", "REFUNDING">>, <<"REFUNDING", "REFUNDED">>}
Settlement == [][SettlementStep]_storeVars

(* The counters implement a sale of seats: OrderStore implements           *)
(* TicketSale, with the pending seats as held and the paid ones as bought. *)
Sale == INSTANCE TicketSale WITH
          cap <- quantity,
          held <- [t \in Tiers |-> SeatsIn(t, "PENDING")],
          bought <- [t \in Tiers |-> SeatsIn(t, "PAID")]
SaleSpec == Sale!Spec
===============================================================================
