------------------------------- MODULE Checkout -------------------------------
(***************************************************************************)
(* The handlers of PaymentsService at work on the tables of OrderStore:    *)
(* createCheckout with initializeCheckout, and refreshOrder with           *)
(* markOrderPaid, releaseReservation and refundLatePayment, called by the  *)
(* checkout endpoint, the status endpoint, Paystack's webhook and the      *)
(* background sweep.                                                       *)
(*                                                                         *)
(* A worker is one call in progress; any number of them interleave, in one *)
(* process or in several.  Everything between two awaits is one step, an   *)
(* awaited statement or request is a step of its own, and what a worker    *)
(* read before it may be stale after it.  The worker's "at" is the await   *)
(* it is about to perform.                                                 *)
(*                                                                         *)
(* Paystack is external: a transaction per reference, its refunds, and a   *)
(* notification that it repeats until it is acknowledged.                  *)
(***************************************************************************)
EXTENDS OrderStore

CONSTANTS Workers,
          Requests,   \* what buyers ask for
          MaxFaults,  \* bound: crashes, lost calls and rejections
          MaxEdits    \* bound: organizer edits of tiers and attendees

(* One to ten seats for distinct addresses, the primary attendee's first.  *)
ASSUME CheckoutAssumption ==
  /\ \A r \in Requests :
       /\ r \in [tier : Tiers, primary : Emails, seats : SUBSET Emails]
       /\ r.primary \in r.seats
       /\ Cardinality(r.seats) \in 1..10
  /\ NULL \notin Orders
  /\ NULL \notin Requests
  /\ MaxFaults \in Nat
  /\ MaxEdits \in Nat

VARIABLES
  worker,   \* the calls in progress
  txn,      \* Paystack's transaction for an order's reference
  refunds,  \* refund requests that reached Paystack
  hook,     \* the charge.success notification
  faults, edits

paystackVars == <<txn, refunds>>
vars == <<storeVars, worker, paystackVars, hook, faults, edits>>

-------------------------------------------------------------------------------
(* Workers *)

(* A call: where it is, what it serves, the request (checkout only), the   *)
(* order it works on, the status it read or is about to write, and whether *)
(* its initialization lease has run out meanwhile.                         *)
Call(place, j, r, o) ==
  [at |-> place, job |-> j, req |-> r, ord |-> o, snap |-> NULL, late |-> FALSE]

Idle == Call("idle", "none", NULL, NULL)

Places == {"idle", "findPending", "claim", "readTier", "reserve", "initialize",
           "abort", "saveUrl", "readOrder", "verify", "markPaid", "email",
           "release", "claimRefund", "refund", "confirm"}

Initializing == {"initialize", "abort", "saveUrl"}

At(p, place) == worker[p].at = place
Order(p) == worker[p].ord
Request(p) == worker[p].req

Go(p, place) ==
  /\ worker' = [worker EXCEPT ![p].at = place]
  /\ UNCHANGED hook

GoWith(p, place, o, s) ==
  /\ worker' = [worker EXCEPT ![p].at = place, ![p].ord = o, ![p].snap = s]
  /\ UNCHANGED hook

(* A bug the runs look for: a failed notification is acknowledged. *)
ThrowAcknowledged(p) ==
  /\ worker' = [worker EXCEPT ![p] = Idle]
  /\ hook' = IF worker[p].job = "webhook"
               THEN [hook EXCEPT ![Order(p)] = "acked"] ELSE hook

(* The call ends in an exception: Paystack will notify again. *)
Throw(p) ==
  /\ worker' = [worker EXCEPT ![p] = Idle]
  /\ UNCHANGED hook

(* The call ends well: a notification is acknowledged. *)
Return(p) ==
  /\ worker' = [worker EXCEPT ![p] = Idle]
  /\ hook' = IF worker[p].job = "webhook"
               THEN [hook EXCEPT ![Order(p)] = "acked"] ELSE hook

(* refreshOrder returns status s: createCheckout refuses on PAID and       *)
(* PENDING and otherwise goes on to a new order, other callers are done.   *)
Answer(p, s) ==
  IF worker[p].job = "checkout"
    THEN IF s \in {"PAID", "PENDING"} THEN Throw(p)
                                      ELSE GoWith(p, "readTier", NULL, NULL)
    ELSE Return(p)

Quiet == UNCHANGED <<faults, edits>>

Fault ==
  /\ faults < MaxFaults
  /\ faults' = faults + 1
  /\ UNCHANGED edits

-------------------------------------------------------------------------------
(* createCheckout *)

(* The attendee check is the first read that can fail, with a 409. *)
StartCheckout(p, r) ==
  /\ At(p, "idle")
  /\ worker' = IF r.seats \cap attendees = {}
                 THEN [worker EXCEPT ![p] =
                         Call("findPending", "checkout", r, NULL)]
                 ELSE worker
  /\ UNCHANGED <<storeVars, paystackVars, hook>> /\ Quiet

PendingFor(r) == {o \in Orders : status[o] = "PENDING" /\ primary[o] = r.primary}

SameSelection(o, r) == tier[o] = r.tier /\ seats[o] = r.seats

(* A pending order of the same primary attendee is refreshed when it has   *)
(* expired, refused when it is for something else, answered when it has a  *)
(* URL, and otherwise taken over.                                          *)
FindPending(p) ==
  /\ At(p, "findPending")
  /\ IF PendingFor(Request(p)) = {} THEN Go(p, "readTier")
     ELSE \E o \in PendingFor(Request(p)) :
       IF expired[o] THEN GoWith(p, "readOrder", o, NULL)
       ELSE IF ~SameSelection(o, Request(p)) \/ url[o] THEN Return(p)
       ELSE GoWith(p, "claim", o, NULL)
  /\ UNCHANGED <<storeVars, paystackVars>> /\ Quiet

TakeOver(p) ==
  /\ At(p, "claim")
  /\ ClaimInitialization(Order(p))
  /\ Go(p, "initialize")
  /\ UNCHANGED paystackVars /\ Quiet

TakeOverRefused(p) ==
  LET o == Order(p) IN
  /\ At(p, "claim")
  /\ status[o] # "PENDING" \/ url[o] \/ lease[o] = "fresh"
  /\ Throw(p)
  /\ UNCHANGED <<storeVars, paystackVars>> /\ Quiet

ReadTier(p) ==
  /\ At(p, "readTier")
  /\ IF onSale[Request(p).tier] THEN Go(p, "reserve") ELSE Throw(p)
  /\ UNCHANGED <<storeVars, paystackVars>> /\ Quiet

Reserve(p) ==
  LET r == Request(p) IN
  /\ At(p, "reserve")
  /\ \E o \in Orders :
       /\ ReserveAndCreate(o, r.tier, r.primary, r.seats)
       /\ GoWith(p, "initialize", o, NULL)
  /\ UNCHANGED paystackVars /\ Quiet

(* Sold out, off sale, or the key is taken.  In the last case the code     *)
(* reads the other order, only to choose between its URL and a 409.  (Last *)
(* disjunct: the model has no order left to create.)                       *)
ReserveRefused(p) ==
  LET r == Request(p) IN
  /\ At(p, "reserve")
  /\ \/ ~onSale[r.tier] \/ ~Fits(r.tier, Cardinality(r.seats))
     \/ ~KeyFree(r.primary)
     \/ \A o \in Orders : status[o] # "NONE"
  /\ Throw(p)
  /\ UNCHANGED <<storeVars, paystackVars>> /\ Quiet

-------------------------------------------------------------------------------
(* initializeCheckout *)

Open(o) == txn' = [txn EXCEPT ![o] = IF @ = "none" THEN "open" ELSE @]

(* Paystack accepts the reference, again if it is still unpaid. *)
InitializeAccepted(p) ==
  /\ At(p, "initialize")
  /\ txn[Order(p)] # "captured"
  /\ Open(Order(p))
  /\ Go(p, "saveUrl")
  /\ UNCHANGED <<storeVars, refunds>> /\ Quiet

(* A reference it knows may be rejected as a duplicate. *)
InitializeDuplicate(p) ==
  /\ At(p, "initialize")
  /\ txn[Order(p)] # "none"
  /\ Go(p, "abort")
  /\ UNCHANGED <<storeVars, paystackVars>> /\ Quiet

(* A rejection, or an answer that is not JSON, whether or not the          *)
(* transaction was opened.                                                 *)
InitializeRejected(p) ==
  /\ At(p, "initialize")
  /\ UNCHANGED txn \/ Open(Order(p))
  /\ Go(p, "abort")
  /\ UNCHANGED <<storeVars, refunds>> /\ Fault

(* No answer: the order keeps its lease and its reservation. *)
InitializeLost(p) ==
  /\ At(p, "initialize")
  /\ UNCHANGED txn \/ Open(Order(p))
  /\ Throw(p)
  /\ UNCHANGED <<storeVars, refunds>> /\ Fault

(* A bug: the release trusts the status the caller read. *)
ReleaseAsRead(o, to) ==
  IF status[o] = "PENDING" THEN ReleaseReservation(o, to)
  ELSE /\ status' = [status EXCEPT ![o] = to]
       /\ UNCHANGED <<tierVars, tier, seats, primary, activeKey, url, lease,
                      expired, guestVars>>

ReleaseIfPending(o, to) ==
  IF status[o] = "PENDING" THEN ReleaseReservation(o, to)
                           ELSE UNCHANGED storeVars

AbortInitialization(p) ==
  /\ At(p, "abort")
  /\ ReleaseIfPending(Order(p), "FAILED")
  /\ Throw(p)
  /\ UNCHANGED paystackVars /\ Quiet

SaveUrl(p) ==
  /\ At(p, "saveUrl")
  /\ SaveAuthorizationUrl(Order(p))
  /\ Return(p)
  /\ UNCHANGED paystackVars /\ Quiet

-------------------------------------------------------------------------------
(* refreshOrder *)

StartRefresh(p, o, j) ==
  /\ At(p, "idle")
  /\ worker' = [worker EXCEPT ![p] = Call("readOrder", j, NULL, o)]
  /\ UNCHANGED <<storeVars, paystackVars, hook>> /\ Quiet

(* A bug: the reference is not looked up first. *)
StartPollUnknown(p, o) == StartRefresh(p, o, "refresh")

(* GET /payments/:reference, at any time. *)
StartPoll(p, o) == status[o] # "NONE" /\ StartRefresh(p, o, "refresh")

(* expirePendingOrders. *)
StartSweep(p, o) ==
  status[o] = "PENDING" /\ expired[o] /\ StartRefresh(p, o, "refresh")

StartWebhook(p, o) == hook[o] = "due" /\ StartRefresh(p, o, "webhook")

ReadOrder(p) ==
  LET s == status[Order(p)] IN
  /\ At(p, "readOrder")
  /\ IF s = "PAID" THEN Go(p, "email")
     ELSE IF s = "REFUNDED" THEN Answer(p, s)
     ELSE GoWith(p, "verify", Order(p), s)
  /\ UNCHANGED <<storeVars, paystackVars>> /\ Quiet

(* What to do with an unpaid order read as pending: release it to s. *)
Unpaid(p, s) ==
  IF worker[p].snap = "PENDING" THEN GoWith(p, "release", Order(p), s)
                                ELSE Answer(p, worker[p].snap)

(* A bug: an unknown reference is always an error. *)
VerifyUnknownFails(p) ==
  /\ At(p, "verify")
  /\ txn[Order(p)] = "none"
  /\ Throw(p)
  /\ UNCHANGED <<storeVars, paystackVars>> /\ Quiet

(* 404, or "not found". *)
VerifyUnknown(p) ==
  /\ At(p, "verify")
  /\ txn[Order(p)] = "none"
  /\ IF worker[p].snap = "PENDING" /\ expired[Order(p)]
       THEN GoWith(p, "release", Order(p), "EXPIRED") ELSE Throw(p)
  /\ UNCHANGED <<storeVars, paystackVars>> /\ Quiet

(* Paystack calls an unpaid transaction abandoned, or failed after an      *)
(* attempt, although it can still be paid later.                           *)
VerifyAbandoned(p) ==
  /\ At(p, "verify")
  /\ txn[Order(p)] = "open"
  /\ Unpaid(p, "FAILED")
  /\ UNCHANGED <<storeVars, paystackVars>> /\ Quiet

(* A bug: everything that has not failed counts as paid. *)
VerifyNotFailed(p) ==
  /\ At(p, "verify")
  /\ txn[Order(p)] = "open"
  /\ Go(p, "markPaid")
  /\ UNCHANGED <<storeVars, paystackVars>> /\ Quiet

VerifyOngoing(p) ==
  /\ At(p, "verify")
  /\ txn[Order(p)] = "open"
  /\ IF expired[Order(p)] THEN Unpaid(p, "EXPIRED")
                          ELSE Answer(p, worker[p].snap)
  /\ UNCHANGED <<storeVars, paystackVars>> /\ Quiet

Released == {"FAILED", "EXPIRED"}

VerifyCaptured(p) ==
  /\ At(p, "verify")
  /\ txn[Order(p)] = "captured"
  /\ Go(p, IF worker[p].snap \in Released THEN "claimRefund" ELSE "markPaid")
  /\ UNCHANGED <<storeVars, paystackVars>> /\ Quiet

(* markOrderPaid: the transaction commits ... *)
MarkPaid(p) ==
  /\ At(p, "markPaid")
  /\ MarkOrderPaid(Order(p))
  /\ Go(p, "email")
  /\ UNCHANGED paystackVars /\ Quiet

(* ... or is rolled back because a seat's address is registered ... *)
MarkPaidRolledBack(p) ==
  /\ At(p, "markPaid")
  /\ status[Order(p)] = "PENDING"
  /\ ~SeatsUnregistered(Order(p))
  /\ Throw(p)
  /\ UNCHANGED <<storeVars, paystackVars>> /\ Quiet

(* ... or finds the order settled by somebody else. *)
MarkPaidTooLate(p) ==
  LET s == status[Order(p)] IN
  /\ At(p, "markPaid")
  /\ s # "PENDING"
  /\ IF s = "PAID" THEN Go(p, "email")
     ELSE IF s \in Released THEN Go(p, "claimRefund")
     ELSE Answer(p, s)
  /\ UNCHANGED <<storeVars, paystackVars>> /\ Quiet

(* emailPaidOrderPass; its own steps are in TicketDelivery. *)
EmailTickets(p) ==
  /\ At(p, "email")
  /\ Answer(p, "PAID")
  /\ UNCHANGED <<storeVars, paystackVars>> /\ Quiet

(* releaseReservation does nothing to a settled order, and refreshOrder    *)
(* returns the status it meant to write in either case.                    *)
Release(p) ==
  /\ At(p, "release")
  /\ ReleaseIfPending(Order(p), worker[p].snap)
  /\ Answer(p, worker[p].snap)
  /\ UNCHANGED paystackVars /\ Quiet

(* refundLatePayment *)
RefundClaimed(p) ==
  /\ At(p, "claimRefund")
  /\ ClaimRefund(Order(p))
  /\ Go(p, "refund")
  /\ UNCHANGED paystackVars /\ Quiet

RefundAlreadyClaimed(p) ==
  /\ At(p, "claimRefund")
  /\ status[Order(p)] \notin Released
  /\ Answer(p, status[Order(p)])
  /\ UNCHANGED <<storeVars, paystackVars>> /\ Quiet

RequestRefund(p) ==
  /\ At(p, "refund")
  /\ refunds' = [refunds EXCEPT ![Order(p)] = @ + 1]
  /\ Go(p, "confirm")
  /\ UNCHANGED <<storeVars, txn>> /\ Quiet

Confirm(p) ==
  /\ At(p, "confirm")
  /\ ConfirmRefund(Order(p))
  /\ Answer(p, "REFUNDED")
  /\ UNCHANGED paystackVars /\ Quiet

(* A failed Paystack call or e-mail, with or without effect at the other   *)
(* end, is an exception.                                                   *)
CallFails(p) ==
  /\ worker[p].at \in {"verify", "email", "refund"}
  /\ \/ UNCHANGED refunds
     \/ At(p, "refund") /\ refunds' = [refunds EXCEPT ![Order(p)] = @ + 1]
  /\ Throw(p)
  /\ UNCHANGED <<storeVars, txn>> /\ Fault

-------------------------------------------------------------------------------
(* Crashes, buyers, time and the organizer *)

(* The process dies with the call (all of them, one after the other). *)
Crash(p) ==
  /\ ~At(p, "idle")
  /\ Throw(p)
  /\ UNCHANGED <<storeVars, paystackVars>> /\ Fault

(* A buyer pays on the hosted page, whatever became of the order. *)
Pay(o) ==
  /\ txn[o] = "open"
  /\ url[o]
  /\ txn' = [txn EXCEPT ![o] = "captured"]
  /\ hook' = [hook EXCEPT ![o] = "due"]
  /\ UNCHANGED <<storeVars, worker, refunds>> /\ Quiet

Expire(o) ==
  /\ ExpiryPasses(o)
  /\ UNCHANGED <<worker, paystackVars, hook>> /\ Quiet

(* Whoever is initializing the order has overrun its lease. *)
LeaseRunsOut(o) ==
  /\ LeaseAges(o)
  /\ worker' = [p \in Workers |->
                  IF Order(p) = o /\ worker[p].at \in Initializing
                    THEN [worker[p] EXCEPT !.late = TRUE] ELSE worker[p]]
  /\ UNCHANGED <<paystackVars, hook>> /\ Quiet

Edit ==
  /\ edits < MaxEdits
  /\ edits' = edits + 1
  /\ (\E t \in Tiers : TierNext(t)) \/ (\E e \in Emails : GuestNext(e))
  /\ UNCHANGED <<worker, paystackVars, hook, faults>>

-------------------------------------------------------------------------------
CheckoutInit ==
  /\ Init
  /\ worker = [p \in Workers |-> Idle]
  /\ txn = [o \in Orders |-> "none"]
  /\ refunds = [o \in Orders |-> 0]
  /\ hook = [o \in Orders |-> "none"]
  /\ faults = 0
  /\ edits = 0

(* The steps a call in progress takes when nothing fails. *)
Step(p) ==
  \/ FindPending(p) \/ TakeOver(p) \/ TakeOverRefused(p) \/ ReadTier(p)
  \/ Reserve(p) \/ ReserveRefused(p)
  \/ InitializeAccepted(p) \/ InitializeDuplicate(p)
  \/ AbortInitialization(p) \/ SaveUrl(p)
  \/ ReadOrder(p) \/ VerifyUnknown(p) \/ VerifyAbandoned(p)
  \/ VerifyOngoing(p) \/ VerifyCaptured(p)
  \/ MarkPaid(p) \/ MarkPaidRolledBack(p) \/ MarkPaidTooLate(p)
  \/ EmailTickets(p) \/ Release(p)
  \/ RefundClaimed(p) \/ RefundAlreadyClaimed(p) \/ RequestRefund(p)
  \/ Confirm(p)

Failure(p) ==
  InitializeRejected(p) \/ InitializeLost(p) \/ CallFails(p) \/ Crash(p)

Start(p) ==
  \/ \E r \in Requests : StartCheckout(p, r)
  \/ \E o \in Orders : StartPoll(p, o) \/ StartSweep(p, o) \/ StartWebhook(p, o)

CheckoutNext ==
  \/ \E p \in Workers : Start(p) \/ Step(p) \/ Failure(p)
  \/ \E o \in Orders : Pay(o) \/ Expire(o) \/ LeaseRunsOut(o)
  \/ Edit

CheckoutSpec == CheckoutInit /\ [][CheckoutNext]_vars

(* A call in progress goes on; the server, up again after a crash, sweeps  *)
(* every five minutes; Paystack repeats a notification until it is         *)
(* acknowledged; the clock reaches expiresAt.  Polling is not assumed.     *)
Fairness ==
  /\ \A p \in Workers : WF_vars(Step(p))
  /\ \A o \in Orders :
       /\ SF_vars(\E p \in Workers : StartSweep(p, o))
       /\ SF_vars(\E p \in Workers : StartWebhook(p, o))
       /\ WF_vars(Expire(o))

FairSpec == CheckoutSpec /\ Fairness

-------------------------------------------------------------------------------
(* Properties *)

CheckoutTypeOK ==
  /\ worker \in [Workers ->
       [at : Places, job : {"none", "checkout", "refresh", "webhook"},
        req : Requests \cup {NULL}, ord : Orders \cup {NULL},
        snap : (Statuses \ {"NONE"}) \cup {NULL}, late : BOOLEAN]]
  /\ txn \in [Orders -> {"none", "open", "captured"}]
  /\ refunds \in [Orders -> Nat]
  /\ hook \in [Orders -> {"none", "due", "acked"}]
  /\ faults \in 0..MaxFaults /\ edits \in 0..MaxEdits
  /\ \A p \in Workers :
       worker[p].at \notin {"idle", "findPending", "readTier", "reserve"} =>
         Order(p) # NULL /\ status[Order(p)] # "NONE"

(* The handlers only ever change the tables by OrderStore's statements, so *)
(* all that is proved of those holds of the running service.               *)
KeepsStore == Spec

(* Concurrent and repeated notifications, polls and sweeps, crashes and    *)
(* lost answers never make the service ask Paystack for a refund twice; it *)
(* asks only for money that was captured, only once the order can no       *)
(* longer become a ticket, and never records a refund it did not request.  *)
RefundOnce ==
  \A o \in Orders :
    /\ refunds[o] =< 1
    /\ refunds[o] = 1 =>
         txn[o] = "captured" /\ status[o] \in {"REFUNDING", "REFUNDED"}
    /\ status[o] = "REFUNDED" => refunds[o] = 1

(* Tickets exist only for captured money, whoever reports what and in      *)
(* whatever order: a redirect or a notification is not proof of payment.   *)
PaidIsCaptured ==
  \A o \in Orders : status[o] = "PAID" => txn[o] = "captured"

(* Of two calls that initialize the same checkout at Paystack at most one  *)
(* is within its five-minute lease: the other has overrun.                 *)
OneInitializer ==
  \A p, q \in Workers :
    p # q /\ Order(p) = Order(q)
      /\ worker[p].at \in Initializing /\ worker[q].at \in Initializing
        => worker[p].late \/ worker[q].late

Settled(o) == status[o] \in {"PAID", "REFUNDING", "REFUNDED"}

SeatTaken(o) == ~SeatsUnregistered(o)

(* Captured money does not stay unanswered: the order becomes a ticket or  *)
(* a refund is under way, unless one of its addresses was registered by    *)
(* somebody else meanwhile.                                                *)
CapturedSettles ==
  \A o \in Orders : (txn[o] = "captured") ~> (Settled(o) \/ SeatTaken(o))

(* An expired checkout does not keep its stock, with the same exception.   *)
ExpiredReleases ==
  \A o \in Orders :
    (status[o] = "PENDING" /\ expired[o])
      ~> (status[o] # "PENDING" \/ SeatTaken(o))

(* README.md:191-192: "After payment is verified with Paystack, the API    *)
(* creates the attendee and QR pass for each ticket".  A verified payment  *)
(* whose order is not refunded ends in a ticket.                           *)
CapturedIsServed ==
  \A o \in Orders : (txn[o] = "captured") ~> Settled(o)
===============================================================================
