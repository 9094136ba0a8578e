---------------------------- MODULE CheckoutProofs ----------------------------
(***************************************************************************)
(* Proofs about Checkout, for any number of calls, orders, buyers, faults  *)
(* and edits.                                                              *)
(*                                                                         *)
(* A call keeps what the next await needs (Calls); hence every step is a   *)
(* statement of OrderStore or leaves the tables alone (StoreStep), and     *)
(* what OrderStoreProofs shows of the tables holds of the service.         *)
(***************************************************************************)
EXTENDS Checkout, OrderStoreProofs

-------------------------------------------------------------------------------
(* What a call knows at each place: a call of the checkout endpoint has a  *)
(* request, the others are about an order; one that is going to release an *)
(* order has decided on its status.                                        *)
Jobs == {"none", "checkout", "refresh", "webhook"}

Unbound == {"idle", "findPending", "readTier", "reserve"}
Buying == {"findPending", "claim", "readTier", "reserve"} \cup Initializing

CallType ==
  worker \in [Workers ->
    [at : Places, job : Jobs, req : Requests \cup {NULL},
     ord : Orders \cup {NULL}, snap : (Statuses \ {"NONE"}) \cup {NULL},
     late : BOOLEAN]]

CallOK(p) ==
  /\ worker[p].at \in Buying => worker[p].job = "checkout"
  /\ worker[p].job = "checkout" => Request(p) \in Requests
  /\ worker[p].at \in Unbound <=> Order(p) = NULL
  /\ Order(p) # NULL => status[Order(p)] # "NONE"
  /\ worker[p].at \in {"verify", "release"} => worker[p].snap \in Statuses \ {"NONE"}
  /\ At(p, "release") => worker[p].snap \in Released

Calls == CallType /\ \A p \in Workers : CallOK(p)

LEMMA CallsInit == CheckoutInit => Calls
BY DEF CheckoutInit, Calls, CallType, CallOK, Idle, Call, Init, At, Order, Request,
       Places, Jobs, Unbound, Buying, Initializing

-------------------------------------------------------------------------------
(* The tables *)

(* A call that acts on the tables does so by a statement of OrderStore.    *)
LEMMA StoreStep ==
  ASSUME Calls, [CheckoutNext]_vars
  PROVE  [Next]_storeVars
<1>1. ASSUME NEW p \in Workers, Start(p) \/ Failure(p)
      PROVE  UNCHANGED storeVars
  BY <1>1 DEF Start, Failure, StartCheckout, StartPoll, StartSweep, StartWebhook,
              StartRefresh, InitializeRejected, InitializeLost, CallFails, Crash
<1>2. ASSUME NEW p \in Workers, Step(p) PROVE Next \/ UNCHANGED storeVars
  <2> USE DEF Calls, CallOK, CallType
  <2>1. CASE TakeOver(p)
    <3>1. Order(p) \in Orders
      BY <2>1 DEF TakeOver, At, Order, Unbound
    <3> QED
      BY <2>1, <3>1 DEF TakeOver, Next, OrderNext
  <2>2. CASE Reserve(p)
    <3>1. Request(p) \in Requests
      BY <2>2 DEF Reserve, At, Request, Buying
    <3>2. /\ Request(p).tier \in Tiers /\ Request(p).primary \in Emails
          /\ Request(p).seats \in SUBSET Emails
      BY <3>1, CheckoutAssumption
    <3> QED
      BY <2>2, <3>2 DEF Reserve, Next, OrderNext
  <2>3. CASE AbortInitialization(p)
    <3>1. Order(p) \in Orders
      BY <2>3 DEF AbortInitialization, At, Order, Unbound
    <3> QED
      BY <2>3, <3>1 DEF AbortInitialization, ReleaseIfPending, Next, OrderNext
  <2>4. CASE SaveUrl(p)
    <3>1. Order(p) \in Orders
      BY <2>4 DEF SaveUrl, At, Order, Unbound
    <3> QED
      BY <2>4, <3>1 DEF SaveUrl, Next, OrderNext
  <2>5. CASE MarkPaid(p)
    <3>1. Order(p) \in Orders
      BY <2>5 DEF MarkPaid, At, Order, Unbound
    <3> QED
      BY <2>5, <3>1 DEF MarkPaid, Next, OrderNext
  <2>6. CASE Release(p)
    <3>1. Order(p) \in Orders /\ worker[p].snap \in {"FAILED", "EXPIRED"}
      BY <2>6 DEF Release, At, Order, Unbound, Released
    <3> QED
      BY <2>6, <3>1 DEF Release, ReleaseIfPending, Next, OrderNext
  <2>7. CASE RefundClaimed(p) \/ Confirm(p)
    <3>1. Order(p) \in Orders
      BY <2>7 DEF RefundClaimed, Confirm, At, Order, Unbound
    <3> QED
      BY <2>7, <3>1 DEF RefundClaimed, Confirm, Next, OrderNext
  <2>8. CASE FindPending(p) \/ TakeOverRefused(p) \/ ReadTier(p)
             \/ ReserveRefused(p) \/ InitializeAccepted(p)
             \/ InitializeDuplicate(p) \/ ReadOrder(p) \/ VerifyUnknown(p)
             \/ VerifyAbandoned(p) \/ VerifyOngoing(p) \/ VerifyCaptured(p)
             \/ MarkPaidRolledBack(p) \/ MarkPaidTooLate(p) \/ EmailTickets(p)
             \/ RefundAlreadyClaimed(p) \/ RequestRefund(p)
    BY <2>8 DEF FindPending, TakeOverRefused, ReadTier, ReserveRefused,
                InitializeAccepted, InitializeDuplicate, ReadOrder,
                VerifyUnknown, VerifyAbandoned, VerifyOngoing, VerifyCaptured,
                MarkPaidRolledBack, MarkPaidTooLate, EmailTickets,
                RefundAlreadyClaimed, RequestRefund
  <2> QED
    BY <1>2, <2>1, <2>2, <2>3, <2>4, <2>5, <2>6, <2>7, <2>8 DEF Step
<1>3. ASSUME NEW o \in Orders, Pay(o) \/ Expire(o) \/ LeaseRunsOut(o)
      PROVE  Next \/ UNCHANGED storeVars
  BY <1>3 DEF Pay, Expire, LeaseRunsOut, Next, OrderNext
<1>4. CASE Edit
  BY <1>4 DEF Edit, Next
<1>5. CASE UNCHANGED vars
  BY <1>5 DEF vars
<1> QED
  BY <1>1, <1>2, <1>3, <1>4, <1>5 DEF CheckoutNext

-------------------------------------------------------------------------------
(* The calls *)

(* An order that exists goes on existing. *)
LEMMA OrdersStay ==
  ASSUME TypeOK, [Next]_storeVars, NEW o \in Orders, status[o] # "NONE"
  PROVE  status'[o] \in Statuses \ {"NONE"}
<1>1. TypeOK'
  BY TypeStep
<1>3. SettlementStep
  BY SettlementFact
<1>2. status[o] \in Statuses \ {"NONE"}
  BY DEF TypeOK
<1> QED
  BY <1>2, <1>3 DEF SettlementStep, Statuses

(* A step of call p leaves the other calls as they are. *)
OnlyCall(p) == \A q \in Workers \ {p} : worker'[q] = worker[q]

(* What the last step of a handler does to its call. *)
LEMMA EndEffect ==
  ASSUME Calls, NEW p \in Workers, Throw(p) \/ Return(p)
  PROVE  CallType' /\ CallOK(p)' /\ OnlyCall(p) /\ worker'[p] = Idle
<1>1. worker' = [worker EXCEPT ![p] = Idle]
  BY DEF Throw, Return
<1>2. worker'[p] = Idle /\ OnlyCall(p)
  BY <1>1 DEF Calls, CallType, OnlyCall
<1>3. CallOK(p)'
  BY <1>2 DEF CallOK, Idle, Call, Order, Request, At, Unbound, Buying, Initializing
<1>4. CallType'
  BY <1>1 DEF Calls, CallType, Idle, Call, Places, Jobs
<1> QED
  BY <1>2, <1>3, <1>4

(* What a call keeps when it only moves on. *)
Keeps(p) ==
  /\ worker'[p].job = worker[p].job /\ worker'[p].req = worker[p].req
  /\ worker'[p].late = worker[p].late

LEMMA GoEffect ==
  ASSUME Calls, NEW p \in Workers, NEW place \in Places, Go(p, place)
  PROVE  /\ CallType' /\ OnlyCall(p) /\ Keeps(p)
         /\ worker'[p].at = place
         /\ worker'[p].ord = worker[p].ord /\ worker'[p].snap = worker[p].snap
BY DEF Calls, CallType, Go, OnlyCall, Keeps

LEMMA GoWithEffect ==
  ASSUME Calls, NEW p \in Workers, NEW place \in Places,
         NEW o \in Orders \cup {NULL}, NEW s \in (Statuses \ {"NONE"}) \cup {NULL},
         GoWith(p, place, o, s)
  PROVE  /\ CallType' /\ OnlyCall(p) /\ Keeps(p)
         /\ worker'[p].at = place
         /\ worker'[p].ord = o /\ worker'[p].snap = s
BY DEF Calls, CallType, GoWith, OnlyCall, Keeps

LEMMA AnswerEffect ==
  ASSUME Calls, NEW p \in Workers, NEW s, Answer(p, s)
  PROVE  CallType' /\ OnlyCall(p) /\ CallOK(p)' /\ worker'[p].at \in Unbound
<1>1. CASE worker[p].job = "checkout" /\ s \notin {"PAID", "PENDING"}
  <2>1. GoWith(p, "readTier", NULL, NULL)
    BY <1>1 DEF Answer
  <2>2. /\ CallType' /\ OnlyCall(p) /\ Keeps(p) /\ worker'[p].at = "readTier"
        /\ worker'[p].ord = NULL /\ worker'[p].snap = NULL
    BY <2>1, GoWithEffect DEF Places
  <2> QED
    BY <1>1, <2>2 DEF Calls, CallOK, Keeps, At, Order, Request, Unbound, Buying,
                      Initializing
<1>2. CASE ~(worker[p].job = "checkout" /\ s \notin {"PAID", "PENDING"})
  BY <1>2, EndEffect DEF Answer, Idle, Call, Unbound
<1> QED
  BY <1>1, <1>2

(* The steps before an order is reserved or taken over. *)
LEMMA BuyingMove ==
  ASSUME Calls, TypeOK, NEW p \in Workers,
         \A o \in Orders : status[o] # "NONE" => status'[o] # "NONE",
         \/ FindPending(p) \/ TakeOver(p) \/ TakeOverRefused(p)
         \/ ReadTier(p) \/ Reserve(p) \/ ReserveRefused(p)
  PROVE  CallType' /\ OnlyCall(p) /\ CallOK(p)'
<1> USE DEF At, Order, Request, Unbound, Buying, Initializing
<1>1. CASE FindPending(p)
  <2>1. /\ worker[p].job = "checkout" /\ Request(p) \in Requests
        /\ Order(p) = NULL
    BY <1>1 DEF FindPending, Calls, CallOK
  <2>2. CASE Go(p, "readTier")
    BY <2>1, <2>2, GoEffect DEF Places, CallOK, Keeps
  <2>3. ASSUME NEW o \in PendingFor(Request(p)), NEW place \in {"readOrder", "claim"},
               GoWith(p, place, o, NULL)
        PROVE  CallType' /\ OnlyCall(p) /\ CallOK(p)'
    <3>1. o \in Orders /\ status[o] # "NONE" /\ o # NULL
      BY CheckoutAssumption DEF PendingFor
    <3>2. CallType' /\ OnlyCall(p) /\ Keeps(p) /\ worker'[p].at = place
          /\ worker'[p].ord = o
      BY <2>3, <3>1, GoWithEffect DEF Places
    <3> QED
      BY <2>1, <3>1, <3>2 DEF CallOK, Keeps
  <2>4. CASE Return(p)
    BY <2>4, EndEffect
  <2> QED
    BY <1>1, <2>2, <2>3, <2>4 DEF FindPending
<1>2. CASE TakeOver(p)
  BY <1>2, GoEffect DEF TakeOver, Places, Calls, CallOK, Keeps, CallType
<1>3. CASE TakeOverRefused(p) \/ ReserveRefused(p)
  BY <1>3, EndEffect DEF TakeOverRefused, ReserveRefused
<1>4. CASE ReadTier(p)
  <2>1. CASE Throw(p)
    BY <2>1, EndEffect
  <2>2. CASE Go(p, "reserve")
    BY <1>4, <2>2, GoEffect DEF ReadTier, Places, Calls, CallOK, Keeps
  <2> QED
    BY <1>4, <2>1, <2>2 DEF ReadTier
<1>5. CASE Reserve(p)
  <2>1. PICK o \in Orders :
          /\ ReserveAndCreate(o, Request(p).tier, Request(p).primary, Request(p).seats)
          /\ GoWith(p, "initialize", o, NULL)
    BY <1>5 DEF Reserve
  <2>2. status'[o] # "NONE" /\ o # NULL
    BY <2>1, CheckoutAssumption DEF ReserveAndCreate, TypeOK
  <2>3. CallType' /\ OnlyCall(p) /\ Keeps(p) /\ worker'[p].at = "initialize"
        /\ worker'[p].ord = o
    BY <2>1, GoWithEffect DEF Places
  <2> QED
    BY <1>5, <2>2, <2>3 DEF Reserve, Calls, CallOK, Keeps
<1> QED
  BY <1>1, <1>2, <1>3, <1>4, <1>5

(* The steps at Paystack when a checkout is initialized. *)
LEMMA InitializingMove ==
  ASSUME Calls, NEW p \in Workers,
         \A o \in Orders : status[o] # "NONE" => status'[o] # "NONE",
         \/ InitializeAccepted(p) \/ InitializeDuplicate(p)
         \/ InitializeRejected(p) \/ InitializeLost(p)
         \/ AbortInitialization(p) \/ SaveUrl(p)
  PROVE  CallType' /\ OnlyCall(p) /\ CallOK(p)'
<1> USE DEF At, Order, Request, Unbound, Buying, Initializing
<1>1. ASSUME NEW place \in {"saveUrl", "abort"}, Go(p, place),
             At(p, "initialize")
      PROVE  CallType' /\ OnlyCall(p) /\ CallOK(p)'
  BY <1>1, GoEffect DEF Places, Calls, CallOK, Keeps, CallType
<1>2. CASE InitializeAccepted(p) \/ InitializeDuplicate(p) \/ InitializeRejected(p)
  BY <1>1, <1>2 DEF InitializeAccepted, InitializeDuplicate, InitializeRejected
<1>3. CASE InitializeLost(p) \/ AbortInitialization(p) \/ SaveUrl(p)
  BY <1>3, EndEffect DEF InitializeLost, AbortInitialization, SaveUrl
<1> QED
  BY <1>2, <1>3

(* The steps of refreshOrder, markOrderPaid and refundLatePayment. *)
LEMMA RefreshMove ==
  ASSUME Calls, TypeOK, NEW p \in Workers,
         \A o \in Orders : status[o] # "NONE" => status'[o] # "NONE",
         \/ ReadOrder(p) \/ VerifyUnknown(p) \/ VerifyAbandoned(p)
         \/ VerifyOngoing(p) \/ VerifyCaptured(p)
         \/ MarkPaid(p) \/ MarkPaidRolledBack(p) \/ MarkPaidTooLate(p)
         \/ EmailTickets(p) \/ Release(p)
         \/ RefundClaimed(p) \/ RefundAlreadyClaimed(p) \/ RequestRefund(p)
         \/ Confirm(p)
  PROVE  CallType' /\ OnlyCall(p) /\ CallOK(p)'
<1> USE DEF At, Order, Request, Unbound, Buying, Initializing
<1>1. ASSUME NEW place \in {"email", "claimRefund", "markPaid", "refund", "confirm"},
             Go(p, place), worker[p].at \notin Unbound
      PROVE  CallType' /\ OnlyCall(p) /\ CallOK(p)'
  BY <1>1, GoEffect DEF Places, Calls, CallOK, Keeps, CallType
<1>2. ASSUME NEW place \in {"verify", "release"}, NEW s \in Statuses \ {"NONE"},
             place = "release" => s \in Released,
             GoWith(p, place, Order(p), s), worker[p].at \notin Unbound
      PROVE  CallType' /\ OnlyCall(p) /\ CallOK(p)'
  <2>1. Order(p) \in Orders /\ Order(p) # NULL /\ status'[Order(p)] # "NONE"
    BY <1>2 DEF Calls, CallOK, CallType
  <2>2. CallType' /\ OnlyCall(p) /\ Keeps(p) /\ worker'[p].at = place
        /\ worker'[p].ord = Order(p) /\ worker'[p].snap = s
    BY <1>2, <2>1, GoWithEffect DEF Places
  <2> QED
    BY <1>2, <2>1, <2>2 DEF Calls, CallOK, Keeps
<1>3. ASSUME NEW s \in {"FAILED", "EXPIRED"}, Unpaid(p, s), At(p, "verify")
      PROVE  CallType' /\ OnlyCall(p) /\ CallOK(p)'
  BY <1>2, <1>3, AnswerEffect DEF Unpaid, Released, Statuses
<1>4. CASE ReadOrder(p)
  <2>1. status[Order(p)] \in Statuses \ {"NONE"}
    BY <1>4 DEF ReadOrder, Calls, CallOK, CallType, TypeOK
  <2> QED
    BY <1>1, <1>2, <1>4, <2>1, AnswerEffect DEF ReadOrder
<1>5. CASE VerifyUnknown(p)
  BY <1>2, <1>5, EndEffect DEF VerifyUnknown, Released, Statuses
<1>6. CASE VerifyAbandoned(p) \/ VerifyOngoing(p)
  BY <1>3, <1>6, AnswerEffect DEF VerifyAbandoned, VerifyOngoing
<1>7. CASE VerifyCaptured(p) \/ MarkPaid(p) \/ RefundClaimed(p) \/ RequestRefund(p)
  BY <1>1, <1>7 DEF VerifyCaptured, MarkPaid, RefundClaimed, RequestRefund
<1>8. CASE MarkPaidTooLate(p)
  BY <1>1, <1>8, AnswerEffect DEF MarkPaidTooLate
<1>9. CASE MarkPaidRolledBack(p)
  BY <1>9, EndEffect DEF MarkPaidRolledBack
<1>10. CASE EmailTickets(p) \/ Release(p) \/ RefundAlreadyClaimed(p) \/ Confirm(p)
  BY <1>10, AnswerEffect DEF EmailTickets, Release, RefundAlreadyClaimed, Confirm
<1> QED
  BY <1>4, <1>5, <1>6, <1>7, <1>8, <1>9, <1>10

LEMMA StartMove ==
  ASSUME Calls, NEW p \in Workers, Start(p),
         \A o \in Orders : status[o] # "NONE" => status'[o] # "NONE",
         \A o \in Orders : hook[o] = "due" => status[o] # "NONE"
  PROVE  CallType' /\ OnlyCall(p) /\ CallOK(p)'
<1> USE DEF At, Order, Request, Unbound, Buying, Initializing
<1>1. ASSUME NEW r \in Requests, StartCheckout(p, r)
      PROVE  CallType' /\ OnlyCall(p) /\ CallOK(p)'
  <2>1. CASE worker' = worker
    BY <1>1, <2>1 DEF StartCheckout, Calls, CallType, CallOK, OnlyCall
  <2>2. CASE r.seats \cap attendees = {}
    <3>1. worker' = [worker EXCEPT ![p] = Call("findPending", "checkout", r, NULL)]
      BY <1>1, <2>2 DEF StartCheckout
    <3>2. /\ CallType' /\ OnlyCall(p)
          /\ worker'[p] = Call("findPending", "checkout", r, NULL)
      BY <3>1 DEF Calls, CallType, OnlyCall, Places, Jobs, Call
    <3> QED
      BY <3>2 DEF CallOK, Call
  <2> QED
    BY <1>1, <2>1, <2>2 DEF StartCheckout
<1>2. ASSUME NEW o \in Orders, NEW j \in {"refresh", "webhook"},
             StartRefresh(p, o, j), status[o] # "NONE"
      PROVE  CallType' /\ OnlyCall(p) /\ CallOK(p)'
  <2>1. worker' = [worker EXCEPT ![p] = Call("readOrder", j, NULL, o)]
    BY <1>2 DEF StartRefresh
  <2>2. CallType' /\ OnlyCall(p) /\ worker'[p] = Call("readOrder", j, NULL, o)
    BY <2>1 DEF Calls, CallType, OnlyCall, Places, Jobs, Call
  <2>3. o # NULL
    BY CheckoutAssumption
  <2> QED
    BY <1>2, <2>2, <2>3 DEF CallOK, Call
<1> QED
  BY <1>1, <1>2 DEF Start, StartPoll, StartSweep, StartWebhook

(* Paystack and the bounds. *)
WorldType ==
  /\ txn \in [Orders -> {"none", "open", "captured"}]
  /\ refunds \in [Orders -> Nat]
  /\ hook \in [Orders -> {"none", "due", "acked"}]
  /\ faults \in 0..MaxFaults /\ edits \in 0..MaxEdits

(* Only an order that exists has a transaction or a notification. *)
KnownAtPaystack ==
  \A o \in Orders : txn[o] # "none" \/ hook[o] # "none" => status[o] # "NONE"

LEMMA WorldInit == CheckoutInit => WorldType /\ KnownAtPaystack
BY CheckoutAssumption DEF CheckoutInit, Init, WorldType, KnownAtPaystack

(* A call opens a transaction, asks for a refund or acknowledges, for the  *)
(* order it is about.                                                      *)
CallInWorld(p) ==
  /\ UNCHANGED txn \/ Open(Order(p))
  /\ UNCHANGED refunds \/ refunds' = [refunds EXCEPT ![Order(p)] = @ + 1]
  /\ UNCHANGED hook \/ hook' = [hook EXCEPT ![Order(p)] = "acked"]
  /\ UNCHANGED edits
  /\ UNCHANGED faults \/ Fault

LEMMA CallWorld ==
  ASSUME NEW p \in Workers, Start(p) \/ Step(p) \/ Failure(p)
  PROVE  CallInWorld(p)
<1> USE DEF CallInWorld, paystackVars, Quiet, Fault
<1>1. ASSUME NEW place, Go(p, place) PROVE UNCHANGED hook
  BY <1>1 DEF Go
<1>2. ASSUME NEW place, NEW o, NEW s, GoWith(p, place, o, s) PROVE UNCHANGED hook
  BY <1>2 DEF GoWith
<1>3. Throw(p) => UNCHANGED hook
  BY DEF Throw
<1>4. Return(p) => UNCHANGED hook \/ hook' = [hook EXCEPT ![Order(p)] = "acked"]
  BY DEF Return
<1>5. ASSUME NEW s, Answer(p, s) \/ Unpaid(p, s)
      PROVE  UNCHANGED hook \/ hook' = [hook EXCEPT ![Order(p)] = "acked"]
  BY <1>2, <1>3, <1>4, <1>5 DEF Answer, Unpaid
<1>6. CASE Start(p)
  BY <1>6 DEF Start, StartCheckout, StartPoll, StartSweep, StartWebhook, StartRefresh
<1>7. CASE Failure(p)
  BY <1>1, <1>3, <1>7 DEF Failure, InitializeRejected, InitializeLost, CallFails, Crash
<1>8. CASE FindPending(p) \/ TakeOver(p) \/ TakeOverRefused(p) \/ ReadTier(p)
           \/ Reserve(p) \/ ReserveRefused(p) \/ InitializeAccepted(p)
           \/ InitializeDuplicate(p) \/ AbortInitialization(p) \/ SaveUrl(p)
  BY <1>1, <1>2, <1>3, <1>4, <1>8
     DEF FindPending, TakeOver, TakeOverRefused, ReadTier, Reserve,
         ReserveRefused, InitializeAccepted, InitializeDuplicate,
         AbortInitialization, SaveUrl
<1>9. CASE ReadOrder(p) \/ VerifyUnknown(p) \/ VerifyAbandoned(p)
           \/ VerifyOngoing(p) \/ VerifyCaptured(p) \/ MarkPaid(p)
           \/ MarkPaidRolledBack(p) \/ MarkPaidTooLate(p)
  BY <1>1, <1>2, <1>3, <1>5, <1>9
     DEF ReadOrder, VerifyUnknown, VerifyAbandoned, VerifyOngoing,
         VerifyCaptured, MarkPaid, MarkPaidRolledBack, MarkPaidTooLate
<1>10. CASE EmailTickets(p) \/ Release(p) \/ RefundClaimed(p)
            \/ RefundAlreadyClaimed(p) \/ RequestRefund(p) \/ Confirm(p)
  BY <1>1, <1>5, <1>10
     DEF EmailTickets, Release, RefundClaimed, RefundAlreadyClaimed,
         RequestRefund, Confirm
<1> QED
  BY <1>6, <1>7, <1>8, <1>9, <1>10 DEF Step

LEMMA WorldStep ==
  ASSUME Calls, WorldType, KnownAtPaystack, [CheckoutNext]_vars,
         \A o \in Orders : status[o] # "NONE" => status'[o] # "NONE"
  PROVE  WorldType' /\ KnownAtPaystack'
<1> USE CheckoutAssumption DEF WorldType, KnownAtPaystack
<1>1. ASSUME NEW p \in Workers, Start(p) \/ Step(p) \/ Failure(p)
      PROVE  WorldType' /\ KnownAtPaystack'
  <2>1. CallInWorld(p)
    BY <1>1, CallWorld
  <2>2. Order(p) \in Orders => status[Order(p)] # "NONE"
    BY DEF Calls, CallOK
  <2> QED
    BY <2>1, <2>2 DEF CallInWorld, Open, Fault
<1>2. ASSUME NEW o \in Orders, Pay(o) PROVE WorldType' /\ KnownAtPaystack'
  BY <1>2 DEF Pay, storeVars, orderVars, Quiet
<1>3. ASSUME NEW o \in Orders, Expire(o) \/ LeaseRunsOut(o)
      PROVE  WorldType' /\ KnownAtPaystack'
  BY <1>3 DEF Expire, LeaseRunsOut, paystackVars, Quiet
<1>4. CASE Edit
  BY <1>4 DEF Edit, paystackVars
<1>5. CASE UNCHANGED vars
  BY <1>5 DEF vars, paystackVars
<1> QED
  BY <1>1, <1>2, <1>3, <1>4, <1>5 DEF CheckoutNext

-------------------------------------------------------------------------------
(* All of it together *)

CheckoutInv == TypeOK /\ Calls /\ WorldType /\ KnownAtPaystack

LEMMA StoreKept ==
  ASSUME CheckoutInv, [CheckoutNext]_vars
  PROVE  /\ [Next]_storeVars /\ TypeOK' /\ SettlementStep
         /\ \A o \in Orders : status[o] # "NONE" => status'[o] # "NONE"
<1>1. TypeOK /\ Calls
  BY DEF CheckoutInv
<1>2. [Next]_storeVars
  BY <1>1, StoreStep
<1> QED
  BY <1>1, <1>2, TypeStep, SettlementFact, OrdersStay

LEMMA CallMove ==
  ASSUME CheckoutInv, [CheckoutNext]_vars,
         NEW p \in Workers, Start(p) \/ Step(p) \/ Failure(p)
  PROVE  CallType' /\ OnlyCall(p) /\ CallOK(p)'
<1>1. /\ TypeOK /\ Calls /\ KnownAtPaystack
      /\ \A o \in Orders : status[o] # "NONE" => status'[o] # "NONE"
  BY StoreKept DEF CheckoutInv
<1>2. CASE Start(p)
  BY <1>1, <1>2, StartMove DEF KnownAtPaystack
<1>3. CASE Step(p)
  BY <1>1, <1>3, BuyingMove, InitializingMove, RefreshMove DEF Step
<1>4. CASE Failure(p)
  BY <1>1, <1>4, InitializingMove, EndEffect DEF Failure, CallFails, Crash
<1> QED
  BY <1>2, <1>3, <1>4

(* A step of nobody's call moves no call; a lease may be overrun. *)
LEMMA NoCallMoves ==
  ASSUME Calls,
         \/ \E o \in Orders : Pay(o) \/ Expire(o) \/ LeaseRunsOut(o)
         \/ Edit
         \/ UNCHANGED vars
  PROVE  /\ CallType'
         /\ \A p \in Workers :
              /\ worker'[p].at = worker[p].at /\ worker'[p].job = worker[p].job
              /\ worker'[p].req = worker[p].req /\ worker'[p].ord = worker[p].ord
              /\ worker'[p].snap = worker[p].snap
<1>1. ASSUME NEW o \in Orders, LeaseRunsOut(o)
      PROVE  /\ CallType'
             /\ \A p \in Workers :
                  /\ worker'[p].at = worker[p].at /\ worker'[p].job = worker[p].job
                  /\ worker'[p].req = worker[p].req /\ worker'[p].ord = worker[p].ord
                  /\ worker'[p].snap = worker[p].snap
  BY <1>1 DEF LeaseRunsOut, Calls, CallType
<1> QED
  BY <1>1 DEF Calls, CallType, Pay, Expire, Edit, vars

LEMMA CheckoutInvStep ==
  CheckoutInv /\ [CheckoutNext]_vars => CheckoutInv'
<1> SUFFICES ASSUME CheckoutInv, [CheckoutNext]_vars PROVE CheckoutInv'
  OBVIOUS
<1>1. TypeOK /\ Calls /\ WorldType /\ KnownAtPaystack
  BY DEF CheckoutInv
<1>2. /\ TypeOK'
      /\ \A o \in Orders : status[o] # "NONE" => status'[o] # "NONE"
  BY StoreKept
<1>3. WorldType' /\ KnownAtPaystack'
  BY <1>1, <1>2, WorldStep
<1>4. Calls'
  <2>1. ASSUME NEW p \in Workers, Start(p) \/ Step(p) \/ Failure(p) PROVE Calls'
    <3>1. CallType' /\ OnlyCall(p) /\ CallOK(p)'
      BY <2>1, CallMove
    <3> QED
      BY <1>1, <1>2, <3>1 DEF Calls, CallType, CallOK, OnlyCall, At, Order, Request
  <2>2. CASE \/ \E o \in Orders : Pay(o) \/ Expire(o) \/ LeaseRunsOut(o)
             \/ Edit
             \/ UNCHANGED vars
    <3>1. /\ CallType'
          /\ \A p \in Workers :
               /\ worker'[p].at = worker[p].at /\ worker'[p].job = worker[p].job
               /\ worker'[p].req = worker[p].req /\ worker'[p].ord = worker[p].ord
               /\ worker'[p].snap = worker[p].snap
      BY <1>1, <2>2, NoCallMoves
    <3>2. ASSUME NEW p \in Workers PROVE CallOK(p)'
      <4>1. CallOK(p) /\ (Order(p) \in Orders \/ Order(p) = NULL)
        BY <1>1 DEF Calls, CallType, Order
      <4> QED
        BY <1>2, <3>1, <4>1 DEF CallOK, At, Order, Request
    <3> QED
      BY <3>1, <3>2 DEF Calls
  <2> QED
    BY <2>1, <2>2 DEF CheckoutNext
<1> QED
  BY <1>2, <1>3, <1>4 DEF CheckoutInv

LEMMA CheckoutInvariant == CheckoutSpec => []CheckoutInv
<1>1. CheckoutInit => CheckoutInv
  BY TypeInit, CallsInit, WorldInit DEF CheckoutInit, CheckoutInv
<1> QED
  BY <1>1, CheckoutInvStep, PTL DEF CheckoutSpec

(* Every call has the data its place requires, its order exists, and       *)
(* Paystack's side and the bounds keep their types.                        *)
THEOREM CallsTypeCorrect == CheckoutSpec => []CheckoutTypeOK
<1>1. CheckoutInv => CheckoutTypeOK
  BY DEF CheckoutInv, Calls, CallType, CallOK, WorldType, CheckoutTypeOK, Order,
         Unbound, Jobs
<1> QED
  BY <1>1, CheckoutInvariant, PTL

(* Whatever calls overlap, crash or lose an answer, the running service    *)
(* changes the tables by OrderStore's statements only, so that every       *)
(* theorem of OrderStoreProofs holds of it.                                *)
THEOREM ServiceKeepsStore == CheckoutSpec => KeepsStore
<1>1. CheckoutInit => Init
  BY DEF CheckoutInit
<1>2. CheckoutInv /\ [CheckoutNext]_vars => [Next]_storeVars
  BY StoreStep DEF CheckoutInv
<1> QED
  BY <1>1, <1>2, CheckoutInvariant, PTL DEF CheckoutSpec, KeepsStore, Spec

(* What that gives: however createCheckout, the webhook, polls and sweeps  *)
(* meet, the counters equal the orders' seats, no tier is oversold, a      *)
(* buyer has one open checkout, a ticket has a paid order, orders settle   *)
(* one way only, and seats are held, bought and given back as TicketSale   *)
(* promises.                                                               *)
THEOREM ServiceSellsCorrectly ==
  CheckoutSpec => /\ []InventoryAccounted /\ []NoOversell /\ []ReservationCovers
                  /\ []OneActiveCheckout /\ []PassBacked
                  /\ Settlement /\ SaleSpec
BY ServiceKeepsStore, InventoryCorrect, NeverOversold, ReservationNeverMissing,
   CheckoutUnique, TicketsBacked, SettlementCorrect, ImplementsSale
   DEF KeepsStore

-------------------------------------------------------------------------------
(* Captured money *)

(* Where a call has seen that the money of its order was captured. *)
Paying == {"markPaid", "claimRefund", "refund", "confirm"}

(* What the places of a call and the tables say of Paystack.  A call may   *)
(* ask for the refund only while its order is being refunded and nobody    *)
(* has asked, and no other call is about to ask.                           *)
MoneyOf(o) ==
  /\ refunds[o] \in {0, 1}
  /\ refunds[o] = 1 => status[o] \in {"REFUNDING", "REFUNDED"}
  /\ status[o] = "REFUNDED" => refunds[o] = 1
  /\ status[o] \in {"PAID", "REFUNDING", "REFUNDED"} => txn[o] = "captured"

CallSeesMoney(p) ==
  /\ worker[p].at \in Paying => txn[Order(p)] = "captured"
  /\ At(p, "refund") => status[Order(p)] = "REFUNDING" /\ refunds[Order(p)] = 0
  /\ At(p, "confirm") => refunds[Order(p)] = 1

OneRequest ==
  \A p, q \in Workers :
    p # q /\ At(p, "refund") /\ At(q, "refund") => Order(p) # Order(q)

MoneyInv ==
  /\ \A o \in Orders : MoneyOf(o)
  /\ \A p \in Workers : CallSeesMoney(p)
  /\ OneRequest

(* A step that only concerns orders for which nothing is captured yet. *)
Unrelated ==
  /\ \A o \in Orders : status'[o] # status[o] =>
       /\ status[o] \in {"NONE", "PENDING"}
       /\ status'[o] \in {"PENDING", "FAILED", "EXPIRED"}
  /\ \A o \in Orders : txn[o] = "captured" => txn'[o] = "captured"
  /\ UNCHANGED refunds

LEMMA TablesUnrelated ==
  ASSUME TypeOK, WorldType, NEW o \in Orders,
         \/ UNCHANGED storeVars
         \/ \E t \in Tiers, e \in Emails, S \in SUBSET Emails :
              ReserveAndCreate(o, t, e, S)
         \/ ClaimInitialization(o) \/ SaveAuthorizationUrl(o)
         \/ \E to \in Released : ReleaseIfPending(o, to),
         UNCHANGED txn \/ Open(o), UNCHANGED refunds
  PROVE  Unrelated
BY DEF TypeOK, WorldType, Unrelated, storeVars, orderVars, ReserveAndCreate,
       ClaimInitialization, SaveAuthorizationUrl, ReleaseIfPending,
       ReleaseReservation, Released, Open

(* The steps of a call before the money of its order is seen. *)
LEMMA UnpaidMove ==
  ASSUME CheckoutInv, NEW p \in Workers,
         \/ Start(p)
         \/ FindPending(p) \/ TakeOver(p) \/ TakeOverRefused(p) \/ ReadTier(p)
         \/ Reserve(p) \/ ReserveRefused(p)
         \/ InitializeAccepted(p) \/ InitializeDuplicate(p)
         \/ InitializeRejected(p) \/ InitializeLost(p)
         \/ AbortInitialization(p) \/ SaveUrl(p)
         \/ ReadOrder(p) \/ VerifyUnknown(p) \/ VerifyAbandoned(p)
         \/ VerifyOngoing(p) \/ MarkPaidRolledBack(p) \/ EmailTickets(p)
         \/ Release(p) \/ RefundAlreadyClaimed(p) \/ Crash(p)
  PROVE  Unrelated /\ worker'[p].at \notin Paying
<1> USE DEF Unrelated
<1>1. TypeOK /\ WorldType /\ Calls /\ CallOK(p)
      /\ Order(p) \in Orders \cup {NULL}
  BY DEF CheckoutInv, Calls, CallType, Order
<1>2. worker'[p].at \notin Paying
  <2> USE DEF Paying
  <2>1. ASSUME Throw(p) \/ Return(p) PROVE worker'[p].at \notin Paying
    BY <1>1, <2>1, EndEffect DEF Idle, Call
  <2>2. ASSUME NEW s, Answer(p, s) PROVE worker'[p].at \notin Paying
    BY <1>1, <2>2, AnswerEffect DEF Unbound
  <2>3. ASSUME NEW place \in Places \ Paying, Go(p, place)
        PROVE  worker'[p].at \notin Paying
    BY <1>1, <2>3, GoEffect
  <2>4. ASSUME NEW place \in Places \ Paying, NEW o, NEW s, GoWith(p, place, o, s)
        PROVE  worker'[p].at \notin Paying
    BY <1>1, <2>4 DEF GoWith, Calls, CallType
  <2>5. ASSUME NEW s, Unpaid(p, s) PROVE worker'[p].at \notin Paying
    BY <2>2, <2>4, <2>5 DEF Unpaid, Places
  <2>6. CASE Start(p)
    BY <1>1, <2>6 DEF Start, StartCheckout, StartPoll, StartSweep, StartWebhook,
                      StartRefresh, Call, At, Calls, CallType
  <2>7. CASE FindPending(p) \/ TakeOver(p) \/ TakeOverRefused(p) \/ ReadTier(p)
             \/ Reserve(p) \/ ReserveRefused(p)
    BY <2>1, <2>3, <2>4, <2>7
       DEF FindPending, TakeOver, TakeOverRefused, ReadTier, Reserve,
           ReserveRefused, Places
  <2>8. CASE InitializeAccepted(p) \/ InitializeDuplicate(p)
             \/ InitializeRejected(p) \/ InitializeLost(p)
             \/ AbortInitialization(p) \/ SaveUrl(p)
    BY <2>1, <2>3, <2>8
       DEF InitializeAccepted, InitializeDuplicate, InitializeRejected,
           InitializeLost, AbortInitialization, SaveUrl, Places
  <2>9. CASE ReadOrder(p) \/ VerifyUnknown(p) \/ VerifyAbandoned(p) \/ VerifyOngoing(p)
    BY <2>1, <2>2, <2>3, <2>4, <2>5, <2>9
       DEF ReadOrder, VerifyUnknown, VerifyAbandoned, VerifyOngoing, Places
  <2>10. CASE MarkPaidRolledBack(p) \/ EmailTickets(p) \/ Release(p)
              \/ RefundAlreadyClaimed(p) \/ Crash(p)
    BY <2>1, <2>2, <2>10
       DEF MarkPaidRolledBack, EmailTickets, Release, RefundAlreadyClaimed, Crash
  <2> QED
    BY <2>6, <2>7, <2>8, <2>9, <2>10
<1>3. Unrelated
  <2>1. ASSUME UNCHANGED <<storeVars, paystackVars>> PROVE Unrelated
    BY <2>1 DEF storeVars, orderVars, paystackVars
  <2>2. CASE \/ Start(p) \/ FindPending(p) \/ TakeOverRefused(p) \/ ReadTier(p)
             \/ ReserveRefused(p) \/ InitializeDuplicate(p) \/ ReadOrder(p)
             \/ VerifyUnknown(p) \/ VerifyAbandoned(p) \/ VerifyOngoing(p)
             \/ MarkPaidRolledBack(p) \/ EmailTickets(p)
             \/ RefundAlreadyClaimed(p) \/ Crash(p)
    BY <2>1, <2>2
       DEF Start, StartCheckout, StartPoll, StartSweep, StartWebhook,
           StartRefresh, FindPending, TakeOverRefused, ReadTier,
           ReserveRefused, InitializeDuplicate, ReadOrder, VerifyUnknown,
           VerifyAbandoned, VerifyOngoing, MarkPaidRolledBack, EmailTickets,
           RefundAlreadyClaimed, Crash
  <2>3. CASE Reserve(p)
    <3>1. Request(p) \in Requests
      BY <1>1, <2>3 DEF Reserve, At, CallOK, Buying
    <3>2. /\ Request(p).tier \in Tiers /\ Request(p).primary \in Emails
          /\ Request(p).seats \in SUBSET Emails
      BY <3>1, CheckoutAssumption
    <3>3. PICK o \in Orders :
            ReserveAndCreate(o, Request(p).tier, Request(p).primary, Request(p).seats)
      BY <2>3 DEF Reserve
    <3> QED
      BY <1>1, <2>3, <3>2, <3>3, TablesUnrelated DEF Reserve, paystackVars
  <2>4. CASE TakeOver(p) \/ SaveUrl(p) \/ AbortInitialization(p) \/ Release(p)
    <3>1. Order(p) \in Orders
      BY <1>1, <2>4 DEF TakeOver, SaveUrl, AbortInitialization, Release, At,
                        CallOK, Unbound
    <3>2. At(p, "release") => worker[p].snap \in Released
      BY <1>1 DEF CallOK
    <3> QED
      BY <1>1, <2>4, <3>1, <3>2, TablesUnrelated
         DEF TakeOver, SaveUrl, AbortInitialization, Release, paystackVars,
             Released
  <2>5. CASE InitializeAccepted(p) \/ InitializeRejected(p) \/ InitializeLost(p)
    <3>1. Order(p) \in Orders
      BY <1>1, <2>5 DEF InitializeAccepted, InitializeRejected, InitializeLost,
                        At, CallOK, Unbound
    <3> QED
      BY <1>1, <2>5, <3>1, TablesUnrelated
         DEF InitializeAccepted, InitializeRejected, InitializeLost
  <2> QED
    BY <2>2, <2>3, <2>4, <2>5
<1> QED
  BY <1>2, <1>3

LEMMA NobodyMoneyStep ==
  ASSUME TypeOK, WorldType,
         \/ \E o \in Orders : Pay(o) \/ Expire(o) \/ LeaseRunsOut(o)
         \/ Edit
         \/ UNCHANGED vars
  PROVE  Unrelated
<1> USE DEF Unrelated, storeVars, orderVars, paystackVars
<1>1. ASSUME NEW o \in Orders, Pay(o) PROVE Unrelated
  BY <1>1 DEF Pay, WorldType
<1>2. ASSUME NEW o \in Orders, Expire(o) \/ LeaseRunsOut(o) PROVE Unrelated
  BY <1>2 DEF Expire, LeaseRunsOut, ExpiryPasses, LeaseAges
<1>3. CASE Edit
  BY <1>3 DEF Edit, TierNext, GuestNext, SetQuantity, SetOnSale,
              RegisterAttendee, RemoveAttendee, ChangeEmail
<1>4. CASE UNCHANGED vars
  BY <1>4 DEF vars
<1> QED
  BY <1>1, <1>2, <1>3, <1>4

LEMMA MoneyInit == CheckoutInit => MoneyInv
BY DEF CheckoutInit, Init, MoneyInv, MoneyOf, CallSeesMoney, OneRequest, Paying,
       At, Idle, Call

(* Whoever is not paying after an unrelated step was not, or did not move. *)
LEMMA MoneyUnrelated ==
  ASSUME CheckoutInv, MoneyInv, Unrelated,
         \A p \in Workers :
           \/ worker'[p].at \notin Paying
           \/ worker'[p].at = worker[p].at /\ worker'[p].ord = worker[p].ord
  PROVE  MoneyInv'
<1>1. ASSUME NEW o \in Orders PROVE MoneyOf(o)'
  BY <1>1 DEF MoneyInv, MoneyOf, Unrelated
<1>2. ASSUME NEW p \in Workers PROVE CallSeesMoney(p)'
  <2>1. worker[p].at \in Paying => Order(p) \in Orders
    BY DEF CheckoutInv, Calls, CallType, CallOK, Order, Unbound, Paying
  <2>2. CallSeesMoney(p)
    BY DEF MoneyInv
  <2> QED
    BY <2>1, <2>2 DEF CallSeesMoney, Unrelated, Paying, At, Order
<1>3. OneRequest'
  BY DEF MoneyInv, OneRequest, Paying, At, Order
<1> QED
  BY <1>1, <1>2, <1>3 DEF MoneyInv

(* The steps of a call that has seen captured money. *)
LEMMA PaidMove ==
  ASSUME CheckoutInv, MoneyInv, NEW p \in Workers, OnlyCall(p),
         \/ VerifyCaptured(p) \/ MarkPaid(p) \/ MarkPaidTooLate(p)
         \/ RefundClaimed(p) \/ RequestRefund(p) \/ Confirm(p) \/ CallFails(p)
  PROVE  MoneyInv'
<1> USE DEF At, Order
<1>1. /\ TypeOK /\ WorldType /\ Calls /\ CallOK(p)
      /\ worker[p].at \notin Unbound => Order(p) \in Orders
  BY DEF CheckoutInv, Calls, CallType, CallOK
<1>2. \A q \in Workers : worker[q].at \in Paying => Order(q) \in Orders
  BY DEF CheckoutInv, Calls, CallType, CallOK, Unbound, Paying
<1>3. CallSeesMoney(p) /\ \A o \in Orders : MoneyOf(o)
  BY DEF MoneyInv
<1>4. \A q \in Workers \ {p} : worker'[q] = worker[q]
  BY DEF OnlyCall
<1>5. ASSUME NEW s, Answer(p, s) PROVE worker'[p].at \notin Paying
  BY <1>1, <1>5, AnswerEffect DEF Unbound, Paying
<1>6. ASSUME Throw(p) PROVE worker'[p].at \notin Paying
  BY <1>1, <1>6, EndEffect DEF Idle, Call, Paying
<1>7. ASSUME NEW place \in Places, Go(p, place)
      PROVE  worker'[p].at = place /\ worker'[p].ord = worker[p].ord
  BY <1>1, <1>7, GoEffect
<1>8. CASE VerifyCaptured(p)
  <2>1. /\ worker'[p].at \in {"claimRefund", "markPaid"}
        /\ worker'[p].ord = worker[p].ord /\ txn[Order(p)] = "captured"
        /\ UNCHANGED <<status, txn, refunds>>
    BY <1>7, <1>8 DEF VerifyCaptured, Places, storeVars, orderVars, paystackVars
  <2> QED
    BY <1>2, <1>4, <2>1 DEF MoneyInv, MoneyOf, CallSeesMoney, OneRequest, Paying
<1>9. CASE MarkPaid(p)
  <2>1. /\ worker'[p].at = "email" /\ txn[Order(p)] = "captured"
        /\ Order(p) \in Orders /\ status[Order(p)] = "PENDING"
        /\ status' = [status EXCEPT ![Order(p)] = "PAID"]
        /\ UNCHANGED <<txn, refunds>>
    BY <1>1, <1>3, <1>7, <1>9
       DEF MarkPaid, MarkOrderPaid, Places, CallSeesMoney, Paying, Unbound,
           paystackVars
  <2> QED
    BY <1>1, <1>2, <1>4, <2>1
       DEF MoneyInv, MoneyOf, CallSeesMoney, OneRequest, Paying, TypeOK
<1>10. CASE MarkPaidTooLate(p)
  <2>1. /\ worker'[p].at \notin {"markPaid", "refund", "confirm"}
        /\ worker'[p].at \in Paying => worker'[p].ord = worker[p].ord
        /\ txn[Order(p)] = "captured"
        /\ UNCHANGED <<status, txn, refunds>>
    BY <1>3, <1>5, <1>7, <1>10
       DEF MarkPaidTooLate, Places, storeVars, orderVars, paystackVars,
           CallSeesMoney, Paying
  <2> QED
    BY <1>2, <1>4, <2>1 DEF MoneyInv, MoneyOf, CallSeesMoney, OneRequest, Paying
<1>11. CASE RefundClaimed(p)
  <2>1. /\ worker'[p].at = "refund" /\ worker'[p].ord = worker[p].ord
        /\ txn[Order(p)] = "captured"
        /\ Order(p) \in Orders /\ status[Order(p)] \in {"FAILED", "EXPIRED"}
        /\ status' = [status EXCEPT ![Order(p)] = "REFUNDING"]
        /\ UNCHANGED <<txn, refunds>>
    BY <1>1, <1>3, <1>7, <1>11
       DEF RefundClaimed, ClaimRefund, Places, CallSeesMoney, Paying, Unbound,
           paystackVars
  <2>2. refunds[Order(p)] = 0
    BY <1>3, <2>1 DEF MoneyOf
  <2> QED
    BY <1>1, <1>2, <1>4, <2>1, <2>2
       DEF MoneyInv, MoneyOf, CallSeesMoney, OneRequest, Paying, TypeOK
<1>12. ASSUME At(p, "refund"), refunds' = [refunds EXCEPT ![Order(p)] = @ + 1],
              UNCHANGED <<status, txn>>,
              \/ worker'[p].at \notin Paying
              \/ worker'[p].at = "confirm" /\ worker'[p].ord = worker[p].ord
       PROVE  MoneyInv'
  <2>1. /\ Order(p) \in Orders /\ refunds[Order(p)] = 0
        /\ status[Order(p)] = "REFUNDING" /\ txn[Order(p)] = "captured"
    BY <1>2, <1>3, <1>12 DEF CallSeesMoney, Paying
  <2>2. /\ refunds'[Order(p)] = 1
        /\ \A o \in Orders \ {Order(p)} : refunds'[o] = refunds[o]
    BY <1>1, <1>12, <2>1 DEF WorldType
  <2>3. \A o \in Orders : MoneyOf(o)'
    BY <1>3, <1>12, <2>1, <2>2 DEF MoneyOf
  <2>4. ASSUME NEW q \in Workers \ {p} PROVE CallSeesMoney(q)'
    <3>1. CallSeesMoney(q) /\ (At(q, "refund") => Order(q) # Order(p))
      BY <1>12 DEF MoneyInv, OneRequest
    <3>2. worker'[q] = worker[q] /\ (worker[q].at \in Paying => Order(q) \in Orders)
      BY <1>2, <1>4
    <3>3. At(q, "confirm") => refunds'[Order(q)] = 1
      BY <2>2, <3>1, <3>2 DEF CallSeesMoney, Paying
    <3> QED
      BY <1>12, <2>2, <3>1, <3>2, <3>3 DEF CallSeesMoney, Paying
  <2>5. CallSeesMoney(p)'
    BY <1>12, <2>1, <2>2 DEF CallSeesMoney, Paying
  <2>6. OneRequest'
    BY <1>4, <1>12 DEF MoneyInv, OneRequest, Paying
  <2> QED
    BY <2>3, <2>4, <2>5, <2>6 DEF MoneyInv
<1>13. CASE RequestRefund(p)
  BY <1>7, <1>12, <1>13 DEF RequestRefund, Places, storeVars, orderVars
<1>14. CASE Confirm(p)
  <2>1. /\ worker'[p].at \notin Paying /\ txn[Order(p)] = "captured"
        /\ refunds[Order(p)] = 1
        /\ Order(p) \in Orders /\ status[Order(p)] = "REFUNDING"
        /\ status' = [status EXCEPT ![Order(p)] = "REFUNDED"]
        /\ UNCHANGED <<txn, refunds>>
    BY <1>1, <1>3, <1>5, <1>14
       DEF Confirm, ConfirmRefund, CallSeesMoney, Paying, Unbound, paystackVars
  <2> QED
    BY <1>1, <1>2, <1>4, <2>1
       DEF MoneyInv, MoneyOf, CallSeesMoney, OneRequest, Paying, TypeOK
<1>15. CASE CallFails(p)
  <2>1. worker'[p].at \notin Paying /\ UNCHANGED <<status, txn>>
    BY <1>6, <1>15 DEF CallFails, storeVars, orderVars
  <2>2. CASE UNCHANGED refunds
    BY <1>2, <1>4, <2>1, <2>2 DEF MoneyInv, MoneyOf, CallSeesMoney, OneRequest, Paying
  <2>3. CASE At(p, "refund") /\ refunds' = [refunds EXCEPT ![Order(p)] = @ + 1]
    BY <1>12, <2>1, <2>3
  <2> QED
    BY <1>15, <2>2, <2>3 DEF CallFails
<1> QED
  BY <1>8, <1>9, <1>10, <1>11, <1>13, <1>14, <1>15

LEMMA MoneyStep ==
  CheckoutInv /\ MoneyInv /\ [CheckoutNext]_vars => MoneyInv'
<1> SUFFICES ASSUME CheckoutInv, MoneyInv, [CheckoutNext]_vars PROVE MoneyInv'
  OBVIOUS
<1>1. ASSUME NEW p \in Workers, Start(p) \/ Step(p) \/ Failure(p) PROVE MoneyInv'
  <2>1. OnlyCall(p)
    BY <1>1, CallMove
  <2>2. CASE \/ VerifyCaptured(p) \/ MarkPaid(p) \/ MarkPaidTooLate(p)
             \/ RefundClaimed(p) \/ RequestRefund(p) \/ Confirm(p) \/ CallFails(p)
    BY <2>1, <2>2, PaidMove
  <2>3. CASE Unrelated /\ worker'[p].at \notin Paying
    BY <2>1, <2>3, MoneyUnrelated DEF OnlyCall
  <2> QED
    BY <1>1, <2>2, <2>3, UnpaidMove DEF Step, Failure
<1>2. CASE \/ \E o \in Orders : Pay(o) \/ Expire(o) \/ LeaseRunsOut(o)
           \/ Edit
           \/ UNCHANGED vars
  <2>1. TypeOK /\ WorldType /\ Calls
    BY DEF CheckoutInv
  <2>2. Unrelated
    BY <1>2, <2>1, NobodyMoneyStep
  <2>3. \A p \in Workers :
          worker'[p].at = worker[p].at /\ worker'[p].ord = worker[p].ord
    BY <1>2, <2>1, NoCallMoves
  <2> QED
    BY <2>2, <2>3, MoneyUnrelated
<1> QED
  BY <1>1, <1>2 DEF CheckoutNext

LEMMA MoneyInvariant == CheckoutSpec => []MoneyInv
<1>1. CheckoutInit => MoneyInv
  BY MoneyInit
<1> QED
  BY <1>1, MoneyStep, CheckoutInvariant, PTL DEF CheckoutSpec

(* However many notifications, polls and sweeps overlap, and whichever of  *)
(* them crash or lose Paystack's answer, the service asks at most once for *)
(* a refund, only of captured money and only for an order that can no      *)
(* longer become a ticket.                                                 *)
THEOREM RefundedAtMostOnce == CheckoutSpec => []RefundOnce
<1>1. MoneyInv => RefundOnce
  BY DEF MoneyInv, MoneyOf, RefundOnce
<1> QED
  BY <1>1, MoneyInvariant, PTL

(* Nobody gets a ticket from a redirect or a notification alone: a paid    *)
(* order's money was captured.                                             *)
THEOREM TicketsArePaid == CheckoutSpec => []PaidIsCaptured
<1>1. MoneyInv => PaidIsCaptured
  BY DEF MoneyInv, MoneyOf, PaidIsCaptured
<1> QED
  BY <1>1, MoneyInvariant, PTL

-------------------------------------------------------------------------------
(* The initialization lease *)

(* Nobody may take over order o's initialization. *)
Claimed(o) == lease[o] = "fresh" \/ url[o] \/ status[o] # "PENDING"

IsInitializing(p) == worker[p].at \in Initializing

(* A call within its lease keeps the others out. *)
InTime(p) == IsInitializing(p) /\ ~worker[p].late => Claimed(Order(p))

LeaseInv == OneInitializer /\ \A p \in Workers : InTime(p)

LEMMA LeaseInit == CheckoutInit => LeaseInv
BY DEF CheckoutInit, LeaseInv, OneInitializer, InTime, IsInitializing,
       Initializing, Idle, Call

(* Only time takes a claim away. *)
LEMMA ClaimStays ==
  ASSUME TypeOK, [Next]_storeVars, NEW o \in Orders, status[o] # "NONE",
         Claimed(o), lease'[o] = "stale" => lease[o] = "stale"
  PROVE  Claimed(o)'
<1> USE DEF Claimed, TypeOK
<1>1. CASE UNCHANGED storeVars
  BY <1>1 DEF storeVars, orderVars
<1>2. ASSUME NEW q \in Orders, NEW t \in Tiers, NEW e \in Emails,
             NEW S \in SUBSET Emails, ReserveAndCreate(q, t, e, S)
      PROVE  Claimed(o)'
  BY <1>2 DEF ReserveAndCreate
<1>3. ASSUME NEW q \in Orders, ClaimInitialization(q) PROVE Claimed(o)'
  BY <1>3 DEF ClaimInitialization
<1>4. ASSUME NEW q \in Orders, SaveAuthorizationUrl(q) PROVE Claimed(o)'
  BY <1>4 DEF SaveAuthorizationUrl
<1>5. ASSUME NEW q \in Orders, MarkOrderPaid(q) PROVE Claimed(o)'
  BY <1>5 DEF MarkOrderPaid
<1>6. ASSUME NEW q \in Orders, NEW to \in {"FAILED", "EXPIRED"}, ReleaseReservation(q, to)
      PROVE  Claimed(o)'
  BY <1>6 DEF ReleaseReservation
<1>7. ASSUME NEW q \in Orders, ClaimRefund(q) \/ ConfirmRefund(q) PROVE Claimed(o)'
  BY <1>7 DEF ClaimRefund, ConfirmRefund
<1>8. ASSUME NEW q \in Orders, ExpiryPasses(q) PROVE Claimed(o)'
  BY <1>8 DEF ExpiryPasses
<1>9. ASSUME NEW q \in Orders, LeaseAges(q) PROVE Claimed(o)'
  BY <1>9 DEF LeaseAges, Leases
<1>10. CASE \/ \E t \in Tiers : TierNext(t)
            \/ \E e \in Emails : GuestNext(e)
  BY <1>10 DEF TierNext, GuestNext, SetQuantity, SetOnSale, RegisterAttendee,
               RemoveAttendee, ChangeEmail, orderVars
<1> QED
  BY <1>1, <1>2, <1>3, <1>4, <1>5, <1>6, <1>7, <1>8, <1>9, <1>10
     DEF Next, OrderNext

(* What a call's step does to leases: it starts to initialize an order     *)
(* that is new or that nobody claims, goes on, or is somewhere else.       *)
Enters(p) ==
  /\ worker'[p].ord \in Orders
  /\ status[worker'[p].ord] = "NONE" \/ ~Claimed(worker'[p].ord)
  /\ lease'[worker'[p].ord] = "fresh"

GoesOn(p) ==
  /\ IsInitializing(p)
  /\ worker'[p].ord = worker[p].ord /\ worker'[p].late = worker[p].late

LEMMA InitializingStep ==
  ASSUME CheckoutInv, NEW p \in Workers, Start(p) \/ Step(p) \/ Failure(p)
  PROVE  worker'[p].at \notin Initializing \/ Enters(p) \/ GoesOn(p)
<1> USE DEF At, Order
<1>1. /\ TypeOK /\ Calls /\ CallOK(p)
      /\ worker[p].at \notin Unbound => Order(p) \in Orders
  BY DEF CheckoutInv, Calls, CallType, CallOK
<1>2. ASSUME Throw(p) \/ Return(p) PROVE worker'[p].at \notin Initializing
  BY <1>1, <1>2, EndEffect DEF Idle, Call, Initializing
<1>3. ASSUME NEW s, Answer(p, s) PROVE worker'[p].at \notin Initializing
  BY <1>1, <1>3, AnswerEffect DEF Unbound, Initializing
<1>4. ASSUME NEW place \in Places \ Initializing, Go(p, place)
      PROVE  worker'[p].at \notin Initializing
  BY <1>1, <1>4, GoEffect
<1>5. ASSUME NEW place \in Places \ Initializing, NEW o, NEW s, GoWith(p, place, o, s)
      PROVE  worker'[p].at \notin Initializing
  BY <1>1, <1>5 DEF GoWith, Calls, CallType
<1>6. ASSUME NEW s, Unpaid(p, s) PROVE worker'[p].at \notin Initializing
  BY <1>3, <1>5, <1>6 DEF Unpaid, Places, Initializing
<1>7. CASE Start(p)
  BY <1>1, <1>7 DEF Start, StartCheckout, StartPoll, StartSweep, StartWebhook,
                    StartRefresh, Call, Calls, CallType, Initializing
<1>8. CASE TakeOver(p)
  <2>1. worker'[p].ord = worker[p].ord
    BY <1>1, <1>8, GoEffect DEF TakeOver, Places
  <2>2. worker[p].ord \in Orders
    BY <1>1, <1>8 DEF TakeOver, Unbound
  <2>3. ~Claimed(worker[p].ord) /\ lease'[worker[p].ord] = "fresh"
    BY <1>1, <1>8, <2>2 DEF TakeOver, ClaimInitialization, Claimed, TypeOK
  <2> QED
    BY <2>1, <2>2, <2>3 DEF Enters
<1>9. CASE Reserve(p)
  <2>1. PICK o \in Orders :
          /\ ReserveAndCreate(o, Request(p).tier, Request(p).primary, Request(p).seats)
          /\ GoWith(p, "initialize", o, NULL)
    BY <1>9 DEF Reserve
  <2>2. worker'[p].ord = o
    BY <1>1, <2>1, GoWithEffect DEF Places
  <2>3. status[o] = "NONE" /\ lease'[o] = "fresh"
    BY <1>1, <2>1 DEF ReserveAndCreate, TypeOK
  <2> QED
    BY <2>2, <2>3 DEF Enters
<1>10. CASE InitializeAccepted(p) \/ InitializeDuplicate(p) \/ InitializeRejected(p)
  <2>1. ASSUME NEW place \in {"saveUrl", "abort"}, Go(p, place), At(p, "initialize")
        PROVE  GoesOn(p)
    BY <1>1, <2>1, GoEffect DEF Places, GoesOn, IsInitializing, Initializing, Keeps
  <2> QED
    BY <1>10, <2>1 DEF InitializeAccepted, InitializeDuplicate, InitializeRejected
<1>11. CASE FindPending(p) \/ TakeOverRefused(p) \/ ReadTier(p)
            \/ ReserveRefused(p) \/ InitializeLost(p) \/ AbortInitialization(p)
            \/ SaveUrl(p)
  BY <1>2, <1>4, <1>5, <1>11
     DEF FindPending, TakeOverRefused, ReadTier, ReserveRefused,
         InitializeLost, AbortInitialization, SaveUrl, Places, Initializing
<1>12. CASE ReadOrder(p) \/ VerifyUnknown(p) \/ VerifyAbandoned(p)
            \/ VerifyOngoing(p) \/ VerifyCaptured(p)
  BY <1>2, <1>3, <1>4, <1>5, <1>6, <1>12
     DEF ReadOrder, VerifyUnknown, VerifyAbandoned, VerifyOngoing,
         VerifyCaptured, Places, Initializing
<1>13. CASE MarkPaid(p) \/ MarkPaidRolledBack(p) \/ MarkPaidTooLate(p)
            \/ EmailTickets(p) \/ Release(p)
  BY <1>2, <1>3, <1>4, <1>13
     DEF MarkPaid, MarkPaidRolledBack, MarkPaidTooLate, EmailTickets, Release,
         Places, Initializing
<1>14. CASE RefundClaimed(p) \/ RefundAlreadyClaimed(p) \/ RequestRefund(p)
            \/ Confirm(p) \/ CallFails(p) \/ Crash(p)
  BY <1>2, <1>3, <1>4, <1>14
     DEF RefundClaimed, RefundAlreadyClaimed, RequestRefund, Confirm,
         CallFails, Crash, Places, Initializing
<1> QED
  BY <1>7, <1>8, <1>9, <1>10, <1>11, <1>12, <1>13, <1>14 DEF Step, Failure

(* No handler makes a lease old. *)
LEMMA CallAgesNoLease ==
  ASSUME CheckoutInv, NEW p \in Workers, Start(p) \/ Step(p) \/ Failure(p),
         NEW o \in Orders, lease'[o] = "stale"
  PROVE  lease[o] = "stale"
<1> USE DEF storeVars, orderVars
<1>1. TypeOK
  BY DEF CheckoutInv
<1>2. CASE UNCHANGED storeVars
  BY <1>2
<1>3. CASE TakeOver(p)
  BY <1>1, <1>3 DEF TakeOver, ClaimInitialization, TypeOK
<1>4. CASE Reserve(p)
  BY <1>1, <1>4 DEF Reserve, ReserveAndCreate, TypeOK
<1>5. CASE AbortInitialization(p) \/ Release(p)
  BY <1>1, <1>5 DEF AbortInitialization, Release, ReleaseIfPending,
                    ReleaseReservation, TypeOK
<1>6. CASE SaveUrl(p)
  BY <1>1, <1>6 DEF SaveUrl, SaveAuthorizationUrl, TypeOK
<1>7. CASE MarkPaid(p) \/ RefundClaimed(p) \/ Confirm(p)
  BY <1>1, <1>7 DEF MarkPaid, MarkOrderPaid, RefundClaimed, ClaimRefund,
                    Confirm, ConfirmRefund
<1>8. CASE Start(p) \/ Failure(p)
  BY <1>2, <1>8 DEF Start, Failure, StartCheckout, StartPoll, StartSweep,
       StartWebhook, StartRefresh, InitializeRejected, InitializeLost,
       CallFails, Crash
<1>9. CASE FindPending(p) \/ TakeOverRefused(p) \/ ReadTier(p)
           \/ ReserveRefused(p) \/ InitializeAccepted(p)
           \/ InitializeDuplicate(p) \/ ReadOrder(p) \/ VerifyUnknown(p)
           \/ VerifyAbandoned(p) \/ VerifyOngoing(p) \/ VerifyCaptured(p)
           \/ MarkPaidRolledBack(p) \/ MarkPaidTooLate(p) \/ EmailTickets(p)
           \/ RefundAlreadyClaimed(p) \/ RequestRefund(p)
  BY <1>2, <1>9 DEF FindPending, TakeOverRefused, ReadTier, ReserveRefused,
       InitializeAccepted, InitializeDuplicate, ReadOrder, VerifyUnknown,
       VerifyAbandoned, VerifyOngoing, VerifyCaptured, MarkPaidRolledBack,
       MarkPaidTooLate, EmailTickets, RefundAlreadyClaimed, RequestRefund
<1> QED
  BY <1>3, <1>4, <1>5, <1>6, <1>7, <1>8, <1>9 DEF Step

LEMMA LeaseStep ==
  CheckoutInv /\ LeaseInv /\ [CheckoutNext]_vars => LeaseInv'
<1> SUFFICES ASSUME CheckoutInv, LeaseInv, [CheckoutNext]_vars PROVE LeaseInv'
  OBVIOUS
<1>1. TypeOK /\ TypeOK' /\ Calls /\ [Next]_storeVars
  BY StoreKept DEF CheckoutInv
<1>2. \A q \in Workers : IsInitializing(q) =>
        worker[q].ord \in Orders /\ status[worker[q].ord] # "NONE"
  BY <1>1 DEF Calls, CallType, CallOK, IsInitializing, Initializing, Unbound, Order
<1>3. \A q \in Workers : InTime(q)
  BY DEF LeaseInv
<1>4. OneInitializer
  BY DEF LeaseInv
<1>5. ASSUME NEW p \in Workers, Start(p) \/ Step(p) \/ Failure(p) PROVE LeaseInv'
  <2>1. \A q \in Workers \ {p} : worker'[q] = worker[q]
    BY <1>5, CallMove DEF OnlyCall
  <2>2. \A o \in Orders : lease'[o] = "stale" => lease[o] = "stale"
    BY <1>5, CallAgesNoLease
  <2>3. \A o \in Orders : status[o] # "NONE" /\ Claimed(o) => Claimed(o)'
    BY <1>1, <2>2, ClaimStays
  <2>4. ASSUME NEW q \in Workers \ {p} PROVE InTime(q)'
    BY <1>2, <1>3, <2>1, <2>3 DEF InTime, IsInitializing, Order, Claimed
  <2>5. CASE worker'[p].at \notin Initializing
    BY <1>4, <2>1, <2>4, <2>5 DEF LeaseInv, OneInitializer, InTime, IsInitializing, Order
  <2>6. CASE GoesOn(p)
    <3>1. InTime(p)'
      BY <1>2, <1>3, <2>3, <2>6 DEF InTime, IsInitializing, Order, GoesOn, Claimed
    <3> QED
      BY <1>4, <2>1, <2>4, <2>6, <3>1
         DEF LeaseInv, OneInitializer, IsInitializing, Order, GoesOn
  <2>7. CASE Enters(p)
    <3>1. InTime(p)'
      BY <2>7 DEF InTime, Claimed, Enters, Order
    <3>2. ASSUME NEW q \in Workers \ {p}, IsInitializing(q),
                 worker[q].ord = worker'[p].ord
          PROVE  worker[q].late
      BY <1>2, <1>3, <2>7, <3>2 DEF InTime, Enters, Order
    <3> QED
      BY <1>4, <2>1, <2>4, <3>1, <3>2 DEF LeaseInv, OneInitializer, IsInitializing, Order
  <2> QED
    BY <1>5, <2>5, <2>6, <2>7, InitializingStep
<1>6. ASSUME NEW o \in Orders, LeaseRunsOut(o) PROVE LeaseInv'
  <2>1. \A q \in Workers :
          /\ worker'[q].at = worker[q].at /\ worker'[q].ord = worker[q].ord
          /\ worker'[q].late =
               IF worker[q].ord = o /\ worker[q].at \in Initializing
                 THEN TRUE ELSE worker[q].late
    BY <1>1, <1>6 DEF LeaseRunsOut, Calls, CallType, Order
  <2>2. \A r \in Orders \ {o} : Claimed(r) => Claimed(r)'
    BY <1>1, <1>6 DEF LeaseRunsOut, LeaseAges, Claimed, TypeOK
  <2>3. ASSUME NEW q \in Workers PROVE InTime(q)'
    BY <1>2, <1>3, <2>1, <2>2 DEF InTime, IsInitializing, Order, Claimed
  <2>4. OneInitializer'
    BY <1>4, <2>1 DEF OneInitializer, Order
  <2> QED
    BY <2>3, <2>4 DEF LeaseInv
<1>7. ASSUME UNCHANGED worker,
             \A o \in Orders : lease'[o] = "stale" => lease[o] = "stale"
      PROVE  LeaseInv'
  <2>1. \A o \in Orders : status[o] # "NONE" /\ Claimed(o) => Claimed(o)'
    BY <1>1, <1>7, ClaimStays
  <2>2. ASSUME NEW q \in Workers PROVE InTime(q)'
    BY <1>2, <1>3, <1>7, <2>1 DEF InTime, IsInitializing, Order, Claimed
  <2>3. OneInitializer'
    BY <1>4, <1>7 DEF OneInitializer, Order
  <2> QED
    BY <2>2, <2>3 DEF LeaseInv
<1>8. ASSUME NEW o \in Orders, Pay(o) \/ Expire(o) PROVE LeaseInv'
  BY <1>7, <1>8 DEF Pay, Expire, ExpiryPasses, storeVars, orderVars
<1>9. CASE Edit
  BY <1>7, <1>9 DEF Edit, TierNext, GuestNext, SetQuantity, SetOnSale,
                    RegisterAttendee, RemoveAttendee, ChangeEmail, orderVars
<1>10. CASE UNCHANGED vars
  BY <1>7, <1>10 DEF vars, storeVars, orderVars
<1> QED
  BY <1>5, <1>6, <1>8, <1>9, <1>10 DEF CheckoutNext

LEMMA LeaseInvariant == CheckoutSpec => []LeaseInv
<1>1. CheckoutInit => LeaseInv
  BY LeaseInit
<1> QED
  BY <1>1, LeaseStep, CheckoutInvariant, PTL DEF CheckoutSpec

(* The lease does what it is for: of any number of calls for the same      *)
(* checkout, at most one that has not overrun its five minutes is talking  *)
(* to Paystack about it or about to write its result.                      *)
THEOREM InitializedByOne == CheckoutSpec => []OneInitializer
<1>1. LeaseInv => OneInitializer
  BY DEF LeaseInv
<1> QED
  BY <1>1, LeaseInvariant, PTL
===============================================================================
