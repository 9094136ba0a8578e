------------------------------- MODULE RowLocks -------------------------------
(***************************************************************************)
(* The transactions of OrderStore statement by statement, at PostgreSQL's  *)
(* READ COMMITTED: createCheckout's, markOrderPaid's, releaseReservation's *)
(* and updateTicketType's.  The variables of OrderStore are the committed  *)
(* rows.  A transaction keeps its own version of the rows it has written   *)
(* and installs them when it commits.                                      *)
(*                                                                         *)
(* An UPDATE ... WHERE does nothing if the committed row fails the         *)
(* condition; otherwise it waits for the row's lock and looks again at     *)
(* what is committed by then.  An INSERT waits for a transaction that has  *)
(* written, or is about to give up, the same value of a unique column.     *)
(* PostgreSQL aborts one transaction of a circle of waiting ones.          *)
(***************************************************************************)
EXTENDS OrderStore

CONSTANTS Transactions,   \* database sessions
          Requests,       \* what buyers ask for
          MaxStatements   \* bound: edits, and statements outside of transactions

(* Rows of ticket_types. *)
Rows == [quantity : Quantities \cup {NULL}, reserved : Nat, sold : Nat,
         onSale : BOOLEAN]

ASSUME RowLocksAssumption ==
  /\ \A r \in Requests :
       /\ r \in [tier : Tiers, primary : Emails, seats : SUBSET Emails]
       /\ r.primary \in r.seats
  /\ NULL \notin Orders
  /\ NULL \notin Rows
  /\ MaxStatements \in Nat

VARIABLES tx,         \* the open transactions
          statements

lockVars == <<storeVars, tx, statements>>

(* A transaction: its kind, the statement it is at, what it is about, the  *)
(* status or the quantity it writes, whether it has written its order's    *)
(* row, its version of the tier's row, the attendees it has inserted and   *)
(* the one it is inserting.                                                *)
Idle == [kind |-> "none", at |-> "idle", ord |-> NULL, tier |-> NULL,
         primary |-> NULL, seats |-> {}, to |-> NULL, qty |-> NULL,
         locked |-> FALSE, row |-> NULL, in |-> {}, cur |-> NULL]

Settlers == {"pay", "release"}

At(x, place) == tx[x].at = place
Size(x) == Cardinality(tx[x].seats)

(* A bug the runs look for: a release writes the tier before the order. *)
PlanTierFirst(kind) ==
  CASE kind = "create"  -> [begin |-> "tier", tier |-> "insert"]
    [] kind = "pay"     -> [begin |-> "order", order |-> "tier",
                            tier |-> "register"]
    [] kind = "release" -> [begin |-> "tier", tier |-> "order",
                            order |-> "commit"]
    [] kind = "edit"    -> [begin |-> "tier", tier |-> "commit"]

(* The order of the writing statements in each transaction. *)
Plan(kind) ==
  CASE kind = "create"  -> [begin |-> "tier", tier |-> "insert"]
    [] kind = "pay"     -> [begin |-> "order", order |-> "tier",
                            tier |-> "register"]
    [] kind = "release" -> [begin |-> "order", order |-> "tier",
                            tier |-> "commit"]
    [] kind = "edit"    -> [begin |-> "tier", tier |-> "commit"]

-------------------------------------------------------------------------------
(* Locks: who has written what and has not committed *)

HoldsOrder(x, o) == tx[x].locked /\ tx[x].ord = o
HoldsTier(x, t) == tx[x].row # NULL /\ tx[x].tier = t
HoldsEmail(x, e) == e \in tx[x].in

(* The unique index on activeCheckoutKey: inserted by a checkout, given up *)
(* with the order's row by a payment or a release.                         *)
HoldsKey(x, e) ==
  /\ tx[x].primary = e
  /\ \/ tx[x].kind = "create" /\ At(x, "commit")
     \/ tx[x].locked

OrderFree(o) == \A y \in Transactions : ~HoldsOrder(y, o)
TierFree(t) == \A y \in Transactions : ~HoldsTier(y, t)
EmailFree(e) == \A y \in Transactions : ~HoldsEmail(y, e)

(* The WHERE clause of the UPDATE of ticket_types, on the committed row. *)
TierMatches(x) ==
  LET t == tx[x].tier IN
  /\ tx[x].kind = "create" => onSale[t] /\ Fits(t, Size(x))
  /\ tx[x].kind \in Settlers => reserved[t] >= Size(x)
  /\ tx[x].kind = "edit" /\ tx[x].qty # NULL => CoversCommitted(t, tx[x].qty)

(* Transaction x waits for y to end. *)
WaitsFor(x, y) ==
  /\ x # y
  /\ \/ /\ At(x, "order")
        /\ status[tx[x].ord] = "PENDING"
        /\ HoldsOrder(y, tx[x].ord)
     \/ At(x, "tier") /\ TierMatches(x) /\ HoldsTier(y, tx[x].tier)
     \/ At(x, "insert") /\ HoldsKey(y, tx[x].primary)
     \/ At(x, "register") /\ HoldsEmail(y, tx[x].cur)

Blocked(x) == \E y \in Transactions : WaitsFor(x, y)

(* A circle: everybody in it waits for somebody in it, and is waited for. *)
Circle(C) ==
  /\ C # {}
  /\ \A x \in C : /\ \E y \in C : WaitsFor(x, y)
                  /\ \E y \in C : WaitsFor(y, x)

-------------------------------------------------------------------------------
(* A transaction before its first writing statement. *)
Begun(kind, o, t, e, S, to, q) ==
  [kind |-> kind, at |-> Plan(kind).begin, ord |-> o, tier |-> t,
   primary |-> e, seats |-> S, to |-> to, qty |-> q,
   locked |-> FALSE, row |-> NULL, in |-> {}, cur |-> NULL]

Set(x, record) == tx' = [tx EXCEPT ![x] = record]
Rollback(x) == Set(x, Idle)
Local == UNCHANGED <<storeVars, statements>>

(* createCheckout: UPDATE ticket_types; INSERT payment_orders. *)
BeginCheckout(x, r) ==
  /\ At(x, "idle")
  /\ \E o \in Orders :
       /\ status[o] = "NONE"
       /\ \A y \in Transactions : tx[y].ord # o
       /\ Set(x, Begun("create", o, r.tier, r.primary, r.seats, NULL, NULL))
  /\ Local

(* markOrderPaid and releaseReservation: the read of the order, which ends *)
(* the transaction unless the order is pending.                            *)
BeginSettle(x, o, kind, to) ==
  /\ At(x, "idle")
  /\ status[o] = "PENDING"
  /\ Set(x, Begun(kind, o, tier[o], primary[o], seats[o], to, NULL))
  /\ Local

(* updateTicketType's transaction, with a quantity. *)
BeginEdit(x, t, q) ==
  /\ At(x, "idle")
  /\ statements < MaxStatements
  /\ statements' = statements + 1
  /\ Set(x, Begun("edit", NULL, t, NULL, {}, NULL, q))
  /\ UNCHANGED storeVars

(* UPDATE payment_orders ... WHERE status = 'PENDING'. *)
WriteOrder(x) ==
  /\ At(x, "order")
  /\ status[tx[x].ord] = "PENDING"
  /\ OrderFree(tx[x].ord)
  /\ tx' = [tx EXCEPT ![x].locked = TRUE, ![x].at = Plan(tx[x].kind).order]
  /\ Local

(* Its count is 0: the transaction ends without a change. *)
OrderSettled(x) ==
  /\ At(x, "order")
  /\ status[tx[x].ord] # "PENDING"
  /\ Rollback(x) /\ Local

(* The tier's new row: columns move by increments of the locked row. *)
NewRow(x) ==
  LET t == tx[x].tier  k == tx[x].kind  n == Size(x) IN
  [quantity |-> IF k = "edit" THEN tx[x].qty ELSE quantity[t],
   reserved |-> CASE k = "create"   -> reserved[t] + n
                  [] k \in Settlers -> reserved[t] - n
                  [] OTHER          -> reserved[t],
   sold     |-> IF k = "pay" THEN sold[t] + n ELSE sold[t],
   onSale   |-> onSale[t]]

(* A bug: the counters are read first and written as values. *)
WriteTierAsRead(x) ==
  /\ At(x, "tier")
  /\ TierMatches(x)
  /\ \E e \in tx[x].seats \cup {NULL} :
       /\ e = NULL <=> tx[x].kind # "pay"
       /\ tx' = [tx EXCEPT ![x].row = NewRow(x), ![x].cur = e,
                           ![x].at = Plan(tx[x].kind).tier]
  /\ Local

(* UPDATE ticket_types ... WHERE; a payment goes on to its first attendee, *)
(* in no particular order.                                                 *)
WriteTier(x) ==
  /\ At(x, "tier")
  /\ TierMatches(x)
  /\ TierFree(tx[x].tier)
  /\ \E e \in tx[x].seats \cup {NULL} :
       /\ e = NULL <=> tx[x].kind # "pay"
       /\ tx' = [tx EXCEPT ![x].row = NewRow(x), ![x].cur = e,
                           ![x].at = Plan(tx[x].kind).tier]
  /\ Local

(* Sold out, off sale, or lower than what is committed: an exception. *)
TierRefused(x) ==
  /\ At(x, "tier")
  /\ ~TierMatches(x)
  /\ Rollback(x) /\ Local

(* INSERT payment_orders. *)
InsertOrder(x) ==
  /\ At(x, "insert")
  /\ \A y \in Transactions : ~HoldsKey(y, tx[x].primary)
  /\ KeyFree(tx[x].primary)
  /\ tx' = [tx EXCEPT ![x].at = "commit"]
  /\ Local

(* The key is taken by an order nobody is about to settle: P2002. *)
KeyTaken(x) ==
  /\ At(x, "insert")
  /\ \A y \in Transactions : ~HoldsKey(y, tx[x].primary)
  /\ ~KeyFree(tx[x].primary)
  /\ Rollback(x) /\ Local

(* A bug: only the first attendee is inserted. *)
InsertOneSeat(x) ==
  /\ At(x, "register")
  /\ EmailFree(tx[x].cur)
  /\ tx[x].cur \notin attendees
  /\ tx' = [tx EXCEPT ![x].in = {tx[x].cur}, ![x].cur = NULL,
                      ![x].at = "commit"]
  /\ Local

(* attendee.create and pass.create for one seat after the other. *)
InsertSeat(x) ==
  LET in == tx[x].in \cup {tx[x].cur} IN
  /\ At(x, "register")
  /\ EmailFree(tx[x].cur)
  /\ tx[x].cur \notin attendees
  /\ IF in = tx[x].seats
       THEN tx' = [tx EXCEPT ![x].in = in, ![x].cur = NULL, ![x].at = "commit"]
       ELSE \E e \in tx[x].seats \ in :
              tx' = [tx EXCEPT ![x].in = in, ![x].cur = e]
  /\ Local

SeatRefused(x) ==
  /\ At(x, "register")
  /\ tx[x].cur \in attendees
  /\ Rollback(x) /\ Local

-------------------------------------------------------------------------------
(* COMMIT makes the versions of a transaction the rows. *)

InstallTier(x) ==
  LET t == tx[x].tier  row == tx[x].row IN
  /\ quantity' = [quantity EXCEPT ![t] = row.quantity]
  /\ reserved' = [reserved EXCEPT ![t] = row.reserved]
  /\ sold' = [sold EXCEPT ![t] = row.sold]
  /\ onSale' = [onSale EXCEPT ![t] = row.onSale]

Committing(x, kind) ==
  At(x, "commit") /\ tx[x].kind = kind /\ Rollback(x) /\ UNCHANGED statements

CommitCheckout(x) ==
  LET o == tx[x].ord IN
  /\ Committing(x, "create")
  /\ InstallTier(x)
  /\ status' = [status EXCEPT ![o] = "PENDING"]
  /\ tier' = [tier EXCEPT ![o] = tx[x].tier]
  /\ seats' = [seats EXCEPT ![o] = tx[x].seats]
  /\ primary' = [primary EXCEPT ![o] = tx[x].primary]
  /\ activeKey' = [activeKey EXCEPT ![o] = tx[x].primary]
  /\ lease' = [lease EXCEPT ![o] = "fresh"]
  /\ UNCHANGED <<url, expired, guestVars>>

CommitPayment(x) ==
  LET o == tx[x].ord IN
  /\ Committing(x, "pay")
  /\ InstallTier(x)
  /\ status' = [status EXCEPT ![o] = "PAID"]
  /\ activeKey' = [activeKey EXCEPT ![o] = NULL]
  /\ attendees' = attendees \cup tx[x].in
  /\ passes' = passes \cup ({o} \X tx[x].in)
  /\ UNCHANGED <<tier, seats, primary, url, lease, expired>>

CommitRelease(x) ==
  LET o == tx[x].ord IN
  /\ Committing(x, "release")
  /\ InstallTier(x)
  /\ status' = [status EXCEPT ![o] = tx[x].to]
  /\ activeKey' = [activeKey EXCEPT ![o] = NULL]
  /\ lease' = [lease EXCEPT ![o] = "none"]
  /\ UNCHANGED <<tier, seats, primary, url, expired, guestVars>>

CommitEdit(x) ==
  /\ Committing(x, "edit")
  /\ InstallTier(x)
  /\ UNCHANGED <<orderVars, guestVars>>

(* The server dies, the connection breaks, Prisma's five seconds for a     *)
(* transaction are over, or PostgreSQL finds it in a circle.               *)
Abort(x) == ~At(x, "idle") /\ Rollback(x) /\ Local

-------------------------------------------------------------------------------
(* Single statements wait for a row's lock too.  The sale window is        *)
(* compared with the start of the transaction, so a window that closes     *)
(* while the tier's row is locked comes after it.                          *)
Statement ==
  /\ statements < MaxStatements
  /\ statements' = statements + 1
  /\ \/ \E o \in Orders :
          OrderFree(o) /\ (ClaimInitialization(o) \/ SaveAuthorizationUrl(o)
                             \/ ClaimRefund(o) \/ ConfirmRefund(o))
     \/ \E o \in Orders : ExpiryPasses(o) \/ LeaseAges(o)
     \/ \E t \in Tiers, b \in BOOLEAN : TierFree(t) /\ SetOnSale(t, b)
     \/ \E e \in Emails : (EmailFree(e) /\ RegisterAttendee(e)) \/ RemoveAttendee(e)
     \/ \E e, f \in Emails : EmailFree(f) /\ ChangeEmail(e, f)
  /\ UNCHANGED tx

Begin(x) ==
  \/ \E r \in Requests : BeginCheckout(x, r)
  \/ \E o \in Orders : BeginSettle(x, o, "pay", NULL)
  \/ \E o \in Orders, to \in {"FAILED", "EXPIRED"} :
       BeginSettle(x, o, "release", to)
  \/ \E t \in Tiers, q \in Quantities \cup {NULL} : BeginEdit(x, t, q)

Step(x) ==
  \/ WriteOrder(x) \/ OrderSettled(x) \/ WriteTier(x) \/ TierRefused(x)
  \/ InsertOrder(x) \/ KeyTaken(x) \/ InsertSeat(x) \/ SeatRefused(x)
  \/ CommitCheckout(x) \/ CommitPayment(x) \/ CommitRelease(x) \/ CommitEdit(x)

LockInit ==
  /\ Init
  /\ tx = [x \in Transactions |-> Idle]
  /\ statements = 0

LockNext ==
  \/ \E x \in Transactions : Begin(x) \/ Step(x) \/ Abort(x)
  \/ Statement

LockSpec == LockInit /\ [][LockNext]_lockVars

-------------------------------------------------------------------------------
(* Properties *)

(* A transaction has the type above and holds what its place says: its     *)
(* order's row from the first UPDATE on, the tier's from the second, and   *)
(* every attendee of the order when it commits a payment.                  *)
LockTypeOK ==
  /\ tx \in [Transactions ->
       [kind : {"none", "create", "edit"} \cup Settlers,
        at : {"idle", "order", "tier", "insert", "register", "commit"},
        ord : Orders \cup {NULL}, tier : Tiers \cup {NULL},
        primary : Emails \cup {NULL}, seats : SUBSET Emails,
        to : {"FAILED", "EXPIRED", NULL}, qty : Quantities \cup {NULL},
        locked : BOOLEAN,
        row : Rows \cup {NULL}, in : SUBSET Emails, cur : Emails \cup {NULL}]]
  /\ \A x \in Transactions :
       /\ tx[x].locked <=> tx[x].kind \in Settlers /\ ~At(x, "order")
       /\ tx[x].row # NULL <=> tx[x].at \in {"insert", "register", "commit"}
       /\ tx[x].kind = "pay" /\ At(x, "commit") => tx[x].in = tx[x].seats
  /\ statements \in 0..MaxStatements

(* A transaction is as good as one step: whatever statements of others     *)
(* come between its own, its commit is the action of OrderStore of that    *)
(* name on the rows as they are then, with no update lost and every        *)
(* condition still true; a rolled back one leaves no trace.                *)
TransactionsAtomic == Spec

(* Transactions can deadlock, but only in two ways: a checkout that waits  *)
(* for the key of an order that is being paid or released for the same     *)
(* buyer, or payments of different tiers that register common attendees.   *)
(* Buyers without a common address never deadlock, nor does an edit.       *)
DeadlockExplained ==
  \A C \in SUBSET Transactions : Circle(C) =>
    \/ \E x, y \in C : /\ tx[x].kind = "create"
                       /\ tx[y].kind \in Settlers
                       /\ tx[x].primary = tx[y].primary
    \/ \A x \in C :
         /\ tx[x].kind = "pay"
         /\ \A y \in C \ {x} : tx[x].tier # tx[y].tier
         /\ \E y \in C \ {x} : tx[x].seats \cap tx[y].seats # {}
===============================================================================
