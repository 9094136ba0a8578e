---------------------------- MODULE RowLocksProofs ----------------------------
(***************************************************************************)
(* Proofs about RowLocks, for any number of transactions, orders, tiers    *)
(* and addresses: transactions are as good as single steps of OrderStore,  *)
(* and they deadlock in two ways only.                                     *)
(*                                                                         *)
(* The argument is the one of row locks.  What a transaction has written,  *)
(* or has seen in the WHERE clause of an UPDATE, stays as it is until the  *)
(* transaction ends, since whoever would change it waits.                  *)
(***************************************************************************)
EXTENDS RowLocks, OrderStoreProofs

Kinds == {"none", "create", "edit"} \cup Settlers

LEMMA PlanFacts ==
  /\ Plan("create").begin = "tier" /\ Plan("create").tier = "insert"
  /\ Plan("pay").begin = "order" /\ Plan("pay").order = "tier"
  /\ Plan("pay").tier = "register"
  /\ Plan("release").begin = "order" /\ Plan("release").order = "tier"
  /\ Plan("release").tier = "commit"
  /\ Plan("edit").begin = "tier" /\ Plan("edit").tier = "commit"
BY DEF Plan

-------------------------------------------------------------------------------
(* What a transaction holds at each place *)

TxType ==
  tx \in [Transactions ->
    [kind : Kinds,
     at : {"idle", "order", "tier", "insert", "register", "commit"},
     ord : Orders \cup {NULL}, tier : Tiers \cup {NULL},
     primary : Emails \cup {NULL}, seats : SUBSET Emails,
     to : {"FAILED", "EXPIRED", NULL}, qty : Quantities \cup {NULL},
     locked : BOOLEAN,
     row : Rows \cup {NULL}, in : SUBSET Emails, cur : Emails \cup {NULL}]]

(* The places of each kind, in the order of its statements. *)
PlaceOK(x) ==
  /\ tx[x].kind = "none" => At(x, "idle")
  /\ tx[x].kind = "create" => tx[x].at \in {"tier", "insert", "commit"}
  /\ tx[x].kind = "pay" => tx[x].at \in {"order", "tier", "register", "commit"}
  /\ tx[x].kind = "release" => tx[x].at \in {"order", "tier", "commit"}
  /\ tx[x].kind = "edit" => tx[x].at \in {"tier", "commit"}

HoldsOK(x) ==
  /\ tx[x].locked <=> tx[x].kind \in Settlers /\ ~At(x, "order")
  /\ tx[x].row # NULL <=> tx[x].at \in {"insert", "register", "commit"}
  /\ tx[x].cur # NULL <=> At(x, "register")
  /\ At(x, "register") => tx[x].cur \in tx[x].seats \ tx[x].in
  /\ tx[x].in \subseteq tx[x].seats
  /\ tx[x].in # {} => tx[x].kind = "pay" /\ tx[x].at \in {"register", "commit"}
  /\ tx[x].kind = "pay" /\ At(x, "commit") => tx[x].in = tx[x].seats

(* What it is about, with the columns that never change. *)
AboutOK(x) ==
  /\ tx[x].kind # "none" => tx[x].tier \in Tiers
  /\ tx[x].kind = "create" =>
       /\ tx[x].ord \in Orders /\ status[tx[x].ord] = "NONE"
       /\ tx[x].primary \in tx[x].seats
  /\ tx[x].kind \in Settlers =>
       /\ tx[x].ord \in Orders /\ status[tx[x].ord] # "NONE"
       /\ tx[x].tier = tier[tx[x].ord] /\ tx[x].seats = seats[tx[x].ord]
       /\ tx[x].primary = primary[tx[x].ord]
  /\ tx[x].kind = "release" => tx[x].to \in {"FAILED", "EXPIRED"}
  /\ tx[x].kind = "edit" => tx[x].ord = NULL

(* What its locks protect is still true. *)
GuardOK(x) ==
  /\ tx[x].locked => status[tx[x].ord] = "PENDING"
  /\ tx[x].row # NULL => TierMatches(x) /\ tx[x].row = NewRow(x)
  /\ tx[x].kind = "create" /\ At(x, "commit") => KeyFree(tx[x].primary)
  /\ tx[x].in \cap attendees = {}

(* Two transactions hold different things. *)
Apart(x, y) ==
  /\ tx[x].locked /\ tx[y].locked => tx[x].ord # tx[y].ord
  /\ tx[x].row # NULL /\ tx[y].row # NULL => tx[x].tier # tx[y].tier
  /\ tx[x].in \cap tx[y].in = {}
  /\ tx[x].kind = "create" /\ tx[y].kind = "create" => tx[x].ord # tx[y].ord
  /\ tx[x].kind = "create" /\ At(x, "commit")
       /\ tx[y].kind = "create" /\ At(y, "commit") => tx[x].primary # tx[y].primary

TxOK(x) == PlaceOK(x) /\ HoldsOK(x) /\ AboutOK(x) /\ GuardOK(x)

LockInv ==
  /\ TypeOK /\ TxType /\ statements \in 0..MaxStatements
  /\ \A x \in Transactions : TxOK(x)
  /\ \A x, y \in Transactions : x # y => Apart(x, y)

LEMMA LockInvInit == LockInit => LockInv
<1>1. LockInit => TypeOK
  BY TypeInit DEF LockInit
<1> QED
  BY <1>1, RowLocksAssumption
     DEF LockInit, LockInv, TxType, TxOK, PlaceOK, HoldsOK, AboutOK, GuardOK,
         Apart, Idle, At, Kinds, Settlers
-------------------------------------------------------------------------------
(* Commits *)

LEMMA SameValue ==
  ASSUME NEW S, NEW T, NEW f \in [S -> T], NEW s \in S
  PROVE  [f EXCEPT ![s] = f[s]] = f
OBVIOUS

(* The tier's row as a transaction of each kind leaves it. *)
LEMMA InstalledRow ==
  ASSUME LockInv, NEW x \in Transactions, tx[x].row # NULL, InstallTier(x)
  PROVE  /\ tx[x].tier \in Tiers /\ TierMatches(x) /\ onSale' = onSale
         /\ tx[x].kind # "edit" => quantity' = quantity
         /\ tx[x].kind = "edit" =>
              quantity' = [quantity EXCEPT ![tx[x].tier] = tx[x].qty]
         /\ tx[x].kind = "create" =>
              reserved' = [reserved EXCEPT ![tx[x].tier] = @ + Size(x)]
         /\ tx[x].kind \in Settlers =>
              reserved' = [reserved EXCEPT ![tx[x].tier] = @ - Size(x)]
         /\ tx[x].kind = "edit" => reserved' = reserved
         /\ tx[x].kind = "pay" =>
              sold' = [sold EXCEPT ![tx[x].tier] = @ + Size(x)]
         /\ tx[x].kind # "pay" => sold' = sold
<1> DEFINE t == tx[x].tier
<1>1. /\ TierMatches(x) /\ tx[x].row = NewRow(x) /\ t \in Tiers
      /\ tx[x].kind \in {"create", "pay", "release", "edit"}
  BY DEF LockInv, TxOK, GuardOK, HoldsOK, AboutOK, PlaceOK, TxType, Kinds, Settlers, At
<1>2. /\ quantity \in [Tiers -> Quantities \cup {NULL}] /\ reserved \in [Tiers -> Nat]
      /\ sold \in [Tiers -> Nat] /\ onSale \in [Tiers -> BOOLEAN]
  BY DEF LockInv, TypeOK
<1>3. /\ tx[x].row.quantity = IF tx[x].kind = "edit" THEN tx[x].qty ELSE quantity[t]
      /\ tx[x].row.sold = IF tx[x].kind = "pay" THEN sold[t] + Size(x) ELSE sold[t]
      /\ tx[x].row.onSale = onSale[t]
  BY <1>1 DEF NewRow
<1>4. /\ tx[x].kind = "create" => tx[x].row.reserved = reserved[t] + Size(x)
      /\ tx[x].kind \in Settlers => tx[x].row.reserved = reserved[t] - Size(x)
      /\ tx[x].kind = "edit" => tx[x].row.reserved = reserved[t]
  BY <1>1 DEF NewRow, Settlers
<1> HIDE DEF t
<1>5. /\ quantity' = [quantity EXCEPT ![t] = tx[x].row.quantity]
      /\ reserved' = [reserved EXCEPT ![t] = tx[x].row.reserved]
      /\ sold' = [sold EXCEPT ![t] = tx[x].row.sold]
      /\ onSale' = [onSale EXCEPT ![t] = tx[x].row.onSale]
  BY DEF InstallTier, t
<1>6. onSale' = onSale
  BY <1>1, <1>2, <1>3, <1>5
<1>7. /\ tx[x].kind # "edit" => quantity' = quantity
      /\ tx[x].kind # "pay" => sold' = sold
      /\ tx[x].kind = "edit" => reserved' = reserved
  BY <1>1, <1>2, <1>3, <1>4, <1>5
<1>8. /\ tx[x].kind = "edit" => quantity' = [quantity EXCEPT ![t] = tx[x].qty]
      /\ tx[x].kind = "create" => reserved' = [reserved EXCEPT ![t] = @ + Size(x)]
      /\ tx[x].kind \in Settlers => reserved' = [reserved EXCEPT ![t] = @ - Size(x)]
      /\ tx[x].kind = "pay" => sold' = [sold EXCEPT ![t] = @ + Size(x)]
  BY <1>3, <1>4, <1>5
<1> QED
  BY <1>1, <1>6, <1>7, <1>8 DEF t

(* A commit is the action of OrderStore its transaction stands for. *)
LEMMA CommitIsAction ==
  ASSUME LockInv, NEW x \in Transactions
  PROVE  /\ CommitCheckout(x) =>
              ReserveAndCreate(tx[x].ord, tx[x].tier, tx[x].primary, tx[x].seats)
         /\ CommitPayment(x) => MarkOrderPaid(tx[x].ord)
         /\ CommitRelease(x) => ReleaseReservation(tx[x].ord, tx[x].to)
         /\ CommitEdit(x) => SetQuantity(tx[x].tier, tx[x].qty)
<1>1. TxOK(x)
  BY DEF LockInv
<1>2. At(x, "commit") => tx[x].row # NULL
  BY <1>1 DEF TxOK, HoldsOK, At
<1>3. CASE CommitCheckout(x)
  <2>1. tx[x].kind = "create" /\ At(x, "commit") /\ InstallTier(x)
    BY <1>3 DEF CommitCheckout, Committing
  <2>2. /\ status[tx[x].ord] = "NONE" /\ tx[x].primary \in tx[x].seats
        /\ KeyFree(tx[x].primary)
    BY <1>1, <2>1 DEF TxOK, AboutOK, GuardOK
  <2>3. /\ TierMatches(x) /\ quantity' = quantity /\ onSale' = onSale /\ sold' = sold
        /\ reserved' = [reserved EXCEPT ![tx[x].tier] = @ + Cardinality(tx[x].seats)]
    BY <1>2, <2>1, InstalledRow DEF Size
  <2>4. onSale[tx[x].tier] /\ Fits(tx[x].tier, Cardinality(tx[x].seats))
    BY <2>1, <2>3 DEF TierMatches, Size
  <2>5. ReserveAndCreate(tx[x].ord, tx[x].tier, tx[x].primary, tx[x].seats)
    BY <1>3, <2>2, <2>3, <2>4 DEF CommitCheckout, ReserveAndCreate
  <2> QED
    BY <2>1, <2>5 DEF CommitPayment, CommitRelease, CommitEdit, Committing
<1>4. CASE CommitPayment(x)
  <2>1. tx[x].kind = "pay" /\ At(x, "commit") /\ InstallTier(x)
    BY <1>4 DEF CommitPayment, Committing
  <2>2. /\ status[tx[x].ord] = "PENDING" /\ tx[x].tier = tier[tx[x].ord]
        /\ tx[x].seats = seats[tx[x].ord] /\ tx[x].in = tx[x].seats
        /\ tx[x].in \cap attendees = {}
    BY <1>1, <2>1 DEF TxOK, AboutOK, GuardOK, HoldsOK, Settlers, At
  <2>3. /\ TierMatches(x) /\ quantity' = quantity /\ onSale' = onSale
        /\ reserved' = [reserved EXCEPT ![tx[x].tier] = @ - Size(x)]
        /\ sold' = [sold EXCEPT ![tx[x].tier] = @ + Size(x)]
    BY <1>2, <2>1, InstalledRow DEF Settlers
  <2>4. Size(x) = Tickets(tx[x].ord)
    BY <2>2 DEF Size, Tickets
  <2>5. reserved[tx[x].tier] >= Size(x)
    BY <2>1, <2>3 DEF TierMatches, Settlers
  <2>6. MarkOrderPaid(tx[x].ord)
    BY <1>4, <2>2, <2>3, <2>4, <2>5 DEF CommitPayment, MarkOrderPaid, SeatsUnregistered
  <2> QED
    BY <2>1, <2>6 DEF CommitCheckout, CommitRelease, CommitEdit, Committing
<1>5. CASE CommitRelease(x)
  <2>1. tx[x].kind = "release" /\ At(x, "commit") /\ InstallTier(x)
    BY <1>5 DEF CommitRelease, Committing
  <2>2. /\ status[tx[x].ord] = "PENDING" /\ tx[x].tier = tier[tx[x].ord]
        /\ tx[x].seats = seats[tx[x].ord]
    BY <1>1, <2>1 DEF TxOK, AboutOK, GuardOK, HoldsOK, Settlers, At
  <2>3. /\ TierMatches(x) /\ quantity' = quantity /\ onSale' = onSale /\ sold' = sold
        /\ reserved' = [reserved EXCEPT ![tx[x].tier] = @ - Size(x)]
    BY <1>2, <2>1, InstalledRow DEF Settlers
  <2>4. Size(x) = Tickets(tx[x].ord)
    BY <2>2 DEF Size, Tickets
  <2>5. reserved[tx[x].tier] >= Size(x)
    BY <2>1, <2>3 DEF TierMatches, Settlers
  <2>6. ReleaseReservation(tx[x].ord, tx[x].to)
    BY <1>5, <2>2, <2>3, <2>4, <2>5 DEF CommitRelease, ReleaseReservation
  <2> QED
    BY <2>1, <2>6 DEF CommitCheckout, CommitPayment, CommitEdit, Committing
<1>6. CASE CommitEdit(x)
  <2>1. tx[x].kind = "edit" /\ At(x, "commit") /\ InstallTier(x)
    BY <1>6 DEF CommitEdit, Committing
  <2>2. /\ TierMatches(x) /\ onSale' = onSale /\ sold' = sold /\ reserved' = reserved
        /\ quantity' = [quantity EXCEPT ![tx[x].tier] = tx[x].qty]
    BY <1>2, <2>1, InstalledRow
  <2>3. tx[x].qty # NULL => CoversCommitted(tx[x].tier, tx[x].qty)
    BY <2>1, <2>2 DEF TierMatches, Settlers
  <2>4. SetQuantity(tx[x].tier, tx[x].qty)
    BY <1>6, <2>2, <2>3 DEF CommitEdit, SetQuantity
  <2> QED
    BY <2>1, <2>4 DEF CommitCheckout, CommitPayment, CommitRelease, Committing
<1> QED
  BY <1>3, <1>4, <1>5, <1>6

(* Only commits and single statements change the committed rows. *)
LEMMA LockStore ==
  ASSUME LockInv, [LockNext]_lockVars
  PROVE  [Next]_storeVars
<1>1. ASSUME NEW x \in Transactions, Begin(x) PROVE UNCHANGED storeVars
  BY <1>1 DEF Begin, BeginCheckout, BeginSettle, BeginEdit, Local
<1>2. ASSUME NEW x \in Transactions, Abort(x) PROVE UNCHANGED storeVars
  BY <1>2 DEF Abort, Local
<1>3. ASSUME NEW x \in Transactions, Step(x) PROVE Next \/ UNCHANGED storeVars
  <2>1. /\ TxOK(x) /\ tx[x].primary \in Emails \cup {NULL} /\ tx[x].seats \in SUBSET Emails
        /\ tx[x].qty \in Quantities \cup {NULL}
    BY DEF LockInv, TxType
  <2>2. CASE \/ WriteOrder(x) \/ OrderSettled(x) \/ WriteTier(x) \/ TierRefused(x)
             \/ InsertOrder(x) \/ KeyTaken(x) \/ InsertSeat(x) \/ SeatRefused(x)
    BY <2>2 DEF WriteOrder, OrderSettled, WriteTier, TierRefused, InsertOrder,
                KeyTaken, InsertSeat, SeatRefused, Local
  <2>3. CASE CommitCheckout(x)
    <3>1. /\ tx[x].ord \in Orders /\ tx[x].tier \in Tiers
          /\ tx[x].primary \in Emails
      BY <2>1, <2>3 DEF CommitCheckout, Committing, TxOK, AboutOK
    <3> QED
      BY <2>1, <2>3, <3>1, CommitIsAction DEF Next, OrderNext
  <2>4. CASE CommitPayment(x)
    <3>1. tx[x].ord \in Orders
      BY <2>1, <2>4 DEF CommitPayment, Committing, TxOK, AboutOK, Settlers
    <3> QED
      BY <2>4, <3>1, CommitIsAction DEF Next, OrderNext
  <2>5. CASE CommitRelease(x)
    <3>1. tx[x].ord \in Orders /\ tx[x].to \in {"FAILED", "EXPIRED"}
      BY <2>1, <2>5 DEF CommitRelease, Committing, TxOK, AboutOK, Settlers
    <3> QED
      BY <2>5, <3>1, CommitIsAction DEF Next, OrderNext
  <2>6. CASE CommitEdit(x)
    <3>1. tx[x].tier \in Tiers
      BY <2>1, <2>6 DEF CommitEdit, Committing, TxOK, AboutOK
    <3> QED
      BY <2>1, <2>6, <3>1, CommitIsAction DEF Next, TierNext
  <2> QED
    BY <1>3, <2>2, <2>3, <2>4, <2>5, <2>6 DEF Step
<1>4. CASE Statement
  BY <1>4 DEF Statement, Next, OrderNext, TierNext, GuestNext
<1>5. CASE UNCHANGED lockVars
  BY <1>5 DEF lockVars
<1> QED
  BY <1>1, <1>2, <1>3, <1>4, <1>5 DEF LockNext
-------------------------------------------------------------------------------
(* The invariant is kept *)

TxTypeOf(x) ==
  tx[x] \in
    [kind : Kinds,
     at : {"idle", "order", "tier", "insert", "register", "commit"},
     ord : Orders \cup {NULL}, tier : Tiers \cup {NULL},
     primary : Emails \cup {NULL}, seats : SUBSET Emails,
     to : {"FAILED", "EXPIRED", NULL}, qty : Quantities \cup {NULL},
     locked : BOOLEAN,
     row : Rows \cup {NULL}, in : SUBSET Emails, cur : Emails \cup {NULL}]

(* Only transaction x has changed. *)
OnlyTx(x) ==
  /\ DOMAIN tx' = Transactions /\ tx' = [y \in Transactions |-> tx'[y]]
  /\ \A y \in Transactions \ {x} : tx'[y] = tx[y]

(* A step of one transaction that commits nothing. *)
LEMMA LocalKeeps ==
  ASSUME LockInv, NEW x \in Transactions, UNCHANGED storeVars, OnlyTx(x),
         TxTypeOf(x)', TxOK(x)', statements' \in 0..MaxStatements,
         \A y \in Transactions \ {x} : Apart(x, y)'
  PROVE  LockInv'
<1>1. TypeOK'
  BY DEF LockInv, TypeOK, storeVars, tierVars, orderVars, guestVars
<1>2. TxType'
  BY DEF LockInv, TxType, TxTypeOf, OnlyTx
<1>3. ASSUME NEW y \in Transactions PROVE TxOK(y)'
  <2>1. CASE y # x
    <3>1. TxOK(y) /\ tx'[y] = tx[y]
      BY <2>1 DEF LockInv, OnlyTx
    <3> QED
      BY <3>1 DEF TxOK, PlaceOK, HoldsOK, AboutOK, GuardOK, At, TierMatches,
                  NewRow, KeyFree, Fits, CoversCommitted, Size, storeVars,
                  tierVars, orderVars, guestVars
  <2> QED
    BY <2>1
<1>4. ASSUME NEW y \in Transactions, NEW z \in Transactions, y # z PROVE Apart(y, z)'
  <2>1. CASE y = x
    BY <1>4, <2>1
  <2>2. CASE z = x
    <3>1. Apart(x, y)'
      BY <1>4, <2>2
    <3> QED
      BY <2>2, <3>1 DEF Apart, At
  <2>3. CASE y # x /\ z # x
    BY <1>4, <2>3 DEF LockInv, OnlyTx, Apart, At
  <2> QED
    BY <2>1, <2>2, <2>3
<1> QED
  BY <1>1, <1>2, <1>3, <1>4 DEF LockInv

LEMMA RollbackKeeps ==
  ASSUME LockInv, NEW x \in Transactions, Rollback(x), UNCHANGED storeVars,
         UNCHANGED statements
  PROVE  LockInv'
<1>1. OnlyTx(x) /\ tx'[x] = Idle
  BY DEF Rollback, Set, LockInv, TxType, OnlyTx
<1>2. TxTypeOf(x)' /\ TxOK(x)' /\ \A y \in Transactions \ {x} : Apart(x, y)'
  BY <1>1 DEF Idle, TxTypeOf, TxOK, PlaceOK, HoldsOK, AboutOK, GuardOK, Apart,
              At, Kinds, Settlers
<1>3. statements' \in 0..MaxStatements
  BY DEF LockInv
<1> QED
  BY <1>1, <1>2, <1>3, LocalKeeps

LEMMA BeginKeeps ==
  ASSUME LockInv, NEW x \in Transactions, Begin(x)
  PROVE  LockInv'
<1> USE DEF TxTypeOf, TxOK, PlaceOK, HoldsOK, AboutOK, GuardOK, Apart, At,
            Begun, Kinds, Settlers
<1>1. ASSUME NEW r \in Requests, BeginCheckout(x, r) PROVE LockInv'
  <2>1. PICK o \in Orders :
          /\ status[o] = "NONE" /\ \A y \in Transactions : tx[y].ord # o
          /\ Set(x, Begun("create", o, r.tier, r.primary, r.seats, NULL, NULL))
    BY <1>1 DEF BeginCheckout
  <2>2. /\ r.tier \in Tiers /\ r.primary \in r.seats
        /\ r.seats \in SUBSET Emails
    BY RowLocksAssumption
  <2>3. /\ OnlyTx(x)
        /\ tx'[x] = Begun("create", o, r.tier, r.primary, r.seats, NULL, NULL)
    BY <2>1 DEF Set, LockInv, TxType, OnlyTx
  <2>4. UNCHANGED storeVars /\ statements' \in 0..MaxStatements /\ status'[o] = "NONE"
    BY <1>1, <2>1 DEF BeginCheckout, Local, LockInv, storeVars, orderVars
  <2>5. TxTypeOf(x)' /\ TxOK(x)'
    BY <2>2, <2>3, <2>4, PlanFacts
  <2>6. \A y \in Transactions \ {x} : Apart(x, y)'
    BY <2>1, <2>3, PlanFacts DEF OnlyTx
  <2> QED
    BY <2>3, <2>4, <2>5, <2>6, LocalKeeps
<1>2. ASSUME NEW o \in Orders, NEW kind \in Settlers, NEW to \in {"FAILED", "EXPIRED", NULL},
             kind = "release" => to \in {"FAILED", "EXPIRED"}, BeginSettle(x, o, kind, to)
      PROVE  LockInv'
  <2>1. /\ status[o] = "PENDING" /\ UNCHANGED storeVars
        /\ Set(x, Begun(kind, o, tier[o], primary[o], seats[o], to, NULL))
    BY <1>2 DEF BeginSettle, Local
  <2>2. /\ tier[o] \in Tiers /\ primary[o] \in Emails \cup {NULL}
        /\ seats[o] \in SUBSET Emails
    BY <2>1 DEF LockInv, TypeOK
  <2>3. /\ OnlyTx(x)
        /\ tx'[x] = Begun(kind, o, tier[o], primary[o], seats[o], to, NULL)
    BY <2>1 DEF Set, LockInv, TxType, OnlyTx
  <2>4. /\ statements' \in 0..MaxStatements /\ status'[o] = "PENDING"
        /\ tier'[o] = tier[o] /\ primary'[o] = primary[o] /\ seats'[o] = seats[o]
    BY <1>2, <2>1 DEF BeginSettle, Local, LockInv, storeVars, orderVars
  <2>5. TxTypeOf(x)' /\ TxOK(x)'
    BY <1>2, <2>2, <2>3, <2>4, PlanFacts
  <2>6. \A y \in Transactions \ {x} : Apart(x, y)'
    BY <2>3, PlanFacts DEF OnlyTx
  <2> QED
    BY <2>1, <2>3, <2>4, <2>5, <2>6, LocalKeeps
<1>3. ASSUME NEW t \in Tiers, NEW q \in Quantities \cup {NULL}, BeginEdit(x, t, q)
      PROVE  LockInv'
  <2>1. OnlyTx(x) /\ tx'[x] = Begun("edit", NULL, t, NULL, {}, NULL, q)
    BY <1>3 DEF BeginEdit, Set, LockInv, TxType, OnlyTx
  <2>2. UNCHANGED storeVars /\ statements' \in 0..MaxStatements
    BY <1>3, RowLocksAssumption DEF BeginEdit, LockInv
  <2>3. TxTypeOf(x)' /\ TxOK(x)'
    BY <2>1, PlanFacts
  <2>4. \A y \in Transactions \ {x} : Apart(x, y)'
    BY <2>1, PlanFacts DEF OnlyTx
  <2> QED
    BY <2>1, <2>2, <2>3, <2>4, LocalKeeps
<1> QED
  BY <1>1, <1>2, <1>3 DEF Begin

LEMMA StatementOfTxKeeps ==
  ASSUME LockInv, NEW x \in Transactions,
         \/ WriteOrder(x) \/ OrderSettled(x) \/ WriteTier(x) \/ TierRefused(x)
         \/ InsertOrder(x) \/ KeyTaken(x) \/ InsertSeat(x) \/ SeatRefused(x)
  PROVE  LockInv'
<1> DEFINE T == tx[x]
<1>1. /\ UNCHANGED storeVars /\ UNCHANGED statements
      /\ statements' \in 0..MaxStatements
  BY DEF WriteOrder, OrderSettled, WriteTier, TierRefused, InsertOrder,
         KeyTaken, InsertSeat, SeatRefused, Local, LockInv
<1>2. TxTypeOf(x) /\ TxOK(x) /\ \A y \in Transactions \ {x} : Apart(x, y)
  BY DEF LockInv, TxType, TxTypeOf
<1>3. CASE OrderSettled(x) \/ TierRefused(x) \/ KeyTaken(x) \/ SeatRefused(x)
  BY <1>1, <1>3, RollbackKeeps DEF OrderSettled, TierRefused, KeyTaken, SeatRefused
<1>4. CASE WriteOrder(x)
  <2>1. /\ At(x, "order") /\ T.kind \in Settlers /\ status[T.ord] = "PENDING"
        /\ Plan(T.kind).order = "tier"
    BY <1>2, <1>4, PlanFacts
       DEF WriteOrder, TxOK, PlaceOK, At, Settlers, TxTypeOf, Kinds
  <2>2. tx' = [tx EXCEPT ![x].locked = TRUE, ![x].at = "tier"]
    BY <1>4, <2>1 DEF WriteOrder
  <2>3. /\ OnlyTx(x) /\ TxTypeOf(x)' /\ tx'[x].at = "tier" /\ tx'[x].locked = TRUE
        /\ tx'[x].kind = T.kind /\ tx'[x].ord = T.ord /\ tx'[x].tier = T.tier
        /\ tx'[x].primary = T.primary /\ tx'[x].seats = T.seats
        /\ tx'[x].to = T.to /\ tx'[x].qty = T.qty /\ tx'[x].row = T.row
        /\ tx'[x].in = T.in /\ tx'[x].cur = T.cur
    BY <2>2 DEF LockInv, TxType, OnlyTx, TxTypeOf
  <2>4. TxOK(x)'
    BY <1>1, <1>2, <2>1, <2>3
       DEF TxOK, PlaceOK, HoldsOK, AboutOK, GuardOK, At, Settlers, storeVars,
           orderVars, guestVars
  <2>5. ASSUME NEW y \in Transactions \ {x} PROVE Apart(x, y)'
    <3>1. tx'[y] = tx[y] /\ Apart(x, y)
      BY <1>2, <2>3 DEF OnlyTx
    <3>2. tx[y].locked => T.ord # tx[y].ord
      BY <1>4 DEF WriteOrder, OrderFree, HoldsOrder
    <3> QED
      BY <2>1, <2>3, <3>1, <3>2 DEF Apart, At, Settlers
  <2> QED
    BY <1>1, <2>3, <2>4, <2>5, LocalKeeps
<1>5. CASE WriteTier(x)
  <2>1. PICK e \in T.seats \cup {NULL} :
          /\ e = NULL <=> T.kind # "pay"
          /\ tx' = [tx EXCEPT ![x].row = NewRow(x), ![x].cur = e,
                              ![x].at = Plan(T.kind).tier]
    BY <1>5 DEF WriteTier
  <2>2. /\ At(x, "tier") /\ TierMatches(x) /\ T.row = NULL
        /\ T.kind \in {"create", "pay", "release", "edit"}
        /\ T.tier \in Tiers /\ T.in = {}
    <3>1. /\ At(x, "tier") /\ TierMatches(x) /\ T.row = NULL
          /\ T.kind \in {"create", "pay", "release", "edit"} /\ T.tier \in Tiers
      BY <1>2, <1>5
         DEF WriteTier, TxOK, PlaceOK, HoldsOK, AboutOK, At, Settlers, TxTypeOf, Kinds
    <3>2. T.in = {}
      BY <1>2, <3>1 DEF TxOK, HoldsOK, At
    <3> QED
      BY <3>1, <3>2
  <2>3. /\ T.kind = "create" => Plan(T.kind).tier = "insert"
        /\ T.kind = "pay" => Plan(T.kind).tier = "register"
        /\ T.kind \in {"release", "edit"} => Plan(T.kind).tier = "commit"
    BY PlanFacts
  <2>4. NewRow(x) \in Rows /\ NewRow(x) # NULL
    <3>1. /\ quantity[T.tier] \in Quantities \cup {NULL} /\ reserved[T.tier] \in Nat
          /\ sold[T.tier] \in Nat /\ onSale[T.tier] \in BOOLEAN
          /\ T.qty \in Quantities \cup {NULL}
      BY <1>2, <2>2 DEF LockInv, TypeOK, TxTypeOf
    <3>2. Size(x) \in Nat
      <4>1. T.seats \in SUBSET Emails
        BY <1>2 DEF TxTypeOf
      <4> QED
        BY <4>1, OrderStoreAssumption, FS_Subset, FS_CardinalityType DEF Size
    <3>3. T.kind \in Settlers => reserved[T.tier] >= Size(x)
      BY <2>2 DEF TierMatches
    <3>4. NewRow(x) \in Rows
      <4>1. CASE T.kind = "create"
        BY <3>1, <3>2, <4>1 DEF NewRow, Rows, Settlers
      <4>2. CASE T.kind = "pay"
        BY <3>1, <3>2, <3>3, <4>2 DEF NewRow, Rows, Settlers
      <4>3. CASE T.kind = "release"
        BY <3>1, <3>2, <3>3, <4>3 DEF NewRow, Rows, Settlers
      <4>4. CASE T.kind = "edit"
        BY <3>1, <4>4 DEF NewRow, Rows, Settlers
      <4> QED
        BY <2>2, <4>1, <4>2, <4>3, <4>4
    <3> QED
      BY <3>4, RowLocksAssumption
  <2>5. /\ OnlyTx(x) /\ TxTypeOf(x)' /\ tx'[x].at = Plan(T.kind).tier
        /\ tx'[x].locked = T.locked
        /\ tx'[x].kind = T.kind /\ tx'[x].ord = T.ord /\ tx'[x].tier = T.tier
        /\ tx'[x].primary = T.primary /\ tx'[x].seats = T.seats
        /\ tx'[x].to = T.to /\ tx'[x].qty = T.qty /\ tx'[x].row = NewRow(x)
        /\ tx'[x].in = T.in /\ tx'[x].cur = e
    <3> DEFINE row == NewRow(x)
               place == Plan(T.kind).tier
    <3>1. /\ row \in Rows /\ place \in {"insert", "register", "commit"}
          /\ e \in Emails \cup {NULL}
      BY <1>2, <2>1, <2>2, <2>3, <2>4 DEF TxTypeOf
    <3>2. tx' = [tx EXCEPT ![x].row = row, ![x].cur = e, ![x].at = place]
      BY <2>1
    <3> HIDE DEF row, place
    <3>3. /\ OnlyTx(x) /\ TxTypeOf(x)' /\ tx'[x].at = place
          /\ tx'[x].locked = T.locked
          /\ tx'[x].kind = T.kind /\ tx'[x].ord = T.ord /\ tx'[x].tier = T.tier
          /\ tx'[x].primary = T.primary /\ tx'[x].seats = T.seats
          /\ tx'[x].to = T.to /\ tx'[x].qty = T.qty /\ tx'[x].row = row
          /\ tx'[x].in = T.in /\ tx'[x].cur = e
      BY <3>1, <3>2 DEF LockInv, TxType, OnlyTx, TxTypeOf
    <3> QED
      BY <3>3 DEF row, place
  <2>6. TierMatches(x)' /\ NewRow(x)' = NewRow(x)
    BY <1>1, <2>2, <2>5
       DEF TierMatches, NewRow, Size, Fits, CoversCommitted, storeVars, tierVars
  <2>7. TxOK(x)'
    BY <1>1, <1>2, <2>1, <2>2, <2>3, <2>4, <2>5, <2>6
       DEF TxOK, PlaceOK, HoldsOK, AboutOK, GuardOK, At, Settlers, storeVars,
           orderVars, guestVars
  <2>8. ASSUME NEW y \in Transactions \ {x} PROVE Apart(x, y)'
    <3>1. tx'[y] = tx[y] /\ Apart(x, y)
      BY <1>2, <2>5 DEF OnlyTx
    <3>2. tx[y].row # NULL => T.tier # tx[y].tier
      BY <1>5 DEF WriteTier, TierFree, HoldsTier
    <3> QED
      BY <2>2, <2>3, <2>5, <3>1, <3>2 DEF Apart, At
  <2> QED
    BY <1>1, <2>5, <2>7, <2>8, LocalKeeps
<1>6. CASE InsertOrder(x)
  <2>1. T.kind = "create" /\ At(x, "insert") /\ KeyFree(T.primary)
    BY <1>2, <1>6 DEF InsertOrder, TxOK, PlaceOK, At, TxTypeOf, Kinds, Settlers
  <2>2. /\ OnlyTx(x) /\ TxTypeOf(x)' /\ tx'[x].at = "commit"
        /\ tx'[x].locked = T.locked
        /\ tx'[x].kind = T.kind /\ tx'[x].ord = T.ord /\ tx'[x].tier = T.tier
        /\ tx'[x].primary = T.primary /\ tx'[x].seats = T.seats
        /\ tx'[x].to = T.to /\ tx'[x].qty = T.qty /\ tx'[x].row = T.row
        /\ tx'[x].in = T.in /\ tx'[x].cur = T.cur
    BY <1>6 DEF InsertOrder, LockInv, TxType, OnlyTx, TxTypeOf
  <2>3. /\ TierMatches(x) => TierMatches(x)'
        /\ NewRow(x)' = NewRow(x) /\ KeyFree(T.primary)'
    BY <1>1, <2>1, <2>2
       DEF TierMatches, NewRow, Size, Fits, CoversCommitted, KeyFree, storeVars,
           tierVars, orderVars
  <2>4. TxOK(x)'
    BY <1>1, <1>2, <2>1, <2>2, <2>3
       DEF TxOK, PlaceOK, HoldsOK, AboutOK, GuardOK, At, Settlers, KeyFree,
           storeVars, orderVars, guestVars
  <2>5. ASSUME NEW y \in Transactions \ {x} PROVE Apart(x, y)'
    <3>1. tx'[y] = tx[y] /\ Apart(x, y)
      BY <1>2, <2>2 DEF OnlyTx
    <3>2. tx[y].kind = "create" /\ At(y, "commit") => T.primary # tx[y].primary
      BY <1>6 DEF InsertOrder, HoldsKey
    <3> QED
      BY <2>2, <3>1, <3>2 DEF Apart, At
  <2> QED
    BY <1>1, <2>2, <2>4, <2>5, LocalKeeps
<1>7. CASE InsertSeat(x)
  <2>1. /\ T.kind = "pay" /\ At(x, "register") /\ T.cur \in T.seats \ T.in
        /\ T.cur \in Emails /\ T.cur \notin attendees /\ T.cur # NULL
    BY <1>2, <1>7
       DEF InsertSeat, TxOK, PlaceOK, HoldsOK, At, TxTypeOf, Kinds, Settlers
  <2>2. /\ OnlyTx(x) /\ TxTypeOf(x)' /\ tx'[x].locked = T.locked
        /\ tx'[x].kind = T.kind /\ tx'[x].ord = T.ord /\ tx'[x].tier = T.tier
        /\ tx'[x].primary = T.primary /\ tx'[x].seats = T.seats
        /\ tx'[x].to = T.to /\ tx'[x].qty = T.qty /\ tx'[x].row = T.row
        /\ tx'[x].in = T.in \cup {T.cur}
        /\ \/ tx'[x].in = T.seats /\ tx'[x].at = "commit" /\ tx'[x].cur = NULL
           \/ tx'[x].at = "register" /\ tx'[x].cur \in T.seats \ tx'[x].in
    BY <1>2, <1>7, <2>1 DEF InsertSeat, LockInv, TxType, OnlyTx, TxTypeOf, At
  <2>3. /\ TierMatches(x) => TierMatches(x)'
        /\ NewRow(x)' = NewRow(x)
    BY <1>1, <2>1, <2>2
       DEF TierMatches, NewRow, Size, Fits, CoversCommitted, storeVars,
           tierVars, orderVars
  <2>4. tx'[x].cur # NULL <=> tx'[x].at = "register"
    BY <1>2, <2>2, OrderStoreAssumption DEF TxTypeOf
  <2>5. TxOK(x)'
    BY <1>1, <1>2, <2>1, <2>2, <2>3, <2>4
       DEF TxOK, PlaceOK, HoldsOK, AboutOK, GuardOK, At, Settlers,
           storeVars, orderVars, guestVars
  <2>6. ASSUME NEW y \in Transactions \ {x} PROVE Apart(x, y)'
    <3>1. tx'[y] = tx[y] /\ Apart(x, y)
      BY <1>2, <2>2 DEF OnlyTx
    <3>2. T.cur \notin tx[y].in
      BY <1>7 DEF InsertSeat, EmailFree, HoldsEmail
    <3> QED
      BY <2>1, <2>2, <3>1, <3>2 DEF Apart, At
  <2> QED
    BY <1>1, <2>2, <2>5, <2>6, LocalKeeps
<1> QED
  BY <1>3, <1>4, <1>5, <1>6, <1>7
(* A commit ends the transaction; what it changes are the rows it holds. *)
LEMMA CommitFrame ==
  ASSUME LockInv, TypeOK', NEW x \in Transactions, Committing(x, tx[x].kind),
         NEW S \in SUBSET tx[x].in,
         \A t \in Tiers \ {tx[x].tier} :
           /\ quantity'[t] = quantity[t] /\ reserved'[t] = reserved[t]
           /\ sold'[t] = sold[t] /\ onSale'[t] = onSale[t],
         \A o \in Orders \ {tx[x].ord} :
           /\ status'[o] = status[o] /\ tier'[o] = tier[o] /\ seats'[o] = seats[o]
           /\ primary'[o] = primary[o] /\ activeKey'[o] = activeKey[o],
         tx[x].ord \in Orders =>
           /\ status'[tx[x].ord] # "NONE"
           /\ tx[x].kind # "create" =>
                activeKey'[tx[x].ord] \in {NULL, activeKey[tx[x].ord]}
           /\ tx[x].kind = "create" => activeKey'[tx[x].ord] = tx[x].primary
           /\ status[tx[x].ord] # "NONE" =>
                /\ tier'[tx[x].ord] = tier[tx[x].ord]
                /\ seats'[tx[x].ord] = seats[tx[x].ord]
                /\ primary'[tx[x].ord] = primary[tx[x].ord],
         attendees' = attendees \cup S
  PROVE  LockInv'
<1>1. /\ tx' = [tx EXCEPT ![x] = Idle] /\ UNCHANGED statements /\ At(x, "commit")
      /\ tx[x].kind \in {"create", "pay", "release", "edit"}
  BY DEF Committing, Rollback, Set, LockInv, TxOK, PlaceOK, At, TxType, Kinds, Settlers
<1>2. /\ tx'[x] = Idle /\ \A y \in Transactions \ {x} : tx'[y] = tx[y]
      /\ TxType'
  BY <1>1 DEF LockInv, TxType, Idle, Kinds
<1>3. TxOK(x)' /\ \A y \in Transactions \ {x} : Apart(x, y)' /\ Apart(y, x)'
  BY <1>2 DEF Idle, TxOK, PlaceOK, HoldsOK, AboutOK, GuardOK, Apart, At, Settlers
<1>4. /\ TxOK(x) /\ tx[x].row # NULL /\ (tx[x].kind \in Settlers => tx[x].locked)
      /\ (tx[x].kind \in Settlers \cup {"create"} => tx[x].ord \in Orders)
  BY <1>1 DEF LockInv, TxOK, HoldsOK, AboutOK, At, Settlers
<1>5. ASSUME NEW y \in Transactions \ {x} PROVE TxOK(y)'
  <2>1. tx'[y] = tx[y] /\ TxOK(y) /\ Apart(x, y)
    BY <1>2 DEF LockInv
  <2>2. PlaceOK(y)' /\ HoldsOK(y)'
    BY <2>1 DEF TxOK, PlaceOK, HoldsOK, At
  <2>3. /\ tx[y].kind = "create" => tx[y].ord # tx[x].ord
        /\ tx[y].locked => tx[y].ord # tx[x].ord
    <3>1. CASE tx[x].kind \in Settlers
      BY <1>4, <2>1, <3>1 DEF TxOK, AboutOK, Apart
    <3>2. CASE tx[x].kind = "create"
      BY <1>4, <2>1, <3>2 DEF TxOK, AboutOK, Apart, HoldsOK
    <3>3. CASE tx[x].kind = "edit"
      <4>1. tx[x].ord \notin Orders
        BY <1>4, <3>3, RowLocksAssumption DEF TxOK, AboutOK
      <4> QED
        BY <2>1, <4>1 DEF TxOK, AboutOK, HoldsOK
    <3> QED
      BY <1>1, <3>1, <3>2, <3>3 DEF Settlers
  <2>4. AboutOK(y)'
    BY <1>4, <2>1, <2>3 DEF TxOK, AboutOK
  <2>5. tx[y].locked => status'[tx[y].ord] = "PENDING"
    BY <2>1, <2>3 DEF TxOK, GuardOK, AboutOK, HoldsOK
  <2>6. ASSUME tx[y].row # NULL PROVE TierMatches(y)' /\ NewRow(y)' = NewRow(y)
    <3>1. tx[y].tier \in Tiers \ {tx[x].tier} /\ TierMatches(y)
      BY <1>4, <2>1, <2>6 DEF Apart, TxOK, GuardOK, AboutOK, HoldsOK, PlaceOK,
                               LockInv, TxType, At
    <3>2. /\ quantity'[tx[y].tier] = quantity[tx[y].tier]
          /\ reserved'[tx[y].tier] = reserved[tx[y].tier]
          /\ sold'[tx[y].tier] = sold[tx[y].tier]
          /\ onSale'[tx[y].tier] = onSale[tx[y].tier]
      BY <3>1
    <3> QED
      BY <2>1, <3>1, <3>2 DEF TierMatches, NewRow, Fits, CoversCommitted, Size
  <2>7. ASSUME tx[y].kind = "create", At(y, "commit") PROVE KeyFree(tx[y].primary)'
    <3>1. KeyFree(tx[y].primary) /\ tx[y].primary \in Emails
      BY <2>1, <2>7 DEF TxOK, GuardOK, AboutOK, LockInv, TxType
    <3>2. tx[x].kind = "create" => tx[x].primary # tx[y].primary
      BY <1>1, <2>1, <2>7 DEF Apart
    <3> QED
      BY <2>1, <3>1, <3>2, OrderStoreAssumption DEF KeyFree
  <2>8. tx[y].in \cap attendees' = {}
    BY <2>1 DEF TxOK, GuardOK, Apart
  <2> QED
    BY <2>1, <2>2, <2>4, <2>5, <2>6, <2>7, <2>8 DEF TxOK, GuardOK, At
<1>6. ASSUME NEW y \in Transactions \ {x}, NEW z \in Transactions \ {x}, y # z
      PROVE  Apart(y, z)'
  BY <1>2, <1>6 DEF LockInv, Apart, At
<1> QED
  BY <1>1, <1>2, <1>3, <1>5, <1>6 DEF LockInv

LEMMA CommitKeeps ==
  ASSUME LockInv, TypeOK', NEW x \in Transactions,
         \/ CommitCheckout(x) \/ CommitPayment(x)
         \/ CommitRelease(x) \/ CommitEdit(x)
  PROVE  LockInv'
<1>1. TypeOK /\ TxOK(x)
  BY DEF LockInv
<1>2. \A t \in Tiers \ {tx[x].tier} :
        /\ quantity'[t] = quantity[t] /\ reserved'[t] = reserved[t]
        /\ sold'[t] = sold[t] /\ onSale'[t] = onSale[t]
  BY <1>1 DEF CommitCheckout, CommitPayment, CommitRelease, CommitEdit,
              InstallTier, TypeOK
<1>3. CASE CommitCheckout(x)
  <2>1. Committing(x, tx[x].kind) /\ tx[x].kind = "create" /\ attendees' = attendees \cup {}
    BY <1>3 DEF CommitCheckout, Committing, guestVars
  <2>2. tx[x].ord \in Orders /\ status[tx[x].ord] = "NONE"
    BY <1>1, <2>1 DEF TxOK, AboutOK
  <2>3. /\ \A o \in Orders \ {tx[x].ord} :
             /\ status'[o] = status[o] /\ tier'[o] = tier[o] /\ seats'[o] = seats[o]
             /\ primary'[o] = primary[o] /\ activeKey'[o] = activeKey[o]
        /\ status'[tx[x].ord] = "PENDING" /\ activeKey'[tx[x].ord] = tx[x].primary
    BY <1>1, <1>3, <2>2 DEF CommitCheckout, TypeOK
  <2> QED
    BY <1>2, <2>1, <2>2, <2>3, CommitFrame
<1>4. CASE CommitPayment(x)
  <2>1. /\ Committing(x, tx[x].kind) /\ tx[x].kind = "pay"
        /\ attendees' = attendees \cup tx[x].in
        /\ UNCHANGED <<tier, seats, primary>>
    BY <1>4 DEF CommitPayment, Committing
  <2>2. tx[x].ord \in Orders
    BY <1>1, <2>1 DEF TxOK, AboutOK, Settlers
  <2>3. /\ \A o \in Orders \ {tx[x].ord} :
             status'[o] = status[o] /\ activeKey'[o] = activeKey[o]
        /\ status'[tx[x].ord] = "PAID" /\ activeKey'[tx[x].ord] = NULL
    BY <1>1, <1>4, <2>2 DEF CommitPayment, TypeOK
  <2> QED
    BY <1>2, <2>1, <2>2, <2>3, CommitFrame
<1>5. CASE CommitRelease(x)
  <2>1. /\ Committing(x, tx[x].kind) /\ tx[x].kind = "release"
        /\ attendees' = attendees \cup {} /\ UNCHANGED <<tier, seats, primary>>
    BY <1>5 DEF CommitRelease, Committing, guestVars
  <2>2. tx[x].ord \in Orders /\ tx[x].to \in {"FAILED", "EXPIRED"}
    BY <1>1, <2>1 DEF TxOK, AboutOK, Settlers
  <2>3. /\ \A o \in Orders \ {tx[x].ord} :
             status'[o] = status[o] /\ activeKey'[o] = activeKey[o]
        /\ status'[tx[x].ord] # "NONE" /\ activeKey'[tx[x].ord] = NULL
    BY <1>1, <1>5, <2>2 DEF CommitRelease, TypeOK
  <2> QED
    BY <1>2, <2>1, <2>2, <2>3, CommitFrame
<1>6. CASE CommitEdit(x)
  <2>1. /\ Committing(x, tx[x].kind) /\ tx[x].kind = "edit"
        /\ attendees' = attendees \cup {} /\ UNCHANGED orderVars
    BY <1>6 DEF CommitEdit, Committing, guestVars
  <2>2. tx[x].ord \notin Orders
    BY <1>1, <2>1, RowLocksAssumption DEF TxOK, AboutOK
  <2> QED
    BY <1>2, <2>1, <2>2, CommitFrame DEF orderVars
<1> QED
  BY <1>3, <1>4, <1>5, <1>6

(* A single statement leaves what a transaction relies on. *)
LEMMA StatementFrame ==
  ASSUME LockInv, TypeOK', UNCHANGED tx, statements' \in 0..MaxStatements,
         UNCHANGED <<quantity, reserved, sold, tier, seats, primary>>,
         \A t \in Tiers : onSale'[t] = onSale[t] \/ TierFree(t),
         \A o \in Orders :
           /\ status[o] = "NONE" <=> status'[o] = "NONE"
           /\ status[o] = "PENDING" => status'[o] = "PENDING"
           /\ activeKey'[o] \in {NULL, activeKey[o]},
         \A e \in attendees' : e \in attendees \/ EmailFree(e)
  PROVE  LockInv'
<1>1. ASSUME NEW y \in Transactions PROVE TxOK(y)'
  <2>1. tx'[y] = tx[y] /\ TxOK(y)
    BY DEF LockInv
  <2>2. PlaceOK(y)' /\ HoldsOK(y)'
    BY <2>1 DEF TxOK, PlaceOK, HoldsOK, At
  <2>3. AboutOK(y)'
    BY <2>1 DEF TxOK, AboutOK
  <2>4. tx[y].locked => status'[tx[y].ord] = "PENDING"
    BY <2>1 DEF TxOK, GuardOK, AboutOK, HoldsOK
  <2>5. ASSUME tx[y].row # NULL PROVE TierMatches(y)' /\ NewRow(y)' = NewRow(y)
    <3>1. tx[y].tier \in Tiers /\ TierMatches(y)
      BY <2>1, <2>5 DEF TxOK, GuardOK, AboutOK, HoldsOK, PlaceOK, LockInv, TxType, At
    <3>2. onSale'[tx[y].tier] = onSale[tx[y].tier]
      BY <2>5, <3>1 DEF TierFree, HoldsTier
    <3> QED
      BY <2>1, <3>1, <3>2 DEF TierMatches, NewRow, Fits, CoversCommitted, Size
  <2>6. ASSUME tx[y].kind = "create", At(y, "commit") PROVE KeyFree(tx[y].primary)'
    <3>1. KeyFree(tx[y].primary) /\ tx[y].primary \in Emails
      BY <2>1, <2>6 DEF TxOK, GuardOK, AboutOK, LockInv, TxType
    <3> QED
      BY <2>1, <3>1, OrderStoreAssumption DEF KeyFree
  <2>7. tx[y].in \cap attendees' = {}
    BY <2>1 DEF TxOK, GuardOK, EmailFree, HoldsEmail
  <2> QED
    BY <2>1, <2>2, <2>3, <2>4, <2>5, <2>6, <2>7 DEF TxOK, GuardOK, At
<1>2. ASSUME NEW y \in Transactions, NEW z \in Transactions, y # z PROVE Apart(y, z)'
  BY <1>2 DEF LockInv, Apart, At
<1>3. TxType'
  BY DEF LockInv, TxType
<1> QED
  BY <1>1, <1>2, <1>3 DEF LockInv

LEMMA StatementKeeps ==
  ASSUME LockInv, TypeOK', Statement
  PROVE  LockInv'
<1> USE DEF tierVars, orderVars, guestVars
<1>1. TypeOK /\ UNCHANGED tx /\ statements' \in 0..MaxStatements
  BY RowLocksAssumption DEF LockInv, Statement
<1>2. ASSUME NEW o \in Orders,
             \/ ClaimInitialization(o) \/ SaveAuthorizationUrl(o)
             \/ ClaimRefund(o) \/ ConfirmRefund(o)
             \/ ExpiryPasses(o) \/ LeaseAges(o)
      PROVE  LockInv'
  <2>1. /\ UNCHANGED <<quantity, reserved, sold, tier, seats, primary, onSale, attendees>>
        /\ \A q \in Orders :
             /\ status[q] = "NONE" <=> status'[q] = "NONE"
             /\ status[q] = "PENDING" => status'[q] = "PENDING"
             /\ activeKey'[q] \in {NULL, activeKey[q]}
    BY <1>1, <1>2 DEF ClaimInitialization, SaveAuthorizationUrl, ClaimRefund,
                      ConfirmRefund, ExpiryPasses, LeaseAges, TypeOK
  <2> QED
    BY <1>1, <2>1, StatementFrame
<1>3. ASSUME NEW t \in Tiers, NEW b \in BOOLEAN, TierFree(t), SetOnSale(t, b)
      PROVE  LockInv'
  <2>1. \A s \in Tiers : onSale'[s] = onSale[s] \/ TierFree(s)
    BY <1>1, <1>3 DEF SetOnSale, TypeOK
  <2> QED
    BY <1>1, <1>3, <2>1, StatementFrame DEF SetOnSale
<1>4. ASSUME NEW e \in Emails,
             (EmailFree(e) /\ RegisterAttendee(e)) \/ RemoveAttendee(e)
      PROVE  LockInv'
  BY <1>1, <1>4, StatementFrame DEF RegisterAttendee, RemoveAttendee
<1>5. ASSUME NEW e \in Emails, NEW f \in Emails, EmailFree(f), ChangeEmail(e, f)
      PROVE  LockInv'
  BY <1>1, <1>5, StatementFrame DEF ChangeEmail
<1> QED
  BY <1>2, <1>3, <1>4, <1>5 DEF Statement

LEMMA LockInvStep == LockInv /\ [LockNext]_lockVars => LockInv'
<1> SUFFICES ASSUME LockInv, [LockNext]_lockVars PROVE LockInv'
  OBVIOUS
<1>1. TypeOK'
  <2>1. TypeOK /\ [Next]_storeVars
    BY LockStore DEF LockInv
  <2> QED
    BY <2>1, TypeStep
<1>2. ASSUME NEW x \in Transactions, Begin(x) \/ Step(x) \/ Abort(x) PROVE LockInv'
  BY <1>1, <1>2, BeginKeeps, StatementOfTxKeeps, CommitKeeps, RollbackKeeps
     DEF Step, Abort, Local
<1>3. CASE Statement
  BY <1>1, <1>3, StatementKeeps
<1>4. CASE UNCHANGED lockVars
  BY <1>1, <1>4 DEF lockVars, storeVars, tierVars, orderVars, guestVars, LockInv,
       TxType, TxOK, PlaceOK, HoldsOK, AboutOK, GuardOK, Apart, At, TierMatches,
       NewRow, KeyFree, Fits, CoversCommitted, Size
<1> QED
  BY <1>2, <1>3, <1>4 DEF LockNext

LEMMA LockInvariant == LockSpec => []LockInv
BY LockInvInit, LockInvStep, PTL DEF LockSpec

(* A transaction at a place holds the rows and has inserted the attendees  *)
(* that its statements up to there have written.                           *)
THEOREM LocksTypeCorrect == LockSpec => []LockTypeOK
<1>1. LockInv => LockTypeOK
  BY DEF LockInv, TxType, TxOK, HoldsOK, LockTypeOK, Kinds, At
<1> QED
  BY <1>1, LockInvariant, PTL

(* Written statement by statement, with any number of transactions in      *)
(* progress, waiting, aborting and committing, the tables change only by   *)
(* OrderStore's actions: at READ COMMITTED no update is lost and no        *)
(* condition of createCheckout, markOrderPaid, releaseReservation or       *)
(* updateTicketType is outdated when its transaction commits.              *)
THEOREM LocksMakeAtomic == LockSpec => TransactionsAtomic
<1>1. LockInit => Init
  BY DEF LockInit
<1> QED
  BY <1>1, LockStore, LockInvariant, PTL DEF LockSpec, TransactionsAtomic, Spec

(* So stock is neither oversold nor lost at READ COMMITTED, a buyer has    *)
(* one open checkout, and a ticket's order is paid.                        *)
THEOREM ConsistentAtReadCommitted ==
  LockSpec => /\ []InventoryAccounted /\ []NoOversell
              /\ []OneActiveCheckout /\ []PassBacked
              /\ Settlement /\ SaleSpec
BY LocksMakeAtomic, InventoryCorrect, NeverOversold, CheckoutUnique, TicketsBacked,
   SettlementCorrect, ImplementsSale DEF TransactionsAtomic

-------------------------------------------------------------------------------
(* Deadlock *)

(* Who is waited for, and what that says of who waits: a transaction that  *)
(* has written nothing keeps nobody waiting.                               *)
LEMMA WaitingFor ==
  ASSUME LockInv, NEW x \in Transactions, NEW y \in Transactions, WaitsFor(x, y)
  PROVE  /\ x # y /\ tx[x].at \in {"order", "tier", "insert", "register"}
         /\ At(x, "order") => tx[y].locked
         /\ At(x, "tier") => tx[y].row # NULL
         /\ At(x, "insert") => /\ tx[x].kind = "create" /\ tx[x].primary = tx[y].primary
                               /\ At(y, "commit") \/ tx[y].kind \in Settlers
         /\ At(x, "register") => /\ tx[x].kind = "pay" /\ tx[x].row # NULL
                                 /\ tx[y].kind = "pay"
                                 /\ tx[x].seats \cap tx[y].seats # {}
<1>1. TxOK(x) /\ TxOK(y) /\ tx[x].kind \in Kinds
  BY DEF LockInv, TxType
<1>2. x # y /\ tx[x].at \in {"order", "tier", "insert", "register"}
  BY DEF WaitsFor, At
<1>3. /\ At(x, "order") => tx[y].locked
      /\ At(x, "tier") => tx[y].row # NULL
  BY DEF WaitsFor, At, HoldsOrder, HoldsTier
<1>4. CASE At(x, "insert")
  <2>1. HoldsKey(y, tx[x].primary)
    BY <1>4 DEF WaitsFor, At
  <2>2. tx[x].kind = "create"
    BY <1>1, <1>4 DEF TxOK, PlaceOK, At, Kinds, Settlers
  <2>3. At(y, "commit") \/ tx[y].kind \in Settlers
    BY <1>1, <2>1 DEF HoldsKey, TxOK, HoldsOK
  <2> QED
    BY <1>2, <1>4, <2>1, <2>2, <2>3 DEF HoldsKey, At
<1>5. CASE At(x, "register")
  <2>1. tx[x].cur \in tx[y].in
    BY <1>5 DEF WaitsFor, At, HoldsEmail
  <2>2. tx[x].kind = "pay" /\ tx[x].row # NULL /\ tx[x].cur \in tx[x].seats
    BY <1>1, <1>5 DEF TxOK, PlaceOK, HoldsOK, At, Kinds, Settlers
  <2>3. tx[y].kind = "pay" /\ tx[y].in \subseteq tx[y].seats
    BY <1>1, <2>1 DEF TxOK, HoldsOK
  <2> QED
    BY <1>2, <1>5, <2>1, <2>2, <2>3 DEF At
<1> QED
  BY <1>2, <1>3, <1>4, <1>5 DEF At

(* Every circle is made of buyers with a common address: a checkout that   *)
(* meets the settlement of the same buyer's order, or payments of          *)
(* different tiers.  An edit of a tier is in none.                         *)
THEOREM DeadlocksExplained == LockSpec => []DeadlockExplained
<1>1. ASSUME LockInv PROVE DeadlockExplained
  <2>1. SUFFICES ASSUME NEW C \in SUBSET Transactions, Circle(C),
                        ~ \E x, y \in C : /\ tx[x].kind = "create"
                                          /\ tx[y].kind \in Settlers
                                          /\ tx[x].primary = tx[y].primary
                 PROVE  \A x \in C :
                          /\ tx[x].kind = "pay"
                          /\ \A y \in C \ {x} : tx[x].tier # tx[y].tier
                          /\ \E y \in C \ {x} : tx[x].seats \cap tx[y].seats # {}
    BY DEF DeadlockExplained
  <2>2. \A x \in C : /\ \E y \in C : WaitsFor(x, y)
                     /\ \E y \in C : WaitsFor(y, x)
    BY <2>1 DEF Circle
  <2>3. ASSUME NEW x \in C PROVE ~At(x, "commit") /\ ~At(x, "insert")
    <3>1. PICK y \in C : WaitsFor(x, y)
      BY <2>2
    <3>2. PICK z \in C : WaitsFor(y, z)
      BY <2>2
    <3>3. ~At(x, "commit") /\ ~At(y, "commit")
      BY <1>1, <3>1, <3>2, WaitingFor DEF At
    <3> QED
      BY <1>1, <2>1, <3>1, <3>3, WaitingFor
  <2>4. ASSUME NEW x \in C PROVE ~At(x, "order")
    <3>1. PICK y \in C : WaitsFor(x, y)
      BY <2>2
    <3>2. PICK z \in C : WaitsFor(z, x)
      BY <2>2
    <3>3. TxOK(x) /\ x \in Transactions /\ z \in Transactions
      BY <1>1, <2>1 DEF LockInv
    <3>4. z # x /\ ~At(z, "insert")
      BY <1>1, <2>3, <3>2, <3>3, WaitingFor
    <3>5. SUFFICES ASSUME At(x, "order") PROVE FALSE
      OBVIOUS
    <3>6. ~tx[x].locked /\ tx[x].row = NULL /\ tx[x].in = {}
      BY <3>3, <3>5 DEF TxOK, HoldsOK, At
    <3> QED
      BY <3>2, <3>4, <3>6 DEF WaitsFor, HoldsOrder, HoldsTier, HoldsEmail
  <2>5. ASSUME NEW x \in C PROVE ~At(x, "tier")
    <3>1. PICK z \in C : WaitsFor(z, x)
      BY <2>2
    <3>2. TxOK(x) /\ x \in Transactions /\ z \in Transactions
      BY <1>1, <2>1 DEF LockInv
    <3>3. ~At(z, "insert") /\ ~At(z, "order")
      BY <2>3, <2>4
    <3>4. SUFFICES ASSUME At(x, "tier") PROVE FALSE
      OBVIOUS
    <3>5. tx[x].row = NULL /\ tx[x].in = {}
      BY <3>2, <3>4 DEF TxOK, HoldsOK, At
    <3> QED
      BY <3>1, <3>3, <3>5 DEF WaitsFor, HoldsTier, HoldsEmail
  <2>6. ASSUME NEW x \in C
        PROVE  /\ x \in Transactions /\ tx[x].kind = "pay" /\ tx[x].row # NULL
               /\ \E y \in C \ {x} : tx[x].seats \cap tx[y].seats # {}
    <3>1. PICK y \in C : WaitsFor(x, y)
      BY <2>2
    <3>2. x \in Transactions /\ y \in Transactions
      BY <2>1
    <3>3. At(x, "register")
      BY <1>1, <2>3, <2>4, <2>5, <3>1, <3>2, WaitingFor DEF At
    <3> QED
      BY <1>1, <3>1, <3>2, <3>3, WaitingFor
  <2>7. ASSUME NEW x \in C, NEW y \in C \ {x} PROVE tx[x].tier # tx[y].tier
    <3>1. tx[x].row # NULL /\ tx[y].row # NULL /\ x \in Transactions /\ y \in Transactions
      BY <2>6
    <3> QED
      BY <1>1, <3>1 DEF LockInv, Apart
  <2> QED
    BY <2>6, <2>7
<1> QED
  BY <1>1, LockInvariant, PTL
===============================================================================
