--------------------------- MODULE OrderStoreProofs ---------------------------
(***************************************************************************)
(* Proofs about OrderStore, for any finite set of orders and addresses and *)
(* any tiers and quantities.                                               *)
(*                                                                         *)
(* TypeOK and OneActiveCheckout are inductive as they stand.  NoOversell   *)
(* speaks of the counters only and is kept by every statement that guards  *)
(* them, but that the guards of markOrderPaid and releaseReservation never *)
(* fail needs InventoryAccounted: a counter equals the seats it counts.    *)
(***************************************************************************)
EXTENDS OrderStore, FiniteSetTheorems, TLAPS

-------------------------------------------------------------------------------
(* Counting seats *)

(* The addresses of an order are finitely many, and so are its tickets. *)
LEMMA TicketsNat ==
  ASSUME TypeOK, NEW o \in Orders
  PROVE  IsFiniteSet(seats[o]) /\ Tickets(o) \in Nat
<1>1. seats[o] \in SUBSET Emails
  BY DEF TypeOK
<1>2. IsFiniteSet(seats[o])
  BY <1>1, OrderStoreAssumption, FS_Subset
<1> QED
  BY <1>2, FS_CardinalityType DEF Tickets

(* A block of seats of one order has as many members as addresses. *)
LEMMA BlockCardinality ==
  ASSUME NEW o, NEW S, IsFiniteSet(S)
  PROVE  IsFiniteSet({o} \X S) /\ Cardinality({o} \X S) = Cardinality(S)
<1> DEFINE f == [e \in S |-> <<o, e>>]
<1>1. f \in Bijection(S, {o} \X S)
  BY DEF Bijection, Injection, Surjection, IsInjective
<1> QED
  BY <1>1, FS_Bijection DEF ExistsBijection

(* Seats that do not meet are counted separately. *)
LEMMA DisjointCardinality ==
  ASSUME NEW S, NEW T, IsFiniteSet(S), IsFiniteSet(T), S \cap T = {}
  PROVE  IsFiniteSet(S \cup T)
         /\ Cardinality(S \cup T) = Cardinality(S) + Cardinality(T)
<1>1. Cardinality(S \cap T) = 0
  BY FS_EmptySet
<1>2. Cardinality(S) \in Nat /\ Cardinality(T) \in Nat
  BY FS_CardinalityType
<1>3. IsFiniteSet(S \cup T)
      /\ Cardinality(S \cup T)
           = Cardinality(S) + Cardinality(T) - Cardinality(S \cap T)
  BY FS_Union
<1> QED
  BY <1>1, <1>2, <1>3
(* The seats of tier t and status st that are not of order o, those that   *)
(* are, and how many those are.                                            *)
Others(o, t, st) == {s \in SeatsIn(t, st) : s[1] # o}
Block(o, t, st) ==
  IF status[o] = st /\ tier[o] = t THEN {o} \X seats[o] ELSE {}
Share(o, t, st) ==
  IF status[o] = st /\ tier[o] = t THEN Tickets(o) ELSE 0

LEMMA SeatsInFinite ==
  \A t, st : IsFiniteSet(SeatsIn(t, st)) /\ Cardinality(SeatsIn(t, st)) \in Nat
<1>1. IsFiniteSet(Orders \X Emails)
  BY OrderStoreAssumption, FS_Product
<1> QED
  BY <1>1, FS_Subset, FS_CardinalityType DEF SeatsIn

(* Seats of a tier and status: those of one order, and the others'. *)
Split ==
  \A o \in Orders : \A t, st :
    /\ Cardinality(Others(o, t, st)) \in Nat
    /\ Share(o, t, st) \in Nat
    /\ Cardinality(SeatsIn(t, st))
         = Cardinality(Others(o, t, st)) + Share(o, t, st)

LEMMA SeatsSplit == TypeOK => Split
<1> SUFFICES ASSUME TypeOK, NEW o \in Orders, NEW t, NEW st
             PROVE  /\ Cardinality(Others(o, t, st)) \in Nat
                    /\ Share(o, t, st) \in Nat
                    /\ Cardinality(SeatsIn(t, st))
                         = Cardinality(Others(o, t, st)) + Share(o, t, st)
  BY DEF Split
<1>1. SeatsIn(t, st) = Others(o, t, st) \cup Block(o, t, st)
  BY DEF SeatsIn, Others, Block, TypeOK
<1>2. Others(o, t, st) \cap Block(o, t, st) = {}
  BY DEF Others, Block
<1>3. IsFiniteSet(Others(o, t, st))
  BY SeatsInFinite, FS_Subset DEF Others
<1>4. IsFiniteSet(Block(o, t, st))
      /\ Cardinality(Block(o, t, st)) = Share(o, t, st)
  BY TicketsNat, BlockCardinality, FS_EmptySet DEF Block, Share, Tickets
<1>5. Cardinality(Others(o, t, st)) \in Nat /\ Share(o, t, st) \in Nat
  BY <1>3, <1>4, FS_CardinalityType
<1> QED
  BY <1>1, <1>2, <1>3, <1>4, <1>5, DisjointCardinality

(* A step that touches only order o. *)
OnlyOrder(o) ==
  \A p \in Orders \ {o} :
    status'[p] = status[p] /\ tier'[p] = tier[p] /\ seats'[p] = seats[p]

(* Such a step changes a count by what o's share of it changes. *)
LEMMA CountMoves ==
  ASSUME TypeOK, TypeOK', NEW o \in Orders, OnlyOrder(o), NEW t, NEW st
  PROVE  /\ Share(o, t, st) \in Nat /\ Share(o, t, st)' \in Nat
         /\ Cardinality(SeatsIn(t, st)')
              = Cardinality(SeatsIn(t, st)) - Share(o, t, st) + Share(o, t, st)'
<1>1. Others(o, t, st)' = Others(o, t, st)
  BY DEF Others, SeatsIn, OnlyOrder
<1>2. Split /\ Split'
  BY SeatsSplit, PTL
<1>3. /\ Share(o, t, st) \in Nat
      /\ Cardinality(Others(o, t, st)) \in Nat
      /\ Cardinality(SeatsIn(t, st))
           = Cardinality(Others(o, t, st)) + Share(o, t, st)
  BY <1>2 DEF Split
<1>4. /\ Share(o, t, st)' \in Nat
      /\ Cardinality(SeatsIn(t, st)')
           = Cardinality(Others(o, t, st)') + Share(o, t, st)'
  BY <1>2 DEF Split
<1> QED
  BY <1>1, <1>3, <1>4

-------------------------------------------------------------------------------
(* Type correctness *)

LEMMA TypeInit == Init => TypeOK
BY DEF Init, TypeOK, Statuses, Leases

(* Only markOrderPaid and releaseReservation decrement a counter, and both *)
(* carry the guard that keeps it natural.                                  *)
LEMMA TypeStep == TypeOK /\ [Next]_storeVars => TypeOK'
<1> SUFFICES ASSUME TypeOK, [Next]_storeVars PROVE TypeOK'
  OBVIOUS
<1> USE DEF TypeOK, Statuses, Leases
<1>1. ASSUME NEW o \in Orders, NEW t \in Tiers, NEW e \in Emails,
             NEW S \in SUBSET Emails, ReserveAndCreate(o, t, e, S)
      PROVE  TypeOK'
  <2>1. Cardinality(S) \in Nat
    BY OrderStoreAssumption, FS_Subset, FS_CardinalityType
  <2> QED
    BY <1>1, <2>1 DEF ReserveAndCreate, tierVars, orderVars, guestVars
<1>2. ASSUME NEW o \in Orders, ClaimInitialization(o) PROVE TypeOK'
  BY <1>2 DEF ClaimInitialization, tierVars, guestVars
<1>3. ASSUME NEW o \in Orders, SaveAuthorizationUrl(o) PROVE TypeOK'
  BY <1>3 DEF SaveAuthorizationUrl, tierVars, guestVars
<1>4. ASSUME NEW o \in Orders, MarkOrderPaid(o) PROVE TypeOK'
  <2>1. tier[o] \in Tiers /\ Tickets(o) \in Nat
    BY <1>4, TicketsNat DEF MarkOrderPaid
  <2> QED
    BY <1>4, <2>1 DEF MarkOrderPaid
<1>5. ASSUME NEW o \in Orders, NEW to \in {"FAILED", "EXPIRED"},
             ReleaseReservation(o, to)
      PROVE  TypeOK'
  <2>1. tier[o] \in Tiers /\ Tickets(o) \in Nat
    BY <1>5, TicketsNat DEF ReleaseReservation
  <2> QED
    BY <1>5, <2>1 DEF ReleaseReservation, guestVars
<1>6. ASSUME NEW o \in Orders, ClaimRefund(o) \/ ConfirmRefund(o) PROVE TypeOK'
  BY <1>6 DEF ClaimRefund, ConfirmRefund, tierVars, guestVars
<1>7. ASSUME NEW o \in Orders, ExpiryPasses(o) \/ LeaseAges(o) PROVE TypeOK'
  BY <1>7 DEF ExpiryPasses, LeaseAges, tierVars, guestVars
<1>8. ASSUME NEW t \in Tiers, TierNext(t) PROVE TypeOK'
  BY <1>8 DEF TierNext, SetQuantity, SetOnSale, orderVars, guestVars
<1>9. ASSUME NEW e \in Emails, GuestNext(e) PROVE TypeOK'
  BY <1>9 DEF GuestNext, RegisterAttendee, RemoveAttendee, ChangeEmail,
              tierVars, orderVars
<1>10. CASE UNCHANGED storeVars
  BY <1>10 DEF storeVars, tierVars, orderVars, guestVars
<1> QED
  BY <1>1, <1>2, <1>3, <1>4, <1>5, <1>6, <1>7, <1>8, <1>9, <1>10
     DEF Next, OrderNext

(* Every column keeps the type the schema gives it. *)
THEOREM TypeCorrect == Spec => []TypeOK
BY TypeInit, TypeStep, PTL DEF Spec

-------------------------------------------------------------------------------
(* Inventory *)

(* No order exists at first, so both counters count nothing. *)
LEMMA InventoryInit == Init => InventoryAccounted
<1> SUFFICES ASSUME Init, NEW t \in Tiers, NEW st \in {"PENDING", "PAID"}
             PROVE  Cardinality(SeatsIn(t, st)) = 0
  BY DEF Init, InventoryAccounted
<1>1. SeatsIn(t, st) = {}
  BY DEF Init, SeatsIn
<1> QED
  BY <1>1, FS_EmptySet

(* A step that leaves statuses, tiers, seats and counters alone. *)
LEMMA InventoryFrame ==
  ASSUME InventoryAccounted, UNCHANGED <<status, tier, seats, reserved, sold>>
  PROVE  InventoryAccounted'
BY DEF InventoryAccounted, SeatsIn

LEMMA InventoryStep ==
  TypeOK /\ TypeOK' /\ InventoryAccounted /\ [Next]_storeVars
    => InventoryAccounted'
<1> SUFFICES ASSUME TypeOK, TypeOK', InventoryAccounted, [Next]_storeVars
             PROVE  InventoryAccounted'
  OBVIOUS
<1>1. ASSUME NEW o \in Orders, OnlyOrder(o),
             \A t \in Tiers :
               /\ reserved'[t] = reserved[t] - Share(o, t, "PENDING")
                                    + Share(o, t, "PENDING")'
               /\ sold'[t] = sold[t] - Share(o, t, "PAID")
                                + Share(o, t, "PAID")'
      PROVE  InventoryAccounted'
  <2> SUFFICES ASSUME NEW t \in Tiers
               PROVE  /\ reserved'[t] = Cardinality(SeatsIn(t, "PENDING")')
                      /\ sold'[t] = Cardinality(SeatsIn(t, "PAID")')
    BY DEF InventoryAccounted
  <2>1. /\ reserved[t] = Cardinality(SeatsIn(t, "PENDING"))
        /\ sold[t] = Cardinality(SeatsIn(t, "PAID"))
    BY DEF InventoryAccounted
  <2> QED
    BY <1>1, <2>1, CountMoves
<1>2. ASSUME NEW o \in Orders, NEW t \in Tiers, NEW e \in Emails,
             NEW S \in SUBSET Emails, ReserveAndCreate(o, t, e, S)
      PROVE  InventoryAccounted'
  <2>1. OnlyOrder(o)
    BY <1>2 DEF ReserveAndCreate, OnlyOrder, TypeOK
  <2>2. Cardinality(S) \in Nat
    BY OrderStoreAssumption, FS_Subset, FS_CardinalityType
  <2>3. ASSUME NEW u \in Tiers
        PROVE  /\ Share(o, u, "PENDING") = 0
               /\ Share(o, u, "PAID") = 0
               /\ Share(o, u, "PAID")' = 0
               /\ Share(o, u, "PENDING")'
                    = IF u = t THEN Cardinality(S) ELSE 0
    BY <1>2 DEF ReserveAndCreate, Share, Tickets, TypeOK
  <2>4. ASSUME NEW u \in Tiers
        PROVE  /\ reserved'[u]
                    = reserved[u] + (IF u = t THEN Cardinality(S) ELSE 0)
               /\ sold'[u] = sold[u]
               /\ reserved[u] \in Nat /\ sold[u] \in Nat
    BY <1>2, <2>2 DEF ReserveAndCreate, TypeOK
  <2> QED
    BY <1>1, <2>1, <2>2, <2>3, <2>4
<1>3. ASSUME NEW o \in Orders, MarkOrderPaid(o) PROVE InventoryAccounted'
  <2>1. OnlyOrder(o)
    BY <1>3 DEF MarkOrderPaid, OnlyOrder, TypeOK
  <2>2. Tickets(o) \in Nat /\ tier[o] \in Tiers
    BY <1>3, TicketsNat DEF MarkOrderPaid, TypeOK
  <2>3. ASSUME NEW u \in Tiers
        PROVE  /\ Share(o, u, "PENDING")
                    = IF u = tier[o] THEN Tickets(o) ELSE 0
               /\ Share(o, u, "PAID") = 0
               /\ Share(o, u, "PENDING")' = 0
               /\ Share(o, u, "PAID")' = IF u = tier[o] THEN Tickets(o) ELSE 0
    BY <1>3 DEF MarkOrderPaid, Share, Tickets, TypeOK
  <2>4. ASSUME NEW u \in Tiers
        PROVE  /\ reserved'[u]
                    = reserved[u] - (IF u = tier[o] THEN Tickets(o) ELSE 0)
               /\ sold'[u] = sold[u] + (IF u = tier[o] THEN Tickets(o) ELSE 0)
               /\ reserved[u] \in Nat /\ sold[u] \in Nat
    BY <1>3, <2>2 DEF MarkOrderPaid, TypeOK
  <2> QED
    BY <1>1, <2>1, <2>2, <2>3, <2>4
<1>4. ASSUME NEW o \in Orders, NEW to \in {"FAILED", "EXPIRED"},
             ReleaseReservation(o, to)
      PROVE  InventoryAccounted'
  <2>1. OnlyOrder(o)
    BY <1>4 DEF ReleaseReservation, OnlyOrder, TypeOK
  <2>2. Tickets(o) \in Nat /\ tier[o] \in Tiers
    BY <1>4, TicketsNat DEF ReleaseReservation, TypeOK
  <2>3. ASSUME NEW u \in Tiers
        PROVE  /\ Share(o, u, "PENDING")
                    = IF u = tier[o] THEN Tickets(o) ELSE 0
               /\ Share(o, u, "PENDING")' = 0
               /\ Share(o, u, "PAID") = 0 /\ Share(o, u, "PAID")' = 0
    BY <1>4 DEF ReleaseReservation, Share, TypeOK
  <2>4. ASSUME NEW u \in Tiers
        PROVE  /\ reserved'[u]
                    = reserved[u] - (IF u = tier[o] THEN Tickets(o) ELSE 0)
               /\ sold'[u] = sold[u]
               /\ reserved[u] \in Nat /\ sold[u] \in Nat
    BY <1>4, <2>2 DEF ReleaseReservation, TypeOK
  <2> QED
    BY <1>1, <2>1, <2>2, <2>3, <2>4
<1>5. ASSUME NEW o \in Orders, ClaimRefund(o) \/ ConfirmRefund(o)
      PROVE  InventoryAccounted'
  <2>1. \A t \in Tiers, st \in {"PENDING", "PAID"} :
          SeatsIn(t, st)' = SeatsIn(t, st)
    BY <1>5 DEF ClaimRefund, ConfirmRefund, SeatsIn, TypeOK
  <2> QED
    BY <1>5, <2>1 DEF ClaimRefund, ConfirmRefund, InventoryAccounted, tierVars
<1>6. ASSUME NEW o \in Orders,
             \/ ClaimInitialization(o)
             \/ SaveAuthorizationUrl(o)
             \/ ExpiryPasses(o)
             \/ LeaseAges(o)
      PROVE  InventoryAccounted'
  BY <1>6, InventoryFrame
     DEF ClaimInitialization, SaveAuthorizationUrl, ExpiryPasses, LeaseAges,
         tierVars
<1>7. ASSUME NEW t \in Tiers, TierNext(t) PROVE InventoryAccounted'
  BY <1>7, InventoryFrame DEF TierNext, SetQuantity, SetOnSale, orderVars
<1>8. ASSUME NEW e \in Emails, GuestNext(e) PROVE InventoryAccounted'
  BY <1>8, InventoryFrame DEF GuestNext, RegisterAttendee, RemoveAttendee,
                              ChangeEmail, tierVars, orderVars
<1>9. CASE UNCHANGED storeVars
  BY <1>9, InventoryFrame DEF storeVars, tierVars, orderVars
<1> QED
  BY <1>2, <1>3, <1>4, <1>5, <1>6, <1>7, <1>8, <1>9 DEF Next, OrderNext

(* The counters of a tier always equal the seats of its pending and of its *)
(* paid orders, although four statements of two services move them by      *)
(* increments.                                                             *)
THEOREM InventoryCorrect == Spec => []InventoryAccounted
BY TypeCorrect, InventoryInit, InventoryStep, PTL DEF Spec

(* The share of a pending order is part of its tier's count. *)
ReservationCovers ==
  \A o \in Orders : status[o] = "PENDING" => reserved[tier[o]] >= Tickets(o)

LEMMA AccountedCovers == TypeOK /\ InventoryAccounted => ReservationCovers
<1> SUFFICES ASSUME TypeOK, InventoryAccounted,
                    NEW o \in Orders, status[o] = "PENDING"
             PROVE  reserved[tier[o]] >= Tickets(o)
  BY DEF ReservationCovers
<1>1. tier[o] \in Tiers
  BY DEF TypeOK
<1>2. Share(o, tier[o], "PENDING") = Tickets(o)
  BY DEF Share
<1>3. /\ Cardinality(Others(o, tier[o], "PENDING")) \in Nat
      /\ Tickets(o) \in Nat
      /\ Cardinality(SeatsIn(tier[o], "PENDING"))
           = Cardinality(Others(o, tier[o], "PENDING")) + Tickets(o)
  BY <1>2, SeatsSplit DEF Split
<1> QED
  BY <1>1, <1>3 DEF InventoryAccounted

(* The 409s "Ticket reservation is no longer available" of markOrderPaid   *)
(* and "could not be released" of releaseReservation are never answered:   *)
(* a pending order's tickets are always on reserve.                        *)
THEOREM ReservationNeverMissing == Spec => []ReservationCovers
BY TypeCorrect, InventoryCorrect, AccountedCovers, PTL

-------------------------------------------------------------------------------
(* No overselling *)

LEMMA OversellStep == TypeOK /\ NoOversell /\ [Next]_storeVars => NoOversell'
<1> SUFFICES ASSUME TypeOK, NoOversell, [Next]_storeVars PROVE NoOversell'
  OBVIOUS
<1>1. ASSUME UNCHANGED <<quantity, reserved, sold>> PROVE NoOversell'
  BY <1>1 DEF NoOversell
<1>2. ASSUME NEW o \in Orders, NEW t \in Tiers, NEW e \in Emails,
             NEW S \in SUBSET Emails, ReserveAndCreate(o, t, e, S)
      PROVE  NoOversell'
  <2>1. Cardinality(S) \in Nat
    BY OrderStoreAssumption, FS_Subset, FS_CardinalityType
  <2> QED
    BY <1>2, <2>1, OrderStoreAssumption
       DEF ReserveAndCreate, Fits, NoOversell, TypeOK
<1>3. ASSUME NEW o \in Orders, MarkOrderPaid(o) PROVE NoOversell'
  <2>1. tier[o] \in Tiers /\ Tickets(o) \in Nat
    BY <1>3, TicketsNat DEF MarkOrderPaid, TypeOK
  <2> QED
    BY <1>3, <2>1, OrderStoreAssumption DEF MarkOrderPaid, NoOversell, TypeOK
<1>4. ASSUME NEW o \in Orders, NEW to \in {"FAILED", "EXPIRED"},
             ReleaseReservation(o, to)
      PROVE  NoOversell'
  <2>1. tier[o] \in Tiers /\ Tickets(o) \in Nat
    BY <1>4, TicketsNat DEF ReleaseReservation, TypeOK
  <2> QED
    <3>1. /\ quantity' = quantity /\ sold' = sold
          /\ \A u \in Tiers :
               /\ reserved[u] \in Nat /\ sold[u] \in Nat
               /\ reserved'[u] = IF u = tier[o] THEN reserved[u] - Tickets(o)
                                               ELSE reserved[u]
      BY <1>4, <2>1 DEF ReleaseReservation, TypeOK
    <3>2. \A u \in Tiers : quantity[u] # NULL => quantity[u] \in Nat
      BY OrderStoreAssumption DEF TypeOK
    <3> QED
      BY <2>1, <3>1, <3>2 DEF NoOversell
<1>5. ASSUME NEW t \in Tiers, TierNext(t) PROVE NoOversell'
  BY <1>5 DEF TierNext, SetQuantity, SetOnSale, CoversCommitted, NoOversell,
              TypeOK
<1>6. ASSUME NEW o \in Orders,
             \/ ClaimInitialization(o)
             \/ SaveAuthorizationUrl(o)
             \/ ClaimRefund(o)
             \/ ConfirmRefund(o)
             \/ ExpiryPasses(o)
             \/ LeaseAges(o)
      PROVE  NoOversell'
  BY <1>1, <1>6
     DEF ClaimInitialization, SaveAuthorizationUrl, ClaimRefund, ConfirmRefund,
         ExpiryPasses, LeaseAges, tierVars
<1>7. ASSUME NEW e \in Emails, GuestNext(e) PROVE NoOversell'
  BY <1>1, <1>7
     DEF GuestNext, RegisterAttendee, RemoveAttendee, ChangeEmail, tierVars
<1>8. CASE UNCHANGED storeVars
  BY <1>1, <1>8 DEF storeVars, tierVars
<1> QED
  BY <1>2, <1>3, <1>4, <1>5, <1>6, <1>7, <1>8 DEF Next, OrderNext

(* Sold and reserved seats never exceed a limited tier's quantity, for any *)
(* number of concurrent checkouts and organizer updates.                   *)
THEOREM NeverOversold == Spec => []NoOversell
<1>1. Init => NoOversell
  <2> SUFFICES ASSUME Init, NEW t \in Tiers, quantity[t] # NULL
               PROVE  sold[t] + reserved[t] =< quantity[t]
    BY DEF NoOversell
  <2>1. quantity[t] \in Nat /\ sold[t] = 0 /\ reserved[t] = 0
    BY OrderStoreAssumption DEF Init
  <2> QED
    BY <2>1
<1> QED
  BY <1>1, TypeCorrect, OversellStep, PTL DEF Spec

-------------------------------------------------------------------------------
(* One active checkout per primary attendee *)

LEMMA CheckoutStep ==
  TypeOK /\ OneActiveCheckout /\ [Next]_storeVars => OneActiveCheckout'
<1> SUFFICES ASSUME TypeOK, OneActiveCheckout, [Next]_storeVars
             PROVE  OneActiveCheckout'
  OBVIOUS
<1>1. ASSUME UNCHANGED <<status, primary, activeKey>> PROVE OneActiveCheckout'
  BY <1>1 DEF OneActiveCheckout
<1>2. ASSUME NEW o \in Orders, NEW t \in Tiers, NEW e \in Emails,
             NEW S \in SUBSET Emails, ReserveAndCreate(o, t, e, S)
      PROVE  OneActiveCheckout'
  <2>1. \A p \in Orders : status[p] = "PENDING" => primary[p] # e
    BY <1>2 DEF ReserveAndCreate, KeyFree, OneActiveCheckout
  <2> QED
    BY <1>2, <2>1 DEF ReserveAndCreate, OneActiveCheckout, TypeOK
<1>3. ASSUME NEW o \in Orders,
             \/ MarkOrderPaid(o)
             \/ \E to \in {"FAILED", "EXPIRED"} : ReleaseReservation(o, to)
             \/ ClaimRefund(o)
             \/ ConfirmRefund(o)
      PROVE  OneActiveCheckout'
  BY <1>3 DEF MarkOrderPaid, ReleaseReservation, ClaimRefund, ConfirmRefund,
              OneActiveCheckout, TypeOK
<1>4. ASSUME NEW o \in Orders,
             \/ ClaimInitialization(o)
             \/ SaveAuthorizationUrl(o)
             \/ ExpiryPasses(o)
             \/ LeaseAges(o)
      PROVE  OneActiveCheckout'
  BY <1>1, <1>4
     DEF ClaimInitialization, SaveAuthorizationUrl, ExpiryPasses, LeaseAges
<1>5. ASSUME NEW t \in Tiers, TierNext(t) PROVE OneActiveCheckout'
  BY <1>1, <1>5 DEF TierNext, SetQuantity, SetOnSale, orderVars
<1>6. ASSUME NEW e \in Emails, GuestNext(e) PROVE OneActiveCheckout'
  BY <1>1, <1>6
     DEF GuestNext, RegisterAttendee, RemoveAttendee, ChangeEmail, orderVars
<1>7. CASE UNCHANGED storeVars
  BY <1>1, <1>7 DEF storeVars, orderVars
<1> QED
  BY <1>2, <1>3, <1>4, <1>5, <1>6, <1>7 DEF Next, OrderNext

(* The active-checkout key is held exactly while an order is pending, so   *)
(* no two pending orders have the same primary attendee.                   *)
THEOREM CheckoutUnique == Spec => []OneActiveCheckout
<1>1. Init => OneActiveCheckout
  BY DEF Init, OneActiveCheckout
<1> QED
  BY <1>1, TypeCorrect, CheckoutStep, PTL DEF Spec

-------------------------------------------------------------------------------
(* Tickets are backed by kept money *)

LEMMA PassStep == TypeOK /\ PassBacked /\ [Next]_storeVars => PassBacked'
<1> SUFFICES ASSUME TypeOK, PassBacked, [Next]_storeVars PROVE PassBacked'
  OBVIOUS
<1>1. ASSUME UNCHANGED <<seats, attendees, passes>>,
             \A o \in Orders : status[o] = "PAID" => status'[o] = "PAID"
      PROVE  PassBacked'
  BY <1>1 DEF PassBacked, TypeOK
<1>2. ASSUME NEW o \in Orders, NEW t \in Tiers, NEW e \in Emails,
             NEW S \in SUBSET Emails, ReserveAndCreate(o, t, e, S)
      PROVE  PassBacked'
  BY <1>2 DEF ReserveAndCreate, PassBacked, TypeOK, guestVars
<1>3. ASSUME NEW o \in Orders, MarkOrderPaid(o) PROVE PassBacked'
  <2>1. \A s \in passes : s[1] # o /\ s[2] \notin seats[o]
    BY <1>3 DEF MarkOrderPaid, SeatsUnregistered, PassBacked
  <2>2. \A s \in passes' :
          \/ s \in passes /\ s[1] # o /\ s[2] \notin seats[o]
          \/ s[1] = o /\ s[2] \in seats[o]
    BY <1>3, <2>1 DEF MarkOrderPaid
  <2>3. /\ seats' = seats /\ attendees' = attendees \cup seats[o]
        /\ status' = [status EXCEPT ![o] = "PAID"]
    BY <1>3 DEF MarkOrderPaid
  <2>4. \A s \in passes' :
          status'[s[1]] = "PAID" /\ s[2] \in seats'[s[1]] /\ s[2] \in attendees'
    BY <2>2, <2>3 DEF PassBacked, TypeOK
  <2>5. \A s, r \in passes' : s[2] = r[2] => s[1] = r[1]
    BY <2>2 DEF PassBacked
  <2> QED
    BY <2>4, <2>5 DEF PassBacked
<1>4. ASSUME NEW o \in Orders,
             \/ \E to \in {"FAILED", "EXPIRED"} : ReleaseReservation(o, to)
             \/ ClaimRefund(o)
             \/ ConfirmRefund(o)
      PROVE  PassBacked'
  BY <1>1, <1>4
     DEF ReleaseReservation, ClaimRefund, ConfirmRefund, guestVars, TypeOK
<1>5. ASSUME NEW o \in Orders,
             \/ ClaimInitialization(o)
             \/ SaveAuthorizationUrl(o)
             \/ ExpiryPasses(o)
             \/ LeaseAges(o)
      PROVE  PassBacked'
  BY <1>1, <1>5
     DEF ClaimInitialization, SaveAuthorizationUrl, ExpiryPasses, LeaseAges,
         guestVars
<1>6. ASSUME NEW t \in Tiers, TierNext(t) PROVE PassBacked'
  BY <1>1, <1>6 DEF TierNext, SetQuantity, SetOnSale, orderVars, guestVars
<1>7. ASSUME NEW e \in Emails, GuestNext(e) PROVE PassBacked'
  BY <1>7 DEF GuestNext, RegisterAttendee, RemoveAttendee, ChangeEmail,
              PassesOf, PassBacked, orderVars
<1>8. CASE UNCHANGED storeVars
  BY <1>1, <1>8 DEF storeVars, orderVars, guestVars
<1> QED
  BY <1>2, <1>3, <1>4, <1>5, <1>6, <1>7, <1>8 DEF Next, OrderNext

(* No ticket survives without its order's money: an active pass belongs to *)
(* an order that is PAID, never to a refunded one, and an address never    *)
(* holds active passes of two orders.                                      *)
THEOREM TicketsBacked == Spec => []PassBacked
<1>1. Init => PassBacked
  BY DEF Init, PassBacked
<1> QED
  BY <1>1, TypeCorrect, PassStep, PTL DEF Spec

-------------------------------------------------------------------------------
(* Money goes one way *)

LEMMA SettlementFact == TypeOK /\ [Next]_storeVars => SettlementStep
<1> SUFFICES ASSUME TypeOK, [Next]_storeVars,
                    NEW o \in Orders, status[o] # "NONE"
             PROVE  /\ tier'[o] = tier[o] /\ seats'[o] = seats[o]
                    /\ primary'[o] = primary[o]
                    /\ status'[o] # status[o] =>
                         <<status[o], status'[o]>> \in
                           {<<"PENDING", "PAID">>, <<"PENDING", "FAILED">>,
                            <<"PENDING", "EXPIRED">>, <<"FAILED", "REFUNDING">>,
                            <<"EXPIRED", "REFUNDING">>,
                            <<"REFUNDING", "REFUNDED">>}
  BY DEF SettlementStep
<1>1. ASSUME NEW p \in Orders, OrderNext(p) PROVE /\ tier'[o] = tier[o]
             /\ seats'[o] = seats[o] /\ primary'[o] = primary[o]
  BY <1>1 DEF OrderNext, ReserveAndCreate, ClaimInitialization,
              SaveAuthorizationUrl, MarkOrderPaid, ReleaseReservation,
              ClaimRefund, ConfirmRefund, ExpiryPasses, LeaseAges, TypeOK
<1>2. ASSUME NEW p \in Orders, OrderNext(p), status'[o] # status[o]
      PROVE  \/ status[o] = "PENDING" /\ status'[o] \in {"PAID", "FAILED", "EXPIRED"}
             \/ status[o] \in {"FAILED", "EXPIRED"} /\ status'[o] = "REFUNDING"
             \/ status[o] = "REFUNDING" /\ status'[o] = "REFUNDED"
  BY <1>2 DEF OrderNext, ReserveAndCreate, ClaimInitialization,
              SaveAuthorizationUrl, MarkOrderPaid, ReleaseReservation,
              ClaimRefund, ConfirmRefund, ExpiryPasses, LeaseAges, TypeOK
<1>3. ASSUME NEW t \in Tiers, TierNext(t) PROVE UNCHANGED orderVars
  BY <1>3 DEF TierNext, SetQuantity, SetOnSale
<1>4. ASSUME NEW e \in Emails, GuestNext(e) PROVE UNCHANGED orderVars
  BY <1>4 DEF GuestNext, RegisterAttendee, RemoveAttendee, ChangeEmail
<1>5. CASE UNCHANGED orderVars
  BY <1>5 DEF orderVars
<1>6. UNCHANGED storeVars => UNCHANGED orderVars
  BY DEF storeVars
<1> QED
  BY <1>1, <1>2, <1>3, <1>4, <1>5, <1>6 DEF Next

(* PAID and REFUNDED are final, only a released order is ever refunded,    *)
(* and what an order bought never changes.                                 *)
THEOREM SettlementCorrect == Spec => Settlement
BY TypeCorrect, SettlementFact, PTL DEF Spec, Settlement

-------------------------------------------------------------------------------
(* The counters implement the sale of seats *)

Pending == [t \in Tiers |-> SeatsIn(t, "PENDING")]
Paid == [t \in Tiers |-> SeatsIn(t, "PAID")]

(* Inside the instance, Cardinality is an operator of its own. *)
LEMMA SaleCardinality == \A S : Sale!Cardinality(S) = Cardinality(S)
BY DEF Sale!Cardinality, Cardinality

(* A step that leaves quantities, statuses, tiers and seats alone stutters. *)
LEMMA SaleFrame ==
  ASSUME UNCHANGED <<quantity, status, tier, seats>>
  PROVE  UNCHANGED Sale!vars
BY DEF Sale!vars, SeatsIn

LEMMA SaleInit == Init => Sale!Init
<1> SUFFICES ASSUME Init PROVE Sale!Init
  OBVIOUS
<1>1. \A t \in Tiers, st \in {"PENDING", "PAID"} : SeatsIn(t, st) = {}
  BY DEF Init, SeatsIn
<1> QED
  BY <1>1 DEF Init, Sale!Init

LEMMA SaleStep ==
  TypeOK /\ InventoryAccounted /\ [Next]_storeVars => [Sale!Next]_(Sale!vars)
<1> SUFFICES ASSUME TypeOK, InventoryAccounted, [Next]_storeVars
             PROVE  Sale!Next \/ UNCHANGED Sale!vars
  OBVIOUS
<1>1. ASSUME NEW o \in Orders, NEW t \in Tiers, NEW e \in Emails,
             NEW S \in SUBSET Emails, ReserveAndCreate(o, t, e, S)
      PROVE  Sale!Hold(t, o, S)
  <2>1. S # {} /\ quantity' = quantity
    BY <1>1 DEF ReserveAndCreate
  <2>2. \A u \in Tiers : \A s \in SeatsIn(u, "PENDING") \cup SeatsIn(u, "PAID") :
          s[1] # o
    BY <1>1 DEF ReserveAndCreate, SeatsIn
  <2>3. quantity[t] # NULL =>
          Cardinality(SeatsIn(t, "PENDING")) + Cardinality(SeatsIn(t, "PAID"))
            + Cardinality(S) =< quantity[t]
    <3>1. /\ reserved[t] = Cardinality(SeatsIn(t, "PENDING"))
          /\ sold[t] = Cardinality(SeatsIn(t, "PAID"))
          /\ reserved[t] \in Nat /\ sold[t] \in Nat
      BY DEF InventoryAccounted, TypeOK
    <3>2. Cardinality(S) \in Nat
      BY OrderStoreAssumption, FS_Subset, FS_CardinalityType
    <3> QED
      BY <1>1, <3>1, <3>2, OrderStoreAssumption
         DEF ReserveAndCreate, Fits, TypeOK
  <2>4. \A u \in Tiers :
          /\ SeatsIn(u, "PENDING")' = IF u = t THEN SeatsIn(u, "PENDING") \cup ({o} \X S)
                                              ELSE SeatsIn(u, "PENDING")
          /\ SeatsIn(u, "PAID")' = SeatsIn(u, "PAID")
    BY <1>1 DEF ReserveAndCreate, SeatsIn, TypeOK
  <2> QED
    <3>1. Sale!Room(t, Sale!Cardinality(S))
      BY <2>3, SaleCardinality DEF Sale!Room
    <3>2. \A u \in Tiers :
            Sale!Own(Pending[u], o) = {} /\ Sale!Own(Paid[u], o) = {}
      BY <2>2 DEF Sale!Own, Pending, Paid
    <3>3. /\ Pending' = [Pending EXCEPT ![t] = @ \cup ({o} \X S)]
          /\ Paid' = Paid
      BY <2>4 DEF Pending, Paid
    <3> QED
      BY <2>1, <3>1, <3>2, <3>3 DEF Sale!Hold, Pending, Paid
<1>2. ASSUME NEW o \in Orders, status[o] = "PENDING"
      PROVE  /\ tier[o] \in Tiers
             /\ Sale!Own(SeatsIn(tier[o], "PENDING"), o) = {o} \X seats[o]
             /\ {o} \X seats[o] # {}
  <2>1. tier[o] \in Tiers /\ seats[o] \subseteq Emails /\ primary[o] \in seats[o]
    BY <1>2 DEF TypeOK
  <2>2. \A s \in SeatsIn(tier[o], "PENDING") : s[1] = o <=> s \in {o} \X seats[o]
    BY DEF SeatsIn
  <2>3. {o} \X seats[o] \subseteq SeatsIn(tier[o], "PENDING")
    BY <1>2, <2>1 DEF SeatsIn
  <2>4. <<o, primary[o]>> \in {o} \X seats[o]
    BY <2>1
  <2> QED
    BY <2>1, <2>2, <2>3, <2>4 DEF Sale!Own
<1>3. ASSUME NEW o \in Orders, MarkOrderPaid(o) PROVE Sale!Buy(tier[o], o)
  <2>1. \A u \in Tiers :
          /\ SeatsIn(u, "PENDING")'
               = IF u = tier[o] THEN SeatsIn(u, "PENDING") \ ({o} \X seats[o])
                                ELSE SeatsIn(u, "PENDING")
          /\ SeatsIn(u, "PAID")'
               = IF u = tier[o] THEN SeatsIn(u, "PAID") \cup ({o} \X seats[o])
                                ELSE SeatsIn(u, "PAID")
    BY <1>3 DEF MarkOrderPaid, SeatsIn, TypeOK
  <2>2. status[o] = "PENDING" /\ quantity' = quantity
    BY <1>3 DEF MarkOrderPaid
  <2> QED
    BY <1>2, <2>1, <2>2 DEF Sale!Buy
<1>4. ASSUME NEW o \in Orders, NEW to \in {"FAILED", "EXPIRED"},
             ReleaseReservation(o, to)
      PROVE  Sale!GiveBack(tier[o], o)
  <2>1. \A u \in Tiers :
          /\ SeatsIn(u, "PENDING")'
               = IF u = tier[o] THEN SeatsIn(u, "PENDING") \ ({o} \X seats[o])
                                ELSE SeatsIn(u, "PENDING")
          /\ SeatsIn(u, "PAID")' = SeatsIn(u, "PAID")
    BY <1>4 DEF ReleaseReservation, SeatsIn, TypeOK
  <2>2. status[o] = "PENDING" /\ quantity' = quantity
    BY <1>4 DEF ReleaseReservation
  <2> QED
    BY <1>2, <2>1, <2>2 DEF Sale!GiveBack
<1>5. ASSUME NEW o \in Orders, ClaimRefund(o) \/ ConfirmRefund(o)
      PROVE  UNCHANGED Sale!vars
  <2>1. \A u \in Tiers, st \in {"PENDING", "PAID"} :
          SeatsIn(u, st)' = SeatsIn(u, st)
    BY <1>5 DEF ClaimRefund, ConfirmRefund, SeatsIn, TypeOK
  <2> QED
    BY <1>5, <2>1 DEF ClaimRefund, ConfirmRefund, tierVars, Sale!vars
<1>6. ASSUME NEW o \in Orders,
             \/ ClaimInitialization(o)
             \/ SaveAuthorizationUrl(o)
             \/ ExpiryPasses(o)
             \/ LeaseAges(o)
      PROVE  UNCHANGED Sale!vars
  BY <1>6, SaleFrame
     DEF ClaimInitialization, SaveAuthorizationUrl, ExpiryPasses, LeaseAges,
         tierVars
<1>7. ASSUME NEW t \in Tiers, NEW q \in Quantities \cup {NULL}, SetQuantity(t, q)
      PROVE  Sale!Resize(t, q)
  <2>1. quantity' = [quantity EXCEPT ![t] = q] /\ UNCHANGED <<Pending, Paid>>
    BY <1>7 DEF SetQuantity, orderVars, Pending, Paid, SeatsIn
  <2>2. q # NULL => Cardinality(SeatsIn(t, "PENDING"))
                      + Cardinality(SeatsIn(t, "PAID")) =< q
    <3>1. /\ reserved[t] = Cardinality(SeatsIn(t, "PENDING"))
          /\ sold[t] = Cardinality(SeatsIn(t, "PAID"))
          /\ reserved[t] \in Nat /\ sold[t] \in Nat
      BY DEF InventoryAccounted, TypeOK
    <3>2. q # NULL => q \in Nat /\ q >= sold[t] + reserved[t]
      BY <1>7, OrderStoreAssumption DEF SetQuantity, CoversCommitted
    <3> QED
      BY <3>1, <3>2
  <2>3. Pending[t] = SeatsIn(t, "PENDING") /\ Paid[t] = SeatsIn(t, "PAID")
    BY DEF Pending, Paid
  <2>4. q # NULL => Cardinality(Pending[t]) + Cardinality(Paid[t]) =< q
    BY <2>2, <2>3
  <2> QED
    BY <2>1, <2>4, SaleCardinality DEF Sale!Resize, Pending, Paid
<1>8. ASSUME NEW t \in Tiers, NEW b \in BOOLEAN, SetOnSale(t, b)
      PROVE  UNCHANGED Sale!vars
  BY <1>8, SaleFrame DEF SetOnSale, orderVars
<1>9. ASSUME NEW e \in Emails, GuestNext(e) PROVE UNCHANGED Sale!vars
  BY <1>9, SaleFrame DEF GuestNext, RegisterAttendee, RemoveAttendee,
                         ChangeEmail, tierVars, orderVars
<1>10. CASE UNCHANGED storeVars
  BY <1>10, SaleFrame DEF storeVars, tierVars, orderVars
<1>11. ASSUME NEW o \in Orders, OrderNext(o) PROVE Sale!Next \/ UNCHANGED Sale!vars
  <2>1. status[o] = "PENDING" => tier[o] \in Tiers
    BY DEF TypeOK
  <2> QED
    BY <1>1, <1>3, <1>4, <1>5, <1>6, <1>11, <2>1
       DEF OrderNext, Sale!Next, MarkOrderPaid, ReleaseReservation
<1>12. ASSUME NEW t \in Tiers, TierNext(t) PROVE Sale!Next \/ UNCHANGED Sale!vars
  BY <1>7, <1>8, <1>12 DEF TierNext, Sale!Next
<1> QED
  BY <1>9, <1>10, <1>11, <1>12 DEF Next

(* The tables implement a sale of seats: whatever the services do to the   *)
(* counters is holding, buying, giving back or resizing in TicketSale.     *)
THEOREM ImplementsSale == Spec => SaleSpec
BY TypeCorrect, InventoryCorrect, SaleInit, SaleStep, PTL
   DEF Spec, SaleSpec, Sale!Spec
===============================================================================
