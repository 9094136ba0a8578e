------------------------- MODULE TicketDeliveryProofs -------------------------
(***************************************************************************)
(* Proofs about TicketDelivery, for any number of callers, recipients,     *)
(* faults and edits.                                                       *)
(***************************************************************************)
EXTENDS TicketDelivery, FiniteSetTheorems, TLAPS

Places == {"idle", "next", "close"} \cup Sending

CallType == [at : Places, todo : SUBSET Recipients, bare : SUBSET Recipients,
             cur : Recipients \cup {NULL}]

(* A call works on a recipient exactly at the places of Sending. *)
CallOK(k) == k \in CallType /\ (k.at \in Sending <=> k.cur # NULL)

CallsOK == caller \in [Callers -> CallType] /\ \A p \in Callers : CallOK(caller[p])

LEMMA TypeCalls == TypeOK => CallsOK
BY DEF TypeOK, CallsOK, CallOK, CallType, Places, Cur

-------------------------------------------------------------------------------
(* What the steps of a call do to it.  Nobody else's call changes. *)

Alone(p) == \A q \in Callers \ {p} : caller'[q] = caller[q]

LEMMA GoEffect ==
  ASSUME TypeOK, NEW p \in Callers, NEW place \in Places, Go(p, place),
         place \in Sending <=> caller[p].at \in Sending
  PROVE  /\ CallsOK' /\ Alone(p)
         /\ At(p, place)' /\ Cur(p)' = Cur(p)
BY TypeCalls DEF CallsOK, CallOK, CallType, Go, Alone, At, Cur

LEMMA EndEffect ==
  ASSUME TypeOK, NEW p \in Callers, End(p)
  PROVE  /\ CallsOK' /\ Alone(p)
         /\ At(p, "idle")' /\ Cur(p)' = NULL
BY TypeCalls DEF CallsOK, CallOK, CallType, End, Idle, Alone, At, Cur, Places,
                 Sending

LEMMA SkipEffect ==
  ASSUME TypeOK, NEW p \in Callers, NEW r \in Recipients, Skip(p, r)
  PROVE  /\ CallsOK' /\ Alone(p)
         /\ At(p, "next")' /\ Cur(p)' = NULL
BY TypeCalls DEF CallsOK, CallOK, CallType, Skip, Alone, At, Cur, Places, Sending

LEMMA CallEffect ==
  ASSUME TypeOK, NEW p \in Callers, Call(p)
  PROVE  /\ CallsOK' /\ Alone(p)
         /\ caller'[p].at \in {"idle", "next"} /\ Cur(p)' = NULL
BY TypeCalls DEF CallsOK, CallOK, CallType, Call, Idle, Open, Alone, At, Cur,
                 Places, Sending

LEMMA ClaimEffect ==
  ASSUME TypeOK, NEW p \in Callers, NEW r \in Recipients,
         caller' = [caller EXCEPT ![p].at = "render", ![p].cur = r]
  PROVE  /\ CallsOK' /\ Alone(p)
         /\ At(p, "render")' /\ Cur(p)' = r
BY TypeCalls, DeliveryAssumption
   DEF CallsOK, CallOK, CallType, Alone, At, Cur, Places, Sending

(* A ticket arrives. *)
Count(r) == inbox[r] + duds[r]

LEMMA DeliverEffect ==
  ASSUME TypeOK, NEW r \in Recipients, Deliver(r)
  PROVE  /\ inbox' \in [Recipients -> Nat] /\ duds' \in [Recipients -> Nat]
         /\ Count(r)' = Count(r) + 1
         /\ pass[r] = "active" => inbox'[r] >= 1
         /\ \A x \in Recipients \ {r} : inbox'[x] = inbox[x] /\ duds'[x] = duds[x]
<1> USE DEF TypeOK, Count
<1>1. CASE pass[r] = "active"
  <2>1. inbox' = [inbox EXCEPT ![r] = inbox[r] + 1] /\ duds' = duds
    BY <1>1 DEF Deliver
  <2> QED
    BY <1>1, <2>1
<1>2. CASE pass[r] # "active"
  <2>1. duds' = [duds EXCEPT ![r] = duds[r] + 1] /\ inbox' = inbox
    BY <1>2 DEF Deliver
  <2> QED
    BY <1>2, <2>1
<1> QED
  BY <1>1, <1>2

-------------------------------------------------------------------------------
(* The inductive invariant *)

(* The calls that work on r, and those of them that need not record a      *)
(* delivery they know of.                                                  *)
Works(r) == {p \in Callers : Cur(p) = r}
Unrecorded(r) == {p \in Callers : Cur(p) = r /\ ~At(p, "markSent")}

(* What keeps r from being claimed once more. *)
Held(r) == IF claimed[r] = "fresh" \/ sent[r] THEN 1 ELSE 0

(* Every call that works on r has a claim on it, which holds or has run    *)
(* out; ...                                                                *)
Manned(r) ==
  /\ IsFiniteSet(Works(r))
  /\ Cardinality(Works(r)) =< overran[r] + Held(r)

(* ... and every delivery, made or still possible, is recorded (or about   *)
(* to be), or stands for a lost record or for a claim that ran out.        *)
Counted(r) ==
  Count(r) + Cardinality(Unrecorded(r)) =< lost[r] + overran[r] + Held(r)

ClaimInv == \A r \in Recipients : Manned(r) /\ Counted(r)

(* Who is to record a delivery has made one. *)
Delivered(r) ==
  /\ Count(r) >= 1
  /\ pass[r] = "active" => inbox[r] >= 1

SentInv ==
  /\ \A r \in Recipients : sent[r] => Delivered(r)
  /\ \A p \in Callers : At(p, "markSent") => Delivered(Cur(p))
  /\ orderSent \/ (\E p \in Callers : At(p, "close")) =>
       \A r \in Recipients : sent[r]

DeliveryInv == TypeOK /\ ClaimInv /\ SentInv

-------------------------------------------------------------------------------
(* The sizes of the two sets *)

LEMMA SizeKept ==
  ASSUME NEW S, IsFiniteSet(S), NEW T, T \subseteq S
  PROVE  /\ IsFiniteSet(T) /\ Cardinality(T) \in Nat /\ Cardinality(S) \in Nat
         /\ Cardinality(T) =< Cardinality(S)
BY FS_Subset, FS_CardinalityType

LEMMA SizeGrown ==
  ASSUME NEW S, IsFiniteSet(S), NEW p, NEW T, T \subseteq S \cup {p}
  PROVE  /\ IsFiniteSet(T) /\ Cardinality(T) \in Nat /\ Cardinality(S) \in Nat
         /\ Cardinality(T) =< Cardinality(S) + 1
<1>1. /\ IsFiniteSet(S \cup {p}) /\ Cardinality(S) \in Nat
      /\ Cardinality(S \cup {p}) =< Cardinality(S) + 1
  BY FS_AddElement, FS_CardinalityType
<1>2. /\ IsFiniteSet(T) /\ Cardinality(T) \in Nat /\ Cardinality(S \cup {p}) \in Nat
      /\ Cardinality(T) =< Cardinality(S \cup {p})
  BY <1>1, SizeKept
<1> QED
  BY <1>1, <1>2

LEMMA SizeShrunk ==
  ASSUME NEW S, IsFiniteSet(S), NEW p \in S, NEW T, T \subseteq S \ {p}
  PROVE  /\ IsFiniteSet(T) /\ Cardinality(T) \in Nat /\ Cardinality(S) \in Nat
         /\ Cardinality(T) + 1 =< Cardinality(S)
<1>1. /\ IsFiniteSet(S \ {p}) /\ Cardinality(S) \in Nat
      /\ Cardinality(S \ {p}) = Cardinality(S) - 1
  BY FS_RemoveElement, FS_CardinalityType
<1>2. /\ IsFiniteSet(T) /\ Cardinality(T) \in Nat /\ Cardinality(S \ {p}) \in Nat
      /\ Cardinality(T) =< Cardinality(S \ {p})
  BY <1>1, SizeKept
<1> QED
  BY <1>1, <1>2

(* The numbers of Manned and Counted are numbers. *)
LEMMA Numbers ==
  ASSUME TypeOK, NEW r \in Recipients
  PROVE  Count(r) \in Nat /\ lost[r] \in Nat /\ overran[r] \in Nat /\ Held(r) \in {0, 1}
BY DEF TypeOK, Count, Held

LEMMA Sets ==
  ASSUME NEW r, IsFiniteSet(Works(r))
  PROVE  /\ IsFiniteSet(Unrecorded(r))
         /\ Cardinality(Works(r)) \in Nat /\ Cardinality(Unrecorded(r)) \in Nat
<1>1. Unrecorded(r) \subseteq Works(r)
  BY DEF Unrecorded, Works
<1> QED
  BY <1>1, SizeKept, FS_CardinalityType

(* A step that brings nobody to r and loses, delivers and lets go nothing. *)
LEMMA Steady ==
  ASSUME TypeOK, TypeOK', NEW r \in Recipients, Manned(r), Counted(r),
         Works(r)' \subseteq Works(r), Unrecorded(r)' \subseteq Unrecorded(r),
         Count(r)' = Count(r), lost'[r] = lost[r], overran'[r] = overran[r],
         Held(r)' >= Held(r)
  PROVE  Manned(r)' /\ Counted(r)'
<1>1. /\ IsFiniteSet(Works(r)) /\ IsFiniteSet(Unrecorded(r))
      /\ Cardinality(Works(r)) =< overran[r] + Held(r)
      /\ Count(r) + Cardinality(Unrecorded(r)) =< lost[r] + overran[r] + Held(r)
  BY Sets DEF Manned, Counted
<1>2. /\ IsFiniteSet(Works(r)') /\ Cardinality(Works(r)') =< Cardinality(Works(r))
      /\ Cardinality(Works(r)) \in Nat /\ Cardinality(Works(r)') \in Nat
  BY <1>1, SizeKept
<1>3. /\ Cardinality(Unrecorded(r)') =< Cardinality(Unrecorded(r))
      /\ Cardinality(Unrecorded(r)) \in Nat /\ Cardinality(Unrecorded(r)') \in Nat
  BY <1>1, SizeKept
<1>4. Count(r) \in Nat /\ lost[r] \in Nat /\ overran[r] \in Nat /\ Held(r) \in {0, 1}
  BY Numbers
<1>5. Held(r)' \in {0, 1}
  BY DEF Held
<1>6. Manned(r)'
  BY <1>1, <1>2, <1>4, <1>5 DEF Manned
<1>7. Counted(r)'
  BY <1>1, <1>3, <1>4, <1>5 DEF Counted
<1> QED
  BY <1>6, <1>7

(* The delivery records that a step leaves alone. *)
LEMMA SentSteady ==
  ASSUME SentInv, UNCHANGED <<sent, pass, orderSent, inbox, duds>>,
         \A q \in Callers : At(q, "markSent")' => At(q, "markSent") /\ Cur(q)' = Cur(q),
         \A q \in Callers : At(q, "close")' =>
           At(q, "close") \/ \A r \in Recipients : sent[r]
  PROVE  SentInv'
<1>1. \A x : Delivered(x)' <=> Delivered(x)
  BY DEF Delivered, Count
<1> QED
  BY <1>1 DEF SentInv, Delivered, Count

LEMMA InitInv == Init => DeliveryInv
<1> SUFFICES ASSUME Init PROVE DeliveryInv
  OBVIOUS
<1>1. TypeOK
  <2>1. faults \in 0..MaxFaults /\ edits \in 0..MaxEdits
    BY DeliveryAssumption DEF Init
  <2>2. Idle \in CallType /\ Idle.at \notin Sending /\ Idle.cur = NULL
    BY DEF Idle, CallType, Places, Sending
  <2> QED
    BY <2>1, <2>2 DEF Init, TypeOK, Cur, CallType, Places
<1>2. \A p \in Callers : At(p, "idle") /\ Cur(p) = NULL
  BY DEF Init, Idle, At, Cur
<1>3. ASSUME NEW r \in Recipients PROVE Manned(r) /\ Counted(r)
  <2>1. Works(r) = {} /\ Unrecorded(r) = {}
    BY <1>2, DeliveryAssumption DEF Works, Unrecorded
  <2>2. Count(r) = 0 /\ lost[r] = 0 /\ overran[r] = 0 /\ Held(r) \in {0, 1}
    BY DEF Init, Count, Held
  <2> QED
    BY <2>1, <2>2, FS_EmptySet DEF Manned, Counted
<1>4. SentInv
  BY <1>2 DEF Init, SentInv, At
<1> QED
  BY <1>1, <1>3, <1>4 DEF DeliveryInv, ClaimInv

-------------------------------------------------------------------------------
(* The steps that leave rows and mail alone keep the invariant if the call *)
(* goes nowhere that has to be earned.                                     *)

LEMMA CallersOnly ==
  ASSUME DeliveryInv, NEW p \in Callers, UNCHANGED <<rowVars, mailVars>>,
         faults' \in 0..MaxFaults, edits' = edits, CallsOK', Alone(p),
         Cur(p)' \in {NULL, Cur(p)},
         At(p, "markSent") => Cur(p)' = NULL,
         ~At(p, "markSent")',
         At(p, "close")' => \A r \in Recipients : sent[r]
  PROVE  DeliveryInv'
<1> USE DEF DeliveryInv
<1>1. TypeOK'
  BY DEF TypeOK, CallsOK, CallOK, CallType, Places, Cur, rowVars, mailVars
<1>2. \A q \in Callers : q # p => caller'[q] = caller[q]
  BY DEF Alone
<1>3. ASSUME NEW r \in Recipients PROVE Manned(r)' /\ Counted(r)'
  <2>1. Works(r)' \subseteq Works(r)
    BY <1>2, DeliveryAssumption DEF Works, Cur
  <2>2. Unrecorded(r)' \subseteq Unrecorded(r)
    BY <1>2, DeliveryAssumption DEF Unrecorded, Cur, At
  <2>3. Held(r)' = Held(r) /\ Held(r) \in {0, 1} /\ Count(r)' = Count(r)
    BY DEF Held, Count, rowVars, mailVars
  <2> QED
    BY <1>1, <2>1, <2>2, <2>3, Steady DEF ClaimInv, mailVars
<1>4. SentInv'
  <2>1. \A q \in Callers : At(q, "markSent")' => At(q, "markSent") /\ Cur(q)' = Cur(q)
    BY <1>2 DEF At, Cur
  <2>2. \A q \in Callers : At(q, "close")' =>
          At(q, "close") \/ \A r \in Recipients : sent[r]
    BY <1>2 DEF At
  <2> QED
    BY <2>1, <2>2, SentSteady DEF rowVars, mailVars
<1> QED
  BY <1>1, <1>3, <1>4 DEF ClaimInv

-------------------------------------------------------------------------------
(* The steps of a call that claim, send, record and give up *)

LEMMA ClaimStep ==
  ASSUME DeliveryInv, NEW p \in Callers, Claim(p) PROVE DeliveryInv'
<1> USE DEF DeliveryInv
<1>1. PICK r \in Recipients :
        /\ FreeToClaim(r)
        /\ claimed' = [claimed EXCEPT ![r] = "fresh"]
        /\ caller' = [caller EXCEPT ![p].at = "render", ![p].cur = r]
  BY DEF Claim, TypeOK
<1>2. CallsOK' /\ Alone(p) /\ At(p, "render")' /\ Cur(p)' = r
  BY <1>1, ClaimEffect
<1>3. UNCHANGED <<sent, failed, pass, orderSent, mailVars, faults, edits>>
  BY DEF Claim, Quiet
<1>4. TypeOK'
  BY <1>1, <1>2, <1>3
     DEF TypeOK, CallsOK, CallOK, CallType, Places, Cur, mailVars
<1>5. \A q \in Callers : q # p => caller'[q] = caller[q]
  BY <1>2 DEF Alone
<1>6. ASSUME NEW x \in Recipients PROVE Manned(x)' /\ Counted(x)'
  <2>1. Manned(x) /\ Counted(x)
    BY DEF ClaimInv
  <2>2. Count(x)' = Count(x) /\ lost' = lost /\ overran' = overran
    BY <1>3 DEF Count, mailVars
  <2>3. CASE x = r
    <3>1. Works(r)' \subseteq Works(r) \cup {p} /\ Unrecorded(r)' \subseteq Unrecorded(r) \cup {p}
      BY <1>5 DEF Works, Unrecorded, Cur, At
    <3>2. Held(r) = 0 /\ Held(r)' = 1
      BY <1>1 DEF Held, FreeToClaim, TypeOK
    <3>3. /\ IsFiniteSet(Works(r)') /\ Cardinality(Works(r)') =< Cardinality(Works(r)) + 1
          /\ Cardinality(Works(r)) \in Nat /\ Cardinality(Works(r)') \in Nat
      BY <2>1, <2>3, <3>1, SizeGrown DEF Manned
    <3>4. /\ Cardinality(Unrecorded(r)') =< Cardinality(Unrecorded(r)) + 1
          /\ Cardinality(Unrecorded(r)) \in Nat /\ Cardinality(Unrecorded(r)') \in Nat
      BY <2>1, <2>3, <3>1, SizeGrown, Sets DEF Manned
    <3>5. Count(r) \in Nat /\ lost[r] \in Nat /\ overran[r] \in Nat
      BY Numbers
    <3>6. Manned(r)'
      BY <2>1, <2>2, <2>3, <3>2, <3>3, <3>5 DEF Manned
    <3>7. Counted(r)'
      BY <2>1, <2>2, <2>3, <3>2, <3>4, <3>5 DEF Counted
    <3> QED
      BY <2>3, <3>6, <3>7
  <2>4. CASE x # r
    <3>1. Works(x)' \subseteq Works(x) /\ Unrecorded(x)' \subseteq Unrecorded(x)
      BY <1>2, <1>5, <2>4 DEF Works, Unrecorded, Cur, At
    <3>2. Held(x)' = Held(x) /\ Held(x) \in {0, 1}
      BY <1>1, <1>3, <2>4 DEF Held, TypeOK
    <3> QED
      BY <1>4, <2>1, <2>2, <3>1, <3>2, Steady
  <2> QED
    BY <2>3, <2>4
<1>7. SentInv'
  <2>1. \A q \in Callers : At(q, "markSent")' => At(q, "markSent") /\ Cur(q)' = Cur(q)
    BY <1>2, <1>5 DEF At, Cur
  <2>2. \A q \in Callers : At(q, "close")' => At(q, "close")
    BY <1>2, <1>5 DEF At
  <2> QED
    BY <2>1, <2>2, <1>3, SentSteady DEF mailVars
<1> QED
  BY <1>4, <1>6, <1>7 DEF ClaimInv

(* A delivery by p, to be recorded (place "markSent") or lost.             *)
LEMMA DeliverStep ==
  ASSUME DeliveryInv, NEW p \in Callers, At(p, "send"), Deliver(Cur(p)),
         UNCHANGED <<rowVars, overran>>, faults' \in 0..MaxFaults, edits' = edits,
         NEW place \in {"markSent", "release"}, Go(p, place),
         lost' = IF place = "markSent" THEN lost
                                      ELSE [lost EXCEPT ![Cur(p)] = @ + 1]
  PROVE  DeliveryInv'
<1> USE DEF DeliveryInv
<1>1. PICK r \in Recipients : r = Cur(p)
  BY DEF TypeOK, At, Cur, Sending
<1>2. /\ CallsOK' /\ Alone(p) /\ At(p, place)' /\ Cur(p)' = r
  BY <1>1, GoEffect DEF At, Sending, Places
<1>3. /\ inbox' \in [Recipients -> Nat] /\ duds' \in [Recipients -> Nat]
      /\ Count(r)' = Count(r) + 1
      /\ pass[r] = "active" => inbox'[r] >= 1
      /\ \A x \in Recipients \ {r} : inbox'[x] = inbox[x] /\ duds'[x] = duds[x]
  BY <1>1, DeliverEffect
<1>4. /\ lost' \in [Recipients -> Nat] /\ \A x \in Recipients \ {r} : lost'[x] = lost[x]
      /\ lost'[r] = IF place = "markSent" THEN lost[r] ELSE lost[r] + 1
  BY <1>1 DEF TypeOK
<1>5. TypeOK'
  BY <1>2, <1>3, <1>4
     DEF TypeOK, CallsOK, CallOK, CallType, Places, Cur, rowVars
<1>6. \A q \in Callers : q # p => caller'[q] = caller[q]
  BY <1>2 DEF Alone
<1>7. \A q \in Callers : Cur(q)' = Cur(q)
  BY <1>1, <1>2, <1>6 DEF Cur
<1>8. \A x \in Recipients : Count(x) \in Nat /\ inbox[x] \in Nat /\ duds[x] \in Nat
  BY DEF Count, TypeOK
<1>9. ASSUME NEW x \in Recipients PROVE Manned(x)' /\ Counted(x)'
  <2>1. Manned(x) /\ Counted(x)
    BY DEF ClaimInv
  <2>2. Works(x)' = Works(x)
    BY <1>7 DEF Works
  <2>3. Held(x)' = Held(x) /\ Held(x) \in {0, 1} /\ overran' = overran
    BY DEF Held, rowVars
  <2>4. CASE x = r
    <3>1. Manned(r)'
      BY <2>1, <2>2, <2>3, <2>4 DEF Manned
    <3>2. p \in Unrecorded(r) /\ IsFiniteSet(Unrecorded(r))
      BY <1>1, <2>1, <2>4, Sets DEF Unrecorded, At, Manned
    <3>3. /\ Count(r) \in Nat /\ lost[r] \in Nat /\ overran[r] \in Nat
          /\ Cardinality(Unrecorded(r)) \in Nat
      BY <3>2, Numbers, FS_CardinalityType
    <3>4. CASE place = "markSent"
      <4>1. Unrecorded(r)' \subseteq Unrecorded(r) \ {p}
        BY <3>4, <1>2, <1>6 DEF Unrecorded, At, Cur
      <4>2. /\ Cardinality(Unrecorded(r)') + 1 =< Cardinality(Unrecorded(r))
            /\ Cardinality(Unrecorded(r)') \in Nat
        BY <3>2, <4>1, SizeShrunk
      <4>3. lost'[r] = lost[r]
        BY <3>4, <1>4
      <4>4. Counted(r)'
        BY <1>3, <2>1, <2>3, <2>4, <3>3, <4>2, <4>3 DEF Counted
      <4> QED
        BY <2>4, <3>1, <4>4
    <3>5. CASE place = "release"
      <4>1. Unrecorded(r)' \subseteq Unrecorded(r)
        BY <1>1, <1>2, <1>6 DEF Unrecorded, At, Cur
      <4>2. /\ Cardinality(Unrecorded(r)') =< Cardinality(Unrecorded(r))
            /\ Cardinality(Unrecorded(r)') \in Nat
        BY <3>2, <4>1, SizeKept
      <4>3. lost'[r] = lost[r] + 1
        BY <3>5, <1>4
      <4>4. Counted(r)'
        BY <1>3, <2>1, <2>3, <2>4, <3>3, <4>2, <4>3 DEF Counted
      <4> QED
        BY <2>4, <3>1, <4>4
    <3> QED
      BY <3>4, <3>5
  <2>5. CASE x # r
    <3>1. lost'[x] = lost[x] /\ Count(x)' = Count(x)
      BY <2>5, <1>3, <1>4 DEF Count
    <3>2. Unrecorded(x)' \subseteq Unrecorded(x)
      BY <1>2, <1>6, <2>5 DEF Unrecorded, Cur, At
    <3> QED
      BY <1>5, <2>1, <2>2, <2>3, <3>1, <3>2, Steady
  <2> QED
    BY <2>4, <2>5
<1>10. SentInv'
  <2>1. \A x \in Recipients : Delivered(x) => Delivered(x)'
    BY <1>3, <1>8 DEF Delivered, Count, rowVars
  <2>2. Delivered(r)'
    BY <1>1, <1>3, <1>8 DEF Delivered, rowVars
  <2>3. \A q \in Callers : At(q, "markSent")' => Delivered(Cur(q))'
    <3> SUFFICES ASSUME NEW q \in Callers, At(q, "markSent")' PROVE Delivered(Cur(q))'
      OBVIOUS
    <3>1. CASE q = p
      <4>1. \A x, y \in Recipients : x = y /\ Delivered(x)' => Delivered(y)'
        OBVIOUS
      <4> QED
        BY <3>1, <2>2, <1>2 DEF Cur, Delivered, Count
    <3>2. CASE q # p
      <4>1. At(q, "markSent") /\ Cur(q) \in Recipients
        BY <3>2, <1>6 DEF At, TypeOK, Cur, Sending
      <4>2. Delivered(Cur(q))
        BY <4>1 DEF SentInv
      <4> QED
        BY <4>1, <4>2, <2>1, <1>7 DEF Delivered, Count, Cur
    <3> QED
      BY <3>1, <3>2
  <2>4. \A q \in Callers : At(q, "close")' => At(q, "close")
    BY <1>2, <1>6 DEF At
  <2> QED
    BY <2>1, <2>3, <2>4 DEF SentInv, rowVars
<1> QED
  BY <1>5, <1>9, <1>10 DEF ClaimInv

(* A claim is cleared, by the call that worked on r: because r was sent,   *)
(* or because no record is to be made of it.                               *)
LEMMA ClearStep ==
  ASSUME DeliveryInv, NEW p \in Callers, NEW r \in Recipients, Cur(p) = r,
         claimed' = [claimed EXCEPT ![r] = "none"],
         UNCHANGED <<pass, orderSent, mailVars, faults, edits>>,
         CallsOK', Alone(p), Cur(p)' = NULL, caller'[p].at \in {"idle", "next"},
         failed' \in [Recipients -> BOOLEAN],
         \/ sent' = [sent EXCEPT ![r] = TRUE] /\ At(p, "markSent")
         \/ sent' = sent /\ ~At(p, "markSent")
  PROVE  DeliveryInv'
<1> USE DEF DeliveryInv
<1>1. /\ sent' \in [Recipients -> BOOLEAN]
      /\ \A x \in Recipients : sent[x] => sent'[x]
      /\ \A x \in Recipients \ {r} : sent'[x] = sent[x] /\ claimed'[x] = claimed[x]
  BY DEF TypeOK
<1>2. TypeOK'
  BY <1>1 DEF TypeOK, CallsOK, CallOK, CallType, Places, Cur, mailVars
<1>3. \A q \in Callers : q # p => caller'[q] = caller[q]
  BY DEF Alone
<1>4. ASSUME NEW x \in Recipients PROVE Manned(x)' /\ Counted(x)'
  <2>1. Manned(x) /\ Counted(x)
    BY DEF ClaimInv
  <2>2. Works(x)' \subseteq Works(x) \ {p} /\ Unrecorded(x)' \subseteq Unrecorded(x) \ {p}
    BY <1>3, DeliveryAssumption DEF Works, Unrecorded, Cur, At
  <2>3. Count(x)' = Count(x) /\ lost' = lost /\ overran' = overran
    BY DEF Count, mailVars
  <2>4. Held(x) \in {0, 1} /\ Held(x)' \in {0, 1}
    BY DEF Held
  <2>5. CASE x # r \/ sent' = [sent EXCEPT ![r] = TRUE]
    <3>1. Held(x)' >= Held(x)
      BY <1>1, <2>4, <2>5 DEF Held, TypeOK
    <3> QED
      BY <1>2, <2>1, <2>2, <2>3, <3>1, Steady
  <2>6. CASE x = r /\ sent' = sent /\ ~At(p, "markSent")
    <3>1. p \in Works(r) /\ p \in Unrecorded(r)
      BY <2>6 DEF Works, Unrecorded
    <3>2. /\ IsFiniteSet(Works(r)') /\ Cardinality(Works(r)') + 1 =< Cardinality(Works(r))
          /\ Cardinality(Works(r)) \in Nat /\ Cardinality(Works(r)') \in Nat
      BY <2>1, <2>2, <2>6, <3>1, SizeShrunk DEF Manned
    <3>3. /\ Cardinality(Unrecorded(r)') + 1 =< Cardinality(Unrecorded(r))
          /\ Cardinality(Unrecorded(r)) \in Nat /\ Cardinality(Unrecorded(r)') \in Nat
      BY <2>1, <2>2, <2>6, <3>1, SizeShrunk, Sets DEF Manned
    <3>4. Count(r) \in Nat /\ lost[r] \in Nat /\ overran[r] \in Nat
      BY Numbers
    <3>5. Manned(r)'
      BY <2>1, <2>3, <2>4, <2>6, <3>2, <3>4 DEF Manned
    <3>6. Counted(r)'
      BY <2>1, <2>3, <2>4, <2>6, <3>3, <3>4 DEF Counted
    <3> QED
      BY <2>6, <3>5, <3>6
  <2> QED
    BY <2>5, <2>6
<1>5. SentInv'
  <2>1. \A x \in Recipients : Delivered(x)' <=> Delivered(x)
    BY DEF Delivered, Count, mailVars
  <2>2. sent'[r] => sent[r] \/ Delivered(r)
    BY DEF SentInv
  <2>3. \A q \in Callers :
          At(q, "markSent")' => At(q, "markSent") /\ Cur(q)' = Cur(q) /\ Cur(q) \in Recipients
    BY <1>3 DEF At, Cur, TypeOK, Sending
  <2>4. \A q \in Callers : At(q, "close")' => At(q, "close")
    BY <1>3 DEF At
  <2>5. \A x \in Recipients : sent'[x] => Delivered(x)'
    BY <1>1, <2>1, <2>2 DEF SentInv
  <2>6. \A q \in Callers : At(q, "markSent")' => Delivered(Cur(q))'
    BY <2>1, <2>3 DEF SentInv, Delivered, Count, mailVars
  <2>7. orderSent' \/ (\E q \in Callers : At(q, "close")') => \A x \in Recipients : sent'[x]
    BY <1>1, <2>4 DEF SentInv
  <2> QED
    BY <2>5, <2>6, <2>7 DEF SentInv
<1> QED
  BY <1>2, <1>4, <1>5 DEF ClaimInv

LEMMA MarkSentStep ==
  ASSUME DeliveryInv, NEW p \in Callers, MarkSent(p) PROVE DeliveryInv'
<1>1. PICK r \in Recipients : r = Cur(p)
  BY DEF DeliveryInv, TypeOK, MarkSent, At, Cur, Sending
<1>2. Skip(p, r) /\ At(p, "markSent")
  BY <1>1 DEF MarkSent
<1>3. CallsOK' /\ Alone(p) /\ At(p, "next")' /\ Cur(p)' = NULL
  BY <1>1, <1>2, SkipEffect DEF DeliveryInv
<1> QED
  BY <1>1, <1>2, <1>3, ClearStep DEF MarkSent, Quiet, At, DeliveryInv, TypeOK

LEMMA ReleaseStep ==
  ASSUME DeliveryInv, NEW p \in Callers, ReleaseClaim(p) \/ GiveUp(p)
  PROVE  DeliveryInv'
<1>1. PICK r \in Recipients : r = Cur(p)
  BY DEF DeliveryInv, TypeOK, ReleaseClaim, GiveUp, At, Cur, Sending
<1>2. End(p) /\ ~At(p, "markSent")
  BY DEF ReleaseClaim, GiveUp, At
<1>3. CallsOK' /\ Alone(p) /\ At(p, "idle")' /\ Cur(p)' = NULL
  BY <1>2, EndEffect DEF DeliveryInv
<1>4. failed' \in [Recipients -> BOOLEAN]
  BY <1>1 DEF ReleaseClaim, GiveUp, DeliveryInv, TypeOK
<1> QED
  BY <1>1, <1>2, <1>3, <1>4, ClearStep DEF ReleaseClaim, GiveUp, Quiet, At

-------------------------------------------------------------------------------
(* The other steps *)

LEMMA IntoLoop ==
  ASSUME DeliveryInv, NEW p \in Callers, Call(p) PROVE DeliveryInv'
<1>1. CallsOK' /\ Alone(p) /\ caller'[p].at \in {"idle", "next"} /\ Cur(p)' = NULL
  BY CallEffect DEF DeliveryInv
<1>2. ~At(p, "markSent")
  BY DEF Call, At
<1> QED
  BY <1>1, <1>2, CallersOnly DEF Call, Quiet, At, DeliveryInv, TypeOK

LEMMA OutOfLoop ==
  ASSUME DeliveryInv, NEW p \in Callers, End(p), UNCHANGED <<rowVars, mailVars>>,
         faults' \in 0..MaxFaults, edits' = edits
  PROVE  DeliveryInv'
<1>1. CallsOK' /\ Alone(p) /\ At(p, "idle")' /\ Cur(p)' = NULL
  BY EndEffect DEF DeliveryInv
<1>2. At(p, "markSent") => Cur(p) # NULL
  BY DEF DeliveryInv, TypeOK, At, Sending
<1>3. ~At(p, "markSent")' /\ ~At(p, "close")'
  BY <1>1 DEF At
<1> QED
  BY <1>1, <1>2, <1>3, CallersOnly

LEMMA FaultCounts ==
  ASSUME TypeOK, Fault PROVE faults' \in 0..MaxFaults /\ edits' = edits
BY DeliveryAssumption DEF TypeOK, Fault

LEMMA QuietCounts ==
  ASSUME TypeOK, Quiet PROVE faults' \in 0..MaxFaults /\ edits' = edits
BY DEF TypeOK, Quiet

LEMMA OnwardStep ==
  ASSUME DeliveryInv, NEW p \in Callers,
         MissingPass(p) \/ ClaimedElsewhere(p) \/ Render(p) \/ RenderFails(p)
           \/ SendRefused(p) \/ Complete(p) \/ Crash(p)
  PROVE  DeliveryInv'
<1> USE DEF DeliveryInv
<1>1. CASE MissingPass(p)
  BY <1>1, OutOfLoop, QuietCounts DEF MissingPass
<1>2. CASE Crash(p)
  BY <1>2, OutOfLoop, FaultCounts DEF Crash
<1>3. CASE ClaimedElsewhere(p)
  <2>1. PICK r \in Recipients : Skip(p, r)
    BY <1>3 DEF ClaimedElsewhere, TypeOK
  <2>2. CallsOK' /\ Alone(p) /\ At(p, "next")' /\ Cur(p)' = NULL
    BY <2>1, SkipEffect
  <2> QED
    BY <1>3, <2>2, CallersOnly, QuietCounts DEF ClaimedElsewhere, At
<1>4. CASE Render(p) \/ RenderFails(p) \/ SendRefused(p)
  <2>1. PICK place \in {"send", "release", "giveUp"} : Go(p, place)
    BY <1>4 DEF Render, RenderFails, SendRefused
  <2>2. (At(p, "render") \/ At(p, "send")) /\ UNCHANGED <<rowVars, mailVars>> /\ Quiet
    BY <1>4 DEF Render, RenderFails, SendRefused
  <2>3. CallsOK' /\ Alone(p) /\ At(p, place)' /\ Cur(p)' = Cur(p)
    BY <2>1, <2>2, GoEffect DEF At, Sending, Places
  <2> QED
    BY <2>2, <2>3, CallersOnly, QuietCounts DEF At
<1>5. CASE Complete(p)
  <2>1. At(p, "next") /\ UNCHANGED <<rowVars, mailVars>> /\ Quiet
    BY <1>5 DEF Complete
  <2>2. CASE \A r \in Recipients : sent[r]
    <3>1. Go(p, "close")
      BY <1>5, <2>2 DEF Complete
    <3>2. CallsOK' /\ Alone(p) /\ At(p, "close")' /\ Cur(p)' = Cur(p)
      BY <2>1, <3>1, GoEffect DEF At, Sending, Places
    <3> QED
      BY <2>1, <2>2, <3>2, CallersOnly, QuietCounts DEF At
  <2>3. CASE ~ \A r \in Recipients : sent[r]
    BY <1>5, <2>1, <2>3, OutOfLoop, QuietCounts DEF Complete
  <2> QED
    BY <2>2, <2>3
<1> QED
  BY <1>1, <1>2, <1>3, <1>4, <1>5

LEMMA SendStep ==
  ASSUME DeliveryInv, NEW p \in Callers, Send(p) \/ SendFails(p)
  PROVE  DeliveryInv'
<1> USE DEF DeliveryInv
<1>1. At(p, "send")
  BY DEF Send, SendFails
<1>2. CASE Send(p)
  <2>1. Go(p, "markSent") /\ lost' = lost
    BY <1>2 DEF Send
  <2> QED
    BY <1>1, <1>2, <2>1, DeliverStep, QuietCounts DEF Send
<1>3. CASE SendFails(p)
  <2>1. /\ Go(p, "release") /\ UNCHANGED <<rowVars, overran>>
        /\ faults' \in 0..MaxFaults /\ edits' = edits
    BY <1>3, FaultCounts DEF SendFails
  <2>2. CASE UNCHANGED <<inbox, duds, lost>>
    <3>1. CallsOK' /\ Alone(p) /\ At(p, "release")' /\ Cur(p)' = Cur(p)
      BY <1>1, <2>1, GoEffect DEF At, Sending, Places
    <3>2. UNCHANGED <<rowVars, mailVars>>
      BY <2>1, <2>2 DEF mailVars
    <3> QED
      BY <1>1, <2>1, <3>1, <3>2, CallersOnly DEF At
  <2>3. CASE Deliver(Cur(p)) /\ lost' = [lost EXCEPT ![Cur(p)] = @ + 1]
    BY <1>1, <2>1, <2>3, DeliverStep
  <2> QED
    BY <1>3, <2>2, <2>3 DEF SendFails
<1> QED
  BY <1>2, <1>3

LEMMA MarkSentFailsStep ==
  ASSUME DeliveryInv, NEW p \in Callers, MarkSentFails(p) PROVE DeliveryInv'
<1> USE DEF DeliveryInv
<1>1. PICK r \in Recipients : r = Cur(p)
  BY DEF TypeOK, MarkSentFails, At, Cur, Sending
<1>2. /\ At(p, "markSent") /\ Go(p, "release")
      /\ lost' = [lost EXCEPT ![r] = @ + 1]
      /\ UNCHANGED <<rowVars, inbox, duds, overran>>
      /\ faults' \in 0..MaxFaults /\ edits' = edits
  BY <1>1, FaultCounts DEF MarkSentFails
<1>3. CallsOK' /\ Alone(p) /\ At(p, "release")' /\ Cur(p)' = r
  BY <1>1, <1>2, GoEffect DEF At, Sending, Places
<1>4. TypeOK'
  BY <1>2, <1>3 DEF TypeOK, CallsOK, CallOK, CallType, Places, Cur, rowVars
<1>5. \A q \in Callers : q # p => caller'[q] = caller[q]
  BY <1>3 DEF Alone
<1>6. \A q \in Callers : Cur(q)' = Cur(q)
  BY <1>1, <1>3, <1>5 DEF Cur
<1>7. ASSUME NEW x \in Recipients PROVE Manned(x)' /\ Counted(x)'
  <2>1. Manned(x) /\ Counted(x)
    BY DEF ClaimInv
  <2>2. Works(x)' = Works(x)
    BY <1>6 DEF Works
  <2>3. /\ Held(x)' = Held(x) /\ Held(x) \in {0, 1} /\ overran' = overran
        /\ Count(x)' = Count(x)
    BY <1>2 DEF Held, Count, rowVars
  <2>4. CASE x = r
    <3>1. Unrecorded(r)' \subseteq Unrecorded(r) \cup {p}
      BY <1>5 DEF Unrecorded, At, Cur
    <3>2. /\ Cardinality(Unrecorded(r)') =< Cardinality(Unrecorded(r)) + 1
          /\ Cardinality(Unrecorded(r)) \in Nat /\ Cardinality(Unrecorded(r)') \in Nat
      BY <2>1, <2>4, <3>1, Sets, SizeGrown DEF Manned
    <3>3. Count(r) \in Nat /\ lost[r] \in Nat /\ overran[r] \in Nat
      BY Numbers
    <3>4. lost'[r] = lost[r] + 1
      BY <1>2 DEF TypeOK
    <3>5. Manned(r)'
      BY <2>1, <2>2, <2>3, <2>4 DEF Manned
    <3>6. Counted(r)'
      BY <2>1, <2>3, <2>4, <3>2, <3>3, <3>4 DEF Counted
    <3> QED
      BY <2>4, <3>5, <3>6
  <2>5. CASE x # r
    <3>1. lost'[x] = lost[x]
      BY <2>5, <1>2 DEF TypeOK
    <3>2. Unrecorded(x)' \subseteq Unrecorded(x)
      BY <1>3, <1>5, <2>5 DEF Unrecorded, At, Cur
    <3> QED
      BY <1>4, <2>1, <2>2, <2>3, <3>1, <3>2, Steady
  <2> QED
    BY <2>4, <2>5
<1>8. SentInv'
  <2>1. \A q \in Callers : At(q, "markSent")' => At(q, "markSent") /\ Cur(q)' = Cur(q)
    BY <1>3, <1>5, <1>6 DEF At
  <2>2. \A q \in Callers : At(q, "close")' => At(q, "close")
    BY <1>3, <1>5 DEF At
  <2> QED
    BY <2>1, <2>2, <1>2, SentSteady DEF rowVars
<1> QED
  BY <1>4, <1>7, <1>8 DEF ClaimInv

LEMMA CloseStep ==
  ASSUME DeliveryInv, NEW p \in Callers, Close(p) PROVE DeliveryInv'
<1> USE DEF DeliveryInv
<1>1. /\ End(p) /\ At(p, "close") /\ orderSent' = TRUE
      /\ UNCHANGED <<sent, failed, claimed, pass, mailVars, faults, edits>>
  BY DEF Close, Quiet
<1>2. CallsOK' /\ Alone(p) /\ At(p, "idle")' /\ Cur(p)' = NULL
  BY <1>1, EndEffect
<1>3. \A r \in Recipients : sent[r]
  BY <1>1 DEF SentInv
<1>4. TypeOK'
  BY <1>1, <1>2 DEF TypeOK, CallsOK, CallOK, CallType, Places, Cur, mailVars
<1>5. \A q \in Callers : q # p => caller'[q] = caller[q]
  BY <1>2 DEF Alone
<1>6. ASSUME NEW r \in Recipients PROVE Manned(r)' /\ Counted(r)'
  <2>1. Works(r)' \subseteq Works(r) /\ Unrecorded(r)' \subseteq Unrecorded(r)
    BY <1>2, <1>5, DeliveryAssumption DEF Works, Unrecorded, Cur, At
  <2>2. Held(r)' = Held(r) /\ Held(r) \in {0, 1} /\ Count(r)' = Count(r)
    BY <1>1 DEF Held, Count, mailVars
  <2> QED
    BY <1>1, <1>4, <2>1, <2>2, Steady DEF ClaimInv, mailVars
<1>7. SentInv'
  <2>1. \A q \in Callers : At(q, "markSent")' => At(q, "markSent") /\ Cur(q)' = Cur(q)
    BY <1>2, <1>5 DEF At, Cur
  <2> QED
    BY <2>1, <1>1, <1>3 DEF SentInv, Delivered, Count, mailVars
<1> QED
  BY <1>4, <1>6, <1>7 DEF ClaimInv

LEMMA ClaimAgesStep ==
  ASSUME DeliveryInv, NEW r \in Recipients, ClaimAges(r) PROVE DeliveryInv'
<1> USE DEF DeliveryInv
<1>1. /\ claimed' = [claimed EXCEPT ![r] = "stale"]
      /\ overran' = [overran EXCEPT ![r] = @ + 1]
      /\ UNCHANGED <<sent, failed, pass, orderSent, caller, inbox, duds, lost, faults, edits>>
  BY DEF ClaimAges, Quiet
<1>2. TypeOK'
  BY <1>1 DEF TypeOK, Cur
<1>3. ASSUME NEW x \in Recipients PROVE Manned(x)' /\ Counted(x)'
  <2>1. Manned(x) /\ Counted(x)
    BY DEF ClaimInv
  <2>2. Works(x)' = Works(x) /\ Unrecorded(x)' = Unrecorded(x)
    BY <1>1 DEF Works, Unrecorded, Cur, At
  <2>3. Count(x)' = Count(x) /\ lost' = lost
    BY <1>1 DEF Count
  <2>4. CASE x = r
    <3>1. overran'[r] = overran[r] + 1
      BY <1>1 DEF TypeOK
    <3>2. Held(r) \in {0, 1} /\ Held(r)' \in {0, 1}
      BY DEF Held
    <3>3. /\ Count(r) \in Nat /\ lost[r] \in Nat /\ overran[r] \in Nat
          /\ Cardinality(Works(r)) \in Nat /\ Cardinality(Unrecorded(r)) \in Nat
      BY <2>1, <2>4, Numbers, Sets DEF Manned
    <3>4. Manned(r)'
      BY <2>1, <2>2, <2>4, <3>1, <3>2, <3>3 DEF Manned
    <3>5. Counted(r)'
      BY <2>1, <2>2, <2>3, <2>4, <3>1, <3>2, <3>3 DEF Counted
    <3> QED
      BY <2>4, <3>4, <3>5
  <2>5. CASE x # r
    <3>1. overran'[x] = overran[x] /\ Held(x)' = Held(x) /\ Held(x) \in {0, 1}
      BY <1>1, <2>5 DEF TypeOK, Held
    <3> QED
      BY <1>2, <2>1, <2>2, <2>3, <3>1, Steady
  <2> QED
    BY <2>4, <2>5
<1>4. SentInv'
  BY <1>1 DEF SentInv, Delivered, Count, At, Cur
<1> QED
  BY <1>2, <1>3, <1>4 DEF ClaimInv

LEMMA EditStep ==
  ASSUME DeliveryInv, NEW r \in Recipients, RemoveAttendee(r) \/ ChangeAddress(r)
  PROVE  DeliveryInv'
<1> USE DEF DeliveryInv
<1>1. PICK to \in {"gone", "revoked"} : EditPass(r, to)
  BY DEF RemoveAttendee, ChangeAddress
<1>2. /\ pass' = [pass EXCEPT ![r] = to] /\ edits' \in 0..MaxEdits
      /\ UNCHANGED <<sent, failed, claimed, orderSent, caller, mailVars, faults>>
  BY <1>1, DeliveryAssumption DEF EditPass, TypeOK
<1>3. TypeOK'
  BY <1>2 DEF TypeOK, Cur, mailVars
<1>4. ClaimInv'
  BY <1>2 DEF ClaimInv, Manned, Counted, Works, Unrecorded, Held, Count, At, Cur, mailVars
<1>5. \A x \in Recipients : Delivered(x) => Delivered(x)'
  BY <1>2 DEF Delivered, Count, TypeOK, mailVars
<1>6. \A q \in Callers : At(q, "markSent") => Cur(q) \in Recipients
  BY DEF At, Cur, TypeOK, Sending
<1>7. \A q \in Callers : At(q, "markSent") => Delivered(Cur(q))'
  BY <1>2, <1>5, <1>6 DEF SentInv, Delivered, Count, Cur
<1>8. SentInv'
  BY <1>2, <1>5, <1>7 DEF SentInv, At, mailVars
<1> QED
  BY <1>3, <1>4, <1>8

-------------------------------------------------------------------------------
(* The theorems *)

LEMMA NextInv == DeliveryInv /\ [Next]_vars => DeliveryInv'
<1> SUFFICES ASSUME DeliveryInv, [Next]_vars PROVE DeliveryInv'
  OBVIOUS
<1>1. ASSUME NEW p \in Callers, Call(p) \/ SweepCall(p) PROVE DeliveryInv'
  BY <1>1, IntoLoop DEF SweepCall
<1>2. ASSUME NEW p \in Callers, Step(p) PROVE DeliveryInv'
  BY <1>2, OnwardStep, ClaimStep, SendStep, MarkSentStep, ReleaseStep, CloseStep
     DEF Step
<1>3. ASSUME NEW p \in Callers, Failure(p) PROVE DeliveryInv'
  BY <1>3, OnwardStep, SendStep, MarkSentFailsStep DEF Failure
<1>4. ASSUME NEW r \in Recipients, ClaimAges(r) \/ RemoveAttendee(r) \/ ChangeAddress(r)
      PROVE  DeliveryInv'
  BY <1>4, ClaimAgesStep, EditStep
<1>5. CASE UNCHANGED vars
  BY <1>5 DEF DeliveryInv, TypeOK, ClaimInv, Manned, Counted, Works, Unrecorded, Held,
              SentInv, Delivered, Count, At, Cur, vars, rowVars, mailVars
<1> QED
  BY <1>1, <1>2, <1>3, <1>4, <1>5 DEF Next

(* Every caller's claim, record and delivery fit together at all times.    *)
LEMMA DeliveryInvariant == Spec => []DeliveryInv
BY InitInv, NextInv, PTL DEF Spec

(* The state of the delivery keeps its shape: a call holds a recipient     *)
(* exactly while it sends to it (emailPaidOrderPass, passes.service.ts).   *)
THEOREM TypeCorrect == Spec => []TypeOK
BY DeliveryInvariant, PTL DEF DeliveryInv

(* The claim of emailPaidOrderPass (updateMany on emailClaimedAt) keeps    *)
(* any number of concurrent calls from sending one ticket twice: only a    *)
(* claim that ran out lets one more of them work on a recipient, and only  *)
(* that or a lost answer or record costs one more ticket.                  *)
THEOREM NeverDuplicatedNeedlessly == Spec => []NoNeedlessDuplicate
<1>1. DeliveryInv => NoNeedlessDuplicate
  <2> SUFFICES ASSUME DeliveryInv, NEW r \in Recipients
               PROVE  /\ Cardinality(Works(r)) =< 1 + overran[r]
                      /\ Count(r) =< 1 + lost[r] + overran[r]
    BY DEF NoNeedlessDuplicate, Works, Count
  <2>1. Manned(r) /\ Counted(r) /\ TypeOK
    BY DEF DeliveryInv, ClaimInv
  <2>2. Count(r) \in Nat /\ lost[r] \in Nat /\ overran[r] \in Nat /\ Held(r) \in {0, 1}
    BY <2>1, Numbers
  <2>3. Cardinality(Works(r)) \in Nat /\ Cardinality(Unrecorded(r)) \in Nat
    BY <2>1, Sets DEF Manned
  <2>4. Cardinality(Works(r)) =< 1 + overran[r]
    BY <2>1, <2>2, <2>3 DEF Manned
  <2>5. Count(r) =< 1 + lost[r] + overran[r]
    BY <2>1, <2>2, <2>3 DEF Counted
  <2> QED
    BY <2>4, <2>5
<1> QED
  BY <1>1, DeliveryInvariant, PTL

(* What emailPaidOrderPass has written to emailSentAt, of a recipient and  *)
(* of the order, is true of the mail boxes.                                *)
THEOREM RecordsAreTrue == Spec => []RecordedIsDelivered
<1>1. DeliveryInv => RecordedIsDelivered
  BY DEF DeliveryInv, SentInv, Delivered, Count, RecordedIsDelivered
<1> QED
  BY <1>1, DeliveryInvariant, PTL

-------------------------------------------------------------------------------
(* An address that was given up *)

(* Call k may still send to r. *)
Candidate(k, r) == IF k.cur = r THEN k.at \in {"render", "send"} ELSE r \in k.todo

LEMMA MaySendIs == \A r : MaySend(r) = {p \in Callers : Candidate(caller[p], r)}
BY DEF MaySend, Candidate, Cur

(* No step of p makes it a sender to a recipient that was given up. *)
Narrows(p) ==
  /\ Alone(p)
  /\ \A r \in Recipients :
       failed[r] /\ Candidate(caller'[p], r) => Candidate(caller[p], r)

LEMMA NarrowSets ==
  ASSUME NEW p \in Callers, Narrows(p), NEW r \in Recipients, failed[r]
  PROVE  MaySend(r)' \subseteq MaySend(r)
<1>1. MaySend(r)' = {q \in Callers : Candidate(caller'[q], r)}
  BY DEF MaySend, Candidate, Cur
<1> QED
  BY <1>1, MaySendIs DEF Narrows, Alone

LEMMA NarrowGo ==
  ASSUME TypeOK, NEW p \in Callers, NEW place, Go(p, place),
         place \in {"render", "send"} => caller[p].at \in {"render", "send"}
  PROVE  Narrows(p)
BY TypeCalls DEF CallsOK, CallType, Go, Narrows, Alone, Candidate

LEMMA NarrowEnd ==
  ASSUME TypeOK, NEW p \in Callers, End(p)
  PROVE  Narrows(p)
BY TypeCalls, DeliveryAssumption DEF CallsOK, CallType, End, Idle, Narrows, Alone, Candidate

LEMMA NarrowSkip ==
  ASSUME TypeOK, NEW p \in Callers, NEW x \in Recipients, Skip(p, x),
         Cur(p) \in {NULL, x}
  PROVE  Narrows(p)
BY TypeCalls, DeliveryAssumption
   DEF CallsOK, CallType, Skip, Narrows, Alone, Candidate, Cur

LEMMA NarrowCall ==
  ASSUME TypeOK, NEW p \in Callers, Call(p)
  PROVE  Narrows(p)
<1>1. CASE orderSent
  BY <1>1 DEF Call, Narrows, Alone
<1>2. CASE ~orderSent
  <2>1. caller' = [caller EXCEPT ![p] = [Idle EXCEPT !.at = "next", !.todo = Open,
                                           !.bare = {r \in Open : ~HasPass(r)}]]
    BY <1>2 DEF Call
  <2>2. caller'[p].cur = NULL /\ caller'[p].todo = Open /\ Alone(p)
    BY <2>1, TypeCalls DEF CallsOK, Idle, Alone
  <2>3. \A r \in Recipients : Candidate(caller'[p], r) => ~failed[r]
    BY <2>2, DeliveryAssumption DEF Candidate, Open
  <2> QED
    BY <2>2, <2>3 DEF Narrows
<1> QED
  BY <1>1, <1>2

LEMMA NarrowClaim ==
  ASSUME TypeOK, NEW p \in Callers, Claim(p)
  PROVE  Narrows(p)
<1>1. PICK x \in caller[p].todo :
        caller' = [caller EXCEPT ![p].at = "render", ![p].cur = x]
  BY DEF Claim
<1>2. /\ caller'[p].cur = x /\ caller'[p].at = "render"
      /\ caller'[p].todo = caller[p].todo /\ Alone(p)
  BY <1>1, TypeCalls DEF CallsOK, CallType, Alone
<1>3. caller[p].cur = NULL
  BY DEF Claim, At, Cur, TypeOK, Sending
<1> QED
  BY <1>1, <1>2, <1>3, DeliveryAssumption DEF Narrows, Candidate

(* A step that delivers nothing to r ... *)
LEMMA NoDelivery ==
  ASSUME NEW r \in Recipients, failed[r], failed'[r], NEW p \in Callers, Narrows(p),
         UNCHANGED <<inbox, duds>>
  PROVE  /\ failed'[r]
         /\ MaySend(r)' \subseteq MaySend(r)
         /\ inbox'[r] + duds'[r] = inbox[r] + duds[r]
BY NarrowSets

(* ... and one that delivers, by a call that goes on to another place. *)
LEMMA OneDelivery ==
  ASSUME TypeOK, NEW p \in Callers, At(p, "send"), Deliver(Cur(p)), failed' = failed,
         NEW place \in {"markSent", "release"}, Go(p, place)
  PROVE  GivenUpStep
<1>1. PICK x \in Recipients : x = Cur(p)
  BY DEF TypeOK, At, Cur, Sending
<1>2. /\ Count(x)' = Count(x) + 1
      /\ \A y \in Recipients \ {x} : inbox'[y] = inbox[y] /\ duds'[y] = duds[y]
  BY <1>1, DeliverEffect
<1>3. Narrows(p)
  BY NarrowGo
<1> SUFFICES ASSUME NEW r \in Recipients, failed[r]
             PROVE  /\ MaySend(r)' \subseteq MaySend(r)
                    /\ \/ inbox'[r] + duds'[r] = inbox[r] + duds[r]
                       \/ /\ inbox'[r] + duds'[r] = inbox[r] + duds[r] + 1
                          /\ MaySend(r)' # MaySend(r)
  BY DEF GivenUpStep
<1>4. MaySend(r)' \subseteq MaySend(r)
  BY <1>3, NarrowSets
<1>5. CASE r # x
  BY <1>2, <1>4, <1>5
<1>6. CASE r = x
  <2>1. At(p, place)' /\ Cur(p)' = Cur(p)
    BY GoEffect DEF At, Sending, Places
  <2>2. p \in MaySend(r) /\ p \notin MaySend(r)'
    BY <1>1, <1>6, <2>1 DEF MaySend, At
  <2> QED
    BY <1>2, <1>4, <1>6, <2>2 DEF Count
<1> QED
  BY <1>5, <1>6

LEMMA GivenUpMove == TypeOK /\ [Next]_vars => [GivenUpStep]_vars
<1> SUFFICES ASSUME TypeOK, Next PROVE GivenUpStep
  OBVIOUS
<1>1. ASSUME NEW p \in Callers, Narrows(p), UNCHANGED <<inbox, duds>>,
             \A r \in Recipients : failed[r] => failed'[r]
      PROVE  GivenUpStep
  BY <1>1, NoDelivery DEF GivenUpStep
<1>2. ASSUME NEW p \in Callers, Call(p) \/ SweepCall(p) PROVE GivenUpStep
  BY <1>2, <1>1, NarrowCall DEF SweepCall, Call, rowVars, mailVars
<1>3. ASSUME NEW p \in Callers, Step(p) PROVE GivenUpStep
  <2>1. CASE MissingPass(p)
    BY <2>1, <1>1, NarrowEnd DEF MissingPass, rowVars, mailVars
  <2>2. CASE Claim(p)
    BY <2>2, <1>1, NarrowClaim DEF Claim, mailVars
  <2>3. CASE ClaimedElsewhere(p)
    <3>1. PICK x \in Recipients : Skip(p, x)
      BY <2>3 DEF ClaimedElsewhere, TypeOK
    <3>2. Cur(p) = NULL
      BY <2>3 DEF ClaimedElsewhere, At, Cur, TypeOK, Sending
    <3> QED
      BY <2>3, <3>1, <3>2, <1>1, NarrowSkip DEF ClaimedElsewhere, rowVars, mailVars
  <2>4. CASE Render(p) \/ RenderFails(p) \/ SendRefused(p)
    <3>1. /\ At(p, "render") \/ At(p, "send")
          /\ \E place \in {"send", "release", "giveUp"} : Go(p, place)
          /\ UNCHANGED <<rowVars, mailVars>>
      BY <2>4 DEF Render, RenderFails, SendRefused
    <3>2. Narrows(p)
      BY <3>1, NarrowGo DEF At
    <3> QED
      BY <3>1, <3>2, <1>1 DEF rowVars, mailVars
  <2>5. CASE Send(p)
    BY <2>5, OneDelivery DEF Send, rowVars
  <2>6. CASE MarkSent(p)
    <3>1. PICK x \in Recipients : x = Cur(p)
      BY <2>6 DEF MarkSent, TypeOK, At, Cur, Sending
    <3>2. Skip(p, x) /\ UNCHANGED <<failed, mailVars>>
      BY <2>6, <3>1 DEF MarkSent
    <3>3. Narrows(p)
      BY <3>1, <3>2, NarrowSkip
    <3> QED
      BY <3>2, <3>3, <1>1 DEF mailVars
  <2>7. CASE ReleaseClaim(p) \/ GiveUp(p)
    <3>1. End(p) /\ UNCHANGED mailVars
      BY <2>7 DEF ReleaseClaim, GiveUp
    <3>2. \A r \in Recipients : failed[r] => failed'[r]
      BY <2>7 DEF ReleaseClaim, GiveUp, TypeOK
    <3> QED
      BY <3>1, <3>2, <1>1, NarrowEnd DEF mailVars
  <2>8. CASE Complete(p)
    <3>1. At(p, "next") /\ UNCHANGED <<rowVars, mailVars>> /\ (Go(p, "close") \/ End(p))
      BY <2>8 DEF Complete
    <3>2. Narrows(p)
      BY <3>1, NarrowGo, NarrowEnd
    <3> QED
      BY <3>1, <3>2, <1>1 DEF rowVars, mailVars
  <2>9. CASE Close(p)
    BY <2>9, <1>1, NarrowEnd DEF Close, mailVars
  <2> QED
    BY <1>3, <2>1, <2>2, <2>3, <2>4, <2>5, <2>6, <2>7, <2>8, <2>9 DEF Step
<1>4. ASSUME NEW p \in Callers, Failure(p) PROVE GivenUpStep
  <2>1. CASE SendFails(p)
    <3>1. At(p, "send") /\ Go(p, "release") /\ failed' = failed
      BY <2>1 DEF SendFails, rowVars
    <3>2. CASE UNCHANGED <<inbox, duds, lost>>
      BY <3>1, <3>2, <1>1, NarrowGo
    <3>3. CASE Deliver(Cur(p))
      BY <3>1, <3>3, OneDelivery
    <3> QED
      BY <2>1, <3>2, <3>3 DEF SendFails
  <2>2. CASE MarkSentFails(p)
    <3>1. Go(p, "release") /\ UNCHANGED <<failed, inbox, duds>>
      BY <2>2 DEF MarkSentFails, rowVars
    <3> QED
      BY <3>1, <1>1, NarrowGo
  <2>3. CASE Crash(p)
    BY <2>3, <1>1, NarrowEnd DEF Crash, rowVars, mailVars
  <2> QED
    BY <1>4, <2>1, <2>2, <2>3 DEF Failure
<1>5. ASSUME NEW r \in Recipients, ClaimAges(r) \/ RemoveAttendee(r) \/ ChangeAddress(r)
      PROVE  GivenUpStep
  <2>1. UNCHANGED <<failed, caller, inbox, duds>>
    BY <1>5 DEF ClaimAges, RemoveAttendee, ChangeAddress, EditPass, mailVars
  <2>2. \A x \in Recipients : MaySend(x)' = MaySend(x)
    BY <2>1 DEF MaySend, Cur
  <2> QED
    BY <2>1, <2>2 DEF GivenUpStep
<1> QED
  BY <1>2, <1>3, <1>4, <1>5 DEF Next

(* emailPaidOrderPass asks for emailDeliveryFailedAt in its snapshot only, *)
(* not in the claim: an address that was given up is sent to once more at  *)
(* most by each call that had read the order before, and by no other.      *)
THEOREM GivenUpIsLeft == Spec => GivenUpIsLeftAlone
BY TypeCorrect, GivenUpMove, PTL DEF Spec, GivenUpIsLeftAlone
===============================================================================
