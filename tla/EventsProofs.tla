------------------------------ MODULE EventsProofs -----------------------------
(***************************************************************************)
(* Proofs about the two parts of EventsService that share no state: the    *)
(* booking of halls, for any number of calls, events, halls and slots, and *)
(* the terms of a ticket type, for any number of updates and checkouts and *)
(* any prices, currencies and times.                                       *)
(***************************************************************************)
EXTENDS HallBooking, SaleTerms, TLAPS

-------------------------------------------------------------------------------
(* Halls *)


Places == {"idle", "look", "addHall", "insert", "assign"}

CallType == [at : Places, ev : Events \cup {NULL}, slot : Slots \cup {NULL},
             hall : Halls \cup {NULL}, new : BOOLEAN, since : SUBSET Events]

(* What a call knows where it is: an assignment that is to look has read   *)
(* the slot its event still has, and who has looked knows the conflicts,   *)
(* as far as since does not say that a booking came in between.            *)
CallOK(c) ==
  LET r == call[c] IN
  /\ r.at \in {"look", "addHall", "insert"} => r.slot \in Slots
  /\ r.at \in {"look", "assign"} => r.hall \in Halls
  /\ r.at \in {"addHall", "insert"} => r.ev = NULL
  /\ r.at = "look" /\ r.ev \in Rows \ r.since => r.slot = slot[r.ev]
  /\ r.at = "insert" /\ r.hall # NULL => Conflicts(r.hall, r.slot, NULL) \subseteq r.since
  /\ r.at = "assign" /\ r.ev \in Rows \ r.since =>
       Conflicts(r.hall, slot[r.ev], r.ev) \subseteq r.since

CallsInv == \A c \in Calls : CallOK(c)

BookingInv == TypeOK /\ CallsInv /\ ClashExplained

LEMMA InitInv == Init => BookingInv
BY HallBookingAssumption
   DEF Init, Idle, BookingInv, TypeOK, CallsInv, CallOK, ClashExplained, Rows

LEMMA TypeCalls == TypeOK => call \in [Calls -> CallType]
BY DEF TypeOK, CallType, Places

(* Hours in common meet, for either of the two slots.                      *)
LEMMA HoursInCommon ==
  ASSUME NEW s \in Slots, NEW t \in Slots, s.to # NULL, t.to # NULL,
         s.from < t.to, t.from < s.to
  PROVE  HoursMeet(s, t) /\ HoursMeet(t, s)
<1>1. s.from \in Nat /\ s.to \in Nat /\ t.from \in Nat /\ t.to \in Nat
  BY HallBookingAssumption
<1> QED
  BY <1>1 DEF HoursMeet

-------------------------------------------------------------------------------
(* What the steps do to the calls *)

Alone(c) == \A d \in Calls \ {c} : call'[d] = call[d]

(* Call d stays where it is; only what happened since may change.          *)
Same(d) ==
  /\ call'[d].at = call[d].at /\ call'[d].ev = call[d].ev
  /\ call'[d].slot = call[d].slot /\ call'[d].hall = call[d].hall

LEMMA EndEffect ==
  ASSUME TypeOK, NEW c \in Calls, End(c)
  PROVE  call' \in [Calls -> CallType] /\ Alone(c) /\ At(c, "idle")'
BY TypeCalls DEF CallType, Places, End, Idle, Alone, At

LEMMA BookedEffect ==
  ASSUME TypeOK, NEW x \in Events
  PROVE  /\ Booked(x) \in [Calls -> CallType]
         /\ \A d \in Calls :
              /\ Booked(x)[d].at = call[d].at /\ Booked(x)[d].ev = call[d].ev
              /\ Booked(x)[d].slot = call[d].slot /\ Booked(x)[d].hall = call[d].hall
              /\ call[d].since \subseteq Booked(x)[d].since
              /\ call[d].at \in {"insert", "assign"} \/ call[d].ev = x =>
                   x \in Booked(x)[d].since
<1>1. ASSUME NEW d \in Calls
      PROVE  /\ Booked(x)[d] \in CallType
             /\ Booked(x)[d].at = call[d].at /\ Booked(x)[d].ev = call[d].ev
             /\ Booked(x)[d].slot = call[d].slot /\ Booked(x)[d].hall = call[d].hall
             /\ call[d].since \subseteq Booked(x)[d].since
             /\ call[d].at \in {"insert", "assign"} \/ call[d].ev = x =>
                  x \in Booked(x)[d].since
  <2>1. call[d] \in CallType
    BY TypeCalls
  <2>2. CASE call[d].at \in {"insert", "assign"} \/ call[d].ev = x
    <3>1. Booked(x)[d] = [call[d] EXCEPT !.since = call[d].since \cup {x}]
      BY <2>2 DEF Booked
    <3> QED
      BY <2>1, <3>1 DEF CallType
  <2>3. CASE ~(call[d].at \in {"insert", "assign"} \/ call[d].ev = x)
    <3>1. Booked(x)[d] = call[d]
      BY <2>3 DEF Booked
    <3> QED
      BY <2>1, <2>3, <3>1
  <2> QED
    BY <2>2, <2>3
<1>2. Booked(x) \in [Calls -> CallType]
  BY <1>1 DEF Booked
<1> QED
  BY <1>1, <1>2

(* A call goes on knowing what it knows when the events of X are booked,   *)
(* others are left alone, lose their hall or disappear.                    *)
LEMMA CallCarried ==
  ASSUME BookingInv, NEW d \in Calls, Same(d), NEW X,
         Rows' \subseteq Events,
         \A y \in Rows' \ X :
           y \in Rows /\ slot'[y] = slot[y] /\ place'[y] \in {place[y], NULL},
         \A y \in Rows' \cap X :
           call[d].at \in {"insert", "assign"} \/ call[d].ev = y => y \in call'[d].since,
         \A y \in Rows' : y \in call[d].since => y \in call'[d].since
  PROVE  CallOK(d)'
<1> USE DEF Same
<1>1. CallOK(d)
  BY DEF BookingInv, CallsInv
<1>2. NULL \notin Halls
  BY HallBookingAssumption
<1>3. CASE call[d].at = "look"
  BY <1>1, <1>3 DEF CallOK
<1>4. CASE call[d].at = "insert"
  <2>1. SUFFICES ASSUME call[d].hall # NULL, NEW y \in Conflicts(call[d].hall, call[d].slot, NULL)'
                 PROVE  y \in call'[d].since
    BY <1>1, <1>4 DEF CallOK
  <2>2. y \in Rows' /\ place'[y] = call[d].hall /\ call[d].slot.to # NULL /\ HoursMeet(slot'[y], call[d].slot)
    BY DEF Conflicts, HoursMeet
  <2>3. CASE y \in X
    BY <1>4, <2>2, <2>3
  <2>4. CASE y \notin X
    <3>1. y \in Rows /\ slot'[y] = slot[y] /\ place[y] = call[d].hall
      BY <2>1, <2>2, <2>4
    <3>2. y # NULL
      BY <2>2, HallBookingAssumption
    <3>3. y \in Conflicts(call[d].hall, call[d].slot, NULL)
      BY <2>2, <3>1, <3>2 DEF Conflicts
    <3> QED
      BY <1>1, <1>4, <2>1, <2>2, <3>3 DEF CallOK
  <2> QED
    BY <2>3, <2>4
<1>5. CASE call[d].at = "assign"
  <2>1. SUFFICES ASSUME NEW x, x = call[d].ev, x \in Rows' \ call'[d].since,
                        NEW y \in Conflicts(call[d].hall, slot[x], x)'
                 PROVE  y \in call'[d].since
    BY <1>1, <1>5 DEF CallOK
  <2>2. y \in Rows' \ {x} /\ place'[y] = call[d].hall /\ slot'[x].to # NULL /\ HoursMeet(slot'[y], slot'[x])
    BY DEF Conflicts, HoursMeet
  <2>3. x \notin X /\ x \in Rows /\ slot'[x] = slot[x] /\ x \notin call[d].since
    BY <1>5, <2>1
  <2>4. CASE y \in X
    BY <1>5, <2>2, <2>4
  <2>5. CASE y \notin X
    <3>1. y \in Rows /\ slot'[y] = slot[y] /\ place[y] = call[d].hall
      BY <1>1, <1>2, <1>5, <2>2, <2>5 DEF CallOK
    <3>2. y \in Conflicts(call[d].hall, slot[x], x)
      BY <2>2, <2>3, <3>1 DEF Conflicts
    <3> QED
      BY <1>1, <1>5, <2>1, <2>2, <2>3, <3>2 DEF CallOK
  <2> QED
    BY <2>4, <2>5
<1>6. CASE call[d].at \notin {"look", "insert", "assign"}
  BY <1>1, <1>6 DEF CallOK
<1> QED
  BY <1>3, <1>4, <1>5, <1>6

-------------------------------------------------------------------------------
(* The steps that book nothing *)

LEMMA CallOnly ==
  ASSUME BookingInv, NEW c \in Calls, UNCHANGED <<rowVars, moved, meanwhile>>,
         call' \in [Calls -> CallType], Alone(c), CallOK(c)'
  PROVE  BookingInv'
<1> USE DEF BookingInv, rowVars
<1>1. Rows' = Rows /\ Built' = Built /\ Rows \subseteq Events
  BY DEF Rows, Built
<1>2. TypeOK'
  BY <1>1 DEF TypeOK, CallType, Places
<1>3. \A d \in Calls \ {c} : CallOK(d)'
  <2> SUFFICES ASSUME NEW d \in Calls \ {c} PROVE CallOK(d)'
    OBVIOUS
  <2>1. call'[d] = call[d]
    BY DEF Alone
  <2> QED
    BY <2>1, <1>1, CallCarried DEF Same
<1>4. ClashExplained'
  BY <1>1 DEF ClashExplained, Clash
<1> QED
  BY <1>2, <1>3, <1>4 DEF CallsInv

LEMMA EndStep ==
  ASSUME BookingInv, NEW c \in Calls, End(c), UNCHANGED <<rowVars, moved, meanwhile>>
  PROVE  BookingInv'
<1>1. call' \in [Calls -> CallType] /\ Alone(c) /\ At(c, "idle")'
  BY EndEffect DEF BookingInv
<1>2. CallOK(c)'
  BY <1>1 DEF CallOK, At
<1> QED
  BY <1>1, <1>2, CallOnly

LEMMA RefuseStep ==
  ASSUME BookingInv, NEW c \in Calls, Refuse(c) \/ Fail(c) PROVE BookingInv'
BY EndStep DEF Refuse, Fail

LEMMA IdleCall ==
  /\ Idle \in CallType /\ Idle.at = "idle" /\ Idle.ev = NULL /\ Idle.slot = NULL
  /\ Idle.hall = NULL /\ Idle.new = FALSE /\ Idle.since = {}
BY DEF Idle, CallType, Places

LEMMA StartCreateStep ==
  ASSUME BookingInv, NEW c \in Calls, NEW h \in Halls \cup {NULL}, NEW s \in Slots,
         NEW new \in BOOLEAN, StartCreate(c, h, s, new)
  PROVE  BookingInv'
<1> USE DEF BookingInv
<1> DEFINE where == IF h # NULL THEN "look" ELSE IF new THEN "addHall" ELSE "insert"
           r == [Idle EXCEPT !.at = where, !.slot = s, !.hall = h, !.new = new /\ h # NULL]
<1>1. UNCHANGED <<rowVars, moved, meanwhile>> /\ call' = [call EXCEPT ![c] = r]
  BY DEF StartCreate, Begin
<1>2. r \in CallType /\ r.at = where /\ r.ev = NULL /\ r.slot = s /\ r.hall = h
  BY IdleCall DEF CallType, Places
<1>3. call' \in [Calls -> CallType] /\ Alone(c) /\ call'[c] = r
  BY <1>1, <1>2, TypeCalls DEF Alone
<1>4. NULL \notin Events
  BY HallBookingAssumption
<1>5. CallOK(c)'
  BY <1>2, <1>3, <1>4 DEF CallOK, Rows
<1> QED
  BY <1>1, <1>3, <1>5, CallOnly

LEMMA StartAssignStep ==
  ASSUME BookingInv, NEW c \in Calls, NEW x \in Events, NEW h \in Halls, StartAssign(c, x, h)
  PROVE  BookingInv'
<1> USE DEF BookingInv
<1> DEFINE r == [Idle EXCEPT !.at = "look", !.ev = x, !.slot = slot[x], !.hall = h]
<1>1. UNCHANGED <<rowVars, moved, meanwhile>> /\ call' = [call EXCEPT ![c] = r] /\ x \in Rows
  BY DEF StartAssign, Begin
<1>2. slot[x] \in Slots
  BY <1>1 DEF TypeOK
<1>3. r \in CallType /\ r.at = "look" /\ r.ev = x /\ r.slot = slot[x] /\ r.hall = h
  BY <1>2, IdleCall DEF CallType, Places
<1>4. call' \in [Calls -> CallType] /\ Alone(c) /\ call'[c] = r
  BY <1>1, <1>3, TypeCalls DEF Alone
<1>5. slot' = slot
  BY <1>1 DEF rowVars
<1>6. CallOK(c)'
  BY <1>2, <1>3, <1>4, <1>5 DEF CallOK
<1> QED
  BY <1>1, <1>4, <1>6, CallOnly

LEMMA LookStep ==
  ASSUME BookingInv, NEW c \in Calls, Look(c) PROVE BookingInv'
<1> USE DEF BookingInv
<1> DEFINE r == call[c]
           s == [r EXCEPT !.at = "insert"]
           t == [r EXCEPT !.at = "assign", !.slot = NULL]
<1>1. /\ UNCHANGED <<rowVars, moved, meanwhile>> /\ r.at = "look"
      /\ Conflicts(r.hall, r.slot, r.ev) = {}
      /\ call' = [call EXCEPT ![c] = IF r.ev = NULL THEN s ELSE t]
  BY DEF Look, At
<1>2. r \in CallType /\ CallOK(c)
  BY TypeCalls DEF CallsInv
<1>3. UNCHANGED <<event, slot, place>> /\ Rows' = Rows
  BY <1>1 DEF rowVars, Rows
<1>4. CASE r.ev = NULL
  <2>1. s \in CallType /\ s.at = "insert" /\ s.ev = r.ev /\ s.slot = r.slot /\ s.hall = r.hall
    BY <1>2 DEF CallType, Places
  <2>2. call' \in [Calls -> CallType] /\ Alone(c) /\ call'[c] = s
    BY <1>1, <1>4, <2>1, TypeCalls DEF Alone
  <2>3. Conflicts(r.hall, r.slot, NULL) = {}
    BY <1>1, <1>4
  <2>4. CallOK(c)'
    BY <1>1, <1>2, <1>4, <2>1, <2>2, <2>3, <1>3 DEF CallOK, Conflicts
  <2> QED
    BY <1>1, <2>2, <2>4, CallOnly
<1>5. CASE r.ev # NULL
  <2>1. /\ t \in CallType /\ t.at = "assign" /\ t.ev = r.ev /\ t.hall = r.hall
        /\ t.since = r.since
    BY <1>2 DEF CallType, Places
  <2>2. call' \in [Calls -> CallType] /\ Alone(c) /\ call'[c] = t
    BY <1>1, <1>5, <2>1, TypeCalls DEF Alone
  <2>3. r.ev \in Rows \ r.since => Conflicts(r.hall, slot[r.ev], r.ev) = {}
    BY <1>1, <1>2 DEF CallOK
  <2>4. CallOK(c)'
    BY <1>1, <1>2, <2>1, <2>2, <2>3, <1>3 DEF CallOK, Conflicts
  <2> QED
    BY <1>1, <2>2, <2>4, CallOnly
<1> QED
  BY <1>4, <1>5

-------------------------------------------------------------------------------
(* The steps that change halls *)

LEMMA AddHallStep ==
  ASSUME BookingInv, NEW c \in Calls, AddHall(c) PROVE BookingInv'
<1> USE DEF BookingInv
<1>1. PICK h \in Halls :
        /\ hall[h] = "none" /\ hall' = [hall EXCEPT ![h] = "row"]
        /\ call' = [call EXCEPT ![c].at = "insert", ![c].hall = h]
  BY DEF AddHall, BuildHall
<1>2. call[c].at = "addHall" /\ UNCHANGED <<event, slot, place, moved, meanwhile>>
  BY DEF AddHall, At
<1>3. /\ call' \in [Calls -> CallType] /\ Alone(c)
      /\ call'[c].at = "insert" /\ call'[c].hall = h
      /\ call'[c].ev = call[c].ev /\ call'[c].slot = call[c].slot
  BY <1>1, TypeCalls DEF CallType, Places, Alone
<1>4. Rows' = Rows /\ Rows \subseteq Events /\ Built' = Built \cup {h} /\ h \notin Built
  BY <1>1, <1>2 DEF Rows, Built, TypeOK
<1>5. TypeOK'
  BY <1>1, <1>2, <1>3, <1>4 DEF TypeOK, CallType, Places
<1>6. \A d \in Calls \ {c} : CallOK(d)'
  <2> SUFFICES ASSUME NEW d \in Calls \ {c} PROVE CallOK(d)'
    OBVIOUS
  <2>1. call'[d] = call[d]
    BY <1>3 DEF Alone
  <2> QED
    BY <2>1, <1>2, <1>4, CallCarried DEF Same
<1>7. CallOK(c)'
  <2>1. \A y \in Rows : place[y] # h
    BY <1>4, HallBookingAssumption DEF TypeOK
  <2>2. \A t : Conflicts(h, t, NULL)' = {}
    BY <2>1, <1>2, <1>4 DEF Conflicts
  <2>3. CallOK(c)
    BY DEF CallsInv
  <2> QED
    BY <1>2, <1>3, <2>2, <2>3 DEF CallOK, Conflicts
<1>8. ClashExplained'
  BY <1>2, <1>4 DEF ClashExplained, Clash
<1> QED
  BY <1>5, <1>6, <1>7, <1>8 DEF CallsInv

LEMMA HallStep ==
  ASSUME BookingInv, NEW h \in Halls, CreateHall(h) \/ RemoveHall(h) PROVE BookingInv'
<1> USE DEF BookingInv
<1>1. UNCHANGED <<event, slot, call, moved, meanwhile>>
  BY DEF CreateHall, RemoveHall
<1>2. /\ place' \in [Events -> Halls \cup {NULL}]
      /\ \A x \in Events : place'[x] \in {place[x], NULL}
      /\ hall' \in [Halls -> {"none", "row", "gone"}]
      /\ \A x \in Rows : place'[x] # NULL => place'[x] \in Built'
  <2>1. CASE CreateHall(h)
    BY <2>1 DEF CreateHall, BuildHall, TypeOK, Built
  <2>2. CASE RemoveHall(h)
    <3>1. /\ hall' = [hall EXCEPT ![h] = "gone"]
          /\ place' = [x \in Events |-> IF place[x] = h THEN NULL ELSE place[x]]
      BY <2>2 DEF RemoveHall
    <3>2. Built' = Built \ {h}
      BY <3>1 DEF Built, TypeOK
    <3> QED
      BY <3>1, <3>2 DEF TypeOK, Rows
  <2> QED
    BY <2>1, <2>2
<1>3. Rows' = Rows /\ Rows \subseteq Events
  BY <1>1 DEF Rows
<1>4. TypeOK'
  BY <1>1, <1>2, <1>3 DEF TypeOK
<1>5. CallsInv'
  <2> SUFFICES ASSUME NEW d \in Calls PROVE CallOK(d)'
    BY DEF CallsInv
  <2>1. \A y \in Rows' : y \in Rows /\ slot'[y] = slot[y] /\ place'[y] \in {place[y], NULL}
    BY <1>1, <1>2, <1>3
  <2> QED
    BY <2>1, <1>1, <1>3, CallCarried DEF Same
<1>6. ClashExplained'
  <2>1. \A x, y \in Rows : Clash(x, y)' => Clash(x, y)
    BY <1>1, <1>2, <1>3 DEF Clash
  <2> QED
    BY <2>1, <1>1, <1>3 DEF ClashExplained
<1> QED
  BY <1>4, <1>5, <1>6

-------------------------------------------------------------------------------
(* The steps that book *)

(* Event x is booked in hall place'[x] with slot'[x]; S has the conflicts  *)
(* that were there, or x, and meanwhile takes note of them.                *)
LEMMA BookingExplained ==
  ASSUME BookingInv, NEW x \in Events, NEW S,
         Rows' \subseteq Rows \cup {x}, slot'[x] \in Slots,
         \A y \in Rows' \ {x} : slot'[y] = slot[y] /\ place'[y] = place[y],
         place'[x] # NULL => x \in S \/ Conflicts(place'[x], slot'[x], x) \subseteq S,
         {x} \X S \subseteq meanwhile', Without(x) \subseteq meanwhile',
         moved \ {x} \subseteq moved'
  PROVE  ClashExplained'
<1> USE DEF BookingInv
<1>1. ASSUME NEW y \in Rows' \ {x}, Clash(x, y)' \/ Clash(y, x)'
      PROVE  \E p \in meanwhile' : {p[1], p[2]} \subseteq {x, y}
  <2>1. y \in Rows /\ slot[y] \in Slots
    BY DEF TypeOK
  <2>2. /\ place'[x] # NULL /\ place[y] = place'[x]
        /\ slot'[x].to # NULL /\ slot[y].to # NULL
        /\ slot'[x].from < slot[y].to /\ slot[y].from < slot'[x].to
    BY <1>1 DEF Clash
  <2>3. HoursMeet(slot[y], slot'[x])
    BY <2>1, <2>2, HoursInCommon
  <2>4. y \in Conflicts(place'[x], slot'[x], x)
    BY <2>1, <2>2, <2>3 DEF Conflicts
  <2>5. CASE x \in S
    <3>1. <<x, x>> \in meanwhile'
      BY <2>5
    <3> QED
      BY <3>1
  <2>6. CASE x \notin S
    <3>1. <<x, y>> \in meanwhile'
      BY <2>2, <2>4, <2>6
    <3> QED
      BY <3>1
  <2> QED
    BY <2>5, <2>6
<1>2. ASSUME NEW y \in Rows' \ {x}, NEW z \in Rows' \ {x}, Clash(y, z)'
      PROVE  \/ y \in moved' \/ z \in moved'
             \/ \E p \in meanwhile' : {p[1], p[2]} \subseteq {y, z}
  <2>1. y \in Rows /\ z \in Rows /\ Clash(y, z)
    BY <1>2 DEF Clash
  <2>2. CASE y \in moved \/ z \in moved
    BY <2>2
  <2>3. CASE \E p \in meanwhile : {p[1], p[2]} \subseteq {y, z}
    <3>1. PICK p \in meanwhile : {p[1], p[2]} \subseteq {y, z}
      BY <2>3
    <3>2. p \in Without(x)
      BY <3>1 DEF Without
    <3> QED
      BY <3>1, <3>2
  <2> QED
    BY <2>1, <2>2, <2>3 DEF ClashExplained
<1>3. SUFFICES ASSUME NEW y \in Rows', NEW z \in Rows', Clash(y, z)'
               PROVE  \/ y \in moved' \/ z \in moved'
                      \/ \E p \in meanwhile' : {p[1], p[2]} \subseteq {y, z}
  BY DEF ClashExplained
<1>4. y # z
  BY <1>3 DEF Clash
<1>5. CASE y = x
  <2>1. PICK p \in meanwhile' : {p[1], p[2]} \subseteq {x, z}
    BY <1>1, <1>3, <1>4, <1>5
  <2> QED
    BY <2>1, <1>5
<1>6. CASE z = x
  <2>1. PICK p \in meanwhile' : {p[1], p[2]} \subseteq {x, y}
    BY <1>1, <1>3, <1>4, <1>6
  <2> QED
    BY <2>1, <1>6
<1>7. CASE y # x /\ z # x
  BY <1>2, <1>3, <1>7
<1> QED
  BY <1>5, <1>6, <1>7

(* The calls after a booking of x, by c or by nobody's call.               *)
LEMMA CallsBooked ==
  ASSUME BookingInv, NEW x \in Events,
         \/ call' = Booked(x)
         \/ \E c \in Calls : call' = [Booked(x) EXCEPT ![c] = Idle],
         Rows' \subseteq Rows \cup {x},
         \A y \in Rows' \ {x} : slot'[y] = slot[y] /\ place'[y] = place[y]
  PROVE  call' \in [Calls -> CallType] /\ CallsInv'
<1>1. Booked(x) \in [Calls -> CallType]
  BY BookedEffect DEF BookingInv
<1>2. call' \in [Calls -> CallType]
  BY <1>1, IdleCall
<1>3. ASSUME NEW d \in Calls PROVE CallOK(d)'
  <2>1. Rows' \subseteq Events
    BY DEF Rows
  <2>2. CASE call'[d] = Booked(x)[d]
    <3>1. /\ Same(d) /\ call[d].since \subseteq call'[d].since
          /\ call[d].at \in {"insert", "assign"} \/ call[d].ev = x => x \in call'[d].since
      BY <2>2, BookedEffect DEF Same, BookingInv
    <3>2. \A y \in Rows' \ {x} :
            y \in Rows /\ slot'[y] = slot[y] /\ place'[y] \in {place[y], NULL}
      OBVIOUS
    <3>3. \A y \in Rows' \cap {x} :
            call[d].at \in {"insert", "assign"} \/ call[d].ev = y => y \in call'[d].since
      BY <3>1
    <3>4. \A y \in Rows' : y \in call[d].since => y \in call'[d].since
      BY <3>1
    <3> QED
      BY <2>1, <3>1, <3>2, <3>3, <3>4, CallCarried
  <2>3. CASE call'[d] = Idle
    BY <2>3, IdleCall DEF CallOK
  <2> QED
    BY <1>1, <2>2, <2>3
<1> QED
  BY <1>2, <1>3 DEF CallsInv

LEMMA InsertStep ==
  ASSUME BookingInv, NEW c \in Calls, Insert(c) PROVE BookingInv'
<1> USE DEF BookingInv
<1> DEFINE r == call[c]
<1>1. PICK x \in Events :
        /\ event[x] = "none"
        /\ event' = [event EXCEPT ![x] = "row"]
        /\ slot' = [slot EXCEPT ![x] = r.slot]
        /\ place' = [place EXCEPT ![x] = r.hall]
        /\ meanwhile' = meanwhile \cup ({x} \X r.since)
        /\ call' = [Booked(x) EXCEPT ![c] = Idle]
  BY DEF Insert
<1>2. /\ r.at = "insert" /\ r.hall \in Built \cup {NULL} /\ UNCHANGED <<hall, moved>>
  BY DEF Insert, At, HallThere
<1>3. CallOK(c) /\ r \in CallType
  BY TypeCalls DEF CallsInv
<1>4. r.slot \in Slots /\ r.since \subseteq Events
  BY <1>2, <1>3 DEF CallOK, CallType
<1>5. Rows' = Rows \cup {x} /\ x \notin Rows /\ Rows \subseteq Events /\ Built' = Built
  BY <1>1, <1>2 DEF Rows, Built, TypeOK
<1>6. /\ slot'[x] = r.slot /\ place'[x] = r.hall
      /\ \A y \in Rows' \ {x} : slot'[y] = slot[y] /\ place'[y] = place[y]
  BY <1>1, <1>5 DEF TypeOK
<1>7. call' \in [Calls -> CallType] /\ CallsInv'
  BY <1>1, <1>5, <1>6, CallsBooked
<1>8. TypeOK'
  <2>1. /\ event' \in [Events -> {"none", "row", "gone"}]
        /\ slot' \in [Events -> Slots \cup {NULL}]
        /\ place' \in [Events -> Halls \cup {NULL}]
    BY <1>1, <1>2, <1>4 DEF TypeOK, Built
  <2>2. \A y \in Rows' : slot'[y] \in Slots /\ (place'[y] # NULL => place'[y] \in Built')
    BY <1>2, <1>4, <1>5, <1>6 DEF TypeOK
  <2>3. meanwhile' \in SUBSET (Events \X Events)
    BY <1>1, <1>4 DEF TypeOK
  <2> QED
    BY <2>1, <2>2, <2>3, <1>2, <1>7 DEF TypeOK, CallType, Places
<1>9. ClashExplained'
  <2>1. r.hall # NULL => Conflicts(r.hall, r.slot, x) \subseteq r.since
    <3>1. Conflicts(r.hall, r.slot, x) \subseteq Conflicts(r.hall, r.slot, NULL)
      BY <1>5, HallBookingAssumption DEF Conflicts
    <3> QED
      BY <3>1, <1>2, <1>3 DEF CallOK
  <2>2. /\ {x} \X r.since \subseteq meanwhile' /\ Without(x) \subseteq meanwhile'
        /\ moved \ {x} \subseteq moved'
    BY <1>1, <1>2 DEF Without
  <2> QED
    BY <2>1, <2>2, <1>4, <1>5, <1>6, BookingExplained
<1> QED
  BY <1>7, <1>8, <1>9

LEMMA AssignStep ==
  ASSUME BookingInv, NEW c \in Calls, Assign(c) PROVE BookingInv'
<1> USE DEF BookingInv
<1> DEFINE r == call[c]
<1>1. PICK x \in Events : x = r.ev /\ x \in Rows
  BY DEF Assign, Rows
<1>2. /\ r.at = "assign" /\ r.hall \in Built \cup {NULL}
      /\ place' = [place EXCEPT ![x] = r.hall]
      /\ meanwhile' = Without(x) \cup ({x} \X r.since)
      /\ moved' = moved \ {x}
      /\ call' = [Booked(x) EXCEPT ![c] = Idle]
      /\ UNCHANGED <<hall, event, slot>>
  BY <1>1 DEF Assign, At, HallThere
<1>3. CallOK(c) /\ r \in CallType
  BY TypeCalls DEF CallsInv
<1>4. r.since \subseteq Events
  BY <1>3 DEF CallType
<1>5. Rows' = Rows /\ Rows \subseteq Events /\ Built' = Built
  BY <1>2 DEF Rows, Built
<1>6. /\ slot'[x] \in Slots /\ place'[x] = r.hall
      /\ \A y \in Rows' \ {x} : slot'[y] = slot[y] /\ place'[y] = place[y]
  BY <1>1, <1>2, <1>5 DEF TypeOK
<1>7. call' \in [Calls -> CallType] /\ CallsInv'
  BY <1>2, <1>5, <1>6, CallsBooked
<1>8. TypeOK'
  <2>1. place' \in [Events -> Halls \cup {NULL}]
    BY <1>2 DEF TypeOK, Built
  <2>2. \A y \in Rows' : place'[y] # NULL => place'[y] \in Built'
    BY <1>2, <1>5, <1>6 DEF TypeOK
  <2>3. meanwhile' \in SUBSET (Events \X Events)
    BY <1>2, <1>4 DEF TypeOK, Without
  <2> QED
    BY <2>1, <2>2, <2>3, <1>2, <1>5, <1>7 DEF TypeOK, CallType, Places
<1>9. ClashExplained'
  <2>1. x \in r.since \/ Conflicts(r.hall, slot'[x], x) \subseteq r.since
    BY <1>1, <1>2, <1>3 DEF CallOK
  <2> QED
    BY <2>1, <1>2, <1>5, <1>6, BookingExplained
<1> QED
  BY <1>7, <1>8, <1>9

LEMMA UpdateStep ==
  ASSUME BookingInv, NEW x \in Events, NEW h \in Halls \cup {NULL}, NEW s \in Slots,
         Update(x, h, s)
  PROVE  BookingInv'
<1> USE DEF BookingInv
<1>1. /\ x \in Rows /\ h \in Built \cup {place[x]}
      /\ slot' = [slot EXCEPT ![x] = s] /\ place' = [place EXCEPT ![x] = h]
      /\ moved' = moved \cup {x} /\ meanwhile' = Without(x) /\ call' = Booked(x)
      /\ UNCHANGED <<hall, event>>
  BY DEF Update
<1>2. Rows' = Rows /\ Rows \subseteq Events /\ Built' = Built
  BY <1>1 DEF Rows, Built
<1>3. /\ slot'[x] = s /\ place'[x] = h
      /\ \A y \in Rows' \ {x} : slot'[y] = slot[y] /\ place'[y] = place[y]
  BY <1>1, <1>2 DEF TypeOK
<1>4. call' \in [Calls -> CallType] /\ CallsInv'
  BY <1>1, <1>2, <1>3, CallsBooked
<1>5. TypeOK'
  <2>1. /\ slot' \in [Events -> Slots \cup {NULL}] /\ place' \in [Events -> Halls \cup {NULL}]
        /\ moved' \in SUBSET Events /\ meanwhile' \in SUBSET (Events \X Events)
    BY <1>1 DEF TypeOK, Without
  <2>2. \A y \in Rows' : slot'[y] \in Slots /\ (place'[y] # NULL => place'[y] \in Built')
    BY <1>1, <1>2, <1>3 DEF TypeOK
  <2> QED
    BY <2>1, <2>2, <1>1, <1>2, <1>4 DEF TypeOK, CallType, Places
<1>6. ClashExplained'
  <2>1. ASSUME NEW y \in Rows \ {x}, NEW z \in Rows \ {x}, Clash(y, z)'
        PROVE  \/ y \in moved' \/ z \in moved'
               \/ \E p \in meanwhile' : {p[1], p[2]} \subseteq {y, z}
    <3>1. Clash(y, z)
      BY <2>1, <1>2, <1>3 DEF Clash
    <3> QED
      BY <3>1, <1>1 DEF ClashExplained, Without
  <2> QED
    BY <2>1, <1>1, <1>2 DEF ClashExplained
<1> QED
  BY <1>4, <1>5, <1>6

LEMMA RemoveEventStep ==
  ASSUME BookingInv, NEW x \in Events, RemoveEvent(x) PROVE BookingInv'
<1> USE DEF BookingInv
<1>1. /\ x \in Rows /\ event' = [event EXCEPT ![x] = "gone"]
      /\ slot' = [slot EXCEPT ![x] = NULL] /\ place' = [place EXCEPT ![x] = NULL]
      /\ moved' = moved \ {x} /\ meanwhile' = Without(x) /\ hall' = hall
      /\ call' = [c \in Calls |-> [call[c] EXCEPT !.since = call[c].since \ {x}]]
  BY DEF RemoveEvent
<1>2. Rows' = Rows \ {x} /\ Rows \subseteq Events /\ Built' = Built
  BY <1>1 DEF Rows, Built, TypeOK
<1>3. \A y \in Rows' : y \in Rows /\ slot'[y] = slot[y] /\ place'[y] = place[y]
  BY <1>1, <1>2 DEF TypeOK
<1>4. ASSUME NEW d \in Calls
      PROVE  call'[d] \in CallType /\ Same(d) /\ call'[d].since = call[d].since \ {x}
  <2>1. call[d] \in CallType
    BY TypeCalls
  <2>2. call'[d] = [call[d] EXCEPT !.since = call[d].since \ {x}]
    BY <1>1
  <2> QED
    BY <2>1, <2>2 DEF CallType, Same
<1>5. call' \in [Calls -> CallType]
  BY <1>1, <1>4
<1>6. CallsInv'
  <2> SUFFICES ASSUME NEW d \in Calls PROVE CallOK(d)'
    BY DEF CallsInv
  <2>1. \A y \in Rows' : y \in call[d].since => y \in call'[d].since
    BY <1>2, <1>4
  <2> QED
    BY <2>1, <1>2, <1>3, <1>4, CallCarried
<1>7. TypeOK'
  <2>1. /\ event' \in [Events -> {"none", "row", "gone"}]
        /\ slot' \in [Events -> Slots \cup {NULL}] /\ place' \in [Events -> Halls \cup {NULL}]
        /\ moved' \in SUBSET Events /\ meanwhile' \in SUBSET (Events \X Events)
    BY <1>1 DEF TypeOK, Without
  <2> QED
    BY <2>1, <1>1, <1>2, <1>3, <1>5 DEF TypeOK, CallType, Places
<1>8. ClashExplained'
  <2> SUFFICES ASSUME NEW y \in Rows', NEW z \in Rows', Clash(y, z)'
               PROVE  \/ y \in moved' \/ z \in moved'
                      \/ \E p \in meanwhile' : {p[1], p[2]} \subseteq {y, z}
    BY DEF ClashExplained
  <2>1. Clash(y, z) /\ y \in Rows \ {x} /\ z \in Rows \ {x}
    BY <1>2, <1>3 DEF Clash
  <2> QED
    BY <2>1, <1>1 DEF ClashExplained, Without
<1> QED
  BY <1>6, <1>7, <1>8

-------------------------------------------------------------------------------
(* The theorems *)

LEMMA NextInv == BookingInv /\ [Next]_vars => BookingInv'
<1> SUFFICES ASSUME BookingInv, [Next]_vars PROVE BookingInv'
  OBVIOUS
<1>1. ASSUME NEW c \in Calls, NEW h \in Halls \cup {NULL}, NEW s \in Slots, NEW new \in BOOLEAN,
             StartCreate(c, h, s, new)
      PROVE  BookingInv'
  BY <1>1, StartCreateStep
<1>2. ASSUME NEW c \in Calls, NEW x \in Events, NEW h \in Halls, StartAssign(c, x, h)
      PROVE  BookingInv'
  BY <1>2, StartAssignStep
<1>3. ASSUME NEW c \in Calls,
             Look(c) \/ Refuse(c) \/ AddHall(c) \/ Insert(c) \/ Assign(c) \/ Fail(c)
      PROVE  BookingInv'
  BY <1>3, LookStep, RefuseStep, AddHallStep, InsertStep, AssignStep
<1>4. ASSUME NEW x \in Events,
             \/ \E h \in Halls \cup {NULL}, s \in Slots : Update(x, h, s)
             \/ RemoveEvent(x)
      PROVE  BookingInv'
  BY <1>4, UpdateStep, RemoveEventStep
<1>5. ASSUME NEW h \in Halls, CreateHall(h) \/ RemoveHall(h) PROVE BookingInv'
  BY <1>5, HallStep
<1>6. CASE UNCHANGED vars
  <2>1. UNCHANGED <<hall, event, slot, place, call, moved, meanwhile>>
    BY <1>6 DEF vars, rowVars
  <2>2. Rows' = Rows /\ Built' = Built
    BY <2>1 DEF Rows, Built
  <2> QED
    BY <2>1, <2>2 DEF BookingInv, TypeOK, CallsInv, CallOK, Conflicts, ClashExplained, Clash
<1> QED
  BY <1>1, <1>2, <1>3, <1>4, <1>5, <1>6 DEF Next

(* What calls have looked at explains what they write, at all times.       *)
LEMMA BookingInvariant == Spec => []BookingInv
BY InitInv, NextInv, PTL DEF Spec

(* An event that is there has a slot, and a hall, if any, that is there    *)
(* (events.hallId in schema.prisma), through every interleaving.           *)
THEOREM TypeCorrect == Spec => []TypeOK
<1>1. BookingInv => TypeOK
  BY DEF BookingInv
<1> QED
  BY <1>1, BookingInvariant, PTL

(* create and assignHall (events.service.ts) do not check and book at once; *)
(* that and the unchecked update are the only ways to a double booking.    *)
THEOREM ClashesAreExplained == Spec => []ClashExplained
<1>1. BookingInv => ClashExplained
  BY DEF BookingInv
<1> QED
  BY <1>1, BookingInvariant, PTL

-------------------------------------------------------------------------------
(* Terms *)


Fields == [startsAt : Bounds \cup {Keep}, endsAt : Bounds \cup {Keep},
           price : Prices \cup {Keep}, currency : Currencies \cup {Keep},
           active : BOOLEAN \cup {Keep}]

LEMMA RequestFields == Requests \subseteq Fields /\ Nothing \in Requests
<1>1. ASSUME NEW r \in Requests PROVE r \in Fields
  <2>1. CASE \E s, e \in Bounds \cup {Keep} : r = Terms(s, e, Keep, Keep, Keep)
    BY <2>1 DEF Fields, Terms
  <2>2. CASE \E p \in Prices \cup {Keep}, c \in Currencies \cup {Keep} :
               r = Terms(Keep, Keep, p, c, Keep)
    BY <2>2 DEF Fields, Terms
  <2>3. CASE \E b \in BOOLEAN : r = Terms(Keep, Keep, Keep, Keep, b)
    BY <2>3 DEF Fields, Terms
  <2>4. \/ r \in {Terms(s, e, Keep, Keep, Keep) : s, e \in Bounds \cup {Keep}}
        \/ r \in {Terms(Keep, Keep, p, c, Keep) :
                   p \in Prices \cup {Keep}, c \in Currencies \cup {Keep}}
        \/ r \in {Terms(Keep, Keep, Keep, Keep, b) : b \in BOOLEAN}
    BY SMT DEF Requests
  <2> QED
    BY <2>1, <2>2, <2>3, <2>4, SMT
<1>2. Nothing \in {Terms(s, e, Keep, Keep, Keep) : s, e \in Bounds \cup {Keep}}
  <2>1. Keep \in Bounds \cup {Keep}
    OBVIOUS
  <2> QED
    BY <2>1, SMT DEF Nothing
<1> QED
  BY <1>1, <1>2, SMT DEF Requests

(* A request laid over a row makes a row. *)
LEMMA MergedType ==
  ASSUME NEW row \in [startsAt : Bounds, endsAt : Bounds, price : Prices,
                      currency : Currencies, active : BOOLEAN],
         NEW given \in Requests
  PROVE  Merged(row, given) \in
           [startsAt : Bounds, endsAt : Bounds, price : Prices,
            currency : Currencies, active : BOOLEAN]
<1>1. given \in Fields
  BY RequestFields
<1> QED
  BY <1>1 DEF Merged, Given, Terms, Fields

-------------------------------------------------------------------------------
LEMMA InitType == TermsInit => TermsTypeOK
<1> SUFFICES ASSUME TermsInit PROVE TermsTypeOK
  OBVIOUS
<1>1. Nothing \in Requests
  BY RequestFields
<1>2. 0 \in Times
  BY SaleTermsAssumption DEF Times
<1> QED
  BY <1>1, <1>2
     DEF TermsInit, TermsTypeOK, Terms, Offers, Unread, Asked, Buying, Bounds

LEMMA NextType == TermsTypeOK /\ [TermsNext]_termsVars => TermsTypeOK'
<1> SUFFICES ASSUME TermsTypeOK, [TermsNext]_termsVars PROVE TermsTypeOK'
  OBVIOUS
<1> USE DEF TermsTypeOK
<1>1. ASSUME NEW u \in Updates, CheckUpdate(u) PROVE TermsTypeOK'
  <2>1. PICK given \in Requests : update' = [update EXCEPT ![u] =
          IF Validates(tier, given) THEN Asked("checked", given, Window(tier))
                                    ELSE Unread("refused")]
    BY <1>1 DEF CheckUpdate
  <2> QED
    BY <1>1, <2>1, RequestFields
       DEF CheckUpdate, Asked, Unread, Window, Bounds
<1>2. ASSUME NEW u \in Updates, WriteUpdate(u) PROVE TermsTypeOK'
  <2>1. tier' \in [startsAt : Bounds, endsAt : Bounds, price : Prices,
                   currency : Currencies, active : BOOLEAN]
    BY <1>2, MergedType DEF WriteUpdate, WriteTier
  <2>2. Offer(tier') \in Offers
    BY <2>1 DEF Offer, Offers
  <2> QED
    BY <1>2, <2>1, <2>2 DEF WriteUpdate, WriteTier, Asked
<1>3. CASE Deactivate
  <2>1. Offer(tier') \in Offers
    BY <1>3 DEF Deactivate, WriteTier, Offer, Offers
  <2> QED
    BY <1>3, <2>1 DEF Deactivate, WriteTier
<1>4. ASSUME NEW b \in Buyers, ReadTier(b) PROVE TermsTypeOK'
  <2>1. Offer(tier) \in Offers
    BY DEF Offer, Offers
  <2>2. CASE OnSale(tier)
    BY <1>4, <2>1, <2>2 DEF ReadTier, Buying
  <2>3. CASE ~OnSale(tier)
    BY <1>4, <2>3 DEF ReadTier, Buying
  <2> QED
    BY <2>2, <2>3
<1>5. ASSUME NEW b \in Buyers, Reserve(b) PROVE TermsTypeOK'
  BY <1>5 DEF Reserve, Buying, Charged
<1>6. CASE Tick
  BY <1>6, SaleTermsAssumption DEF Tick, Times
<1>7. CASE UNCHANGED termsVars
  BY <1>7 DEF termsVars
<1> QED
  BY <1>1, <1>2, <1>3, <1>4, <1>5, <1>6, <1>7 DEF TermsNext

(* Every variable of SaleTerms keeps its type. *)
THEOREM TermsTypeCorrect == TermsSpec => []TermsTypeOK
BY InitType, NextType, PTL DEF TermsSpec

-------------------------------------------------------------------------------
(* What a checkout has read is among the offers since. *)
ReadIsOffered ==
  \A b \in Buyers :
    checkout[b].at \in {"read", "ordered"} => checkout[b].offer \in since[b]

LEMMA OfferedStep ==
  TermsTypeOK /\ ReadIsOffered /\ [TermsNext]_termsVars => ReadIsOffered'
<1> SUFFICES ASSUME TermsTypeOK, ReadIsOffered, [TermsNext]_termsVars,
                    NEW b \in Buyers, checkout'[b].at \in {"read", "ordered"}
             PROVE  checkout'[b].offer \in since'[b]
  BY DEF ReadIsOffered
<1> USE DEF ReadIsOffered, TermsTypeOK
<1>1. ASSUME NEW row, WriteTier(row) PROVE checkout'[b].offer \in since'[b]
  BY <1>1 DEF WriteTier
<1>2. ASSUME NEW c \in Buyers, ReadTier(c) PROVE checkout'[b].offer \in since'[b]
  <2>1. CASE OnSale(tier)
    BY <1>2, <2>1 DEF ReadTier, Buying
  <2>2. CASE ~OnSale(tier)
    BY <1>2, <2>2 DEF ReadTier, Buying
  <2> QED
    BY <2>1, <2>2
<1>3. ASSUME NEW c \in Buyers, Reserve(c) PROVE checkout'[b].offer \in since'[b]
  BY <1>3 DEF Reserve, Buying, Charged
<1> QED
  BY <1>1, <1>2, <1>3
     DEF TermsNext, termsVars, CheckUpdate, WriteUpdate, Deactivate, Tick

(* payments.service.ts:195-241: whatever the organizer writes between the  *)
(* look at a ticket type and the order, the order is charged an amount and *)
(* a currency that belonged together while its checkout ran.               *)
THEOREM NeverATornOffer == TermsSpec => []ChargedAsOffered
<1>1. TermsInit => ReadIsOffered
  BY DEF TermsInit, ReadIsOffered, Buying
<1>2. ReadIsOffered => ChargedAsOffered
  BY DEF ReadIsOffered, ChargedAsOffered
<1> QED
  BY <1>1, <1>2, OfferedStep, TermsTypeCorrect, PTL DEF TermsSpec

-------------------------------------------------------------------------------
(* An update that is to write passed the check with the window it read; a  *)
(* bound that is another one since was given by an update that has written.*)
Wrote(v) == update[v].at = "written"

Merges(read, given) ==
  [startsAt |-> Given(given.startsAt, read.startsAt),
   endsAt |-> Given(given.endsAt, read.endsAt)]

ReadBefore ==
  \A u \in Updates : update[u].at = "checked" =>
    /\ Ordered(Merges(update[u].read, update[u].given))
    /\ update[u].read.startsAt # tier.startsAt =>
         \E v \in Updates : Wrote(v) /\ update[v].given.startsAt # Keep
    /\ update[u].read.endsAt # tier.endsAt =>
         \E v \in Updates : Wrote(v) /\ update[v].given.endsAt # Keep

CrossedInv == ReadBefore /\ CrossedUpdates

LEMMA WriteCrosses ==
  ASSUME TermsTypeOK, CrossedInv, NEW u \in Updates, WriteUpdate(u)
  PROVE  CrossedInv'
<1> USE DEF TermsTypeOK
<1> DEFINE g == update[u].given
<1>0. /\ update' = [update EXCEPT ![u] = Asked("written", g, update[u].read)]
      /\ tier' = Merged(tier, g)
      /\ update[u].at = "checked"
  BY DEF WriteUpdate, WriteTier
<1>1. /\ tier'.startsAt = Given(g.startsAt, tier.startsAt)
      /\ tier'.endsAt = Given(g.endsAt, tier.endsAt)
  BY <1>0 DEF Merged, Terms
<1>2. /\ update'[u].at = "written" /\ update'[u].given = g
      /\ update'[u].read = update[u].read
      /\ \A v \in Updates \ {u} : update'[v] = update[v]
  BY <1>0 DEF Asked
<1>3. \A v \in Updates : Wrote(v) => v # u /\ update'[v] = update[v]
  BY <1>0, <1>2 DEF Wrote
<1>4. ReadBefore'
  <2> SUFFICES ASSUME NEW w \in Updates, update'[w].at = "checked"
      PROVE /\ Ordered(Merges(update'[w].read, update'[w].given))
            /\ update'[w].read.startsAt # tier'.startsAt =>
                 \E v \in Updates : update'[v].at = "written"
                                    /\ update'[v].given.startsAt # Keep
            /\ update'[w].read.endsAt # tier'.endsAt =>
                 \E v \in Updates : update'[v].at = "written"
                                    /\ update'[v].given.endsAt # Keep
    BY DEF ReadBefore, Wrote, Ordered, Merges, Given
  <2>1. w # u /\ update'[w] = update[w]
    BY <1>2
  <2>2. CASE g.startsAt = Keep /\ g.endsAt = Keep
    BY <2>1, <2>2, <1>1, <1>3 DEF CrossedInv, ReadBefore, Wrote, Given
  <2>3. CASE g.startsAt # Keep /\ g.endsAt = Keep
    BY <2>1, <2>3, <1>1, <1>2, <1>3 DEF CrossedInv, ReadBefore, Wrote, Given
  <2>4. CASE g.startsAt = Keep /\ g.endsAt # Keep
    BY <2>1, <2>4, <1>1, <1>2, <1>3 DEF CrossedInv, ReadBefore, Wrote, Given
  <2>5. CASE g.startsAt # Keep /\ g.endsAt # Keep
    BY <2>1, <2>5, <1>1, <1>2, <1>3 DEF CrossedInv, ReadBefore, Wrote, Given
  <2> QED
    BY <2>2, <2>3, <2>4, <2>5
<1>5. CrossedUpdates'
  <2> SUFFICES ASSUME ~Ordered(tier')
      PROVE \E x, y \in Updates :
              /\ x # y
              /\ update'[x].at = "written" /\ update'[y].at = "written"
              /\ update'[x].given.startsAt # Keep
              /\ update'[y].given.endsAt # Keep
              /\ \/ update'[x].read.endsAt # tier'.endsAt
                 \/ update'[y].read.startsAt # tier'.startsAt
    BY DEF CrossedUpdates, Ordered
  <2>1. Ordered(Merges(update[u].read, g))
    BY <1>0 DEF CrossedInv, ReadBefore
  <2>2. CASE g.startsAt = Keep /\ g.endsAt = Keep
    <3>1. tier'.startsAt = tier.startsAt /\ tier'.endsAt = tier.endsAt
      BY <2>2, <1>1 DEF Given
    <3>2. ~Ordered(tier)
      BY <3>1 DEF Ordered
    <3> QED
      BY <3>1, <3>2, <1>3 DEF CrossedInv, CrossedUpdates, Wrote
  <2>3. CASE g.startsAt # Keep /\ g.endsAt = Keep
    <3>1. tier'.startsAt = g.startsAt /\ tier'.endsAt = tier.endsAt
      BY <2>3, <1>1 DEF Given
    <3>2. update[u].read.endsAt # tier.endsAt
      BY <2>1, <2>3, <3>1 DEF Ordered, Merges, Given
    <3>3. PICK v \in Updates : Wrote(v) /\ update[v].given.endsAt # Keep
      BY <3>2, <1>0 DEF CrossedInv, ReadBefore
    <3> QED
      BY <3>1, <3>2, <3>3, <1>2, <1>3, <2>3 DEF Wrote
  <2>4. CASE g.startsAt = Keep /\ g.endsAt # Keep
    <3>1. tier'.startsAt = tier.startsAt /\ tier'.endsAt = g.endsAt
      BY <2>4, <1>1 DEF Given
    <3>2. update[u].read.startsAt # tier.startsAt
      BY <2>1, <2>4, <3>1 DEF Ordered, Merges, Given
    <3>3. PICK v \in Updates : Wrote(v) /\ update[v].given.startsAt # Keep
      BY <3>2, <1>0 DEF CrossedInv, ReadBefore
    <3> QED
      BY <3>1, <3>2, <3>3, <1>2, <1>3, <2>4 DEF Wrote
  <2>5. CASE g.startsAt # Keep /\ g.endsAt # Keep
    BY <2>1, <2>5, <1>1 DEF Ordered, Merges, Given
  <2> QED
    BY <2>2, <2>3, <2>4, <2>5
<1> QED
  BY <1>4, <1>5 DEF CrossedInv

LEMMA CheckCrosses ==
  ASSUME TermsTypeOK, CrossedInv, NEW u \in Updates, CheckUpdate(u)
  PROVE  CrossedInv'
<1> USE DEF TermsTypeOK
<1>1. PICK given \in Requests : update' = [update EXCEPT ![u] =
        IF Validates(tier, given) THEN Asked("checked", given, Window(tier))
                                  ELSE Unread("refused")]
  BY DEF CheckUpdate
<1>2. tier' = tier /\ update[u].at = "idle"
  BY DEF CheckUpdate
<1>3. \A v \in Updates : v # u => update'[v] = update[v]
  BY <1>1
<1>4. \A v \in Updates : Wrote(v) => v # u /\ update'[v] = update[v]
  BY <1>2, <1>3 DEF Wrote
<1>5. update'[u].at = "checked" =>
        /\ update'[u].read = Window(tier) /\ update'[u].given = given
        /\ Validates(tier, given)
  BY <1>1 DEF Asked, Unread
<1>6. Validates(tier, given) => Ordered(Merges(Window(tier), given))
  BY DEF Validates, Merges, Merged, Terms, Window, Ordered
<1>7. ReadBefore'
  <2> SUFFICES ASSUME NEW w \in Updates, update'[w].at = "checked"
      PROVE /\ Ordered(Merges(update'[w].read, update'[w].given))
            /\ update'[w].read.startsAt # tier'.startsAt =>
                 \E v \in Updates : update'[v].at = "written"
                                    /\ update'[v].given.startsAt # Keep
            /\ update'[w].read.endsAt # tier'.endsAt =>
                 \E v \in Updates : update'[v].at = "written"
                                    /\ update'[v].given.endsAt # Keep
    BY DEF ReadBefore, Wrote, Ordered, Merges, Given
  <2>1. CASE w = u
    BY <2>1, <1>2, <1>5, <1>6 DEF Window
  <2>2. CASE w # u
    BY <2>2, <1>2, <1>3, <1>4 DEF CrossedInv, ReadBefore, Wrote
  <2> QED
    BY <2>1, <2>2
<1>8. CrossedUpdates'
  BY <1>2, <1>4 DEF CrossedInv, CrossedUpdates, Wrote
<1> QED
  BY <1>7, <1>8 DEF CrossedInv

LEMMA CrossedStep ==
  TermsTypeOK /\ CrossedInv /\ [TermsNext]_termsVars => CrossedInv'
<1> SUFFICES ASSUME TermsTypeOK, CrossedInv, [TermsNext]_termsVars PROVE CrossedInv'
  OBVIOUS
<1>1. ASSUME update' = update, tier'.startsAt = tier.startsAt,
             tier'.endsAt = tier.endsAt
      PROVE  CrossedInv'
  BY <1>1
     DEF CrossedInv, CrossedUpdates, ReadBefore, Wrote, Ordered, Merges, Given
<1>2. Deactivate =>
        update' = update /\ tier'.startsAt = tier.startsAt
        /\ tier'.endsAt = tier.endsAt
  BY DEF Deactivate, WriteTier, TermsTypeOK
<1>3. (\E b \in Buyers : ReadTier(b) \/ Reserve(b)) \/ Tick \/ UNCHANGED termsVars
        => update' = update /\ tier' = tier
  BY DEF ReadTier, Reserve, Tick, termsVars
<1> QED
  BY <1>1, <1>2, <1>3, WriteCrosses, CheckCrosses DEF TermsNext

(* events.service.ts:411-424: however many updates of a ticket type are in *)
(* flight, its window gets out of order only where two of them cross, each *)
(* giving one bound, one of them validated against a window since replaced.*)
THEOREM OutOfOrderIsCrossed == TermsSpec => []CrossedUpdates
<1>1. TermsInit => CrossedInv
  <2> SUFFICES ASSUME TermsInit PROVE CrossedInv
    OBVIOUS
  <2>1. \A u \in Updates : update[u].at = "idle"
    BY DEF TermsInit, Unread, Asked
  <2>2. Ordered(tier)
    BY DEF TermsInit
  <2> QED
    BY <2>1, <2>2 DEF CrossedInv, ReadBefore, CrossedUpdates
<1>2. CrossedInv => CrossedUpdates
  BY DEF CrossedInv
<1> QED
  BY <1>1, <1>2, CrossedStep, TermsTypeCorrect, PTL DEF TermsSpec
===============================================================================
