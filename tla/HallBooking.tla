------------------------------ MODULE HallBooking ------------------------------
(***************************************************************************)
(* Events and the halls they take place in: EventsService's create,        *)
(* update, assignHall and remove, and HallsService's create and remove.    *)
(* create and assignHall look for a conflicting event and book in a later  *)
(* statement; update books without looking.                                *)
(*                                                                         *)
(* The requests are the owner's.  An event's date and its hours are        *)
(* columns of their own; the hours are strings in the database's order.    *)
(***************************************************************************)
EXTENDS Integers, FiniteSets

CONSTANTS
  Calls, Events, Halls,
  Slots,   \* the dates and hours events are given; hours compare as numbers
  NULL

ASSUME HallBookingAssumption ==
  /\ \A s \in Slots : /\ DOMAIN s = {"day", "from", "to"}
                      /\ s.from \in Nat
                      /\ s.to = NULL \/ s.to \in Nat
  /\ NULL \notin Nat \cup Slots \cup Halls \cup Events

VARIABLES
  hall,      \* halls: a row never inserted, there, or deleted
  event,     \* events: likewise
  slot,      \* date, startsAt, endsAt of an event
  place,     \* hallId of an event
  call,      \* the creates and assignments in progress
  moved,     \* events whose hall or slot update wrote last      (history)
  meanwhile  \* <<x, y>>: y was booked while x was being booked  (history)

rowVars == <<hall, event, slot, place>>
vars == <<rowVars, call, moved, meanwhile>>

(* A call: where it is, the event (once there is one), its slot, its hall, *)
(* whether the request brings a new hall, and the events booked since it   *)
(* looked.                                                                 *)
Idle == [at |-> "idle", ev |-> NULL, slot |-> NULL, hall |-> NULL,
         new |-> FALSE, since |-> {}]

At(c, where) == call[c].at = where
Begin(c, r) == At(c, "idle") /\ call' = [call EXCEPT ![c] = r]
End(c) == call' = [call EXCEPT ![c] = Idle]

Rows == {x \in Events : event[x] = "row"}
Built == {h \in Halls : hall[h] = "row"}

Init ==
  /\ hall = [h \in Halls |-> "none"]
  /\ event = [x \in Events |-> "none"]
  /\ slot = [x \in Events |-> NULL]
  /\ place = [x \in Events |-> NULL]
  /\ call = [c \in Calls |-> Idle]
  /\ moved = {}
  /\ meanwhile = {}

-------------------------------------------------------------------------------
(* A bug the runs look for: an event is compared by its start alone. *)
HoursMeetAtStart(s, t) == s.from < t.to /\ s.from >= t.from

(* The overlap both conflict queries ask for: SQL drops an event without   *)
(* an end, and the date is not compared.                                   *)
HoursMeet(s, t) == s.from < t.to /\ s.to # NULL /\ s.to > t.from

(* The conflict query for slot t in hall h, without event x.  Without an   *)
(* end it is not made.                                                     *)
Conflicts(h, t, x) ==
  {y \in Rows \ {x} : t.to # NULL /\ place[y] = h /\ HoursMeet(slot[y], t)}

-------------------------------------------------------------------------------
(* EventsService.create: the hall, its conflicts, a new hall, the event *)

StartCreate(c, h, s, new) ==
  /\ h # NULL => h \in Built
  /\ Begin(c, [Idle EXCEPT !.at = IF h # NULL THEN "look" ELSE
                                   IF new THEN "addHall" ELSE "insert",
                           !.slot = s, !.hall = h,
                           !.new = new /\ h # NULL])
  /\ UNCHANGED <<rowVars, moved, meanwhile>>

(* Also the look of assignHall.  A request for an existing and for a new   *)
(* hall is refused after it.                                               *)
Look(c) ==
  LET r == call[c] IN
  /\ At(c, "look")
  /\ Conflicts(r.hall, r.slot, r.ev) = {}
  /\ ~r.new
  /\ call' = [call EXCEPT ![c] =
       IF r.ev = NULL THEN [r EXCEPT !.at = "insert"]
                      ELSE [r EXCEPT !.at = "assign", !.slot = NULL]]
  /\ UNCHANGED <<rowVars, moved, meanwhile>>

Refuse(c) ==
  LET r == call[c] IN
  /\ At(c, "look")
  /\ Conflicts(r.hall, r.slot, r.ev) # {} \/ r.new
  /\ End(c)
  /\ UNCHANGED <<rowVars, moved, meanwhile>>

(* hall.create, of this service or of HallsService. *)
BuildHall(h) == hall[h] = "none" /\ hall' = [hall EXCEPT ![h] = "row"]

AddHall(c) ==
  /\ At(c, "addHall")
  /\ \E h \in Halls :
       /\ BuildHall(h)
       /\ call' = [call EXCEPT ![c].at = "insert", ![c].hall = h]
  /\ UNCHANGED <<event, slot, place, moved, meanwhile>>

(* Event x is booked: the calls that have looked do not know of it, nor do *)
(* those that have read x.                                                 *)
Booked(x) ==
  [c \in Calls |->
     IF call[c].at \in {"insert", "assign"} \/ call[c].ev = x
       THEN [call[c] EXCEPT !.since = @ \cup {x}] ELSE call[c]]

Without(x) == {p \in meanwhile : x \notin {p[1], p[2]}}

(* A bug: hallId references nothing. *)
HallIgnored(h) == h \in Halls \cup {NULL}

(* events.hallId references halls. *)
HallThere(h) == h \in Built \cup {NULL}

Insert(c) ==
  LET r == call[c] IN
  /\ At(c, "insert")
  /\ HallThere(r.hall)
  /\ \E x \in Events :
       /\ event[x] = "none"
       /\ event' = [event EXCEPT ![x] = "row"]
       /\ slot' = [slot EXCEPT ![x] = r.slot]
       /\ place' = [place EXCEPT ![x] = r.hall]
       /\ meanwhile' = meanwhile \cup ({x} \X r.since)
       /\ call' = [Booked(x) EXCEPT ![c] = Idle]
  /\ UNCHANGED <<hall, moved>>

-------------------------------------------------------------------------------
(* EventsService.assignHall *)

StartAssign(c, x, h) ==
  /\ x \in Rows
  /\ h \in Built
  /\ Begin(c, [Idle EXCEPT !.at = "look", !.ev = x, !.slot = slot[x],
                           !.hall = h])
  /\ UNCHANGED <<rowVars, moved, meanwhile>>

Assign(c) ==
  LET r == call[c] IN
  /\ At(c, "assign")
  /\ r.ev \in Rows
  /\ HallThere(r.hall)
  /\ place' = [place EXCEPT ![r.ev] = r.hall]
  /\ meanwhile' = Without(r.ev) \cup ({r.ev} \X r.since)
  /\ moved' = moved \ {r.ev}
  /\ call' = [Booked(r.ev) EXCEPT ![c] = Idle]
  /\ UNCHANGED <<hall, event, slot>>

(* The event or the hall is gone, or any other exception or crash. *)
Fail(c) ==
  /\ ~At(c, "idle")
  /\ End(c)
  /\ UNCHANGED <<rowVars, moved, meanwhile>>

-------------------------------------------------------------------------------
(* EventsService.update: any fields, and a hall that exists if one is      *)
(* given.  An update that leaves hall and slot as they are changes nothing *)
(* here.                                                                   *)
Update(x, h, s) ==
  /\ x \in Rows
  /\ h \in Built \cup {place[x]}
  /\ h # place[x] \/ s # slot[x]
  /\ slot' = [slot EXCEPT ![x] = s]
  /\ place' = [place EXCEPT ![x] = h]
  /\ moved' = moved \cup {x}
  /\ meanwhile' = Without(x)
  /\ call' = Booked(x)
  /\ UNCHANGED <<hall, event>>

RemoveEvent(x) ==
  /\ x \in Rows
  /\ event' = [event EXCEPT ![x] = "gone"]
  /\ slot' = [slot EXCEPT ![x] = NULL]
  /\ place' = [place EXCEPT ![x] = NULL]
  /\ moved' = moved \ {x}
  /\ meanwhile' = Without(x)
  /\ call' = [c \in Calls |-> [call[c] EXCEPT !.since = @ \ {x}]]
  /\ UNCHANGED hall

-------------------------------------------------------------------------------
(* HallsService *)

CreateHall(h) == BuildHall(h) /\ UNCHANGED <<event, slot, place, call, moved, meanwhile>>

(* Deleting a hall sets hallId to null. *)
RemoveHall(h) ==
  /\ h \in Built
  /\ hall' = [hall EXCEPT ![h] = "gone"]
  /\ place' = [x \in Events |-> IF place[x] = h THEN NULL ELSE place[x]]
  /\ UNCHANGED <<event, slot, call, moved, meanwhile>>

Next ==
  \/ \E c \in Calls :
       \/ \E h \in Halls \cup {NULL}, s \in Slots, new \in BOOLEAN :
            StartCreate(c, h, s, new)
       \/ \E x \in Events, h \in Halls : StartAssign(c, x, h)
       \/ Look(c) \/ Refuse(c) \/ AddHall(c) \/ Insert(c) \/ Assign(c) \/ Fail(c)
  \/ \E x \in Events :
       \/ \E h \in Halls \cup {NULL}, s \in Slots : Update(x, h, s)
       \/ RemoveEvent(x)
  \/ \E h \in Halls : CreateHall(h) \/ RemoveHall(h)

Spec == Init /\ [][Next]_vars

-------------------------------------------------------------------------------
(* Properties *)

(* Types, and the reference: an event's hall is there. *)
TypeOK ==
  /\ hall \in [Halls -> {"none", "row", "gone"}]
  /\ event \in [Events -> {"none", "row", "gone"}]
  /\ slot \in [Events -> Slots \cup {NULL}]
  /\ \A x \in Rows : slot[x] \in Slots
  /\ place \in [Events -> Halls \cup {NULL}]
  /\ \A x \in Rows : place[x] # NULL => place[x] \in Built
  /\ call \in [Calls ->
       [at : {"idle", "look", "addHall", "insert", "assign"},
        ev : Events \cup {NULL}, slot : Slots \cup {NULL},
        hall : Halls \cup {NULL}, new : BOOLEAN, since : SUBSET Events]]
  /\ moved \in SUBSET Events
  /\ meanwhile \in SUBSET (Events \X Events)

(* Both take place in one hall on one day at common hours. *)
Clash(x, y) ==
  /\ x # y
  /\ place[x] # NULL /\ place[x] = place[y]
  /\ slot[x].day = slot[y].day
  /\ slot[x].to # NULL /\ slot[y].to # NULL
  /\ slot[x].from < slot[y].to /\ slot[y].from < slot[x].to

(* README.md:139-140: the backend enforces its double-booking checks.  Two *)
(* events clash only when update wrote one of them last, or when the last  *)
(* booking of one wrote what it had checked before the other, or itself,   *)
(* was booked anew.                                                        *)
ClashExplained ==
  \A x, y \in Rows : Clash(x, y) =>
    \/ x \in moved \/ y \in moved
    \/ \E p \in meanwhile : {p[1], p[2]} \subseteq {x, y}

(* events.service.ts:39-40: the check is whether "another event already    *)
(* uses this hall during the same time".  A request is refused as a double *)
(* booking only if another event is in the hall on its day at its hours.   *)
RefusedForCause ==
  [][\A c \in Calls :
       LET r == call[c] IN
       Refuse(c) /\ ~r.new =>
         \E y \in Conflicts(r.hall, r.slot, r.ev) : slot[y].day = r.slot.day]_vars
===============================================================================
