---------------------------- MODULE TicketDelivery ----------------------------
(***************************************************************************)
(* emailPaidOrderPass for one PAID order, called concurrently by the       *)
(* status endpoint, the webhook and the background sweep (Checkout's       *)
(* "email" step), with Resend as an external service.                      *)
(*                                                                         *)
(* Every call reads the order and its recipients once and then walks over  *)
(* that snapshot, claiming a recipient for five minutes before it sends.   *)
(* The rows come in no particular order.  Meanwhile the organizer deletes  *)
(* attendees and changes their addresses.                                  *)
(***************************************************************************)
EXTENDS Integers, FiniteSets

CONSTANTS Callers, Recipients, NULL,
          MaxFaults,    \* bound: crashes, failed sends, lost answers
          MaxEdits      \* bound: attendees the organizer edits

ASSUME DeliveryAssumption ==
  /\ IsFiniteSet(Recipients)
  /\ NULL \notin Recipients
  /\ MaxFaults \in Nat /\ MaxEdits \in Nat

VARIABLES
  sent, failed, claimed,  \* emailSentAt, emailDeliveryFailedAt, emailClaimedAt
  pass,                   \* the seat's pass: active, revoked, or deleted
  orderSent,              \* payment_orders.emailSentAt
  caller,                 \* the calls in progress
  inbox,                  \* active tickets Resend delivered, per recipient
  duds,                   \* tickets that were revoked when delivered
  lost,                   \* deliveries that were not recorded (history)
  overran,                \* claims that ran out (history)
  faults, edits

rowVars == <<sent, failed, claimed, pass, orderSent>>
mailVars == <<inbox, duds, lost, overran>>
vars == <<rowVars, caller, mailVars, faults, edits>>

(* A call: the recipients of its snapshot still to visit, those of them    *)
(* that had no pass, and the one it has claimed.                           *)
Idle == [at |-> "idle", todo |-> {}, bare |-> {}, cur |-> NULL]

Sending == {"render", "send", "markSent", "release", "giveUp"}

At(p, place) == caller[p].at = place
Cur(p) == caller[p].cur

Go(p, place) == caller' = [caller EXCEPT ![p].at = place]
End(p) == caller' = [caller EXCEPT ![p] = Idle]

(* The loop goes on behind recipient r. *)
Skip(p, r) ==
  caller' = [caller EXCEPT ![p].at = "next", ![p].todo = @ \ {r},
                           ![p].cur = NULL]

Quiet == UNCHANGED <<faults, edits>>
Fault == faults < MaxFaults /\ faults' = faults + 1 /\ UNCHANGED edits

Init ==
  /\ sent = [r \in Recipients |-> FALSE]
  /\ failed = [r \in Recipients |-> FALSE]
  /\ claimed = [r \in Recipients |-> "none"]
  /\ pass = [r \in Recipients |-> "active"]
  /\ orderSent = FALSE
  /\ caller = [p \in Callers |-> Idle]
  /\ inbox = [r \in Recipients |-> 0]
  /\ duds = [r \in Recipients |-> 0]
  /\ lost = [r \in Recipients |-> 0]
  /\ overran = [r \in Recipients |-> 0]
  /\ faults = 0
  /\ edits = 0

-------------------------------------------------------------------------------
HasPass(r) == pass[r] # "gone"

(* A bug the runs look for: a recipient that was given up is visited again. *)
OpenUnsent == {r \in Recipients : ~sent[r]}

(* The recipients a call that reads the order now is going to visit. *)
Open == {r \in Recipients : ~sent[r] /\ ~failed[r]}

(* The read of the order; nothing to do once emailSentAt is set. *)
Call(p) ==
  /\ At(p, "idle")
  /\ caller' = IF orderSent THEN caller
               ELSE [caller EXCEPT ![p] =
                       [Idle EXCEPT !.at = "next", !.todo = Open,
                                    !.bare = {r \in Open : ~HasPass(r)}]]
  /\ UNCHANGED <<rowVars, mailVars>> /\ Quiet

(* processBackgroundWork only calls for orders with an open recipient. *)
SweepCall(p) == Open # {} /\ ~orderSent /\ Call(p)

(* A missing pass is an exception: the rest of the snapshot is not visited. *)
MissingPass(p) ==
  /\ At(p, "next")
  /\ caller[p].todo \cap caller[p].bare # {}
  /\ End(p)
  /\ UNCHANGED <<rowVars, mailVars>> /\ Quiet

(* A bug: the claim asks nothing of emailClaimedAt. *)
FreeToClaimAlways(r) == ~sent[r]

(* The updateMany's WHERE: it does not ask for emailDeliveryFailedAt. *)
FreeToClaim(r) == ~sent[r] /\ claimed[r] # "fresh"

Claim(p) ==
  /\ At(p, "next")
  /\ \E r \in caller[p].todo \ caller[p].bare :
       /\ FreeToClaim(r)
       /\ claimed' = [claimed EXCEPT ![r] = "fresh"]
       /\ caller' = [caller EXCEPT ![p].at = "render", ![p].cur = r]
  /\ UNCHANGED <<sent, failed, pass, orderSent, mailVars>> /\ Quiet

ClaimedElsewhere(p) ==
  /\ At(p, "next")
  /\ \E r \in caller[p].todo \ caller[p].bare :
       ~FreeToClaim(r) /\ Skip(p, r)
  /\ UNCHANGED <<rowVars, mailVars>> /\ Quiet

(* The PDF is rendered from the pass as it is now, revoked or not ... *)
Render(p) ==
  /\ At(p, "render")
  /\ HasPass(Cur(p))
  /\ Go(p, "send")
  /\ UNCHANGED <<rowVars, mailVars>> /\ Quiet

(* ... or there is none any more: an error that is no delivery error. *)
RenderFails(p) ==
  /\ At(p, "render")
  /\ ~HasPass(Cur(p))
  /\ Go(p, "release")
  /\ UNCHANGED <<rowVars, mailVars>> /\ Quiet

(* It goes to the address of the order, whatever became of the pass since. *)
Deliver(r) ==
  IF pass[r] = "active"
    THEN inbox' = [inbox EXCEPT ![r] = @ + 1] /\ UNCHANGED duds
    ELSE duds' = [duds EXCEPT ![r] = @ + 1] /\ UNCHANGED inbox

(* Resend accepts. *)
Send(p) ==
  /\ At(p, "send")
  /\ Deliver(Cur(p))
  /\ Go(p, "markSent")
  /\ UNCHANGED <<rowVars, lost, overran>> /\ Quiet

(* Resend refuses for good. *)
SendRefused(p) ==
  /\ At(p, "send")
  /\ Go(p, "giveUp")
  /\ UNCHANGED <<rowVars, mailVars>> /\ Quiet

(* A retryable error, or a delivery whose answer is lost. *)
SendFails(p) ==
  /\ At(p, "send")
  /\ \/ UNCHANGED <<inbox, duds, lost>>
     \/ /\ Deliver(Cur(p))
        /\ lost' = [lost EXCEPT ![Cur(p)] = @ + 1]
  /\ Go(p, "release")
  /\ UNCHANGED <<rowVars, overran>> /\ Fault

(* The success is recorded and the loop goes on ... *)
MarkSent(p) ==
  /\ At(p, "markSent")
  /\ sent' = [sent EXCEPT ![Cur(p)] = TRUE]
  /\ claimed' = [claimed EXCEPT ![Cur(p)] = "none"]
  /\ Skip(p, Cur(p))
  /\ UNCHANGED <<failed, pass, orderSent, mailVars>> /\ Quiet

(* ... or that update throws, inside the same try. *)
MarkSentFails(p) ==
  /\ At(p, "markSent")
  /\ lost' = [lost EXCEPT ![Cur(p)] = @ + 1]
  /\ Go(p, "release")
  /\ UNCHANGED <<rowVars, inbox, duds, overran>> /\ Fault

(* The catch block gives the claim back and rethrows ... *)
ReleaseClaim(p) ==
  /\ At(p, "release")
  /\ claimed' = [claimed EXCEPT ![Cur(p)] = "none"]
  /\ End(p)
  /\ UNCHANGED <<sent, failed, pass, orderSent, mailVars>> /\ Quiet

(* A bug: the permanent failure is not recorded. *)
GiveUpSilently(p) ==
  /\ At(p, "giveUp")
  /\ claimed' = [claimed EXCEPT ![Cur(p)] = "none"]
  /\ End(p)
  /\ UNCHANGED <<sent, failed, pass, orderSent, mailVars>> /\ Quiet

(* ... and after a permanent failure it records that too. *)
GiveUp(p) ==
  /\ At(p, "giveUp")
  /\ claimed' = [claimed EXCEPT ![Cur(p)] = "none"]
  /\ failed' = [failed EXCEPT ![Cur(p)] = TRUE]
  /\ End(p)
  /\ UNCHANGED <<sent, pass, orderSent, mailVars>> /\ Quiet

(* A bug: recipients that were given up count as delivered. *)
CompleteWithFailures(p) ==
  /\ At(p, "next")
  /\ caller[p].todo = {}
  /\ IF \A r \in Recipients : sent[r] \/ failed[r] THEN Go(p, "close") ELSE End(p)
  /\ UNCHANGED <<rowVars, mailVars>> /\ Quiet

(* The loop is over: is anybody left in the table? *)
Complete(p) ==
  /\ At(p, "next")
  /\ caller[p].todo = {}
  /\ IF \A r \in Recipients : sent[r] THEN Go(p, "close") ELSE End(p)
  /\ UNCHANGED <<rowVars, mailVars>> /\ Quiet

Close(p) ==
  /\ At(p, "close")
  /\ orderSent' = TRUE
  /\ End(p)
  /\ UNCHANGED <<sent, failed, claimed, pass, mailVars>> /\ Quiet

-------------------------------------------------------------------------------
Crash(p) ==
  /\ ~At(p, "idle")
  /\ End(p)
  /\ UNCHANGED <<rowVars, mailVars>> /\ Fault

(* A claim is five minutes old.  Whoever held it has crashed or overrun;   *)
(* in the latter case somebody else may now send the same ticket, and when *)
(* either is done it clears the claim of the other.                        *)
ClaimAges(r) ==
  /\ claimed[r] = "fresh"
  /\ claimed' = [claimed EXCEPT ![r] = "stale"]
  /\ overran' = [overran EXCEPT ![r] = @ + 1]
  /\ UNCHANGED <<sent, failed, pass, orderSent, caller, inbox, duds, lost>> /\ Quiet

EditPass(r, to) ==
  /\ edits < MaxEdits
  /\ edits' = edits + 1
  /\ pass' = [pass EXCEPT ![r] = to]
  /\ UNCHANGED <<sent, failed, claimed, orderSent, caller, mailVars, faults>>

(* The organizer deletes an attendee; the pass goes with it. *)
RemoveAttendee(r) == HasPass(r) /\ EditPass(r, "gone")

(* The organizer changes an attendee's address: the seat keeps the revoked *)
(* pass, and the one issued instead belongs to no seat.                    *)
ChangeAddress(r) == pass[r] = "active" /\ EditPass(r, "revoked")

Step(p) ==
  \/ MissingPass(p) \/ Claim(p) \/ ClaimedElsewhere(p)
  \/ Render(p) \/ RenderFails(p) \/ Send(p) \/ SendRefused(p)
  \/ MarkSent(p) \/ ReleaseClaim(p) \/ GiveUp(p)
  \/ Complete(p) \/ Close(p)

Failure(p) == SendFails(p) \/ MarkSentFails(p) \/ Crash(p)

Next ==
  \/ \E p \in Callers : Call(p) \/ SweepCall(p) \/ Step(p) \/ Failure(p)
  \/ \E r \in Recipients : ClaimAges(r) \/ RemoveAttendee(r) \/ ChangeAddress(r)

Spec == Init /\ [][Next]_vars

(* A call goes on; the sweep calls every five minutes while somebody is    *)
(* open; claims age.                                                       *)
Fairness ==
  /\ \A p \in Callers : WF_vars(Step(p))
  /\ SF_vars(\E p \in Callers : SweepCall(p))
  /\ \A r \in Recipients : WF_vars(ClaimAges(r))

FairSpec == Spec /\ Fairness

-------------------------------------------------------------------------------
(* Properties *)

TypeOK ==
  /\ sent \in [Recipients -> BOOLEAN] /\ failed \in [Recipients -> BOOLEAN]
  /\ claimed \in [Recipients -> {"none", "fresh", "stale"}]
  /\ pass \in [Recipients -> {"active", "revoked", "gone"}]
  /\ orderSent \in BOOLEAN
  /\ caller \in [Callers ->
       [at : {"idle", "next", "close"} \cup Sending, todo : SUBSET Recipients,
        bare : SUBSET Recipients, cur : Recipients \cup {NULL}]]
  /\ \A p \in Callers : caller[p].at \in Sending <=> Cur(p) # NULL
  /\ inbox \in [Recipients -> Nat] /\ duds \in [Recipients -> Nat]
  /\ lost \in [Recipients -> Nat] /\ overran \in [Recipients -> Nat]
  /\ faults \in 0..MaxFaults /\ edits \in 0..MaxEdits

(* However many calls run at once, every claim that ran out lets one more  *)
(* of them work on its recipient, and every such claim and every delivery  *)
(* whose answer or record was lost costs one more ticket, and no more: also*)
(* when a call that overran clears the claim of the one that took over.    *)
NoNeedlessDuplicate ==
  \A r \in Recipients :
    /\ Cardinality({p \in Callers : Cur(p) = r}) =< 1 + overran[r]
    /\ inbox[r] + duds[r] =< 1 + lost[r] + overran[r]

(* What the tables call delivered was delivered: a sent recipient has a    *)
(* ticket that opens the door, unless the organizer has edited the         *)
(* attendee, and a completed order (which nobody looks at again) has no    *)
(* recipient that was not sent, given-up recipients included.              *)
RecordedIsDelivered ==
  /\ \A r \in Recipients :
       sent[r] => inbox[r] + duds[r] >= 1 /\ (pass[r] = "active" => inbox[r] >= 1)
  /\ orderSent => \A r \in Recipients : sent[r]

(* The calls that may still send to r. *)
MaySend(r) ==
  {p \in Callers : IF Cur(p) = r THEN caller[p].at \in {"render", "send"}
                                 ELSE r \in caller[p].todo}

(* An address that was given up is sent to by the calls that had read the  *)
(* order before that (the claim does not ask for emailDeliveryFailedAt),   *)
(* once by each at most, and by nobody who reads it later.                 *)
GivenUpStep ==
  \A r \in Recipients : failed[r] =>
    /\ failed'[r]
    /\ MaySend(r)' \subseteq MaySend(r)
    /\ \/ inbox'[r] + duds'[r] = inbox[r] + duds[r]
       \/ /\ inbox'[r] + duds'[r] = inbox[r] + duds[r] + 1
          /\ MaySend(r)' # MaySend(r)

GivenUpIsLeftAlone == [][GivenUpStep]_vars

(* A ticket holder whose attendee is not edited is sent a valid ticket, or *)
(* found undeliverable, unless an attendee is deleted whose own ticket was *)
(* never settled: what else happens to the other recipients (a failed or   *)
(* refused send, a lost answer, a crash, a change of address, a deletion   *)
(* after their ticket was sent or given up) does not keep it back.         *)
HolderServed ==
  <>[](\A r \in Open : HasPass(r)) =>
    \A r \in Recipients :
      [](pass[r] = "active") => <>((sent[r] /\ inbox[r] >= 1) \/ failed[r])
===============================================================================
