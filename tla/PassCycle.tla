------------------------------- MODULE PassCycle -------------------------------
(***************************************************************************)
(* The attendees of one event and their passes: AttendeesService's create, *)
(* update, remove and importCsv, PassesService's createPass and            *)
(* CheckInService's checkIn, all called concurrently.                      *)
(*                                                                         *)
(* A call is one request in progress; its "at" is the statement it is      *)
(* about to perform, and what it read before may be out of date by then.   *)
(* Any call may end at any point with an exception or a crash.  The        *)
(* requests are the owner's: anybody else's are refused by the first read. *)
(***************************************************************************)
EXTENDS Integers, FiniteSets

CONSTANTS Calls, Attendees, Passes, Emails, NULL

ASSUME PassCycleAssumption ==
  NULL \notin Attendees /\ NULL \notin Passes /\ NULL \notin Emails

VARIABLES
  row,         \* attendees: a row never inserted, there, or deleted
  email,       \* attendees.email
  pass,        \* passes: never inserted, active, revoked, or deleted
  holder,      \* passes.attendeeId
  checkIn,     \* check_ins: the pass has a check-in row
  call,        \* the calls in progress
  mailed,      \* QR codes delivered: <<pass, address>>       (history)
  admissions,  \* successful check-ins of a pass              (history)
  overtaken,   \* passes issued or kept on an outdated read   (history)
  stranded     \* attendees whose create ended before a pass  (history)

personVars == <<row, email>>
passVars == <<pass, holder, checkIn>>
historyVars == <<mailed, admissions, overtaken, stranded>>
vars == <<personVars, passVars, call, historyVars>>

(* A call: where it is, the attendee and the pass it works on, the address *)
(* it has read (or was given) and the one it is to write.                  *)
Idle == [at |-> "idle", att |-> NULL, pas |-> NULL, read |-> NULL,
         new |-> NULL]

At(c, place) == call[c].at = place
Att(c) == call[c].att
Pas(c) == call[c].pas

Begin(c, place, a, p, old, new) ==
  /\ At(c, "idle")
  /\ call' = [call EXCEPT ![c] = [at |-> place, att |-> a, pas |-> p,
                                  read |-> old, new |-> new]]
Go(c, place) == call' = [call EXCEPT ![c].at = place]
End(c) == call' = [call EXCEPT ![c] = Idle]

Rows == {a \in Attendees : row[a] = "row"}
Registered(e) == \E a \in Rows : email[a] = e
ActivePasses(a) == {p \in Passes : pass[p] = "active" /\ holder[p] = a}

Init ==
  /\ row = [a \in Attendees |-> "none"]
  /\ email = [a \in Attendees |-> NULL]
  /\ pass = [p \in Passes |-> "none"]
  /\ holder = [p \in Passes |-> NULL]
  /\ checkIn = [p \in Passes |-> FALSE]
  /\ call = [c \in Calls |-> Idle]
  /\ mailed = {}
  /\ admissions = [p \in Passes |-> 0]
  /\ overtaken = {}
  /\ stranded = {}

-------------------------------------------------------------------------------
(* AttendeesService.create *)

StartCreate(c, e) ==
  /\ ~Registered(e)
  /\ Begin(c, "insert", NULL, NULL, e, NULL)
  /\ UNCHANGED <<personVars, passVars, historyVars>>

Insert(c) ==
  /\ At(c, "insert")
  /\ ~Registered(call[c].read)
  /\ \E a \in Attendees :
       /\ row[a] = "none"
       /\ row' = [row EXCEPT ![a] = "row"]
       /\ email' = [email EXCEPT ![a] = call[c].read]
       /\ call' = [call EXCEPT ![c].at = "issue", ![c].att = a]
  /\ UNCHANGED <<passVars, historyVars>>

(* The unique (eventId, email) index refuses the row. *)
InsertRefused(c) ==
  /\ At(c, "insert")
  /\ Registered(call[c].read)
  /\ End(c)
  /\ UNCHANGED <<personVars, passVars, historyVars>>

-------------------------------------------------------------------------------
(* PassesService.createPass, which goes on like create *)

StartIssue(c, a) ==
  /\ a \in Rows
  /\ Begin(c, "issue", a, NULL, email[a], NULL)
  /\ UNCHANGED <<personVars, passVars, historyVars>>

(* A bug the runs look for: a pass of an attendee that is gone. *)
HolderNotChecked(a) == a \in Attendees

(* passes.attendeeId references attendees. *)
HolderExists(a) == a \in Rows

Issue(c) ==
  /\ At(c, "issue")
  /\ HolderExists(Att(c))
  /\ \E p \in Passes :
       /\ pass[p] = "none"
       /\ pass' = [pass EXCEPT ![p] = "active"]
       /\ holder' = [holder EXCEPT ![p] = Att(c)]
       /\ call' = [call EXCEPT ![c].at = "render", ![c].pas = p]
       /\ overtaken' = overtaken \cup
                         (IF call[c].read = email[Att(c)] THEN {} ELSE {p})
  /\ UNCHANGED <<personVars, checkIn, mailed, admissions, stranded>>

IssueRefused(c) ==
  /\ At(c, "issue")
  /\ ~HolderExists(Att(c))
  /\ End(c)
  /\ UNCHANGED <<personVars, passVars, historyVars>>

(* The PDF is made from the pass as it is now, revoked or not. *)
Render(c) ==
  /\ At(c, "render")
  /\ IF pass[Pas(c)] = "gone" THEN End(c) ELSE Go(c, "mail")
  /\ UNCHANGED <<personVars, passVars, historyVars>>

(* ... and sent to the address read at the start. *)
Mail(c) ==
  /\ At(c, "mail")
  /\ mailed' = mailed \cup {<<Pas(c), call[c].read>>}
  /\ End(c)
  /\ UNCHANGED <<personVars, passVars, admissions, overtaken, stranded>>

-------------------------------------------------------------------------------
(* AttendeesService.update, with an address *)

StartUpdate(c, a, f) ==
  /\ a \in Rows
  /\ Begin(c, IF f = email[a] THEN "write" ELSE "findDuplicate",
           a, NULL, email[a], f)
  /\ UNCHANGED <<personVars, passVars, historyVars>>

FindDuplicate(c) ==
  /\ At(c, "findDuplicate")
  /\ IF Registered(call[c].new) THEN End(c) ELSE Go(c, "write")
  /\ UNCHANGED <<personVars, passVars, historyVars>>

(* The transaction's update: the row is there and the address is free. *)
Writable(c) ==
  /\ Att(c) \in Rows
  /\ \A b \in Rows \ {Att(c)} : email[b] # call[c].new

(* A bug: only the pass issued last is revoked. *)
RevokeOne(a, fresh) ==
  \E q \in ActivePasses(a) \cup {fresh} :
    pass' = [pass EXCEPT ![q] = "revoked", ![fresh] = "active"]

(* A bug: the passes are revoked and none is issued. *)
RevokeOnly(a, fresh) ==
  pass' = [p \in Passes |-> IF p \in ActivePasses(a) THEN "revoked" ELSE pass[p]]

(* Every active pass is revoked and a fresh one issued. *)
RevokeAndIssue(a, fresh) ==
  pass' = [p \in Passes |-> IF p = fresh THEN "active"
                            ELSE IF p \in ActivePasses(a) THEN "revoked"
                            ELSE pass[p]]

(* The address is another one than was read: the passes change with it. *)
ChangeAddress(c) ==
  /\ At(c, "write")
  /\ Writable(c)
  /\ call[c].new # call[c].read
  /\ email' = [email EXCEPT ![Att(c)] = call[c].new]
  /\ \E p \in Passes :
       /\ pass[p] = "none"
       /\ RevokeAndIssue(Att(c), p)
       /\ holder' = [holder EXCEPT ![p] = Att(c)]
  /\ End(c)
  /\ UNCHANGED <<row, checkIn, historyVars>>

(* It is the same: the passes stay, even if somebody else has changed the  *)
(* address since.                                                          *)
KeepAddress(c) ==
  /\ At(c, "write")
  /\ Writable(c)
  /\ call[c].new = call[c].read
  /\ email' = [email EXCEPT ![Att(c)] = call[c].new]
  /\ overtaken' = overtaken \cup (IF call[c].read = email[Att(c)] THEN {}
                                  ELSE ActivePasses(Att(c)))
  /\ End(c)
  /\ UNCHANGED <<row, passVars, mailed, admissions, stranded>>

WriteRefused(c) ==
  /\ At(c, "write")
  /\ ~Writable(c)
  /\ End(c)
  /\ UNCHANGED <<personVars, passVars, historyVars>>

-------------------------------------------------------------------------------
(* Single transactions *)

(* A row of importCsv, or a ticket of markOrderPaid: attendee and pass. *)
Register(e) ==
  /\ ~Registered(e)
  /\ \E a \in Attendees, p \in Passes :
       /\ row[a] = "none"
       /\ pass[p] = "none"
       /\ row' = [row EXCEPT ![a] = "row"]
       /\ email' = [email EXCEPT ![a] = e]
       /\ pass' = [pass EXCEPT ![p] = "active"]
       /\ holder' = [holder EXCEPT ![p] = a]
  /\ UNCHANGED <<checkIn, call, historyVars>>

(* Passes and check-ins go with the attendee. *)
Remove(a) ==
  LET own == {p \in Passes : holder[p] = a} IN
  /\ a \in Rows
  /\ row' = [row EXCEPT ![a] = "gone"]
  /\ pass' = [p \in Passes |-> IF p \in own THEN "gone" ELSE pass[p]]
  /\ checkIn' = [p \in Passes |-> checkIn[p] /\ p \notin own]
  /\ UNCHANGED <<email, holder, call, historyVars>>

-------------------------------------------------------------------------------
(* CheckInService.checkIn *)

Scan(c, p) ==
  /\ pass[p] = "active"
  /\ ~checkIn[p]
  /\ Begin(c, "admit", NULL, p, NULL, NULL)
  /\ UNCHANGED <<personVars, passVars, historyVars>>

(* A bug: check_ins.passId is not unique. *)
PassStillThere(p) == pass[p] # "gone"

(* check_ins.passId is unique and references passes. *)
Admissible(p) == pass[p] # "gone" /\ ~checkIn[p]

Admit(c) ==
  /\ At(c, "admit")
  /\ Admissible(Pas(c))
  /\ checkIn' = [checkIn EXCEPT ![Pas(c)] = TRUE]
  /\ admissions' = [admissions EXCEPT ![Pas(c)] = @ + 1]
  /\ End(c)
  /\ UNCHANGED <<personVars, pass, holder, mailed, overtaken, stranded>>

AdmitRefused(c) ==
  /\ At(c, "admit")
  /\ ~Admissible(Pas(c))
  /\ End(c)
  /\ UNCHANGED <<personVars, passVars, historyVars>>

-------------------------------------------------------------------------------
(* An exception (Resend's, the database's) or a crash. *)
Fail(c) ==
  /\ ~At(c, "idle")
  /\ stranded' = stranded \cup
                   (IF At(c, "issue") /\ ActivePasses(Att(c)) = {}
                      THEN {Att(c)} ELSE {})
  /\ End(c)
  /\ UNCHANGED <<personVars, passVars, mailed, admissions, overtaken>>

Next ==
  \/ \E c \in Calls :
       \/ \E e \in Emails : StartCreate(c, e)
       \/ \E a \in Attendees :
            StartIssue(c, a) \/ \E f \in Emails : StartUpdate(c, a, f)
       \/ \E p \in Passes : Scan(c, p)
       \/ Insert(c) \/ InsertRefused(c) \/ Issue(c) \/ IssueRefused(c)
       \/ Render(c) \/ Mail(c)
       \/ FindDuplicate(c) \/ ChangeAddress(c) \/ KeepAddress(c)
       \/ WriteRefused(c) \/ Admit(c) \/ AdmitRefused(c) \/ Fail(c)
  \/ \E e \in Emails : Register(e)
  \/ \E a \in Attendees : Remove(a)

Spec == Init /\ [][Next]_vars

-------------------------------------------------------------------------------
(* Properties *)

(* Types, the unique address, and the references: a pass that is there has *)
(* a holder that is there.                                                 *)
TypeOK ==
  /\ row \in [Attendees -> {"none", "row", "gone"}]
  /\ email \in [Attendees -> Emails \cup {NULL}]
  /\ \A a, b \in Rows : email[a] = email[b] => a = b
  /\ pass \in [Passes -> {"none", "active", "revoked", "gone"}]
  /\ holder \in [Passes -> Attendees \cup {NULL}]
  /\ \A p \in Passes : pass[p] \in {"active", "revoked"} => holder[p] \in Rows
  /\ checkIn \in [Passes -> BOOLEAN]
  /\ call \in [Calls ->
       [at : {"idle", "insert", "issue", "render", "mail", "findDuplicate",
              "write", "admit"},
        att : Attendees \cup {NULL}, pas : Passes \cup {NULL},
        read : Emails \cup {NULL}, new : Emails \cup {NULL}]]
  /\ mailed \in SUBSET (Passes \X Emails)
  /\ admissions \in [Passes -> Nat]
  /\ overtaken \in SUBSET Passes
  /\ stranded \in SUBSET Attendees

(* README.md:138: double check-ins are impossible, however many scanners   *)
(* read the same QR code at once; a pass that was admitted and is still    *)
(* there has its check-in row.                                             *)
AdmittedOnce ==
  \A p \in Passes :
    /\ admissions[p] =< 1
    /\ pass[p] \in {"active", "revoked"} => (admissions[p] = 1 <=> checkIn[p])

(* attendees.service.ts:194-198: after a change of address the old QR code *)
(* stops working.  An active QR code in somebody's mailbox is the          *)
(* attendee's current one, except for a pass issued, or kept, by a call    *)
(* that had read the address before somebody else changed it.              *)
MailedToHolder ==
  \A m \in mailed :
    pass[m[1]] = "active" => email[holder[m[1]]] = m[2] \/ m[1] \in overtaken

(* Every attendee has an active pass, whatever is revoked, changed and     *)
(* deleted meanwhile, except while its create is under way or when that    *)
(* ended before it issued one.                                             *)
HoldsPass ==
  \A a \in Rows :
    \/ ActivePasses(a) # {}
    \/ a \in stranded
    \/ \E c \in Calls : At(c, "issue") /\ Att(c) = a
===============================================================================
