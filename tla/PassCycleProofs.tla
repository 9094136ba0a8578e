---------------------------- MODULE PassCycleProofs ----------------------------
(***************************************************************************)
(* Proofs about PassCycle, for any number of requests, attendees, passes   *)
(* and addresses.                                                          *)
(***************************************************************************)
EXTENDS PassCycle, TLAPS

Places == {"idle", "insert", "issue", "render", "mail", "findDuplicate", "write",
           "admit"}

CallType == [at : Places, att : Attendees \cup {NULL}, pas : Passes \cup {NULL},
             read : Emails \cup {NULL}, new : Emails \cup {NULL}]

(* Address e may have the QR code of p: if that opens the door, e is the   *)
(* holder's, or p was issued or kept by a call that was overtaken.         *)
Good(p, e) ==
  /\ pass[p] # "none"
  /\ pass[p] = "active" => email[holder[p]] = e \/ p \in overtaken

(* What a call knows where it is. *)
CallOK(c) ==
  /\ At(c, "insert") => call[c].read \in Emails
  /\ At(c, "issue") => Att(c) \in Attendees /\ call[c].read \in Emails
  /\ At(c, "render") \/ At(c, "mail") =>
       Pas(c) \in Passes /\ call[c].read \in Emails /\ Good(Pas(c), call[c].read)
  /\ At(c, "findDuplicate") \/ At(c, "write") =>
       Att(c) \in Attendees /\ call[c].new \in Emails
  /\ At(c, "admit") => Pas(c) \in Passes /\ pass[Pas(c)] # "none"

CallsInv == \A c \in Calls : CallOK(c)

Addressed == \A a \in Rows : email[a] \in Emails

Unused == \A p \in Passes : pass[p] = "none" => admissions[p] = 0 /\ ~checkIn[p]

MailInv == \A m \in mailed : Good(m[1], m[2])

CycleInv ==
  /\ TypeOK /\ AdmittedOnce /\ HoldsPass
  /\ Addressed /\ Unused /\ MailInv /\ CallsInv

LEMMA InitInv == Init => CycleInv
BY PassCycleAssumption
   DEF Init, Idle, CycleInv, TypeOK, AdmittedOnce, HoldsPass, Addressed, Unused,
       MailInv, CallsInv, CallOK, At, Rows

-------------------------------------------------------------------------------
(* What the steps of a call do to it *)

Alone(c) == \A d \in Calls \ {c} : call'[d] = call[d]

LEMMA GoEffect ==
  ASSUME TypeOK, NEW c \in Calls, NEW place \in Places, Go(c, place)
  PROVE  /\ call' \in [Calls -> CallType] /\ Alone(c)
         /\ At(c, place)' /\ Att(c)' = Att(c) /\ Pas(c)' = Pas(c)
         /\ call'[c].read = call[c].read /\ call'[c].new = call[c].new
BY DEF TypeOK, CallType, Places, Go, Alone, At, Att, Pas

LEMMA EndEffect ==
  ASSUME TypeOK, NEW c \in Calls, End(c)
  PROVE  call' \in [Calls -> CallType] /\ Alone(c) /\ At(c, "idle")'
BY DEF TypeOK, CallType, Places, End, Idle, Alone, At

LEMMA BeginEffect ==
  ASSUME TypeOK, NEW c \in Calls, NEW place \in Places, NEW a \in Attendees \cup {NULL},
         NEW p \in Passes \cup {NULL}, NEW old \in Emails \cup {NULL},
         NEW new \in Emails \cup {NULL}, Begin(c, place, a, p, old, new)
  PROVE  /\ call' \in [Calls -> CallType] /\ Alone(c) /\ At(c, "idle")
         /\ At(c, place)' /\ Att(c)' = a /\ Pas(c)' = p
         /\ call'[c].read = old /\ call'[c].new = new
BY DEF TypeOK, CallType, Places, Begin, Alone, At, Att, Pas

LEMMA TypeCalls == TypeOK => call \in [Calls -> CallType]
BY DEF TypeOK, CallType, Places

LEMMA InsertedEffect ==
  ASSUME TypeOK, NEW c \in Calls, NEW a \in Attendees,
         call' = [call EXCEPT ![c].at = "issue", ![c].att = a]
  PROVE  /\ call' \in [Calls -> CallType] /\ Alone(c)
         /\ At(c, "issue")' /\ Att(c)' = a /\ call'[c].read = call[c].read
BY TypeCalls DEF CallType, Places, Alone, At, Att

LEMMA IssuedEffect ==
  ASSUME TypeOK, NEW c \in Calls, NEW p \in Passes,
         call' = [call EXCEPT ![c].at = "render", ![c].pas = p]
  PROVE  /\ call' \in [Calls -> CallType] /\ Alone(c)
         /\ At(c, "render")' /\ Pas(c)' = p /\ call'[c].read = call[c].read
BY TypeCalls DEF CallType, Places, Alone, At, Pas

(* The other calls go on knowing what they know if the passes keep it.     *)
PassesKept ==
  \A p \in Passes :
    /\ pass[p] # "none" => pass'[p] # "none"
    /\ \A e \in Emails : Good(p, e) => Good(p, e)'

LEMMA CallKept ==
  ASSUME CycleInv, NEW d \in Calls, call'[d] = call[d], PassesKept
  PROVE  CallOK(d)'
<1>1. CallOK(d)
  BY DEF CycleInv, CallsInv
<1>2. CASE At(d, "render") \/ At(d, "mail")
  <2>1. PICK p \in Passes, e \in Emails : p = Pas(d) /\ e = call[d].read /\ Good(p, e)
    BY <1>1, <1>2 DEF CallOK
  <2>2. Good(p, e)'
    BY <2>1 DEF PassesKept
  <2>3. Good(Pas(d), call[d].read)'
    BY <2>1, <2>2 DEF Good, Pas
  <2> QED
    BY <1>1, <1>2, <2>3 DEF CallOK, At, Att, Pas
<1>3. CASE ~(At(d, "render") \/ At(d, "mail"))
  BY <1>1, <1>3 DEF CallOK, At, Att, Pas, PassesKept
<1> QED
  BY <1>2, <1>3

LEMMA CallsKept ==
  ASSUME CycleInv, NEW c \in Calls, Alone(c), CallOK(c)', PassesKept
  PROVE  CallsInv'
BY CallKept DEF Alone, CallsInv

LEMMA MailKept ==
  ASSUME CycleInv, PassesKept, mailed' = mailed PROVE MailInv'
<1> SUFFICES ASSUME NEW m \in mailed PROVE Good(m[1], m[2])'
  BY DEF MailInv
<1>1. m[1] \in Passes /\ m[2] \in Emails
  BY DEF CycleInv, TypeOK
<1> QED
  BY <1>1 DEF CycleInv, MailInv, PassesKept

-------------------------------------------------------------------------------
(* The steps that write nothing *)

LEMMA CallOnly ==
  ASSUME CycleInv, NEW c \in Calls,
         UNCHANGED <<personVars, passVars, mailed, admissions, overtaken>>,
         stranded' \in SUBSET Attendees, stranded \subseteq stranded',
         call' \in [Calls -> CallType], Alone(c), CallOK(c)',
         At(c, "issue") => \/ Att(c) \in stranded' \/ Att(c) \notin Rows
                           \/ ActivePasses(Att(c)) # {}
  PROVE  CycleInv'
<1> USE DEF CycleInv, personVars, passVars
<1>1. TypeOK'
  BY DEF TypeOK, CallType, Places, Rows
<1>2. PassesKept
  BY DEF PassesKept, Good
<1>3. CallsInv' /\ MailInv'
  BY <1>2, CallsKept, MailKept
<1>4. Rows' = Rows /\ \A a : ActivePasses(a)' = ActivePasses(a)
  BY DEF Rows, ActivePasses
<1>5. HoldsPass'
  BY <1>4 DEF HoldsPass, Alone, At, Att
<1>6. AdmittedOnce' /\ Addressed' /\ Unused'
  BY <1>4 DEF AdmittedOnce, Addressed, Unused
<1> QED
  BY <1>1, <1>3, <1>5, <1>6

LEMMA EndStep ==
  ASSUME CycleInv, NEW c \in Calls, End(c),
         UNCHANGED <<personVars, passVars, mailed, admissions, overtaken>>,
         stranded' \in SUBSET Attendees, stranded \subseteq stranded',
         At(c, "issue") => \/ Att(c) \in stranded' \/ Att(c) \notin Rows
                           \/ ActivePasses(Att(c)) # {}
  PROVE  CycleInv'
<1>1. call' \in [Calls -> CallType] /\ Alone(c) /\ At(c, "idle")'
  BY EndEffect DEF CycleInv
<1>2. CallOK(c)'
  BY <1>1 DEF CallOK, At
<1> QED
  BY <1>1, <1>2, CallOnly

LEMMA BeginStep ==
  ASSUME CycleInv, NEW c \in Calls,
         \/ \E e \in Emails : StartCreate(c, e)
         \/ \E a \in Attendees : StartIssue(c, a)
         \/ \E a \in Attendees, f \in Emails : StartUpdate(c, a, f)
         \/ \E p \in Passes : Scan(c, p)
  PROVE  CycleInv'
<1> USE DEF CycleInv
<1>1. UNCHANGED <<personVars, passVars, historyVars>>
  BY DEF StartCreate, StartIssue, StartUpdate, Scan
<1>2. UNCHANGED <<mailed, admissions, overtaken, stranded>> /\ stranded \in SUBSET Attendees
  BY <1>1 DEF historyVars, TypeOK
<1>3. SUFFICES call' \in [Calls -> CallType] /\ Alone(c) /\ At(c, "idle") /\ CallOK(c)'
  BY <1>1, <1>2, CallOnly DEF At
<1>4. CASE \E e \in Emails : StartCreate(c, e)
  <2>1. PICK e \in Emails : Begin(c, "insert", NULL, NULL, e, NULL)
    BY <1>4 DEF StartCreate
  <2> QED
    BY <2>1, BeginEffect DEF Places, CallOK, At
<1>5. CASE \E a \in Attendees : StartIssue(c, a)
  <2>1. PICK a \in Attendees : a \in Rows /\ Begin(c, "issue", a, NULL, email[a], NULL)
    BY <1>5 DEF StartIssue
  <2>2. email[a] \in Emails
    BY <2>1 DEF Addressed
  <2> QED
    BY <2>1, <2>2, BeginEffect DEF Places, CallOK, At
<1>6. CASE \E a \in Attendees, f \in Emails : StartUpdate(c, a, f)
  <2>1. PICK a \in Attendees, f \in Emails, place \in {"write", "findDuplicate"} :
          a \in Rows /\ Begin(c, place, a, NULL, email[a], f)
    BY <1>6 DEF StartUpdate
  <2>2. email[a] \in Emails
    BY <2>1 DEF Addressed
  <2> QED
    BY <2>1, <2>2, BeginEffect DEF Places, CallOK, At
<1>7. CASE \E p \in Passes : Scan(c, p)
  <2>1. PICK p \in Passes : pass[p] = "active" /\ Begin(c, "admit", NULL, p, NULL, NULL)
    BY <1>7 DEF Scan
  <2>2. pass' = pass
    BY <1>1 DEF passVars
  <2> QED
    BY <2>1, <2>2, BeginEffect DEF Places, CallOK, At
<1> QED
  BY <1>4, <1>5, <1>6, <1>7

LEMMA RefusedStep ==
  ASSUME CycleInv, NEW c \in Calls,
         InsertRefused(c) \/ IssueRefused(c) \/ WriteRefused(c) \/ AdmitRefused(c)
  PROVE  CycleInv'
<1>1. End(c) /\ UNCHANGED <<personVars, passVars, historyVars>>
  BY DEF InsertRefused, IssueRefused, WriteRefused, AdmitRefused
<1>2. At(c, "issue") => Att(c) \notin Rows
  BY DEF InsertRefused, IssueRefused, WriteRefused, AdmitRefused, At, HolderExists
<1> QED
  BY <1>1, <1>2, EndStep DEF historyVars, CycleInv, TypeOK

LEMMA OnwardStep ==
  ASSUME CycleInv, NEW c \in Calls, Render(c) \/ FindDuplicate(c) PROVE CycleInv'
<1> USE DEF CycleInv
<1>1. UNCHANGED <<personVars, passVars, mailed, admissions, overtaken, stranded>>
      /\ stranded \in SUBSET Attendees /\ ~At(c, "issue")
  BY DEF Render, FindDuplicate, At, historyVars, TypeOK
<1>2. CASE End(c)
  BY <1>1, <1>2, EndStep
<1>3. CASE Render(c) /\ Go(c, "mail")
  <2>1. /\ call' \in [Calls -> CallType] /\ Alone(c) /\ At(c, "mail")'
        /\ Pas(c)' = Pas(c) /\ call'[c].read = call[c].read
    BY <1>3, GoEffect DEF Places
  <2>2. Pas(c) \in Passes /\ call[c].read \in Emails /\ Good(Pas(c), call[c].read)
    BY <1>3 DEF CallsInv, CallOK, Render
  <2>3. CallOK(c)'
    BY <1>1, <2>1, <2>2 DEF CallOK, At, Good, personVars, passVars
  <2> QED
    BY <1>1, <2>1, <2>3, CallOnly
<1>4. CASE FindDuplicate(c) /\ Go(c, "write")
  <2>1. /\ call' \in [Calls -> CallType] /\ Alone(c) /\ At(c, "write")'
        /\ Att(c)' = Att(c) /\ call'[c].new = call[c].new
    BY <1>4, GoEffect DEF Places
  <2>2. CallOK(c)'
    BY <1>4, <2>1 DEF CallsInv, CallOK, At, FindDuplicate
  <2> QED
    BY <1>1, <2>1, <2>2, CallOnly
<1> QED
  BY <1>2, <1>3, <1>4 DEF Render, FindDuplicate

LEMMA FailStep ==
  ASSUME CycleInv, NEW c \in Calls, Fail(c) PROVE CycleInv'
<1> USE DEF CycleInv
<1>1. /\ End(c) /\ UNCHANGED <<personVars, passVars, mailed, admissions, overtaken>>
      /\ stranded' = stranded \cup
                       (IF At(c, "issue") /\ ActivePasses(Att(c)) = {}
                          THEN {Att(c)} ELSE {})
  BY DEF Fail
<1>2. At(c, "issue") => Att(c) \in Attendees
  BY DEF CallsInv, CallOK
<1>3. stranded' \in SUBSET Attendees /\ stranded \subseteq stranded'
  BY <1>1, <1>2 DEF TypeOK
<1>4. At(c, "issue") => Att(c) \in stranded' \/ ActivePasses(Att(c)) # {}
  BY <1>1
<1> QED
  BY <1>1, <1>3, <1>4, EndStep

LEMMA MailStep ==
  ASSUME CycleInv, NEW c \in Calls, Mail(c) PROVE CycleInv'
<1> USE DEF CycleInv
<1>1. /\ At(c, "mail") /\ End(c)
      /\ mailed' = mailed \cup {<<Pas(c), call[c].read>>}
      /\ UNCHANGED <<row, email, pass, holder, checkIn, admissions, overtaken, stranded>>
  BY DEF Mail, personVars, passVars
<1>2. call' \in [Calls -> CallType] /\ Alone(c) /\ At(c, "idle")'
  BY <1>1, EndEffect
<1>3. PICK p \in Passes, e \in Emails : p = Pas(c) /\ e = call[c].read /\ Good(p, e)
  BY <1>1 DEF CallsInv, CallOK
<1>4. Rows' = Rows /\ \A a : ActivePasses(a)' = ActivePasses(a)
  BY <1>1 DEF Rows, ActivePasses
<1>5. PassesKept
  BY <1>1 DEF PassesKept, Good
<1>6. TypeOK'
  BY <1>1, <1>2, <1>3, <1>4 DEF TypeOK, CallType, Places
<1>7. CallsInv'
  BY <1>2, <1>5, CallsKept DEF CallOK, At
<1>8. MailInv'
  <2> SUFFICES ASSUME NEW m \in mailed' PROVE Good(m[1], m[2])'
    BY DEF MailInv
  <2>1. CASE m \in mailed
    BY <1>1, <2>1 DEF MailInv, Good
  <2>2. CASE m = <<p, e>>
    BY <1>1, <1>3, <2>2 DEF Good
  <2> QED
    BY <1>1, <1>3, <2>1, <2>2
<1>9. HoldsPass'
  BY <1>1, <1>2, <1>4 DEF HoldsPass, Alone, At, Att
<1>10. AdmittedOnce' /\ Addressed' /\ Unused'
  BY <1>1, <1>4 DEF AdmittedOnce, Addressed, Unused
<1> QED
  BY <1>6, <1>7, <1>8, <1>9, <1>10

-------------------------------------------------------------------------------
(* A new row *)

(* Row a comes into the table with address x, where nobody had that        *)
(* address; no pass can have been issued to a.                             *)
LEMMA NewRow ==
  ASSUME CycleInv, NEW a \in Attendees, NEW x \in Emails,
         row[a] = "none", ~Registered(x),
         row' = [row EXCEPT ![a] = "row"], email' = [email EXCEPT ![a] = x]
  PROVE  /\ row' \in [Attendees -> {"none", "row", "gone"}]
         /\ email' \in [Attendees -> Emails \cup {NULL}]
         /\ Rows' = Rows \cup {a} /\ a \notin Rows
         /\ \A b \in Rows : email'[b] = email[b] /\ email[b] # x
         /\ Addressed'
         /\ \A b, d \in Rows' : email'[b] = email'[d] => b = d
         /\ \A p \in Passes : pass[p] = "active" => holder[p] \in Rows
<1> USE DEF CycleInv, TypeOK
<1>1. Rows' = Rows \cup {a} /\ a \notin Rows
  BY DEF Rows
<1>2. \A b \in Rows : email'[b] = email[b] /\ email[b] # x /\ b \in Attendees
  BY DEF Rows, Registered
<1>3. email'[a] = x
  OBVIOUS
<1>4. Addressed'
  BY <1>1, <1>2, <1>3 DEF Addressed
<1>5. \A b, d \in Rows' : email'[b] = email'[d] => b = d
  BY <1>1, <1>2, <1>3
<1> QED
  BY <1>1, <1>2, <1>4, <1>5

LEMMA InsertStep ==
  ASSUME CycleInv, NEW c \in Calls, Insert(c) PROVE CycleInv'
<1> USE DEF CycleInv
<1>1. PICK a \in Attendees :
        /\ row[a] = "none" /\ row' = [row EXCEPT ![a] = "row"]
        /\ email' = [email EXCEPT ![a] = call[c].read]
        /\ call' = [call EXCEPT ![c].at = "issue", ![c].att = a]
  BY DEF Insert
<1>2. /\ At(c, "insert") /\ ~Registered(call[c].read)
      /\ UNCHANGED <<pass, holder, checkIn, mailed, admissions, overtaken, stranded>>
  BY DEF Insert, passVars, historyVars
<1>3. PICK x \in Emails : x = call[c].read
  BY <1>2 DEF CallsInv, CallOK
<1>4. /\ call' \in [Calls -> CallType] /\ Alone(c) /\ At(c, "issue")'
      /\ Att(c)' = a /\ call'[c].read = x
  BY <1>1, <1>3, InsertedEffect
<1>5. /\ row' \in [Attendees -> {"none", "row", "gone"}]
      /\ email' \in [Attendees -> Emails \cup {NULL}]
      /\ Rows' = Rows \cup {a} /\ a \notin Rows
      /\ \A b \in Rows : email'[b] = email[b] /\ email[b] # x
      /\ Addressed'
      /\ \A b, d \in Rows' : email'[b] = email'[d] => b = d
      /\ \A p \in Passes : pass[p] = "active" => holder[p] \in Rows
  BY <1>1, <1>2, <1>3, NewRow
<1>6. TypeOK'
  BY <1>2, <1>4, <1>5 DEF TypeOK, CallType, Places
<1>7. PassesKept
  BY <1>2, <1>5 DEF PassesKept, Good
<1>8. CallsInv'
  BY <1>4, <1>7, CallsKept DEF CallOK, At
<1>9. MailInv'
  BY <1>2, <1>7, MailKept
<1>10. HoldsPass'
  <2>1. ActivePasses(a)' = ActivePasses(a) /\ \A b : ActivePasses(b)' = ActivePasses(b)
    BY <1>2 DEF ActivePasses
  <2>2. \A d \in Calls : At(d, "issue") => d # c /\ call'[d] = call[d]
    BY <1>2, <1>4 DEF Alone, At
  <2> QED
    BY <2>1, <2>2, <1>2, <1>4, <1>5 DEF HoldsPass, At, Att
<1>11. AdmittedOnce' /\ Unused'
  BY <1>2 DEF AdmittedOnce, Unused
<1> QED
  BY <1>5, <1>6, <1>8, <1>9, <1>10, <1>11

LEMMA RegisterStep ==
  ASSUME CycleInv, NEW x \in Emails, Register(x) PROVE CycleInv'
<1> USE DEF CycleInv
<1>1. PICK a \in Attendees, p \in Passes :
        /\ row[a] = "none" /\ pass[p] = "none"
        /\ row' = [row EXCEPT ![a] = "row"]
        /\ email' = [email EXCEPT ![a] = x]
        /\ pass' = [pass EXCEPT ![p] = "active"]
        /\ holder' = [holder EXCEPT ![p] = a]
  BY DEF Register
<1>2. /\ ~Registered(x)
      /\ UNCHANGED <<checkIn, call, mailed, admissions, overtaken, stranded>>
  BY DEF Register, historyVars
<1>3. /\ row' \in [Attendees -> {"none", "row", "gone"}]
      /\ email' \in [Attendees -> Emails \cup {NULL}]
      /\ Rows' = Rows \cup {a} /\ a \notin Rows
      /\ \A b \in Rows : email'[b] = email[b] /\ email[b] # x
      /\ Addressed'
      /\ \A b, d \in Rows' : email'[b] = email'[d] => b = d
      /\ \A q \in Passes : pass[q] = "active" => holder[q] \in Rows
  BY <1>1, <1>2, NewRow
<1>4. /\ pass' \in [Passes -> {"none", "active", "revoked", "gone"}]
      /\ holder' \in [Passes -> Attendees \cup {NULL}]
      /\ pass'[p] = "active" /\ holder'[p] = a
      /\ \A q \in Passes \ {p} : pass'[q] = pass[q] /\ holder'[q] = holder[q]
  BY <1>1 DEF TypeOK
<1>5. \A q \in Passes : pass'[q] \in {"active", "revoked"} => holder'[q] \in Rows'
  BY <1>3, <1>4 DEF TypeOK
<1>6. TypeOK'
  BY <1>2, <1>3, <1>4, <1>5 DEF TypeOK
<1>7. PassesKept
  BY <1>1, <1>2, <1>3, <1>4 DEF PassesKept, Good
<1>8. CallsInv'
  BY <1>2, <1>7, CallKept DEF CallsInv
<1>9. MailInv'
  BY <1>2, <1>7, MailKept
<1>10. HoldsPass'
  <2>1. \A b \in Rows : ActivePasses(b) \subseteq ActivePasses(b)'
    BY <1>1, <1>3, <1>4 DEF ActivePasses
  <2>2. p \in ActivePasses(a)'
    BY <1>4 DEF ActivePasses
  <2> QED
    BY <2>1, <2>2, <1>2, <1>3 DEF HoldsPass, At, Att
<1>11. AdmittedOnce'
  <2>1. admissions[p] = 0 /\ ~checkIn[p]
    BY <1>1 DEF Unused
  <2> QED
    BY <2>1, <1>2, <1>4 DEF AdmittedOnce
<1>12. Unused'
  BY <1>2, <1>4 DEF Unused
<1> QED
  BY <1>3, <1>6, <1>8, <1>9, <1>10, <1>11, <1>12

-------------------------------------------------------------------------------
(* The passes change *)

LEMMA IssueStep ==
  ASSUME CycleInv, NEW c \in Calls, Issue(c) PROVE CycleInv'
<1> USE DEF CycleInv
<1>1. PICK p \in Passes :
        /\ pass[p] = "none"
        /\ pass' = [pass EXCEPT ![p] = "active"]
        /\ holder' = [holder EXCEPT ![p] = Att(c)]
        /\ call' = [call EXCEPT ![c].at = "render", ![c].pas = p]
        /\ overtaken' = overtaken \cup
                          (IF call[c].read = email[Att(c)] THEN {} ELSE {p})
  BY DEF Issue
<1>2. /\ At(c, "issue") /\ Att(c) \in Rows
      /\ UNCHANGED <<row, email, checkIn, mailed, admissions, stranded>>
  BY DEF Issue, HolderExists, personVars
<1>3. PICK a \in Rows, x \in Emails : a = Att(c) /\ x = call[c].read
  BY <1>2 DEF CallsInv, CallOK
<1>4. /\ call' \in [Calls -> CallType] /\ Alone(c) /\ At(c, "render")'
      /\ Pas(c)' = p /\ call'[c].read = x
  BY <1>1, <1>3, IssuedEffect
<1>5. /\ pass' \in [Passes -> {"none", "active", "revoked", "gone"}]
      /\ holder' \in [Passes -> Attendees \cup {NULL}]
      /\ pass'[p] = "active" /\ holder'[p] = a
      /\ \A q \in Passes \ {p} : pass'[q] = pass[q] /\ holder'[q] = holder[q]
  BY <1>1, <1>3 DEF TypeOK, Rows
<1>6. Rows' = Rows
  BY <1>2 DEF Rows
<1>7. /\ overtaken' \in SUBSET Passes /\ overtaken \subseteq overtaken'
      /\ email[a] = x \/ p \in overtaken'
  BY <1>1, <1>3 DEF TypeOK
<1>8. \A q \in Passes : pass'[q] \in {"active", "revoked"} => holder'[q] \in Rows'
  BY <1>3, <1>5, <1>6 DEF TypeOK
<1>9. TypeOK'
  BY <1>2, <1>4, <1>5, <1>6, <1>7, <1>8 DEF TypeOK, CallType, Places
<1>10. PassesKept
  BY <1>1, <1>2, <1>5, <1>7 DEF PassesKept, Good
<1>11. Good(p, x)'
  BY <1>2, <1>5, <1>7 DEF Good
<1>12. CallOK(c)'
  <2>1. Good(Pas(c), call[c].read)'
    BY <1>4, <1>11 DEF Good, Pas
  <2> QED
    BY <1>4, <2>1 DEF CallOK, At
<1>13. CallsInv' /\ MailInv'
  BY <1>2, <1>4, <1>10, <1>12, CallsKept, MailKept
<1>14. HoldsPass'
  <2>1. \A b \in Rows : ActivePasses(b) \subseteq ActivePasses(b)'
    BY <1>1, <1>3, <1>5 DEF ActivePasses
  <2>2. p \in ActivePasses(a)'
    BY <1>5 DEF ActivePasses
  <2>3. \A b \in Rows, d \in Calls : At(d, "issue") /\ Att(d) = b /\ b # a =>
          At(d, "issue")' /\ Att(d)' = b
    BY <1>3, <1>4 DEF Alone, At, Att
  <2>4. ASSUME NEW b \in Rows
        PROVE  \/ ActivePasses(b)' # {} \/ b \in stranded'
               \/ \E d \in Calls : At(d, "issue")' /\ Att(d)' = b
    <3>1. CASE b = a
      BY <2>2, <3>1
    <3>2. CASE b # a
      BY <2>1, <2>3, <3>2, <1>2 DEF HoldsPass
    <3> QED
      BY <3>1, <3>2
  <2> QED
    BY <2>4, <1>6 DEF HoldsPass
<1>15. AdmittedOnce'
  <2>1. admissions[p] = 0 /\ ~checkIn[p]
    BY <1>1 DEF Unused
  <2> QED
    BY <2>1, <1>2, <1>5 DEF AdmittedOnce
<1>16. Unused' /\ Addressed'
  BY <1>2, <1>5, <1>6 DEF Unused, Addressed
<1> QED
  BY <1>9, <1>13, <1>14, <1>15, <1>16

LEMMA AdmitStep ==
  ASSUME CycleInv, NEW c \in Calls, Admit(c) PROVE CycleInv'
<1> USE DEF CycleInv
<1>1. /\ At(c, "admit") /\ End(c) /\ Admissible(Pas(c))
      /\ UNCHANGED <<row, email, pass, holder, mailed, overtaken, stranded>>
  BY DEF Admit, personVars
<1>2. PICK p \in Passes : p = Pas(c) /\ pass[p] # "none"
  BY <1>1 DEF CallsInv, CallOK
<1>3. /\ checkIn' = [checkIn EXCEPT ![p] = TRUE]
      /\ admissions' = [admissions EXCEPT ![p] = admissions[p] + 1]
  BY <1>2 DEF Admit
<1>4. pass[p] \in {"active", "revoked"} /\ ~checkIn[p]
  BY <1>1, <1>2 DEF Admissible, TypeOK
<1>5. admissions[p] = 0
  BY <1>4 DEF AdmittedOnce, TypeOK
<1>6. call' \in [Calls -> CallType] /\ Alone(c) /\ At(c, "idle")'
  BY <1>1, EndEffect
<1>7. Rows' = Rows /\ \A a : ActivePasses(a)' = ActivePasses(a)
  BY <1>1 DEF Rows, ActivePasses
<1>8. /\ checkIn' \in [Passes -> BOOLEAN] /\ admissions' \in [Passes -> Nat]
      /\ checkIn'[p] /\ admissions'[p] = 1
      /\ \A q \in Passes \ {p} : checkIn'[q] = checkIn[q] /\ admissions'[q] = admissions[q]
  BY <1>3, <1>5 DEF TypeOK
<1>9. TypeOK'
  BY <1>1, <1>6, <1>7, <1>8 DEF TypeOK, CallType, Places
<1>10. PassesKept
  BY <1>1 DEF PassesKept, Good
<1>11. CallsInv' /\ MailInv'
  BY <1>1, <1>6, <1>10, CallsKept, MailKept DEF CallOK, At
<1>12. HoldsPass'
  BY <1>1, <1>6, <1>7 DEF HoldsPass, Alone, At, Att
<1>13. AdmittedOnce'
  BY <1>1, <1>8 DEF AdmittedOnce
<1>14. Unused' /\ Addressed'
  BY <1>1, <1>2, <1>7, <1>8 DEF Unused, Addressed
<1> QED
  BY <1>9, <1>11, <1>12, <1>13, <1>14

(* Attendee a, who is there, gets address x, which no other row has.       *)
LEMMA NewAddress ==
  ASSUME CycleInv, NEW a \in Rows, NEW x \in Emails,
         \A b \in Rows \ {a} : email[b] # x,
         row' = row, email' = [email EXCEPT ![a] = x]
  PROVE  /\ Rows' = Rows /\ Addressed'
         /\ email' \in [Attendees -> Emails \cup {NULL}]
         /\ email'[a] = x /\ \A b \in Attendees \ {a} : email'[b] = email[b]
         /\ \A b, d \in Rows' : email'[b] = email'[d] => b = d
BY DEF CycleInv, TypeOK, Rows, Addressed

LEMMA ChangeAddressStep ==
  ASSUME CycleInv, NEW c \in Calls, ChangeAddress(c) PROVE CycleInv'
<1> USE DEF CycleInv
<1>1. /\ At(c, "write") /\ Writable(c) /\ End(c)
      /\ UNCHANGED <<row, checkIn, mailed, admissions, overtaken, stranded>>
  BY DEF ChangeAddress, historyVars
<1>2. PICK a \in Rows, x \in Emails : a = Att(c) /\ x = call[c].new
  BY <1>1 DEF CallsInv, CallOK, Writable
<1>3. email' = [email EXCEPT ![a] = x] /\ \A b \in Rows \ {a} : email[b] # x
  BY <1>1, <1>2 DEF ChangeAddress, Writable
<1>4. PICK p \in Passes :
        pass[p] = "none" /\ RevokeAndIssue(a, p) /\ holder' = [holder EXCEPT ![p] = a]
  BY <1>2 DEF ChangeAddress
<1>5. call' \in [Calls -> CallType] /\ Alone(c) /\ At(c, "idle")'
  BY <1>1, EndEffect
<1>6. /\ Rows' = Rows /\ Addressed'
      /\ email' \in [Attendees -> Emails \cup {NULL}]
      /\ email'[a] = x /\ \A b \in Attendees \ {a} : email'[b] = email[b]
      /\ \A b, d \in Rows' : email'[b] = email'[d] => b = d
  BY <1>1, <1>3, NewAddress
<1>7. /\ pass' \in [Passes -> {"none", "active", "revoked", "gone"}]
      /\ holder' \in [Passes -> Attendees \cup {NULL}]
      /\ pass'[p] = "active" /\ holder'[p] = a
      /\ \A q \in Passes \ {p} :
           /\ holder'[q] = holder[q]
           /\ pass'[q] = pass[q] \/ (pass[q] = "active" /\ pass'[q] = "revoked")
           /\ pass'[q] = "active" <=> pass[q] = "active" /\ holder[q] # a
  BY <1>4 DEF RevokeAndIssue, ActivePasses, TypeOK, Rows
<1>8. \A q \in Passes : pass'[q] \in {"active", "revoked"} => holder'[q] \in Rows'
  BY <1>6, <1>7 DEF TypeOK
<1>9. TypeOK'
  BY <1>1, <1>5, <1>6, <1>7, <1>8 DEF TypeOK, CallType, Places
<1>10. PassesKept
  <2>1. \A q \in Passes : pass[q] = "active" => holder[q] \in Attendees
    BY DEF TypeOK, Rows
  <2> QED
    BY <2>1, <1>1, <1>4, <1>6, <1>7 DEF PassesKept, Good
<1>11. CallsInv' /\ MailInv'
  BY <1>1, <1>5, <1>10, CallsKept, MailKept DEF CallOK, At
<1>12. HoldsPass'
  <2>1. \A b \in Rows \ {a} : ActivePasses(b) \subseteq ActivePasses(b)'
    BY <1>4, <1>7 DEF ActivePasses
  <2>2. p \in ActivePasses(a)'
    BY <1>7 DEF ActivePasses
  <2>3. \A d \in Calls : At(d, "issue") => At(d, "issue")' /\ Att(d)' = Att(d)
    BY <1>1, <1>5 DEF Alone, At, Att
  <2> QED
    BY <2>1, <2>2, <2>3, <1>1, <1>6 DEF HoldsPass
<1>13. AdmittedOnce'
  <2>1. admissions[p] = 0 /\ ~checkIn[p]
    BY <1>4 DEF Unused
  <2> QED
    BY <2>1, <1>1, <1>7 DEF AdmittedOnce
<1>14. Unused'
  BY <1>1, <1>7 DEF Unused
<1> QED
  BY <1>6, <1>9, <1>11, <1>12, <1>13, <1>14

LEMMA KeepAddressStep ==
  ASSUME CycleInv, NEW c \in Calls, KeepAddress(c) PROVE CycleInv'
<1> USE DEF CycleInv
<1>1. /\ At(c, "write") /\ Writable(c) /\ End(c) /\ call[c].new = call[c].read
      /\ UNCHANGED <<row, pass, holder, checkIn, mailed, admissions, stranded>>
  BY DEF KeepAddress, passVars
<1>2. PICK a \in Rows, x \in Emails : a = Att(c) /\ x = call[c].new
  BY <1>1 DEF CallsInv, CallOK, Writable
<1>3. /\ email' = [email EXCEPT ![a] = x] /\ \A b \in Rows \ {a} : email[b] # x
      /\ overtaken' = overtaken \cup (IF x = email[a] THEN {} ELSE ActivePasses(a))
  BY <1>1, <1>2 DEF KeepAddress, Writable
<1>4. call' \in [Calls -> CallType] /\ Alone(c) /\ At(c, "idle")'
  BY <1>1, EndEffect
<1>5. /\ Rows' = Rows /\ Addressed'
      /\ email' \in [Attendees -> Emails \cup {NULL}]
      /\ email'[a] = x /\ \A b \in Attendees \ {a} : email'[b] = email[b]
      /\ \A b, d \in Rows' : email'[b] = email'[d] => b = d
  BY <1>1, <1>3, NewAddress
<1>6. overtaken' \in SUBSET Passes /\ overtaken \subseteq overtaken'
  BY <1>3 DEF TypeOK, ActivePasses
<1>7. TypeOK'
  BY <1>1, <1>4, <1>5, <1>6 DEF TypeOK, CallType, Places
<1>8. PassesKept
  <2>1. \A q \in Passes : pass[q] = "active" =>
          /\ holder[q] \in Attendees
          /\ holder[q] = a => q \in overtaken' \/ email'[a] = email[a]
    BY <1>3, <1>5 DEF TypeOK, Rows, ActivePasses
  <2> QED
    BY <2>1, <1>1, <1>5, <1>6 DEF PassesKept, Good
<1>9. CallsInv' /\ MailInv'
  BY <1>1, <1>4, <1>8, CallsKept, MailKept DEF CallOK, At
<1>10. HoldsPass'
  BY <1>1, <1>4, <1>5 DEF HoldsPass, ActivePasses, Alone, At, Att
<1>11. AdmittedOnce' /\ Unused'
  BY <1>1 DEF AdmittedOnce, Unused
<1> QED
  BY <1>5, <1>7, <1>9, <1>10, <1>11

LEMMA RemoveStep ==
  ASSUME CycleInv, NEW a \in Attendees, Remove(a) PROVE CycleInv'
<1> USE DEF CycleInv
<1>1. /\ row' = [row EXCEPT ![a] = "gone"]
      /\ pass' = [p \in Passes |-> IF holder[p] = a THEN "gone" ELSE pass[p]]
      /\ checkIn' = [p \in Passes |-> checkIn[p] /\ holder[p] # a]
      /\ UNCHANGED <<email, holder, call, mailed, admissions, overtaken, stranded>>
  BY DEF Remove, historyVars
<1>2. Rows' = Rows \ {a}
  BY <1>1 DEF Rows, TypeOK
<1>3. \A p \in Passes : IF holder[p] = a THEN pass'[p] = "gone" /\ ~checkIn'[p]
                       ELSE pass'[p] = pass[p] /\ checkIn'[p] = checkIn[p]
  BY <1>1 DEF TypeOK
<1>4. TypeOK'
  <2>1. row' \in [Attendees -> {"none", "row", "gone"}]
    BY <1>1 DEF TypeOK
  <2>2. /\ pass' \in [Passes -> {"none", "active", "revoked", "gone"}]
        /\ checkIn' \in [Passes -> BOOLEAN]
    BY <1>1 DEF TypeOK
  <2>3. \A p \in Passes : pass'[p] \in {"active", "revoked"} => holder'[p] \in Rows'
    BY <1>1, <1>2, <1>3 DEF TypeOK
  <2> QED
    BY <2>1, <2>2, <2>3, <1>1, <1>2 DEF TypeOK
<1>5. PassesKept
  BY <1>1, <1>3 DEF PassesKept, Good
<1>6. CallsInv' /\ MailInv'
  BY <1>1, <1>5, CallKept, MailKept DEF CallsInv
<1>7. HoldsPass'
  <2>1. \A b \in Rows' : ActivePasses(b)' = ActivePasses(b)
    BY <1>1, <1>2, <1>3 DEF ActivePasses
  <2> QED
    BY <2>1, <1>1, <1>2 DEF HoldsPass, At, Att
<1>8. AdmittedOnce' /\ Unused' /\ Addressed'
  BY <1>1, <1>2, <1>3 DEF AdmittedOnce, Unused, Addressed
<1> QED
  BY <1>4, <1>6, <1>7, <1>8

-------------------------------------------------------------------------------
(* The theorems *)

LEMMA NextInv == CycleInv /\ [Next]_vars => CycleInv'
<1> SUFFICES ASSUME CycleInv, [Next]_vars PROVE CycleInv'
  OBVIOUS
<1>1. ASSUME NEW c \in Calls,
             \/ \E e \in Emails : StartCreate(c, e)
             \/ \E a \in Attendees :
                  StartIssue(c, a) \/ \E f \in Emails : StartUpdate(c, a, f)
             \/ \E p \in Passes : Scan(c, p)
      PROVE  CycleInv'
  BY <1>1, BeginStep
<1>2. ASSUME NEW c \in Calls,
             \/ Insert(c) \/ InsertRefused(c) \/ Issue(c) \/ IssueRefused(c)
             \/ Render(c) \/ Mail(c) \/ FindDuplicate(c) \/ ChangeAddress(c)
             \/ KeepAddress(c) \/ WriteRefused(c) \/ Admit(c) \/ AdmitRefused(c)
             \/ Fail(c)
      PROVE  CycleInv'
  BY <1>2, InsertStep, RefusedStep, IssueStep, OnwardStep, MailStep,
     ChangeAddressStep, KeepAddressStep, AdmitStep, FailStep
<1>3. CASE UNCHANGED vars
  <2>1. UNCHANGED <<row, email, pass, holder, checkIn, call, mailed, admissions,
                    overtaken, stranded>>
    BY <1>3 DEF vars, personVars, passVars, historyVars
  <2>2. Rows' = Rows /\ \A a : ActivePasses(a)' = ActivePasses(a)
    BY <2>1 DEF Rows, ActivePasses
  <2> QED
    BY <2>1, <2>2 DEF CycleInv, TypeOK, AdmittedOnce, HoldsPass, Addressed, Unused,
                      MailInv, CallsInv, CallOK, Good, At, Att, Pas
<1> QED
  BY <1>1, <1>2, <1>3, RegisterStep, RemoveStep DEF Next

(* Tables, mailboxes and what calls have read fit together at all times.   *)
LEMMA CycleInvariant == Spec => []CycleInv
BY InitInv, NextInv, PTL DEF Spec

(* The tables keep their keys and references under concurrent requests     *)
(* (schema.prisma: attendees unique by event and email, passes.attendeeId).*)
THEOREM TypeCorrect == Spec => []TypeOK
<1>1. CycleInv => TypeOK
  BY DEF CycleInv
<1> QED
  BY <1>1, CycleInvariant, PTL

(* checkIn (check-in.service.ts) admits a pass once, whatever scanners and *)
(* deletions are under way.                                                *)
THEOREM NeverAdmittedTwice == Spec => []AdmittedOnce
<1>1. CycleInv => AdmittedOnce
  BY DEF CycleInv
<1> QED
  BY <1>1, CycleInvariant, PTL

(* An active QR code that was mailed is the current holder's, unless an    *)
(* update or a createPass was overtaken (update of attendees.service.ts).  *)
THEOREM MailIsCurrent == Spec => []MailedToHolder
<1>1. CycleInv => MailedToHolder
  BY DEF CycleInv, MailInv, Good, MailedToHolder
<1> QED
  BY <1>1, CycleInvariant, PTL

(* update, remove and createPass never leave an attendee without an active *)
(* pass; only a create that ends early does.                               *)
THEOREM AttendeesHoldPasses == Spec => []HoldsPass
<1>1. CycleInv => HoldsPass
  BY DEF CycleInv
<1> QED
  BY <1>1, CycleInvariant, PTL

(* An old QR code never opens the door again: a pass that was revoked or   *)
(* deleted is never made active (RevokeAndIssue issues a fresh one).       *)
THEOREM RevokedForGood ==
  Spec => [][\A p \in Passes : pass[p] \in {"revoked", "gone"} =>
                                 pass'[p] \in {"revoked", "gone"}]_vars
<1> DEFINE Over == \A p \in Passes : pass[p] \in {"revoked", "gone"} =>
                                       pass'[p] \in {"revoked", "gone"}
<1>1. ASSUME TypeOK, Next PROVE Over
  <2>1. ASSUME NEW a \in Attendees, Remove(a) PROVE Over
    BY <2>1 DEF Remove
  <2>2. ASSUME NEW e \in Emails, Register(e) PROVE Over
    BY <1>1, <2>2 DEF Register, TypeOK
  <2>3. ASSUME NEW c \in Calls, Issue(c) PROVE Over
    BY <1>1, <2>3 DEF Issue, TypeOK
  <2>4. ASSUME NEW c \in Calls, ChangeAddress(c) PROVE Over
    BY <1>1, <2>4 DEF ChangeAddress, RevokeAndIssue, TypeOK
  <2>5. CASE UNCHANGED pass
    BY <2>5
  <2> QED
    BY <1>1, <2>1, <2>2, <2>3, <2>4, <2>5
       DEF Next, StartCreate, StartIssue, StartUpdate, Scan, Insert, InsertRefused,
           IssueRefused, Render, Mail, FindDuplicate, KeepAddress, WriteRefused,
           Admit, AdmitRefused, Fail, passVars
<1> QED
  BY <1>1, TypeCorrect, PTL DEF Spec

-------------------------------------------------------------------------------
(* The attendees of OrderStore.  There the organizer's requests are three  *)
(* statements, which register, remove and change an address at any moment. *)
(* With the orders and tiers left out, PassCycle implements them.          *)

Addresses == {email[a] : a \in Rows}
Nothing == [x \in {} |-> NULL]

Store == INSTANCE OrderStore WITH
           Orders <- {}, Tiers <- {}, Quantities <- {},
           quantity <- Nothing, reserved <- Nothing, sold <- Nothing,
           onSale <- Nothing, status <- Nothing, tier <- Nothing,
           seats <- Nothing, primary <- Nothing, activeKey <- Nothing,
           url <- Nothing, lease <- Nothing, expired <- Nothing,
           attendees <- Addresses, passes <- {}

LEMMA Untouched ==
  /\ UNCHANGED Store!tierVars /\ UNCHANGED Store!orderVars
  /\ Addresses' = Addresses => UNCHANGED Store!storeVars
BY DEF Store!tierVars, Store!orderVars, Store!guestVars, Store!storeVars, Nothing

LEMMA StoreInit == Init => Store!Init
BY DEF Init, Store!Init, Nothing, Addresses, Rows

(* A new row with an address that nobody has is a registration.            *)
LEMMA AddedIsRegistered ==
  ASSUME CycleInv, NEW a \in Attendees, row[a] = "none", NEW e \in Emails,
         ~Registered(e),
         row' = [row EXCEPT ![a] = "row"], email' = [email EXCEPT ![a] = e]
  PROVE  Store!RegisterAttendee(e)
<1>1. Rows' = Rows \cup {a} /\ a \notin Rows
  BY DEF CycleInv, TypeOK, Rows
<1>2. email'[a] = e /\ \A b \in Rows : email'[b] = email[b]
  BY <1>1 DEF CycleInv, TypeOK, Rows
<1>3. Addresses' = Addresses \cup {e}
  BY <1>1, <1>2 DEF Addresses
<1>4. e \notin Addresses
  BY DEF Addresses, Registered
<1> QED
  BY <1>3, <1>4, Untouched DEF Store!RegisterAttendee

(* A call that writes another address than the row has changes it, whether *)
(* or not that is the one it has read; else it changes nothing.            *)
LEMMA WrittenIsChanged ==
  ASSUME CycleInv, NEW c \in Calls, At(c, "write"), Writable(c),
         email' = [email EXCEPT ![Att(c)] = call[c].new], row' = row
  PROVE  \/ UNCHANGED Store!storeVars
         \/ \E e, f \in Emails : Store!ChangeEmail(e, f)
<1> DEFINE a == Att(c)
           e == email[a]
           f == call[c].new
<1>1. a \in Rows /\ a \in Attendees /\ f \in Emails /\ e \in Emails /\ Rows' = Rows
  BY DEF Writable, CycleInv, CallsInv, CallOK, Addressed, Rows
<1>2. email'[a] = f /\ \A b \in Rows \ {a} : email'[b] = email[b] /\ email[b] # f
  BY <1>1 DEF Writable, CycleInv, TypeOK, Rows
<1>3. CASE e = f
  <2>1. Addresses' = Addresses
    BY <1>1, <1>2, <1>3 DEF Addresses
  <2> QED
    BY <2>1, Untouched
<1>4. CASE e # f
  <2>1. \A b \in Rows \ {a} : email[b] # e
    BY <1>1 DEF CycleInv, TypeOK
  <2>2. Addresses' = (Addresses \ {e}) \cup {f}
    BY <1>1, <1>2, <2>1 DEF Addresses
  <2>3. e \in Addresses /\ f \notin Addresses
    BY <1>1, <1>2, <1>4 DEF Addresses
  <2>4. Store!ChangeEmail(e, f)
    BY <2>2, <2>3, Untouched DEF Store!ChangeEmail, Store!PassesOf
  <2> QED
    BY <1>1, <2>4
<1> QED
  BY <1>3, <1>4

LEMMA DeletedIsRemoved ==
  ASSUME CycleInv, NEW a \in Attendees, Remove(a)
  PROVE  \E e \in Emails : Store!RemoveAttendee(e)
<1>1. a \in Rows /\ Rows' = Rows \ {a} /\ email' = email /\ email[a] \in Emails
  BY DEF Remove, CycleInv, TypeOK, Addressed, Rows
<1>2. \A b \in Rows \ {a} : email[b] # email[a]
  BY <1>1 DEF CycleInv, TypeOK
<1>3. Addresses' = Addresses \ {email[a]} /\ email[a] \in Addresses
  BY <1>1, <1>2 DEF Addresses
<1>4. Store!RemoveAttendee(email[a])
  BY <1>3, Untouched DEF Store!RemoveAttendee, Store!PassesOf
<1> QED
  BY <1>1, <1>4

(* create, createPass, update, remove, importCsv and checkIn, with any     *)
(* number of them in progress, change the registered addresses only as     *)
(* OrderStore's RegisterAttendee, RemoveAttendee and ChangeEmail do, even  *)
(* when a call writes back an address that was changed since it read it.   *)
THEOREM RequestsAreStatements == Spec => Store!Spec
<1>1. ASSUME CycleInv, [Next]_vars PROVE [Store!Next]_(Store!storeVars)
  <2>1. \A e \in Emails : Store!RegisterAttendee(e) => Store!Next
    BY DEF Store!Next, Store!GuestNext
  <2>2. \A e \in Emails : Store!RemoveAttendee(e) => Store!Next
    BY DEF Store!Next, Store!GuestNext
  <2>3. \A e, f \in Emails : Store!ChangeEmail(e, f) => Store!Next
    BY DEF Store!Next, Store!GuestNext
  <2>4. ASSUME UNCHANGED personVars PROVE UNCHANGED Store!storeVars
    <3>1. Addresses' = Addresses
      BY <2>4 DEF personVars, Addresses, Rows
    <3> QED
      BY <3>1, Untouched
  <2>5. ASSUME NEW c \in Calls, Insert(c) PROVE Store!Next
    <3>1. call[c].read \in Emails
      BY <1>1, <2>5 DEF Insert, CycleInv, CallsInv, CallOK
    <3>2. PICK a \in Attendees :
            /\ row[a] = "none" /\ row' = [row EXCEPT ![a] = "row"]
            /\ email' = [email EXCEPT ![a] = call[c].read]
      BY <2>5 DEF Insert
    <3> QED
      BY <1>1, <2>1, <2>5, <3>1, <3>2, AddedIsRegistered DEF Insert
  <2>6. ASSUME NEW e \in Emails, Register(e) PROVE Store!Next
    BY <1>1, <2>1, <2>6, AddedIsRegistered DEF Register
  <2>7. ASSUME NEW c \in Calls, ChangeAddress(c) \/ KeepAddress(c)
        PROVE  [Store!Next]_(Store!storeVars)
    BY <1>1, <2>3, <2>7, WrittenIsChanged DEF ChangeAddress, KeepAddress
  <2>8. ASSUME NEW a \in Attendees, Remove(a) PROVE Store!Next
    BY <1>1, <2>2, <2>8, DeletedIsRemoved
  <2>9. CASE UNCHANGED vars
    BY <2>4, <2>9 DEF vars
  <2> QED
    BY <1>1, <2>4, <2>5, <2>6, <2>7, <2>8, <2>9
       DEF Next, StartCreate, StartIssue, StartUpdate, Scan, InsertRefused, Issue,
           IssueRefused, Render, Mail, FindDuplicate, WriteRefused, Admit,
           AdmitRefused, Fail
<1> QED
  BY <1>1, StoreInit, CycleInvariant, PTL DEF Spec, Store!Spec
===============================================================================
