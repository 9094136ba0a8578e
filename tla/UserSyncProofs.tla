---------------------------- MODULE UserSyncProofs -----------------------------
(***************************************************************************)
(* Proofs about UserSync, for any number of accounts, addresses and        *)
(* sign-ins in progress.                                                   *)
(***************************************************************************)
EXTENDS UserSync, FiniteSetTheorems, TLAPS

Places == {"idle", "upsert", "findOrg", "createOrg"}

CallType == [at : Places, acc : Accounts \cup {NULL}, email : Emails \cup {NULL}]

(* A call under way knows an account and an address, and its user is       *)
(* written before it looks for an organization.                            *)
CallOK(c) ==
  /\ ~At(c, "idle") => Acc(c) \in Accounts /\ call[c].email \in Emails
  /\ At(c, "findOrg") \/ At(c, "createOrg") => user[Acc(c)] # NULL

(* Supabase gives an open account an address of its own ... *)
SupabaseInv ==
  /\ \A a \in Accounts : Open(a) => address[a] \in Emails
  /\ \A a, b \in Accounts : Open(a) /\ Open(b) /\ address[a] = address[b] => a = b

(* ... which the user's row has, unless it is behind. *)
MirrorInv ==
  \A a \in Accounts : user[a] # NULL /\ a \notin behind => Open(a) /\ address[a] = user[a]

SyncInv ==
  /\ TypeOK /\ SignedInReady /\ SupabaseInv /\ MirrorInv
  /\ \A c \in Calls : CallOK(c)

LEMMA InitInv == Init => SyncInv
BY UserSyncAssumption
   DEF Init, Idle, SyncInv, TypeOK, SignedInReady, SupabaseInv, MirrorInv, CallOK,
       At, Acc, Open

-------------------------------------------------------------------------------
(* What the steps of a call do to it *)

Alone(c) == \A d \in Calls \ {c} : call'[d] = call[d]

LEMMA GoEffect ==
  ASSUME TypeOK, NEW c \in Calls, NEW place \in Places, Go(c, place)
  PROVE  /\ call' \in [Calls -> CallType] /\ Alone(c)
         /\ At(c, place)' /\ Acc(c)' = Acc(c) /\ call'[c].email = call[c].email
BY DEF TypeOK, CallType, Places, Go, Alone, At, Acc

LEMMA EndEffect ==
  ASSUME TypeOK, NEW c \in Calls, End(c)
  PROVE  call' \in [Calls -> CallType] /\ Alone(c) /\ At(c, "idle")'
BY DEF TypeOK, CallType, Places, End, Idle, Alone, At

LEMMA BeginEffect ==
  ASSUME TypeOK, NEW c \in Calls, NEW a \in Accounts, NEW e \in Emails, Begin(c, a, e)
  PROVE  /\ call' \in [Calls -> CallType] /\ Alone(c)
         /\ At(c, "upsert")' /\ Acc(c)' = a /\ call'[c].email = e
BY DEF TypeOK, CallType, Places, Begin, Alone, At, Acc

(* The calls keep what they know when one of them goes on, and users are   *)
(* never unwritten.                                                        *)
LEMMA CallsKept ==
  ASSUME SyncInv, NEW c \in Calls, Alone(c), CallOK(c)',
         \A a \in Accounts : user[a] # NULL => user'[a] # NULL
  PROVE  \A d \in Calls : CallOK(d)'
<1>1. \A d \in Calls : d # c => call'[d] = call[d]
  BY DEF Alone
<1> QED
  BY <1>1 DEF SyncInv, CallOK, At, Acc

-------------------------------------------------------------------------------
(* Supabase's own steps *)

LEMMA SignedUpEffect ==
  ASSUME SyncInv, NEW a \in Accounts, NEW e \in Emails,
         NEW state \in {"unconfirmed", "confirmed"}, SignedUp(a, e, state)
  PROVE  /\ account' \in [Accounts -> {"none", "unconfirmed", "confirmed", "gone"}]
         /\ address' \in [Accounts -> Emails \cup {NULL}]
         /\ SupabaseInv'
         /\ UNCHANGED <<user, behind>> => MirrorInv'
<1> USE DEF SyncInv, TypeOK, Open
<1>1. /\ account[a] = "none" /\ ~Taken(e)
      /\ account' = [account EXCEPT ![a] = state]
      /\ address' = [address EXCEPT ![a] = e]
  BY DEF SignedUp
<1>2. \A b \in Accounts : b # a => (Open(b)' <=> Open(b)) /\ address'[b] = address[b]
  BY <1>1
<1>3. Open(a)' /\ address'[a] = e /\ ~Open(a)
  BY <1>1
<1>4. SupabaseInv'
  BY <1>1, <1>2, <1>3 DEF SupabaseInv, Taken
<1>5. UNCHANGED <<user, behind>> => MirrorInv'
  BY <1>2, <1>3 DEF MirrorInv
<1> QED
  BY <1>1, <1>4, <1>5

LEMMA SupabaseStep ==
  ASSUME SyncInv, NEW a \in Accounts, NEW e \in Emails,
         SignUpElsewhere(a, e) \/ MoveAddress(a, e)
           \/ \E c \in Calls : RegisterUnconfirmed(c, a, e)
  PROVE  SyncInv'
<1> USE DEF SyncInv
<1>1. CASE SignUpElsewhere(a, e) \/ \E c \in Calls : RegisterUnconfirmed(c, a, e)
  <2>1. PICK state \in {"unconfirmed", "confirmed"} : SignedUp(a, e, state)
    BY <1>1 DEF SignUpElsewhere, RegisterUnconfirmed
  <2>2. UNCHANGED <<user, orgs, call, returned, behind>>
    BY <1>1 DEF SignUpElsewhere, RegisterUnconfirmed
  <2> QED
    BY <2>1, <2>2, SignedUpEffect
       DEF TypeOK, SignedInReady, CallOK, At, Acc
<1>2. CASE MoveAddress(a, e)
  <2> USE <1>2 DEF MoveAddress, TypeOK, Open
  <2>1. SupabaseInv'
    BY DEF SupabaseInv, Taken
  <2>2. MirrorInv'
    BY DEF MirrorInv
  <2> QED
    BY <2>1, <2>2 DEF SignedInReady, CallOK, At, Acc
<1> QED
  BY <1>1, <1>2

LEMMA DeleteStep ==
  ASSUME SyncInv, NEW a \in Accounts, DeleteAccount(a) PROVE SyncInv'
<1> USE DEF SyncInv, DeleteAccount, TypeOK, Open
<1>1. SupabaseInv' /\ MirrorInv'
  BY DEF SupabaseInv, MirrorInv
<1> QED
  BY <1>1 DEF SignedInReady, CallOK, At, Acc

-------------------------------------------------------------------------------
(* The steps of a sign-in *)

LEMMA RegisterStep ==
  ASSUME SyncInv, NEW c \in Calls, NEW a \in Accounts, NEW e \in Emails,
         RegisterConfirmed(c, a, e)
  PROVE  SyncInv'
<1> USE DEF SyncInv
<1>1. /\ SignedUp(a, e, "confirmed") /\ Begin(c, a, e)
      /\ UNCHANGED <<user, orgs, returned, behind>>
  BY DEF RegisterConfirmed
<1>2. /\ call' \in [Calls -> CallType] /\ Alone(c)
      /\ At(c, "upsert")' /\ Acc(c)' = a /\ call'[c].email = e
  BY <1>1, BeginEffect
<1>3. \A d \in Calls : CallOK(d)'
  BY <1>1, <1>2, CallsKept DEF CallOK, At
<1> QED
  BY <1>1, <1>2, <1>3, SignedUpEffect DEF TypeOK, CallType, Places, SignedInReady

LEMMA SignInStep ==
  ASSUME SyncInv, NEW c \in Calls, NEW a \in Accounts, VerifyEmail(c, a) \/ SignIn(c, a)
  PROVE  SyncInv'
<1> USE DEF SyncInv
<1>1. /\ Begin(c, a, address[a]) /\ Open(a) /\ UNCHANGED <<address, user, orgs, returned, behind>>
      /\ account' \in [Accounts -> {"none", "unconfirmed", "confirmed", "gone"}]
      /\ \A b \in Accounts : Open(b)' <=> Open(b)
  BY DEF VerifyEmail, SignIn, supabaseVars, TypeOK, Open
<1>2. address[a] \in Emails
  BY <1>1 DEF SupabaseInv
<1>3. /\ call' \in [Calls -> CallType] /\ Alone(c)
      /\ At(c, "upsert")' /\ Acc(c)' = a /\ call'[c].email = address[a]
  BY <1>1, <1>2, BeginEffect
<1>4. \A d \in Calls : CallOK(d)'
  BY <1>1, <1>2, <1>3, CallsKept DEF CallOK, At
<1>5. SupabaseInv' /\ MirrorInv'
  BY <1>1 DEF SupabaseInv, MirrorInv
<1> QED
  BY <1>1, <1>3, <1>4, <1>5 DEF TypeOK, CallType, Places, SignedInReady

LEMMA UpsertStep ==
  ASSUME SyncInv, NEW c \in Calls, Upsert(c) PROVE SyncInv'
<1> USE DEF SyncInv
<1>1. At(c, "upsert") /\ Acc(c) \in Accounts /\ call[c].email \in Emails
  BY DEF Upsert, CallOK, At
<1>2. PICK a \in Accounts, e \in Emails : a = Acc(c) /\ e = call[c].email
  BY <1>1
<1>3. /\ EmailFree(a, e) /\ user' = [user EXCEPT ![a] = e]
      /\ behind' = IF Open(a) /\ address[a] = e THEN behind \ {a} ELSE behind \cup {a}
      /\ Go(c, "findOrg") /\ UNCHANGED <<account, address, orgs, returned>>
  BY <1>2 DEF Upsert, WriteUser, supabaseVars
<1>4. /\ call' \in [Calls -> CallType] /\ Alone(c)
      /\ At(c, "findOrg")' /\ Acc(c)' = a /\ call'[c].email = e
  BY <1>2, <1>3, GoEffect DEF Places
<1>5. e # NULL
  BY UserSyncAssumption
<1>6. /\ user' \in [Accounts -> Emails \cup {NULL}]
      /\ user'[a] = e /\ \A b \in Accounts \ {a} : user'[b] = user[b] /\ user[b] # e
  BY <1>3 DEF TypeOK, EmailFree
<1>7. behind' \in SUBSET Accounts
  BY <1>3 DEF TypeOK
<1>8. \A x, y \in Accounts : user'[x] = user'[y] /\ user'[x] # NULL => x = y
  BY <1>6 DEF TypeOK
<1>9. TypeOK'
  BY <1>3, <1>4, <1>6, <1>7, <1>8 DEF TypeOK, CallType, Places
<1>10. \A d \in Calls : CallOK(d)'
  BY <1>2, <1>4, <1>5, <1>6, CallsKept DEF CallOK
<1>11. MirrorInv'
  BY <1>3, <1>6 DEF MirrorInv, Open
<1>12. SupabaseInv' /\ SignedInReady'
  BY <1>3, <1>5, <1>6 DEF SupabaseInv, SignedInReady, Open, TypeOK
<1> QED
  BY <1>9, <1>10, <1>11, <1>12

LEMMA RestStep ==
  ASSUME SyncInv, NEW c \in Calls,
         UpsertRefused(c) \/ OrgFound(c) \/ OrgMissing(c) \/ CreateOrg(c) \/ Fail(c)
  PROVE  SyncInv'
<1> USE DEF SyncInv
<1>1. UNCHANGED <<account, address, user, behind>>
  BY DEF UpsertRefused, OrgFound, OrgMissing, CreateOrg, Fail, supabaseVars
<1>2. /\ call' \in [Calls -> CallType] /\ Alone(c)
      /\ \/ At(c, "idle")'
         \/ At(c, "createOrg")' /\ Acc(c)' = Acc(c) /\ call'[c].email = call[c].email
              /\ At(c, "findOrg")
  BY GoEffect, EndEffect
     DEF UpsertRefused, OrgFound, OrgMissing, CreateOrg, Fail, Places
<1>3. CallOK(c)'
  BY <1>1, <1>2 DEF CallOK, At
<1>4. \A d \in Calls : CallOK(d)'
  BY <1>1, <1>2, <1>3, CallsKept
<1>5. SupabaseInv' /\ MirrorInv'
  BY <1>1 DEF SupabaseInv, MirrorInv, Open
<1>6. CASE UNCHANGED <<orgs, returned>>
  BY <1>1, <1>2, <1>4, <1>5, <1>6 DEF TypeOK, CallType, Places, SignedInReady
<1>7. CASE OrgFound(c) \/ CreateOrg(c)
  <2>1. Acc(c) \in Accounts /\ user[Acc(c)] # NULL
    BY <1>7 DEF OrgFound, CreateOrg, CallOK, At
  <2>2. orgs' \in [Accounts -> Nat] /\ \A a \in Accounts : orgs'[a] >= orgs[a]
    BY <1>7, <2>1 DEF OrgFound, CreateOrg, TypeOK
  <2>3. returned' = returned \cup {Acc(c)} /\ orgs'[Acc(c)] >= 1
    BY <1>7, <2>1 DEF OrgFound, CreateOrg, TypeOK, Owns
  <2>4. SignedInReady'
    BY <2>1, <2>2, <2>3, <1>1 DEF SignedInReady, TypeOK
  <2> QED
    BY <1>1, <1>2, <1>4, <1>5, <2>1, <2>2, <2>3, <2>4 DEF TypeOK, CallType, Places
<1> QED
  BY <1>6, <1>7 DEF UpsertRefused, OrgMissing, Fail

LEMMA NextInv == SyncInv /\ [Next]_vars => SyncInv'
<1> SUFFICES ASSUME SyncInv, [Next]_vars PROVE SyncInv'
  OBVIOUS
<1>1. CASE UNCHANGED vars
  BY <1>1 DEF SyncInv, TypeOK, SignedInReady, SupabaseInv, MirrorInv, CallOK, At, Acc,
              Open, vars, supabaseVars
<1>2. CASE Next
  <2>1. ASSUME NEW a \in Accounts, NEW e \in Emails, NEW c \in Calls,
               RegisterConfirmed(c, a, e)
        PROVE  SyncInv'
    BY <2>1, RegisterStep
  <2>2. ASSUME NEW a \in Accounts, NEW e \in Emails,
               SignUpElsewhere(a, e) \/ MoveAddress(a, e)
                 \/ \E c \in Calls : RegisterUnconfirmed(c, a, e)
        PROVE  SyncInv'
    BY <2>2, SupabaseStep
  <2>3. ASSUME NEW a \in Accounts, DeleteAccount(a) PROVE SyncInv'
    BY <2>3, DeleteStep
  <2>4. ASSUME NEW a \in Accounts, NEW c \in Calls, VerifyEmail(c, a) \/ SignIn(c, a)
        PROVE  SyncInv'
    BY <2>4, SignInStep
  <2>5. ASSUME NEW c \in Calls,
               Upsert(c) \/ UpsertRefused(c) \/ OrgFound(c) \/ OrgMissing(c)
                 \/ CreateOrg(c) \/ Fail(c)
        PROVE  SyncInv'
    BY <2>5, UpsertStep, RestStep
  <2> QED
    BY <1>2, <2>1, <2>2, <2>3, <2>4, <2>5 DEF Next
<1> QED
  BY <1>1, <1>2

-------------------------------------------------------------------------------
(* The organizations *)

Creators(a) == {c \in Calls : At(c, "createOrg") /\ Acc(c) = a}

LEMMA CreatorsBounded ==
  /\ Cardinality(Calls) \in Nat
  /\ \A a : /\ Cardinality(Creators(a)) \in Nat
           /\ Cardinality(Creators(a)) =< Cardinality(Calls)
<1>1. \A a : Creators(a) \subseteq Calls
  BY DEF Creators
<1> QED
  BY <1>1, UserSyncAssumption, FS_CardinalityType, FS_Subset

(* A sign-in goes to create an organization only while there is none; then *)
(* the organization and the call that creates it change places.            *)
LEMMA OrganizationsStep ==
  ASSUME SyncInv, [Next]_vars, NEW a \in Accounts
  PROVE  \/ orgs'[a] = 0
         \/ orgs'[a] = orgs[a] /\ Creators(a)' \subseteq Creators(a)
         \/ orgs'[a] = orgs[a] + 1 /\ \E c \in Creators(a) : Creators(a)' = Creators(a) \ {c}
<1> USE DEF SyncInv
<1>1. CASE \E c \in Calls : CreateOrg(c)
  <2>1. PICK c \in Calls : CreateOrg(c)
    BY <1>1
  <2>2. At(c, "createOrg") /\ Acc(c) \in Accounts /\ Acc(c) = call[c].acc
    BY <2>1 DEF CreateOrg, CallOK, At, Acc
  <2>3. Alone(c) /\ At(c, "idle")'
    BY <2>1, EndEffect DEF CreateOrg
  <2>4. Creators(a)' = Creators(a) \ {c}
    BY <2>3 DEF Creators, Alone, At, Acc
  <2>5. CASE Acc(c) = a
    BY <2>1, <2>2, <2>4, <2>5 DEF CreateOrg, Creators, TypeOK
  <2>6. CASE Acc(c) # a
    BY <2>1, <2>2, <2>4, <2>6 DEF CreateOrg, Creators, TypeOK
  <2> QED
    BY <2>5, <2>6
<1>2. CASE \E c \in Calls : OrgMissing(c)
  <2>1. PICK c \in Calls : OrgMissing(c)
    BY <1>2
  <2>2. Alone(c) /\ Acc(c)' = Acc(c) /\ orgs' = orgs /\ orgs[Acc(c)] =< 0 /\ Acc(c) \in Accounts
    BY <2>1, GoEffect DEF OrgMissing, Places, Owns, CallOK, At, TypeOK
  <2>3. CASE Acc(c) = a
    BY <2>2, <2>3 DEF TypeOK
  <2>4. CASE Acc(c) # a
    BY <2>2, <2>4 DEF Creators, Alone, At, Acc
  <2> QED
    BY <2>3, <2>4
<1>3. CASE UNCHANGED <<orgs, call>>
  BY <1>3 DEF Creators, At, Acc
<1>4. ASSUME NEW c \in Calls, orgs' = orgs, Alone(c), ~At(c, "createOrg")'
      PROVE  orgs'[a] = orgs[a] /\ Creators(a)' \subseteq Creators(a)
  BY <1>4 DEF Creators, Alone, At, Acc
<1>5. CASE \E c \in Calls :
             Upsert(c) \/ UpsertRefused(c) \/ OrgFound(c) \/ Fail(c)
  <2>1. PICK c \in Calls : Upsert(c) \/ UpsertRefused(c) \/ OrgFound(c) \/ Fail(c)
    BY <1>5
  <2>2. Alone(c) /\ ~At(c, "createOrg")' /\ orgs' = orgs
    BY <2>1, GoEffect, EndEffect DEF Upsert, UpsertRefused, OrgFound, Fail, Places, At
  <2> QED
    BY <2>2, <1>4
<1>6. CASE \E c \in Calls, b \in Accounts :
             \/ VerifyEmail(c, b) \/ SignIn(c, b)
             \/ \E e \in Emails : RegisterConfirmed(c, b, e)
  <2>1. PICK c \in Calls, b \in Accounts, e \in Emails \cup {NULL} :
             Begin(c, b, e) /\ orgs' = orgs
    BY <1>6 DEF VerifyEmail, SignIn, RegisterConfirmed, TypeOK
  <2>2. Alone(c) /\ ~At(c, "createOrg")'
    BY <2>1 DEF Begin, Alone, At, TypeOK
  <2> QED
    BY <2>1, <2>2, <1>4
<1> QED
  BY <1>1, <1>2, <1>3, <1>5, <1>6
     DEF Next, SignUpElsewhere, MoveAddress, DeleteAccount, RegisterUnconfirmed, vars

LEMMA OrganizationsInv ==
  SyncInv /\ OrganizationsBounded /\ [Next]_vars => OrganizationsBounded'
<1> SUFFICES ASSUME SyncInv, SyncInv', OrganizationsBounded, [Next]_vars,
                    NEW a \in Accounts
             PROVE  orgs'[a] + Cardinality(Creators(a)') =< Cardinality(Calls)
  BY NextInv DEF OrganizationsBounded, Creators
<1>1. orgs[a] + Cardinality(Creators(a)) =< Cardinality(Calls)
  BY DEF OrganizationsBounded, Creators
<1>2. /\ Cardinality(Calls) \in Nat /\ orgs[a] \in Nat
      /\ Cardinality(Creators(a)) \in Nat /\ IsFiniteSet(Creators(a))
  <2>1. Creators(a) \subseteq Calls
    BY DEF Creators
  <2> QED
    BY <2>1, CreatorsBounded, UserSyncAssumption, FS_Subset DEF SyncInv, TypeOK
<1>3. Cardinality(Creators(a)') \in Nat /\ Cardinality(Creators(a)') =< Cardinality(Calls)
  <2>1. Creators(a)' \subseteq Calls
    BY DEF Creators
  <2> QED
    BY <2>1, UserSyncAssumption, FS_CardinalityType, FS_Subset
<1>4. CASE orgs'[a] = 0
  BY <1>3, <1>4
<1>5. CASE orgs'[a] = orgs[a] /\ Creators(a)' \subseteq Creators(a)
  <2>1. Cardinality(Creators(a)') =< Cardinality(Creators(a))
    BY <1>2, <1>5, FS_Subset
  <2> QED
    BY <1>1, <1>2, <1>3, <1>5, <2>1
<1>6. CASE orgs'[a] = orgs[a] + 1 /\ \E c \in Creators(a) : Creators(a)' = Creators(a) \ {c}
  <2>1. Cardinality(Creators(a)') = Cardinality(Creators(a)) - 1
    BY <1>2, <1>6, FS_RemoveElement
  <2> QED
    BY <1>1, <1>2, <1>3, <1>6, <2>1
<1> QED
  BY <1>4, <1>5, <1>6, OrganizationsStep

LEMMA OrganizationsInit == Init => OrganizationsBounded
<1> SUFFICES ASSUME Init, NEW a \in Accounts
             PROVE  orgs[a] + Cardinality(Creators(a)) =< Cardinality(Calls)
  BY DEF OrganizationsBounded, Creators
<1>1. orgs[a] = 0
  BY DEF Init
<1> QED
  BY <1>1, CreatorsBounded

-------------------------------------------------------------------------------
(* The theorems *)

(* Users, Supabase's accounts and the sign-ins fit together at all times.  *)
LEMMA SyncInvariant == Spec => []SyncInv
BY InitInv, NextInv, PTL DEF Spec

(* The mirror keeps its shape, and no two users one address (createOrUpdate *)
(* of users.service.ts, users.email in schema.prisma).                     *)
THEOREM TypeCorrect == Spec => []TypeOK
<1>1. SyncInv => TypeOK
  BY DEF SyncInv
<1> QED
  BY <1>1, SyncInvariant, PTL

(* syncUser (auth.service.ts) returns only after createOrUpdate and        *)
(* ensureOrganization have done their work, whatever fails around them.    *)
THEOREM ReturnedIsReady == Spec => []SignedInReady
<1>1. SyncInv => SignedInReady
  BY DEF SyncInv
<1> QED
  BY <1>1, SyncInvariant, PTL

(* ensureOrganization (users.service.ts) looks and then creates, so        *)
(* concurrent first sign-ins may each create one, and nothing more.        *)
THEOREM OrganizationsStayBounded == Spec => []OrganizationsBounded
<1>1. Spec => []SyncInv
  BY SyncInvariant
<1> QED
  BY <1>1, OrganizationsInit, OrganizationsInv, PTL DEF Spec

(* createOrUpdate is refused only for an address that moved on: of two     *)
(* users kept up to date none stands in the other's way.                   *)
THEOREM RefusalsAreStale == Spec => RefusedIsStale
<1>1. ASSUME SyncInv, NEW c \in Calls, UpsertRefused(c),
             Open(Acc(c)) /\ address[Acc(c)] = call[c].email
      PROVE  \E b \in behind : user[b] = call[c].email
  <2> USE DEF SyncInv
  <2>1. Acc(c) \in Accounts /\ call[c].email \in Emails
    BY <1>1 DEF UpsertRefused, CallOK, At
  <2>2. PICK b \in Accounts \ {Acc(c)} : user[b] = call[c].email
    BY <1>1 DEF UpsertRefused, EmailFree
  <2>3. user[b] # NULL
    BY <2>1, <2>2, UserSyncAssumption
  <2>4. CASE b \notin behind
    <3>1. Open(b) /\ address[b] = address[Acc(c)]
      BY <1>1, <2>2, <2>3, <2>4 DEF MirrorInv
    <3> QED
      BY <1>1, <2>1, <2>2, <3>1 DEF SupabaseInv
  <2> QED
    BY <2>2, <2>4
<1>2. SyncInv /\ [Next]_vars =>
        [\A c \in Calls :
           UpsertRefused(c) =>
             \/ \E b \in behind : user[b] = call[c].email
             \/ ~(Open(Acc(c)) /\ address[Acc(c)] = call[c].email)]_vars
  BY <1>1
<1> QED
  BY <1>2, SyncInvariant, PTL DEF Spec, RefusedIsStale
===============================================================================
