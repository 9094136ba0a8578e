------------------------------- MODULE UserSync --------------------------------
(***************************************************************************)
(* The mirror of Supabase's accounts in the local tables: AuthService's    *)
(* register, login, verifyEmail, verifySession, handleOAuthCallback and    *)
(* refresh, which all end in syncUser, and UsersService's createOrUpdate   *)
(* and ensureOrganization.                                                 *)
(*                                                                         *)
(* Supabase is external: an account has an address no other account has,   *)
(* and may be re-addressed or deleted at any time without the backend      *)
(* being told.  The backend never deletes a user.                          *)
(***************************************************************************)
EXTENDS Integers, FiniteSets

CONSTANTS Calls, Accounts, Emails, NULL

ASSUME UserSyncAssumption ==
  /\ NULL \notin Accounts /\ NULL \notin Emails
  /\ IsFiniteSet(Calls)     \* requests in progress in one process

VARIABLES
  account,   \* Supabase: an account that never was, is, or was
  address,   \* Supabase: its address
  user,      \* users.email by supabaseUserId, NULL without a row
  orgs,      \* organizations owned by the user
  call,      \* the sign-ins in progress
  returned,  \* accounts a sign-in has returned for          (history)
  behind     \* users not written since the address changed  (history)

supabaseVars == <<account, address>>
vars == <<supabaseVars, user, orgs, call, returned, behind>>

(* A call: the statement it is about to perform, and the account and the   *)
(* address Supabase has answered it with.                                  *)
Idle == [at |-> "idle", acc |-> NULL, email |-> NULL]

At(c, place) == call[c].at = place
Acc(c) == call[c].acc
Go(c, place) == call' = [call EXCEPT ![c].at = place]
End(c) == call' = [call EXCEPT ![c] = Idle]

Open(a) == account[a] \in {"unconfirmed", "confirmed"}
Taken(e) == \E a \in Accounts : Open(a) /\ address[a] = e

Init ==
  /\ account = [a \in Accounts |-> "none"]
  /\ address = [a \in Accounts |-> NULL]
  /\ user = [a \in Accounts |-> NULL]
  /\ orgs = [a \in Accounts |-> 0]
  /\ call = [c \in Calls |-> Idle]
  /\ returned = {}
  /\ behind = {}

-------------------------------------------------------------------------------
(* Supabase *)

SignedUp(a, e, state) ==
  /\ account[a] = "none"
  /\ ~Taken(e)
  /\ account' = [account EXCEPT ![a] = state]
  /\ address' = [address EXCEPT ![a] = e]

(* A Google account signs up in the browser. *)
SignUpElsewhere(a, e) ==
  /\ SignedUp(a, e, "confirmed")
  /\ UNCHANGED <<user, orgs, call, returned, behind>>

MoveAddress(a, e) ==
  /\ Open(a)
  /\ ~Taken(e)
  /\ address' = [address EXCEPT ![a] = e]
  /\ behind' = behind \cup {a}
  /\ UNCHANGED <<account, user, orgs, call, returned>>

DeleteAccount(a) ==
  /\ Open(a)
  /\ account' = [account EXCEPT ![a] = "gone"]
  /\ behind' = behind \cup {a}
  /\ UNCHANGED <<address, user, orgs, call, returned>>

-------------------------------------------------------------------------------
(* AuthService *)

Begin(c, a, e) ==
  /\ At(c, "idle")
  /\ call' = [call EXCEPT ![c] = [at |-> "upsert", acc |-> a, email |-> e]]

(* register, when the address has to be confirmed first: no session yet.   *)
RegisterUnconfirmed(c, a, e) ==
  /\ At(c, "idle")
  /\ SignedUp(a, e, "unconfirmed")
  /\ UNCHANGED <<user, orgs, call, returned, behind>>

(* register, when Supabase opens a session at once. *)
RegisterConfirmed(c, a, e) ==
  /\ SignedUp(a, e, "confirmed")
  /\ Begin(c, a, e)
  /\ UNCHANGED <<user, orgs, returned, behind>>

(* verifyEmail *)
VerifyEmail(c, a) ==
  /\ account[a] = "unconfirmed"
  /\ account' = [account EXCEPT ![a] = "confirmed"]
  /\ Begin(c, a, address[a])
  /\ UNCHANGED <<address, user, orgs, returned, behind>>

(* login, verifySession, handleOAuthCallback, refresh: Supabase accepts    *)
(* the credential of a confirmed account.                                  *)
SignIn(c, a) ==
  /\ account[a] = "confirmed"
  /\ Begin(c, a, address[a])
  /\ UNCHANGED <<supabaseVars, user, orgs, returned, behind>>

-------------------------------------------------------------------------------
(* UsersService.createOrUpdate *)

(* A bug the runs look for: users.email is not unique. *)
EmailShared(a, e) == e \in Emails

(* users.email is unique. *)
EmailFree(a, e) == \A b \in Accounts \ {a} : user[b] # e

(* A bug: the address of a user that is there is not updated. *)
WriteNew(a, e) == user' = [user EXCEPT ![a] = IF @ = NULL THEN e ELSE @]

WriteUser(a, e) == user' = [user EXCEPT ![a] = e]

Upsert(c) ==
  LET a == Acc(c)  e == call[c].email IN
  /\ At(c, "upsert")
  /\ EmailFree(a, e)
  /\ WriteUser(a, e)
  /\ behind' = IF Open(a) /\ address[a] = e THEN behind \ {a}
                                            ELSE behind \cup {a}
  /\ Go(c, "findOrg")
  /\ UNCHANGED <<supabaseVars, orgs, returned>>

UpsertRefused(c) ==
  /\ At(c, "upsert")
  /\ ~EmailFree(Acc(c), call[c].email)
  /\ End(c)
  /\ UNCHANGED <<supabaseVars, user, orgs, returned, behind>>

-------------------------------------------------------------------------------
(* UsersService.ensureOrganization *)

(* A bug: anybody's organization is found. *)
OwnsAny(a) == \E b \in Accounts : orgs[b] > 0

(* A bug: it is created without looking. *)
OwnsNone(a) == orgs[a] < 0

Owns(a) == orgs[a] > 0

(* There is one: the sign-in returns. *)
OrgFound(c) ==
  /\ At(c, "findOrg")
  /\ Owns(Acc(c))
  /\ returned' = returned \cup {Acc(c)}
  /\ End(c)
  /\ UNCHANGED <<supabaseVars, user, orgs, behind>>

OrgMissing(c) ==
  /\ At(c, "findOrg")
  /\ ~Owns(Acc(c))
  /\ Go(c, "createOrg")
  /\ UNCHANGED <<supabaseVars, user, orgs, returned, behind>>

CreateOrg(c) ==
  /\ At(c, "createOrg")
  /\ orgs' = [orgs EXCEPT ![Acc(c)] = @ + 1]
  /\ returned' = returned \cup {Acc(c)}
  /\ End(c)
  /\ UNCHANGED <<supabaseVars, user, behind>>

(* An exception or a crash before a statement. *)
Fail(c) ==
  /\ ~At(c, "idle")
  /\ End(c)
  /\ UNCHANGED <<supabaseVars, user, orgs, returned, behind>>

Next ==
  \/ \E a \in Accounts :
       \/ \E e \in Emails :
            \/ SignUpElsewhere(a, e) \/ MoveAddress(a, e)
            \/ \E c \in Calls :
                 RegisterUnconfirmed(c, a, e) \/ RegisterConfirmed(c, a, e)
       \/ \E c \in Calls : VerifyEmail(c, a) \/ SignIn(c, a)
       \/ DeleteAccount(a)
  \/ \E c \in Calls :
       \/ Upsert(c) \/ UpsertRefused(c) \/ OrgFound(c) \/ OrgMissing(c)
       \/ CreateOrg(c) \/ Fail(c)

Spec == Init /\ [][Next]_vars

-------------------------------------------------------------------------------
(* Properties *)

(* Types, and one user per address. *)
TypeOK ==
  /\ account \in [Accounts -> {"none", "unconfirmed", "confirmed", "gone"}]
  /\ address \in [Accounts -> Emails \cup {NULL}]
  /\ user \in [Accounts -> Emails \cup {NULL}]
  /\ \A a, b \in Accounts : user[a] = user[b] /\ user[a] # NULL => a = b
  /\ orgs \in [Accounts -> Nat]
  /\ call \in [Calls -> [at : {"idle", "upsert", "findOrg", "createOrg"},
                         acc : Accounts \cup {NULL}, email : Emails \cup {NULL}]]
  /\ returned \in SUBSET Accounts
  /\ behind \in SUBSET Accounts

(* users.service.ts:43-48: whoever has signed in once owns an organization *)
(* and has a user row, in spite of failed and of concurrent sign-ins, so   *)
(* that the guard and the creation of events work.                         *)
SignedInReady == \A a \in returned : user[a] # NULL /\ orgs[a] >= 1

(* users.service.ts:47: "Safe to call on every login".  However often a    *)
(* user signs in, no more organizations are created than there were first  *)
(* sign-ins under way at once.                                             *)
OrganizationsBounded ==
  \A a \in Accounts :
    orgs[a] + Cardinality({c \in Calls : At(c, "createOrg") /\ Acc(c) = a})
      =< Cardinality(Calls)

(* createOrUpdate (users.service.ts:13-16) matches by supabaseUserId while *)
(* the address is unique too.  It is refused only when what holds the      *)
(* address is a user whose account has lost it, or when what Supabase      *)
(* answered the call is out of date; two accounts kept up to date do not   *)
(* lock each other out.                                                    *)
RefusedIsStale ==
  [][\A c \in Calls :
       UpsertRefused(c) =>
         \/ \E b \in behind : user[b] = call[c].email
         \/ ~(Open(Acc(c)) /\ address[Acc(c)] = call[c].email)]_vars
===============================================================================
