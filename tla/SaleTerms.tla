------------------------------- MODULE SaleTerms -------------------------------
(***************************************************************************)
(* The terms a ticket type is sold on: price, currency, sale window and    *)
(* isActive.  updateTicketType validates the window against the row it has *)
(* read and writes the fields it was given in a later transaction;         *)
(* createCheckout reads the terms, and reserves and prices the order in a  *)
(* later transaction.  Stock is OrderStore's: a reservation fits here.     *)
(*                                                                         *)
(* The clocks of the server and of the database are one.                   *)
(***************************************************************************)
EXTENDS Integers

CONSTANTS
  Updates,     \* requests of the organizer, each made once at most
  Buyers,      \* checkouts, each made once at most
  Prices, Currencies,
  Horizon,     \* bound: the last time
  None,        \* no time stated
  Keep         \* a field the request leaves out

Times == 0..Horizon
Bounds == Times \cup {None}
Offers == [price : Prices, currency : Currencies]

ASSUME SaleTermsAssumption ==
  /\ Horizon \in Nat
  /\ None \notin Times
  /\ Keep \notin Bounds /\ Keep \notin Prices
  /\ Keep \notin Currencies /\ Keep \notin BOOLEAN

VARIABLES
  tier,      \* the row: startsAt, endsAt, price, currency, active
  update,    \* the updates: place, fields given, window read
  checkout,  \* the checkouts: place, offer read, offer of the order
  since,     \* offers of the row since a checkout read it  (history)
  now

termsVars == <<tier, update, checkout, since, now>>

Window(row) == [startsAt |-> row.startsAt, endsAt |-> row.endsAt]
Offer(row) == [price |-> row.price, currency |-> row.currency]

(* validateSaleWindow does not throw. *)
Ordered(w) ==
  (w.startsAt # None /\ w.endsAt # None) => w.startsAt < w.endsAt

OnSale(row) ==
  /\ row.active
  /\ row.startsAt # None => row.startsAt =< now
  /\ row.endsAt # None => row.endsAt >= now

Terms(s, e, p, c, a) ==
  [startsAt |-> s, endsAt |-> e, price |-> p, currency |-> c, active |-> a]

Given(value, old) == IF value = Keep THEN old ELSE value

(* The terms of a row after a request's are written to it. *)
Merged(row, given) ==
  Terms(Given(given.startsAt, row.startsAt), Given(given.endsAt, row.endsAt),
        Given(given.price, row.price), Given(given.currency, row.currency),
        Given(given.active, row.active))

(* What a request may give: times, an offer, or isActive. *)
Nothing == Terms(Keep, Keep, Keep, Keep, Keep)
Requests ==
  {Terms(s, e, Keep, Keep, Keep) : s, e \in Bounds \cup {Keep}}
  \cup {Terms(Keep, Keep, p, c, Keep) :
          p \in Prices \cup {Keep}, c \in Currencies \cup {Keep}}
  \cup {Terms(Keep, Keep, Keep, Keep, b) : b \in BOOLEAN}

Asked(place, given, window) == [at |-> place, given |-> given, read |-> window]
Unread(place) == Asked(place, Nothing, [startsAt |-> None, endsAt |-> None])

Buying(place, offer) == [at |-> place, offer |-> offer]

-------------------------------------------------------------------------------
(* createTicketType with the defaults: on sale, in one currency or another. *)
TermsInit ==
  /\ \E s, e \in Bounds, o \in Offers :
       tier = Terms(s, e, o.price, o.currency, TRUE)
  /\ Ordered(tier)
  /\ update = [u \in Updates |-> Unread("idle")]
  /\ checkout = [b \in Buyers |-> Buying("idle", None)]
  /\ since = [b \in Buyers |-> {}]
  /\ now = 0

(* A write to the row: checkouts under way see its offer come up. *)
WriteTier(row) ==
  /\ tier' = row
  /\ since' = [b \in Buyers |->
       IF checkout[b].at = "read" THEN since[b] \cup {Offer(row)} ELSE since[b]]
  /\ UNCHANGED <<checkout, now>>

(* A bug the runs look for: only the times given are validated. *)
GivenAlone(row, given) ==
  Ordered([startsAt |-> Given(given.startsAt, None),
           endsAt |-> Given(given.endsAt, None)])

(* The row as read, with the times given: is its window in order? *)
Validates(row, given) == Ordered(Window(Merged(row, given)))

(* updateTicketType up to its transaction. *)
CheckUpdate(u) ==
  /\ update[u].at = "idle"
  /\ \E given \in Requests :
       update' = [update EXCEPT ![u] =
         IF Validates(tier, given) THEN Asked("checked", given, Window(tier))
                                   ELSE Unread("refused")]
  /\ UNCHANGED <<tier, checkout, since, now>>

(* Its transaction. *)
WriteUpdate(u) ==
  /\ update[u].at = "checked"
  /\ update' = [update EXCEPT ![u] = Asked("written", @.given, @.read)]
  /\ WriteTier(Merged(tier, update[u].given))

(* deactivateTicketType, whose one statement reads nothing. *)
Deactivate ==
  /\ tier.active
  /\ WriteTier([tier EXCEPT !.active = FALSE])
  /\ UNCHANGED update

-------------------------------------------------------------------------------
(* createCheckout reads the tier, or finds it not available. *)
ReadTier(b) ==
  /\ checkout[b].at = "idle"
  /\ IF OnSale(tier)
     THEN /\ checkout' = [checkout EXCEPT ![b] = Buying("read", Offer(tier))]
          /\ since' = [since EXCEPT ![b] = {Offer(tier)}]
     ELSE /\ checkout' = [checkout EXCEPT ![b] = Buying("refused", None)]
          /\ UNCHANGED since
  /\ UNCHANGED <<tier, update, now>>

(* A bug: the amount is of the row read, the currency of the row now. *)
CurrencyOfNow(read) == [read EXCEPT !.currency = tier.currency]

(* amountMinor and currency of the order. *)
Charged(read) == read

(* The transaction: the statement's conditions are those of the row now. *)
Reserve(b) ==
  /\ checkout[b].at = "read"
  /\ checkout' = [checkout EXCEPT ![b] =
       IF OnSale(tier) THEN Buying("ordered", Charged(@.offer))
                       ELSE Buying("refused", None)]
  /\ UNCHANGED <<tier, update, since, now>>

Tick ==
  /\ now < Horizon
  /\ now' = now + 1
  /\ UNCHANGED <<tier, update, checkout, since>>

TermsNext ==
  \/ \E u \in Updates : CheckUpdate(u) \/ WriteUpdate(u)
  \/ Deactivate
  \/ \E b \in Buyers : ReadTier(b) \/ Reserve(b)
  \/ Tick

TermsSpec == TermsInit /\ [][TermsNext]_termsVars

-------------------------------------------------------------------------------
(* Properties *)

TermsTypeOK ==
  /\ tier \in [startsAt : Bounds, endsAt : Bounds, price : Prices,
               currency : Currencies, active : BOOLEAN]
  /\ update \in [Updates ->
       [at : {"idle", "checked", "written", "refused"}, given : Requests,
        read : [startsAt : Bounds, endsAt : Bounds]]]
  /\ checkout \in [Buyers -> [at : {"idle", "read", "ordered", "refused"},
                              offer : Offers \cup {None}]]
  /\ since \in [Buyers -> SUBSET Offers]
  /\ now \in Times

(* events.service.ts:411-424: a window gets out of order in one way only,  *)
(* by an update that has read a window written over since by another one   *)
(* that had given the other bound.                                         *)
CrossedUpdates ==
  ~Ordered(tier) =>
    \E u, v \in Updates :
      /\ u # v
      /\ update[u].at = "written" /\ update[v].at = "written"
      /\ update[u].given.startsAt # Keep /\ update[v].given.endsAt # Keep
      /\ \/ update[u].read.endsAt # tier.endsAt
         \/ update[v].read.startsAt # tier.startsAt

(* payments.service.ts:195-241: an order is charged an amount and a        *)
(* currency the ticket type was offered at together while its checkout     *)
(* ran, whatever the organizer writes meanwhile.                           *)
ChargedAsOffered ==
  \A b \in Buyers : checkout[b].at = "ordered" => checkout[b].offer \in since[b]
===============================================================================
