# Formal models of the event manager backend

TLA+ specifications of the NestJS service in `src/`, the TLC runs that check
them on small instances, and TLAPS proofs of the results that matter most.
`PROJECT.json` lists the components, the runs, the correspondence of every
definition to source lines, the hazards and the theorems.

Paths such as `payments.service.ts:212` are under `src/src/<area>/`.

## 1. The system

The backend sells tickets for events. Its only shared state is a PostgreSQL
database reached through Prisma; several processes may serve requests at the
same time, and each of them runs a background sweep every five minutes.

| Component | State it keeps | Operations | Talks to |
| --- | --- | --- | --- |
| PaymentsService | `payment_orders`, `payment_order_attendees`, the counters of `ticket_types` | createCheckout, initializeCheckout, getPublicStatus, handleWebhook, refreshOrder, markOrderPaid, releaseReservation, refundLatePayment, expirePendingOrders, processBackgroundWork | Paystack (HTTP), PassesService |
| PassesService | `passes`, the e-mail columns of `payment_order_attendees` and `payment_orders` | createPass, emailPaidOrderPass, downloadPassPdf, verifyPass | PassPdfService, EmailService, CheckInService |
| EmailService | none | sendEmail, classification of Resend's errors | Resend (HTTP) |
| EventsService | `events`, `ticket_types` | create, update, remove, assignHall; createTicketType, updateTicketType, deactivateTicketType | HallsService's table, storage |
| HallsService | `halls` | create, update, remove | - |
| AttendeesService | `attendees`, `passes` | create, update, remove, importCsv | PassPdfService, EmailService, csv.util |
| CheckInService | `check_ins` | checkIn | - |
| AuthService, UsersService | `users`, `organizations` | register, login, verify, refresh; createOrUpdate, ensureOrganization | Supabase Auth |
| UploadsService | none | uploadImage | Supabase storage |
| Filters, guards, bootstrap | none | map errors, authenticate, throttle | - |

How they meet: buyers call createCheckout and poll getPublicStatus; Paystack
calls the webhook, and repeats a notification until it is answered with
success; the sweep calls refreshOrder for expired orders and
emailPaidOrderPass for undelivered ones; the organizer edits tiers and
attendees. All of them read and write the same rows, each with transactions of
its own, and between two `await`s anything may have changed.

What is hard: stock that is reserved, sold and given back by increments under
concurrent edits of the quantity; a status read before a request to Paystack
and acted on after it; four callers of refreshOrder for the same order;
payments that arrive after the order failed; crashes and lost answers between
a claim and its confirmation; five-minute claims that a slow caller overruns;
several deliveries of the same ticket. `PROJECT.json` lists these under
"hazards", each with its line and the properties that look for it.

What makes the components correct:

* payments: no tier is oversold; the counters are the seats of the orders; an
  order's money moves one way only; tickets exist only for captured money; no
  payment is refunded twice; captured money is eventually answered with a
  ticket or a refund; an expired order gives its stock back;
* delivery: no ticket is sent twice without need, nothing is recorded as
  delivered that was not, every holder is reached;
* passes and check-in: one admission per pass; an active QR code is in its
  holder's mailbox only; every attendee has a pass;
* halls: no two events in one hall at one time;
* users: one local row per account and an organization for whoever signed in;
  nobody locked out by data that is up to date.

## 2. Modules

| Module | Models | Lines of code behind it |
| --- | --- | --- |
| `TicketSale` | what the inventory promises: a tier has a capacity, seats are held, bought or given back | payments.service.ts, events.service.ts |
| `OrderStore` | the tables of one event, one action per transaction or statement | payments.service.ts:169-248, 329-336, 499-662; events.service.ts:397-488; attendees.service.ts:194-303 |
| `OrderStoreProofs` | theorems about `OrderStore`, and that it implements `TicketSale` | - |
| `Checkout` | the handlers of PaymentsService on top of `OrderStore`, their callers, Paystack, crashes | payments.service.ts:71-787 |
| `CheckoutProofs` | theorems about `Checkout`, and that it implements `OrderStore` | - |
| `TicketDelivery` | emailPaidOrderPass for one order with concurrent callers and Resend | passes.services.ts:124-218; email.service.ts |
| `TicketDeliveryProofs` | theorems about `TicketDelivery` | - |
| `PassCycle` | attendees and their passes: registration, change of address, removal, createPass, check-in | attendees.service.ts:85-303; passes.services.ts:28-108; check-in.service.ts:16-105 |
| `PassCycleProofs` | theorems about `PassCycle`, and that it implements `OrderStore`'s guest statements | - |
| `RowLocks` | the transactions of `OrderStore` statement by statement, with row locks, at READ COMMITTED | payments.service.ts:195-279, 499-603; events.service.ts:403-471 |
| `RowLocksProofs` | theorems about `RowLocks`, and that it implements `OrderStore` | - |
| `BackgroundWork` | processBackgroundWork: the timer, its limited batches and the try around each order | payments.service.ts:47-63, 664-724 |
| `CsvImport` | the CSV parser, the mapping of its records, importCsv's loop | csv.util.ts; attendees.service.ts:252-317 |
| `CsvImportProofs` | theorems about `CsvImport` | - |
| `SaleTerms` | price, currency, sale window and `isActive` of a tier: createTicketType, updateTicketType, deactivateTicketType, and a checkout that reads them | events.service.ts:375-497; payments.service.ts:195-248 |
| `HallBooking` | events and halls: create, update, assignHall, remove, and the conflict queries | events.service.ts:13-120, 164-305; halls.service.ts |
| `EventsProofs` | theorems about `SaleTerms` and about `HallBooking`, which share no state | - |
| `UserSync` | the local users and organizations behind the sign-ins, Supabase's accounts | auth.service.ts:73-213, 351-402, 485-519; users.service.ts:12-63 |
| `UserSyncProofs` | theorems about `UserSync` | - |
| `MCOrderStore`, `MCCheckout`, `MCTicketDelivery`, `MCRowLocks`, `MCBackgroundWork`, `MCCsvImport`, `MCPassCycle`, `MCHallBooking`, `MCSaleTerms`, `MCUserSync` | instances for TLC: requests, symmetry | - |

### OrderStore

A variable is a column: `quantity`, `reserved`, `sold` per tier (`NULL` is
unlimited), `onSale` for `isActive` and the sale window together; `status`,
`tier`, `seats`, `primary`, `activeKey`, `url`, `lease`, `expired` per order,
where the status `"NONE"` is a row that does not exist yet; `attendees`, the
addresses registered for the event; `passes`, the active passes of order
seats. Times are kept as what the code compares them with: `expired` is
`expiresAt <= now`, `lease` tells whether `initializationClaimedAt` is null,
within five minutes, or older. `activeCheckoutKey` is `eventId:email`, so
within one event it is the address.

One event is enough: each query is restricted to an event, an id or the key
above, and tiers belong to one event.

A transaction is one action. Prisma's interactive transactions run at READ
COMMITTED, where that is not obvious; `RowLocks` is the transactions statement
by statement, and implements `OrderStore`.

The specification puts no order on the statements: any order may be claimed,
paid, released or refunded at any time by anybody. The properties below
therefore hold for every caller there is or will be, and `Checkout` is shown to
issue nothing else.

### RowLocks

OrderStore's variables are the committed rows. `tx` is a database session's open
transaction: the statement it is at, whether it holds its order's row, its own
version of the tier's row and the attendees it has inserted; a commit installs
all of it, an abort drops it. `Plan` is the order of the writing statements. An
UPDATE whose WHERE clause (`TierMatches`, `status = 'PENDING'`) fails on the
committed row answers 0; one that matches waits for the row and evaluates the
clause again. An INSERT waits for whoever is about to take or to give up the
same unique value. The first read of a settling transaction is the one step
whose result is used later (`BeginSettle`). `Statement` is everything that is a
single statement; these wait for locks too.

PostgreSQL's own rules (who waits for whom, the abort of one transaction in a
circle) are external. `Abort` can hit any transaction at any place, which stands
for deadlocks, Prisma's five seconds, a broken connection, a dead process and an
INSERT the database refuses because a total does not fit its column.

### Checkout

A worker is a call in progress. Its `at` is the `await` it is about to
perform, and each awaited statement or request is one step, so that whatever it
read before may be stale. `snap` is the status it read, or the one it is about
to release to. `job` says who called: the checkout endpoint, which goes on to a
new order when its expired one is settled, the webhook, whose outcome decides
whether Paystack repeats, or a poll or sweep (`refresh`).

Paystack is external: `txn` is its transaction for an order's reference (none,
open, captured), `refunds` counts refund requests that arrived, `hook` is the
notification, due until it is acknowledged. An open transaction may be reported
as ongoing or as abandoned, and may be paid after that; the reference may be
accepted again or rejected as a duplicate. The buyer may pay as soon as a URL
was stored, whatever became of the order.

Failures: a crash of a call, a lost request or answer (with and without
effect), a rejection. `MaxFaults` bounds them and `MaxEdits` the organizer's
edits; buyers, polls, sweeps and notifications are not bounded.

Left out: amounts, currency and metadata (a transaction that does not match is
an exception before anything is changed), signature checks, response bodies,
and the last read after a duplicate key, which only chooses between two answers.

### TicketDelivery

One order that is PAID; a caller reads its rows once (`todo`, and `bare` for
those without a pass) and walks over them in any order. `claimed` is the
five-minute claim. `Render` reads the pass again for the PDF, which fails if it
was deleted; the mail is the next step, and `Send`, `SendRefused`, `SendFails` are
the three outcomes of EmailService; a delivery may succeed and its answer be
lost. `inbox` counts the active tickets that arrived, `duds` those whose pass
was revoked on arrival. `lost` and `overran` count, per recipient, the two causes
a duplicate may have (history): deliveries without a record, and claims that ran
out. `RemoveAttendee` deletes an attendee with the pass; `ChangeAddress` is
the change of an address, which revokes the pass of the seat and issues one that
belongs to no seat, so that the order's ticket, if it is still to be mailed, goes
to the old address with a QR code that opens nothing, and is recorded as sent.

The claim asks for `emailSentAt` and `emailClaimedAt` and not for
`emailDeliveryFailedAt`, which only the snapshot's filter looks at (`Open`).
GivenUpIsLeftAlone says what follows for an address that was given up: the calls
that may still send to it (`MaySend`: they work on it, or have it before them)
become fewer with every mail, and nobody joins them.

### BackgroundWork

An order is not expired yet, expired and pending, paid and not delivered, or
neither. refreshOrder and emailPaidOrderPass are one step each: `Checkout` and
`TicketDelivery` say what they do, this module asks whether everybody's turn
comes. A query with a limit answers any set of that size (`Answers`). `stuck` and
`bare` are the orders for which the call fails every time (an address registered
by somebody else; an attendee deleted), `FailsOnce` a failure that passes,
`QueryFails` the exception that ends a run. Runs overlap, as the interval does
not wait for the previous one. The log entries about unconfirmed refunds change
nothing.

### CsvImport

A character is a quote, a comma, a line feed, a carriage return, or a *word*:
what the mapping compares as a whole (a header's name, an address) is one
character, so that short texts are interesting. parseCsv takes one step per
character, with its own variables. `ParsedAsWritten` compares its result with a
definition without an automaton: a character is within quotes if an odd number of
quotes precede it, separators count outside of quotes, and of the quotes only the
second of a doubled one belongs to a field. A place of the text is then on the line,
in the field and at the place in it that the separators and marks before it add up
to (`Line`, `Field`, `PlaceOf`), and the records have there what the text has
(`Says`). mapAttendeeRows takes one step per record, `mapped` of them so far, which
skips, reports or takes it; `todo` names the attendees taken by the places of their
records among the data rows. importCsv's transaction per row is two steps, between
which others add and remove attendees. `RowFails` is a
transaction that fails before the row is counted, or after, when it has committed or
not. `lost` and `removed` are history. The pass type is left out, as importCsv
ignores it.

### PassCycle

The attendees of one event, the passes of all of them and the check-in rows.
Ids are never used twice, so a deleted row is `"gone"` and stays so. A call is a
request in progress with what it has read: create goes on from the inserted
attendee to the pass, the PDF and the mail as separate steps, createPass joins
it at the second; update reads the address, looks for a duplicate, and writes in
one transaction; checkIn reads a pass and inserts the check-in row later.
importCsv's rows (and, seen from here, a paid order's tickets) are one
transaction each, `Register` (CsvImport has their two statements). The unique indexes and foreign keys are guards of
the inserts, with a refused branch each. `Fail` ends any call anywhere.

An update without an address changes nothing this module keeps. The mail of a
paid ticket is TicketDelivery's.

Four history variables say what the tables cannot: `mailed` the QR codes in
mailboxes, `admissions` the successful check-ins, `overtaken` the passes issued
or kept on an address read before it was changed, `stranded` the attendees whose
create ended before the pass. The last two are the exceptions the properties
name, and each of them happens.

### SaleTerms

One ticket type. `tier` is its row without the counters, which are OrderStore's
(there the window and `isActive` are the one Boolean `onSale`). An update is the
fields it gives, `Keep` for one it leaves out and `None` for one it clears; it
validates (`CheckUpdate`) what `Merged` makes of the row it reads, and writes the
fields to the row there is then (`WriteUpdate`). A checkout reads the terms, and
asks for the window again in the statement that reserves, but charges the offer
(price and currency) it has read. `read` is kept after the write and `since`
collects the offers while a checkout runs: both are history. The server's and
the database's clock are taken to be one.

### HallBooking

Events with a slot (date, start, optional end) and a hall. create and assignHall
look first and write later; `Look` and `Refuse` are the two outcomes of the
conflict query. The query compares what the code compares: the two time
strings, as numbers here, and not the date; without an end it is not made, and
an event without an end is not found by it. update writes any hall and slot.
Deleting a hall empties its events' `hallId`. `Slots` is a parameter: the values
of date and hours that requests bring. An update of other fields changes nothing
here and is no action.

`moved` and `meanwhile` are history: the events that update wrote last, and the
events booked while another was between its look and its write.

### UserSync

`account` and `address` are Supabase's, which may change them without telling
the backend; `user` is the address in `users`, by `supabaseUserId`. A call is a
sign-in that Supabase has accepted: the account and the address it was answered
with, then the upsert, the look for an organization and its creation, one
statement each. login, verifySession, handleOAuthCallback and refresh come to
the same, `SignIn`; a session belongs to a confirmed account. Requests that
Supabase refuses change nothing and are no actions. `returned` and `behind` are
history.

## 3. Runs

| Run | Instance | Shows | States |
| --- | --- | --- | --- |
| `order_store` | 2 orders, 1 tier, 2 addresses, quantity 1 to 3 or unlimited | TypeOK, InventoryAccounted, NoOversell, OneActiveCheckout, PassBacked, Settlement, and that OrderStore implements TicketSale | 112 000 |
| `checkout` | 2 calls, 1 order, 2 faults, 1 edit | CheckoutTypeOK, RefundOnce, PaidIsCaptured, OneInitializer; KeepsStore: every step of a handler is a step of OrderStore; CapturedSettles, ExpiredReleases | 289 000 |
| `checkout_served` | 1 call, 2 orders whose lists share an address | CapturedIsServed is violated (section 5) | |
| `row_locks` | 2 transactions, 2 orders, 2 tiers, two buyers who ask for each other's seat, 2 statements outside | LockTypeOK, TransactionsAtomic, DeadlockExplained | 675 000 |
| `delivery` | 2 callers, 2 recipients, 1 fault, 1 edit | NoNeedlessDuplicate, RecordedIsDelivered, GivenUpIsLeftAlone, HolderServed | 1 142 000 |
| `background_work` | 2 overlapping runs, batches of 2 out of 3 orders, 1 fault | Refreshed, Delivered | 56 000 |
| `csv_import` | every text of up to 6 characters, small files with and without a header, 2 faults, 2 edits by others | ParsedAsWritten, EveryRowAnswered, ReportedByNumber, NobodyForgotten, Answered | 131 000 |
| `pass_cycle` | 2 calls, 2 attendees, 3 passes, 2 addresses | TypeOK, AdmittedOnce, MailedToHolder, HoldsPass | 1 823 000 |
| `halls` | 2 calls, 2 events, 2 halls, 3 slots of one day that overlap, one without an end | TypeOK, ClashExplained | 1 629 000 |
| `halls_days` | 1 call, 2 events, 1 hall, the same hours of two days | RefusedForCause is violated (section 5) | |
| `sale_terms` | 2 updates, 1 checkout, 2 prices, 2 currencies, times 0 to 2 | CrossedUpdates, ChargedAsOffered | 614 000 |
| `user_sync` | 3 sign-ins, 2 accounts, 3 addresses | TypeOK, SignedInReady, OrganizationsBounded, RefusedIsStale | 350 000 |

TermsTypeOK of `SaleTerms` and TypeOK of `TicketDelivery` are proved and not run;
`CsvImport` and `BackgroundWork` state no type invariant.

Why the bounds are enough for what they are to show. *Two orders* are what it
takes for stock, keys and addresses to be competed for, and with two addresses
an order may have one seat or two, share one with the other order or not;
quantities from 1 to 3 make the stock too small for one, for both, or not at
all. The theorems of section 4 remove this bound.

*Two calls* of Checkout on one order let one be suspended with a stale status, or
between a claim and its request, while the other settles the order, and with
*two faults* the first may crash and come back as another call: lost answer and
crash of the retry included. That safety does not depend on these numbers is
proved (CheckoutProofs); liveness is checked for this instance only, and as no
step of a call depends on another order but through the tables, one order and
one edit show it. `checkout_served` has the two orders that meet in an address.
*Two callers* of the delivery are one whose claim ran out and the one that took
over; the first then also lets the second in by clearing the claim. The third
sender that this makes possible is in the theorem, which counts them.

*Two updates* of SaleTerms are two that cross, and a window needs no more than two
writes to get out of order; *three times* are before, in and after a window. A
request gives times, an offer or `isActive`, and never two of these, which the code
writes independently of each other. The theorems remove the first two bounds.

*Two transactions* of RowLocks are one that waits and one that is waited for, on
two tiers so that the circle through two rows exists; *two statements* outside of
them (or edits) let a row change before and after the transaction looked at it.
Circles of three or more are not in this instance, but in the theorem. *Three orders* in
batches of two leave always one out; two runs overlap with different answers to
the same query. Texts of *up to six characters* over quote, comma, CR, LF and a
word have a quoted field, a doubled quote, and a separator within and after it;
the small files add what the mapping looks at, with up to two rows that are
equal, in a case of their own, blank or faulty.

*Two calls* of PassCycle race for one address, one attendee or one QR code; three
passes are an old one, its replacement and one more issued by createPass or for
the other attendee. *Two events* are what it takes to clash, and two halls let an
event leave one for the other while a call holds what it read. *Two accounts and
three addresses* let an address move from one account to the other and the first
one get a new address; three sign-ins of one account can all miss its
organization. The theorems remove the bounds of these three modules and of the
delivery; what they leave to the runs is HolderServed. Once every account of the
instance is deleted nothing can happen, so `user_sync` does not look for
deadlocks; nor do `row_locks`, where orders and statements are used up,
`sale_terms`, where updates, checkouts and times are, and `csv_import`, which ends
with its answer.

Symmetry is used in the runs without liveness only, over orders, sessions, calls,
addresses, passes, events, halls or accounts that the module never
distinguishes.

Each property is also checked against a mutant of the code (a dropped guard, a
missing reset, an early claim); the mutated operators stand next to the
definitions they replace and are used by nothing else.

### Fairness

`Checkout`'s FairSpec assumes: a call in progress takes its next step (a
promise is resolved; requests that fail do so by `Failure`, which is not
assumed); for an expired pending order a sweep is eventually started (strong
fairness: the interval of payments.service.ts:48 runs for ever, the workers of
the model may be busy in between); a notification that is due is repeated until
acknowledged; the clock reaches `expiresAt`. That a buyer pays, polls or comes
back is not assumed, nor that a verification succeeds in spite of faults:
faults are finitely many. `TicketDelivery` assumes that calls go on, that the
sweep calls again while a recipient is open, and that claims age.

That the sweep reaches an order although it takes 50 at a time is what
`BackgroundWork` checks, under the assumptions that a run goes on and that the
timer keeps firing, in a process started again after a crash (strong fairness,
as a run may be in progress). It holds as long as fewer orders than a batch
holds fail every time. The query states no order, so 50 of those starve the
rest: `Refreshed` and `Delivered` carry the precondition. `CsvImport` assumes
that the request goes on.

## 4. Proofs

`OrderStoreProofs` proves, for any finite sets of orders and addresses, any
tiers and any quantities:

* `TypeCorrect`: `Spec => []TypeOK`. The step that is not immediate is that
  `reserved` never goes below zero, which the guards `reserved >= Tickets(o)`
  give.
* `InventoryCorrect`: `Spec => []InventoryAccounted`. This is the inductive
  invariant of the module together with `TypeOK`. The argument is a count: the
  seats of the pending (paid) orders of a tier are the disjoint union of those
  of the order that moves and those of the rest (`SeatsSplit`), the former has
  as many elements as the order has seats (`BlockCardinality`), so moving an
  order moves each counter by `Tickets(o)` (`CountMoves`).
* `ReservationNeverMissing`: a pending order's seats are within its tier's
  `reserved`, from the same invariant. So the two 409 answers about a lost
  reservation (payments.service.ts:537, 600) are dead code, not a hazard.
* `NeverOversold`, `CheckoutUnique`, `TicketsBacked`: `[]NoOversell`,
  `[]OneActiveCheckout`, `[]PassBacked`. NoOversell needs no more than types:
  each action that raises the left side or lowers the right one has the bound
  in its guard, and paying leaves the sum alone. PassBacked needs that
  an address is registered at most once: markOrderPaid inserts attendees, and
  the unique index makes it fail if one is there.
* `SettlementCorrect`: the action property `Settlement`.
* `ImplementsSale`: `Spec => SaleSpec`, a refinement whose `held` and `bought`
  are the seats of pending and of paid orders. It needs `InventoryAccounted`:
  the abstract guard speaks of the number of seats, the code's of counters.

The assumption is `OrderStoreAssumption`: orders and addresses are finite,
quantities are natural numbers, and `NULL` is none of the values it stands
beside.

`CheckoutProofs` proves, for any number of calls, orders, requests, faults and
edits:

* `CallsTypeCorrect`: `CheckoutSpec => []CheckoutTypeOK`. The invariant
  `CheckoutInv` says what a call knows at each place: whoever buys has a request,
  whoever is past that has an order that exists (orders are never deleted), and
  whoever is about to release has decided on FAILED or EXPIRED. `EndEffect`,
  `GoEffect`, `GoWithEffect` and `AnswerEffect` say what a handler's last line
  does to its call; the moves of the handlers are built from them.
* `ServiceKeepsStore`: `CheckoutSpec => KeepsStore`, where KeepsStore is
  OrderStore's `Spec`. From `CheckoutInv`, every step of a handler is one of
  OrderStore's statements or leaves the tables alone (`StoreStep`), and so all
  theorems above hold of the running service; `ServiceSellsCorrectly` states them of
  it.
* `RefundedAtMostOnce`, `TicketsArePaid`: `[]RefundOnce`, `[]PaidIsCaptured`. They
  need the strengthening `MoneyInv`: a call that is going to pay, to claim or to
  request a refund has seen captured money, which stays captured; one that is
  going to request has the order in REFUNDING with no request made; and no other
  call is there for the same order. The claim is what gives the last one: a second
  call can only claim an order in FAILED or EXPIRED, and no step leads back there.
* `InitializedByOne`: `[]OneInitializer`, from `LeaseInv`: while a call within its
  lease initializes an order, the lease is fresh, the URL is stored or the order
  is settled, and in each case ClaimInitialization's guard keeps others out.

They assume, beside the above, `CheckoutAssumption`: a request is for one to ten
addresses, the primary attendee's among them, and `NULL` is no order or request.
Paystack's behaviour is assumed as it is modelled.

`RowLocksProofs` proves, for any number of transactions, orders, tiers and
addresses:

* `LocksTypeCorrect`, `LocksMakeAtomic`: `LockSpec => []LockTypeOK` and
  `LockSpec => TransactionsAtomic`, OrderStore's `Spec`. The invariant `LockInv`
  says what locks are for: the WHERE clause a transaction has passed is still true
  and its version of a row is still the committed row and its own increment
  (`GuardOK`), since no two transactions hold the same order, tier, address or key
  (`Apart`) and single statements wait too. A commit is then the action of
  OrderStore of that name (`CommitIsAction`), and whatever one transaction commits
  is nothing another relies on (`CommitFrame`, `StatementFrame`).
* `ConsistentAtReadCommitted`: hence OrderStore's theorems, of the transactions
  statement by statement.
* `DeadlocksExplained`: `[]DeadlockExplained` for circles of any size. Who keeps
  somebody waiting has written something; of the places where transactions wait,
  those of a settlement at its first two statements hold nothing that anybody but
  a checkout waits for; so without such a checkout all are payments that wait for
  an address, and hold different tiers.

It assumes `RowLocksAssumption` (a request's primary attendee is among its seats,
`NULL` is no order and no row) and PostgreSQL's rules as they are modelled.

`TicketDeliveryProofs` proves, for any number of callers, recipients, faults and
edits:

* `TypeCorrect`: `Spec => []TypeOK`.
* `NeverDuplicatedNeedlessly`, `RecordsAreTrue`: `[]NoNeedlessDuplicate`,
  `[]RecordedIsDelivered`. Neither is inductive; `DeliveryInv` adds what a claim
  and a sending mean. Call `r` held (`Held`, 0 or 1) while its claim is fresh or it
  is recorded as sent. The calls that work on `r` are no more than the claims that
  ran out, plus one if it is held (`Manned`); the tickets delivered and the calls
  on `r` that are not about to record one are together no more than that plus the
  records that were lost (`Counted`). Every step moves both sides by the same one:
  a claim needs `r` not held and makes it held, a delivery turns a call into a
  ticket, a release takes away a call and the claim. The calls on `r` stay a finite
  set by that, however many callers there are. Whoever is about to record
  has delivered, and a pass that is still active was delivered as such (`Delivered`).
* `GivenUpIsLeft`: `Spec => GivenUpIsLeftAlone`, from `TypeOK`: each step of a call
  leaves the others alone and makes it no sender to a recipient that was given up
  (`Narrows`), and the step that delivers ends its own being one (`OneDelivery`).

It assumes `DeliveryAssumption` (an order has finitely many recipients, `NULL` is
none of them) and of Resend the three outcomes the model has.

`PassCycleProofs` proves, for any number of requests, attendees, passes and
addresses:

* `TypeCorrect`, `NeverAdmittedTwice`, `MailIsCurrent`, `AttendeesHoldPasses`:
  `[]TypeOK`, `[]AdmittedOnce`, `[]MailedToHolder`, `[]HoldsPass`, from `CycleInv`.
  MailedToHolder speaks of mails that arrived; the strengthening (`Good`, `CallOK`)
  says the same of a pass that a call has issued and has still to render and mail,
  since every step that changes an address revokes that holder's passes or marks
  them `overtaken`. AdmittedOnce needs that a pass that was never issued has no
  check-in (`Unused`), and HoldsPass that RevokeAndIssue is one transaction. The
  lemma `CallKept` is why interleaving does no harm: passes are never un-issued
  and a good one stays good, so a suspended call goes on knowing what it knew.
* `RevokedForGood`: no step makes a revoked or deleted pass active.
* `RequestsAreStatements`: `Spec => Store!Spec`, OrderStore without orders and
  tiers, whose `attendees` are the addresses of the rows. What OrderStore takes for
  one statement each (RegisterAttendee, RemoveAttendee, ChangeEmail) are here
  requests of several statements that overtake each other; one that writes back an
  address which was changed since it was read is a ChangeEmail too, from the
  address there is (`WrittenIsChanged`). Checkout's theorems hold with any such
  statement at any moment, so they hold with these services running beside it.
  The passes of order seats are not in this mapping.

It assumes `PassCycleAssumption`: `NULL` is no attendee, pass or address.

`EventsProofs` proves of `HallBooking`, for any number of calls, events, halls and slots:

* `TypeCorrect`, `ClashesAreExplained`: `[]TypeOK`, `[]ClashExplained`. The
  invariant `CallOK` says what the look of a call is worth later: whoever has
  looked and is to write knows that every conflicting event was booked since
  (`call[c].since`), and an assignment that is to look still has the slot its event
  has, unless that was written since. A write (`BookingExplained`) then clashes
  only with events booked since, which is what `meanwhile` records, and two events
  with hours in common are always found by the query (`HoursInCommon`). Every
  other step frees a hall, or is an update, which `moved` records.

It assumes `HallBookingAssumption`: a slot has a day, a start and perhaps an end,
which are numbers, and `NULL` is none of the values it stands beside.

Of `SaleTerms` it proves, for any number of updates and checkouts and any prices,
currencies and times:

* `TermsTypeCorrect`: `TermsSpec => []TermsTypeOK`; a request laid over a row makes a row
  (`MergedType`).
* `NeverATornOffer`: `[]ChargedAsOffered`, since what a checkout has read stays
  among the offers (`ReadIsOffered`).
* `OutOfOrderIsCrossed`: `[]CrossedUpdates`. The invariant `ReadBefore` says of an
  update between its check and its write that its own window was in order, and that
  a bound which is another one since was given by an update that has written. If
  then its write puts the window out of order, the bound it does not give must be
  such a one, and its writer is the other update.

It assumes `SaleTermsAssumption`: `None` and `Keep` are no values of a field.

`UserSyncProofs` proves, for any accounts and addresses and any finite number of
sign-ins in progress:

* `TypeCorrect`, `ReturnedIsReady`: `[]TypeOK`, `[]SignedInReady`. A call that looks
  for an organization has written its user's row, rows are never deleted, and
  `returned` grows only when an organization was seen or created.
* `OrganizationsStayBounded`: `[]OrganizationsBounded`, by a count: an
  account's organizations and the calls about to create one for it move by one
  against each other, and a call finds none only while there are none
  (`OrganizationsStep`).
* `RefusalsAreStale`: the action property `RefusedIsStale`. It needs that among
  open accounts an address belongs to one (`SupabaseInv`), and that a row which is
  not behind has its account's address (`MirrorInv`).

It assumes `UserSyncAssumption` (`NULL` is no account or address, finitely many
requests are in progress) and Supabase's behaviour as it is modelled.

`CsvImportProofs` proves, for any upload, any attendees and any number of faults and
of edits by others:

* `ReadsWhatIsWritten`: `Spec => []ParsedAsWritten`. What a loop does to a text of
  any length is shown by its invariant, not by induction over the text. While
  parseCsv runs (`Reading`), the quote it stands in is the parity of the quotes read,
  and its records so far, with the row and the field under way as their last one
  (`Tab`), are what the text says up to the place before `i`. Each action reads a
  mark, a comma, a line's end or nothing, and the lemmas `SaysMark`, `SaysComma`,
  `SaysEnd` and `SaysNothing` say what that adds to a table that was right up to
  there. A doubled quote is two places of which the second is the mark; for that the
  invariant says that a quote just closed is not followed by another one. They rest on counting: the next place raises the count of the sets it is
  in by one, and of no other (`CountStep`, `CountSkips`).
* `AnswerAddsUp`, `NumbersAreTheFiles`, `NobodyIsForgotten`: `[]EveryRowAnswered`,
  `[]ReportedByNumber`, `[]NobodyForgotten`. While mapAttendeeRows runs (`Mapping`),
  `todo` and `errors` have the wanted and the faulty of the records read. While
  importCsv runs (`Importing`), the wanted and faulty records are the counters, the
  errors and the rest, a row counted and reported once less; and no more attendees
  are missing, those still to come aside, than errors without a number were
  reported (`MissingNext`): a row leaves `todo` registered, or with such an error,
  and who was registered stays so or is in `removed`. For numbers it needs that a
  record's number is its place (`ParserType`), for a file with a header as well.

It assumes `CsvAssumption`: an upload is a sequence of its characters, not only of
spaces, line ends and a byte order mark (the service refuses such a file,
attendees.service.ts:265), and the words of a header and spaces are no addresses.

Model-checked only:

* Liveness: CapturedSettles, ExpiredReleases, HolderServed, Refreshed, Delivered and
  Answered. Liveness under fairness and ENABLED are out of the prover's reach;
  `BackgroundWork` has no other properties.

CapturedIsServed and RefusedForCause are violated by the code (section 5). There is
no recursive operator in any module.

## 5. Where code and documentation disagree

* `checkout_served`. `src/README.md:191-192` promises a ticket for a verified
  payment. Two orders may hold the same attendee address (createCheckout looks
  at registered attendees, payments.service.ts:120-133, not at the lists of
  other orders). When both are paid, the second transaction fails on the
  unique index at payments.service.ts:549 and is rolled back, each time it is
  retried. The order stays PENDING and its stock reserved, and as
  refundLatePayment starts from FAILED or EXPIRED, the money is not given back.
  The same happens when the organizer registers an address in between. The
  properties CapturedSettles and ExpiredReleases state this exception, and
  hold with it.
* `halls_days`. The conflict queries compare `startsAt` and `endsAt`, which are
  times of day, and never `date` (events.service.ts:42-52, 274-283). A hall that
  has an event from 10:00 to 16:00 on one day is therefore refused at those
  hours on every other day, although the comment (39-40) and the answer speak of
  the same time.

More divergences show in passing runs, as exceptions their properties have to
make:

* `src/README.md:139-140` says the backend enforces its double-booking checks, but
  update makes none and the others check and write in separate statements
  (ClashExplained).
* `src/README.md:191-192` also promises that each PDF is sent to its attendee.
  emailPaidOrderPass throws at the first recipient without a pass
  (passes.services.ts:152-154) and leaves it open; after the organizer deletes
  one attendee of an order, no later call reaches the others. HolderServed
  excepts orders in which a deleted attendee's ticket was neither sent nor given
  up; a recipient that is settled may be deleted, as the loop skips it before it
  looks for the pass.
* "Sale end must be after sale start" (events.service.ts:495): updateTicketType
  validates the window its fields make with those of the row it has read (403-424)
  and writes them later (455). Two updates that cross, one of the start and one of
  the end, are both accepted, and the sale ends before it starts. Nothing is sold
  then, and until one of the two is given anew, every update of another field is
  refused with the same message, since the window validated is the row's own
  (CrossedUpdates).
* The comment at attendees.service.ts:194-198 says the old QR code stops working
  when the address changes; a call that read the old address keeps or issues a
  pass for it (MailedToHolder's `overtaken`), and a scanner that read the pass
  before it was revoked still admits it.
* A create that fails between the attendee and the pass leaves an attendee without
  one, whom a retry refuses as a duplicate (HoldsPass's `stranded`).
* A change of address revokes the pass of a ticket that is still to be mailed. The
  mail goes to the old address with a QR code that opens nothing and is recorded
  as sent (`duds`; RecordedIsDelivered and HolderServed except edited attendees).
* csv.util.ts:7 says that what is within quotes is preserved; CR LF and CR are
  turned into LF before the parser looks at quotes, and the field is trimmed
  after it (ParsedAsWritten is about the text as the parser gets it).
* importCsv's comment (attendees.service.ts:253-255) says duplicates are counted.
  A duplicate that is registered between the look and the insert fails on the
  unique index and is reported as an error with row number 0, like any row whose
  transaction fails; and as the counters are raised inside the transaction, a row
  whose commit fails is counted as created and reported as failed
  (EveryRowAnswered's `lost`).
* A batch of orders that fail every time starves the sweep (section 3).
* Transactions deadlock in the two ways DeadlockExplained lists. PostgreSQL aborts
  one of them, which ends in an error that the sweep or Paystack's repetition
  makes up for, except for the buyer at the checkout, who sees it.

## 6. Not modelled, and the plan

Not modelled for good: rendering of PDF and QR codes, uploads, error mapping,
logging, configuration and throttling (stateless or a library's), Supabase's
own state, load tests.

Not modelled so far: the width of prices (a failing INSERT leaves nothing behind
because the reservation is part of its transaction; RowLocks takes PostgreSQL's
rollback as given, and TransactionsAtomic fails if a reservation is written
outside of the transaction), which of Resend's status codes is retryable, password reset.

Planned, in this order:

1. The passes of order seats in PassCycle's mapping to OrderStore: markOrderPaid's
   registrations told apart from importCsv's.
2. The lines of Resend's status codes in EmailService.
