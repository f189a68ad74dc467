# NexaKabi: a verification project

NexaKabi sells event tickets in West Africa: buyers reserve places for thirty
minutes, pay by mobile money through one of two aggregators (KkiaPay, a widget
in the page; Bictorys, a push to the phone), receive signed tickets, and are
scanned at the door by phones that may be offline. Organisers are credited in a
ledger, part of which is held back, and withdraw their balance. The API
(`apps/api`, NestJS over PostgreSQL through Prisma) holds all of the logic; the
web application and the administration are clients, except for the offline
scanner, which keeps a queue of its own.

This directory holds TLA+ models of the parts where requests, webhooks and
periodic tasks meet, the TLC configurations that check them, and TLAPS proofs.
`PROJECT.json` lists components, runs, mutants, the map from definitions to
source lines, findings, hazards and theorems.

## 1. Inventory

| Component | State | Operations | Interacts with |
|---|---|---|---|
| Stock (`orders/stock.service.ts`) | `ticket_type.quantityTotal/Sold/Reserved`, `stock_reservation` rows | lockAndVerify, apply, confirm, secureForPayment, release, releaseExpired | called by orders and by the cron |
| Orders (`orders/orders.service.ts`) | `order.status`, `expiresAt`, amounts | create, attach details, confirm, cancel, markPaid | stock, tickets, ledger; called by payments |
| Tickets (`tickets/`) | `ticket` rows, access tokens | issueForOrder, cancel on refund | inside the settlement; read by check-in |
| Payments (`payments/payments.service.ts`) | `payment` rows, `webhook_event` rows | initiate, verify from the page, webhook, poll, replay, retry | providers (await), orders.markPaid |
| Reconciliation (`payments/reconciliation.service.ts`) | none but its batches | poll pending payments, expire, replay orphan webhooks, run the expiry sweep | payments, stock, advisory locks |
| Providers (`payments/providers/`) | external | initiate, getStatus, refund, payout | payments, refunds, payouts |
| Ledger (`finance/ledger.service.ts`) | `ledger_entry` (append only) | record sale, commission, fee, refund, payout; release holds; balance | orders, refunds, payouts |
| Refunds (`finance/refunds.service.ts`) | `refund` rows, order and ticket statuses | decide, attempt, retry, reconcile, complete by hand, refund a cancelled event | providers (await), ledger, tickets |
| Payouts (`finance/payouts.service.ts`) | `payout` rows | request, execute, record by hand, webhook, reconcile (no endpoint cancels one: `CANCELLED` is never reached) | providers (await), ledger |
| Check-in (`checkin/checkin.service.ts`) | `check_in`, `ticket.status`, `event.checkedInCount` | synchronise a batch, arbitrate, revoke | tickets; offline scanner |
| Offline scanner (`apps/web/lib/scan`) | IndexedDB queue and manifest | scan, queue, synchronise | check-in |
| Events (`events/events.service.ts`) | event and category statuses, quotas | create, edit, publish, unpublish, cancel | stock, refunds |
| Periodic tasks (`infra/scheduling`) | PostgreSQL advisory locks | run exclusively, give up after five minutes | every cron job |
| Notifications (`notifications/`) | `notification` and `message_log` rows | notify, deliver, retry pending messages, remind | called by settlements and by the event's changes; SMS and e-mail operators (await) |
| Verification (`organizations/`, `admin/verifications.service.ts`) | `verification_request`, `verification_document` rows, `organization.verificationStatus`, private files | submit, upload a document, close when complete, decide, destroy personal documents | storage (await), ledger (release on approval), payouts (blocked until verified) |
| Authentication (`auth/`, `admin/`) | codes, attempts, lockouts, sessions | request and check a code, log in | all requests |

What is hard here, component by component:

* **Stock and orders.** Requests read an order outside the transaction that
  writes it; the sweep, a cancellation and a settlement read the same
  reservations without a lock. Late payments take places that were put back on
  sale. What makes it correct: never more tickets than places; a place is held
  only for somebody; an order is served whole, once, only when paid; lapsed
  places come back.
* **Payments.** Every read of the provider is an await between a read and a
  write; the page, the webhook and the poll may conclude the same payment at
  once, and two transactions may be made for it. Correct: credited once, only
  on money that is really there; no success lost; a closed row stays closed.
* **Refunds and payouts.** Money leaves on an await: a lost answer, a retry, a
  webhook and a manual action meet. Correct: sent at most once per decision,
  the ledger agrees with what was sent, no overdraft.
* **Check-in.** Scans arrive late, in any order, twice, from several phones.
  Correct: one effective entry per ticket, the earliest one; the counter agrees.
* **Ledger.** Held and released parts add up; a release is applied once.
* **Notifications.** A delivery starts inside the transaction that writes its
  notification and goes on after it; two passes may take up the same message.
  Correct: nobody told of what is not committed, no message sent twice without a
  doubt on an answer, none forgotten.
* **Verification.** Two uploads, a submission and a decision write one dossier by
  its id; files leave the storage on an await. Correct: a complete dossier does not
  sleep, the personal documents of a decided one are destroyed, none is forgotten.
* **Periodic tasks.** Bounded batches, overlap after five minutes.

The full list, line by line, is `hazards` in `PROJECT.json`.

## 2. Plan

In order of what matters most; each module has an `MC*` module, its runs,
its mutants and a `*Proofs` module.

1. `SeatSale`, `Checkout`: stock, orders, settlement, sweep. **Done**, with
   proofs (`CheckoutProofs`).
2. `Purchase`, `Payments`: initiation, notifications, polls, replays, expiry of
   the payments of one order. **Done**, with proofs (`PaymentsProofs`).
3. `Payouts`, `Refunds`, `Ledger`: what leaves, and what is owed. **Done**, with
   proofs (`PayoutsProofs`, `RefundsProofs`, `LedgerProofs`). The abstract till
   that was planned above them would only repeat `SentStaysDebited`,
   `CompletionIsTrue` and `Conserved`, which say directly that money leaves once
   per decision and that entries add up.
4. `CheckIn` with the offline queue: batches, duplicates, arbitration,
   revocation. **Done**, with proofs (`CheckInProofs`).
5. `Outbound`: notifications and their delivery. **Done**, with proofs
   (`OutboundProofs`).
6. `Dossier`: the verification of an organization. **Done**, with proofs
   (`DossierProofs`).
7. Left: `Reconciliation`, the bounded batches and age windows of the payment
   poll; the manual attachment of a transaction in `Payments`; the drafts and
   moderation of events; the members of an organization and their invitations.

Runs are kept to about two minutes each. The project keeps to a dozen of them:
ten instances that pass and the two disagreements that matter most. The
configurations of the other counterexamples stay beside the modules (section 5).

## 3. Modules

### `SeatSale`
The abstract ticket office: who was charged, who holds tickets, how many places
exist. A place is never handed out beyond capacity, never before its order was
paid or is free, and never taken back by the sale.

### `Checkout`
State against code: `total`, `sold`, `reserved` are the three counters of a
`ticket_type` row; `active` the `stock_reservation` rows with
`releasedAt` null; `status` and `undated` (a null `expiresAt`) the order row;
`lapsed` the clock reduced to "thirty minutes are over"; `attempted`, `settled`
whether the order has a payment row and a SUCCEEDED one; `revenue` the number of
SALE entries; `tickets` the ticket rows, one per place. `req[r]` is the local
state of an HTTP request between a read and the write that uses it; `sweep` that
of the expiry pass. Quantities are cardinalities: a *place* is one seat of one
order line, so an order may ask for several seats of several categories.

*Atomicity.* PostgreSQL runs these transactions at READ COMMITTED.
`create` locks its categories before it reads them: one step. The settlement
locks payment and order before it reads anything, and both the sweep and
`cancel` must write the order row before they commit, so a settlement runs
whole between two of their steps: one step. `confirm` and `cancel` check the
status before they open a transaction (`ConfirmRead`, `CancelRead`); `release`
reads the reservations without a lock (`CancelReadStock`, `SweepRead`) and then
decrements by what it read, under the row locks of its updates (`CancelWrite`,
`SweepWrite`). A step that would violate a CHECK constraint is rolled back, so
it is not taken; for the sweep, where the exception ends the pass, it is an
action (`SweepRefused`). A deadlock victim, a lost connection, a restart is
`Drop` or `SweepAbort`.

*Left out*: prices, fees and promotion codes, buyer details, the silent account,
the savepoints around the reference, event counters, audit rows, e-mails; the
batch size of the sweep (500). A quota edit is its constraint only: the check
the service makes beforehand can only refuse more.

### `Purchase`
What paying for one order promises: transactions collect money, and the order is
settled at most once, by one that did.

### `Payments`
One order and its payments. State against code: `status`, `ref`, `gen` are
`payment.status`, `providerReference` and the rank in `idempotencyKey`; `dated`
and `due` an `expiresAt` that is set, that is over; `shown` whether `widgetFor`
has given the page a window; `order` and `late` the order row; `hook` the
`webhook_event` row of each transaction's end, `BOUND` being `RECEIVED` with a
`paymentId` (which the replay of orphans does not read); `flagged` the
`payment.duplicate` records; `tx` and `payOf` the provider. `credits` and
`settledBy` are history: how many times `markPaid` paid the order, for which
transaction. `buyer[b]` is a request in `initiate` between two of its statements;
`task[h]` a reader: the page (`confirmFromCheckout`), a notification
(`handleWebhook`), the poll (`pollProvider`) or the replay
(`replayOrphanWebhooks`).

*Atomicity.* A reader reads the payment, awaits the provider, then acts on both
readings: `Start`, `Answer`, `Apply`, and the notification's row is one more
write (`WriteRow`). `applyOutcome` reads again under the lock of the payment and
of the order, so the transaction is one step; everything that
`applyWidgetTransaction` decides outside of it uses the earlier reading (`was`,
`ref`). `initiate` is a read, a replacement, a count, an insertion under a unique
key, a call and a write, each a step. `DropBuyer` is a call without an answer or
a restart; `Unanswered` and `DropTask` the same for a reader, bounded by
`MaxFaults`.

*Data.* Two flows exist: a window (KkiaPay), where the buyer makes any number of
transactions on one payment, of any amount; a push (Bictorys), where the
initiation makes the transaction. `Underpaid` are those of a wrong amount. The
order's payment methods, telephone numbers and messages do not matter, so a
repeated identical request, which only returns the same payment, is no step.
`"EXPIRED"` stands for every closed unpaid order, and `MarkPaid` chooses whether
a closed order's places are still free: `Checkout` models that choice. Refunds
of a payment, `attachTransaction` (an operator doing what the page does), rate
limits, transactions the provider does not know, pushes notified with another
amount, and the age windows of the cron (45 seconds to a day for polls, 72 hours
for orphans) are left out.

`NotifiedMoneyAccounted` is about windows: for a push, the replay may close the
row of a notification whose handler is still at work.

### `Payouts`
State against code: `status`, `ref` the `payout` row (`providerCode` and
`providerReference`); `returns` the number of its PAYOUT_REVERSAL entries;
`before` the order of `processedAt`, by which a pass is sorted; `transfer` the
provider; `hook` the `webhook_event` row. `task[k]` is a request (`execute`,
`recordManual`), a notification or a pass between two statements, with the
statuses it still wants (`goals`).

*Atomicity.* `transition()` reads the row, checks the state machine, and only
then opens the transaction that writes by id: two steps (`TransitionRead`,
`TransitionWrite`). `execute` reads, calls and then moves the row: the call is a
step of its own, and so is what comes after.

*Left out*: amounts, the balance check and the freeze (an administrator may do
each thing or not; the balance is in `Ledger`), payout accounts. `Batch` stands
for the fifty rows of a pass.

### `Refunds`
The orders of one event. State against code: `status`, `paid`, `valid` the
order, its settlement, its tickets; `row` the `refund` rows, `tried` standing for
`providerAttempt > 0`; `reversed` the REFUND_FEE_REVERSAL entries; `revert` what
the provider made of the payment's return; `sweep` the cancellation of the event,
which reads its orders once (`listed`) and goes through them.

*Atomicity.* A decision is one transaction under the lock of the order; the
status it checks beforehand can only refuse (`MayRefund`), and is read in that
step. `attempt` reads the refund, calls the provider and writes the answer by id:
`Load`, `Attempt`, `Call`, `WriteAnswer`, and a pass of `reconcileProcessing` the same over rows
read before its calls.

*Providers.* Kkiapay returns a payment whole, once, and can be read again;
Bictorys acknowledges and is never heard of again. Neither uses the idempotency
key, and neither sends what `handleProviderEvent` expects, so both are left out.
An attempt that began before another's answer erases its reference, and a restart
then leaves the refund PROCESSING with nothing to be read by: the exception in
`KkiapayIsConcluded`.

### `Ledger`
Entries are only added and a balance is a sum of them: the model keeps the sum of
each pocket a balance tells apart, `free` (AVAILABLE), `undated` by event
(PENDING without a date: not verified), `dated` by date, `escrow` (what a freeze
sets apart). An action adds what the code's entries add to each. `reading` is the
pocket `recordSale` chose before its transaction wrote it, `request` a payout
between the reading of the balance and the debit, `office` a freeze or an
unfreeze between its reading and its entries.

Two tiers of release, not three: nothing in the code writes
`completedEventsCount`. Nothing writes `payoutFrozen` either: a freeze is an
adjustment, and two unfreezes may give back the same money. `endsAt` may be
edited after the sales were dated, and their entries do not move: `HeldUntilDue`
is about the earliest date an event ever announced. It bounds what is withdrawn
by what the sales due *earned* (`Earned`): their net and, once a refund with
fees was made, the whole commission, which the first such refund gives back
however small it is. What a refund takes back afterwards comes out of later
sales. The passing run has one request at a time, because two overdraw
(finding 2), and one officer, because two unfreezes that read the same balance
make `escrow` negative and free as much again.

### `CheckIn`
One event. A scan is numbered by the device's corrected clock: its number is both
its nonce and its `scannedAt`. State against code: `carnet` and `queue` the
manifest and the pending table of the phone's IndexedDB; `row` the `check_in` rows
(`effective` or `loser`), `revoked` those an organiser revoked; `status` the
ticket, `count` `event.checkedInCount`; `call[c]` a batch between two statements
of `sync`, which treats scans one by one, oldest first; `manager` a revocation
between its reading and its transaction; `crossed` is history: one of the two
wrote from a reading that the other had made stale.

*Atomicity.* `applyScan` looks for the ticket and an earlier answer (`Look`), then
inserts in a transaction (`Insert`), which the unique index may refuse
(`InsertConflicts`). `resolveConflict` reads the current
entry without a lock: `Arbitrate`, then `ArbitrateWrite`, and the index may refuse
that too. A unique violation that escapes fails the whole batch, which the device
sends again.

*Left out*: signatures (every ticket is authentic), scans older than the token,
batches of fifty (a device has fewer here), statistics.

### `Outbound`
State against code: `note`, `keyOf` the `notification` rows and their unique
dedupe key, `open` being written in a transaction that has not ended; `calls` the
calls of `notify` between `findUnique` and `create`; `log` the `message_log` rows
that are not SENT, `old` when five minutes have passed, `sent` the others;
`job[j]` a delivery, that of a notification (`schedule`) or of a pass
(`retryPending`), between two statements. `accepted`, `refusals` are what the
operators took and refused; `doubtful`, `dropped` what an interruption, a lost
answer or a slow call left in doubt.

*Atomicity.* `schedule` does not wait and reads on another connection than that
of the settlement: a delivery may read before the commit, and then finds nothing.
Each statement of `deliver` is a step. A pass deletes the row and delivers the
notification again, which writes a new row: attempts restart at zero. The two
passes hold different advisory locks and may overlap; the second also stands for
a pass that outlives its five-minute lock.

*Left out*: direct messages and ticket e-mails (no notification, never retried),
preferences (constant), read marks, the windows of the reminders.

### `Dossier`
One organization. State against code: `status`, `asked` the `verification_request`
row and its `requestedDocuments`; `org` `verificationStatus`; `type`, `row` the
`verification_document` rows, numbered as their files (`purged` once `purgedAt` is
set, `deleted` once replaced); `files` what is in the storage. `upload[u]`,
`review[r]`, `submission[s]` are requests between two statements: `previous` is the
list of rows an upload replaces, read at its start, `purge` the list a decision
destroys. `since` is history (the documents recorded since some were asked for),
and so are `dropped` (a request stopped half-way) and `crossed` (a decision fell
between the two writes of a submission).

*Atomicity.* An upload reads the dossier, stores the file, replaces the rows in a
transaction, removes the replaced files, reads the dossier again, and closes it in a
transaction: `UploadRead`, `UploadWrite`, `UploadClean`, `CloseRead`, `CloseWrite`.
The storing of the file is in the first step: nobody knows of the file before its
row. `submitVerification` writes the request and the organization by two
statements (`SubmitWrite`, `SubmitOrganization`). A decision is one transaction,
then the destruction: `PurgeRead`, `PurgeFiles`, `PurgeMark`. Errors of the storage
are swallowed, as in the code (`CleanFails`, `RemoveFails`).

*Left out*: which types an organization may be asked for, consent, contact details,
the three checks, messages to the owner; the money an approval releases is in
`Ledger`.

## 4. Runs

| Run | Instance | Shows |
|---|---|---|
| `contention` | two orders over a category of one or two places, one request, one aborted sweep, fairness of the sweep | no oversell, no place reserved for nobody, orders served whole, once and only when paid; a lapsed reservation comes back unless a counter has drifted |
| `requests` | an order over two categories and a free one, two requests on the same orders, quotas of one or two places | the type invariant, and `Checkout` refines `SeatSale` |
| `payments` | a window and a push, two transactions, one request, one reader (1.77 million states) | settled once, only by its own money; references never lent, no false excess, refinement of `Purchase` |
| `decided` | a window and a push, one transaction, one fault, fairness (384 000) | a payment whose initiation was recorded is decided, except a cancelled push |
| `payouts` | a bank account and a mobile one, two tasks, one fault, fairness (279 000) | what was sent stays debited, a concluded row is true, what was handed over is concluded |
| `refunds` | a Kkiapay order and a free one, two tasks, two refunds, the cancellation, one fault, fairness (182 000) | never more back than paid, tickets void once whole, done means done, every listed order promised back, Kkiapay's returns concluded |
| `ledger` | two orders of two events, two dates, one request, one officer, two edits (3.26 million) | sums are conserved, and nothing is withdrawn before it is due |
| `checkin` | one ticket, two phones, two batches, two scans, one revocation, one fault, fairness (372 000) | the oldest scan enters, the counter is exact, scans wait until recorded, queues drain |
| `outbound` | a confirmation by text message and a change by e-mail and text message, two calls, two passes, one refusal, one fault, fairness (306 000) | nothing told before the commit, nothing sent twice without a doubt, what is waiting is sent |
| `dossier` | a personal document and one of the organization, two uploads, a moderator, two submissions, one fault (3.1 million) | a complete dossier does not sleep; what a decision must destroy is being destroyed; the request and the organization agree |
| `find_cancelled_kept` | the instance of `refunds` | a paid order of a cancelled event is never refunded |
| `find_overdraft` | the instance of `ledger` with two requests of a payout | money withdrawn twice |

*Bounds.* Every race in the code is between two actors over one order, or
between two orders over the last places of one category; two requests, a sweep,
and settlements that may happen at any time give each of these, and two
one-place orders over one or two places make the late path lose and win. Requests
are interchangeable (symmetry in `requests`, used in no liveness run). `Totals`
bounds the quotas the organiser sets; `MaxAborts` the interrupted sweeps.
In `Payments` every race is between two readers, a reader and a request, or two
requests; a second transaction is needed for money in excess and a second payment
for a replacement. `MCWindow.cfg` is a further instance, with a transaction of a
wrong amount beside two good ones (553 000 states): it passes, and is kept without
a run because `MoneyCorrect` proves what it shows; the passing run has no wrong
amount, and the refusal of one is that theorem's. `MaxFaults` bounds lost answers
and restarts, there and in the modules that follow.
In `Payouts` and `Refunds` two tasks are a stale one and a fresh one, and the pass
is a third; two refunds of an order are a part and the rest. `Amounts` holds the
partial amounts asked for, `MaxRows` bounds the refunds of an order.
In `Ledger` two orders of different events make one pocket negative while another
is positive, and their commissions and fees are such that each shows (one paid on
top, one within the price); `Horizon` counts the dates, `MaxEdits` bounds freezes and changes of
date. In `CheckIn` two batches are needed for an arbitration to be overtaken; three
scans with one fault were explored for safety only (1.2 and 3.4 million states).
In `Outbound` two calls race for a key, two passes for a row; `Calls`, `Batch` and
`MaxRefusals` bound them, and a second row is needed for a pass to be left with a
list that has grown stale.
In `Dossier` two uploads of one type, or of the two that were asked for, cross each
other and a decision, and two submissions race to create the request; one moderator
is enough for the run, since the theorems hold for any number.
`CHECK_DEADLOCK FALSE` everywhere, because everything may be over: orders closed,
payouts concluded, scans recorded, bounds used up.

*Fairness.* In `Checkout`, weak fairness on the steps of the sweep: the cron
fires every minute, under an advisory lock that lets one pass run, and a pass
goes on until it ends or throws. Nothing is assumed of buyers, organisers,
requests or payments; the number of aborts is bounded, without which a database
that kills every pass would starve the sweep.
In `Payments` the clock advances, a request and a reader go on to their end (weak
fairness), and the cron comes back to every payment it can see (strong fairness,
since the model's few readers are shared with pages and notifications, which the
server's are not). No notification, page or buyer is assumed to come at all. For a
payment to be seen by every pass, the batch of fifty and the age window are assumed
large enough.
In `Payouts` and `Refunds` tasks go on to their end and a transfer, or a return
accepted by Kkiapay, ends (weak fairness); the cron of every minute polls again
each row it lists (strong fairness, for the same reason). No administrator acts,
no notification comes.
In `CheckIn` a batch that reached the API is served (weak fairness), and each phone
tries again every twenty seconds (strong fairness: it may be waiting for an
answer). In `Outbound` deliveries go on, five minutes pass, and both passes come
back (weak fairness). Nothing is assumed in `Ledger` and `Dossier`, whose runs check
safety only.

## 5. Findings

Disagreements between the code and what the repository says of it, each with a
counterexample found by TLC in a run of its own (`findings` in `PROJECT.json`
quotes both sides):

1. `find_cancelled_kept`: the cancellation of an event reads its paid orders
   once; a payment settled after that leaves a PAID order with void tickets that
   nobody refunds.
2. `find_overdraft`: a payout validates the balance before the transaction that
   debits it; two concurrent requests withdraw the same money.

Further disagreements met while modelling have a configuration that refutes them
in seconds, and no run:

| Property | Configuration | What happens |
|---|---|---|
| `CancelsUnpaidOnly` | `FindCancelledPaid.cfg` | `cancel` may cancel an order paid after it read it (orders.service.ts:356 « Annule une commande non payée et libère ses places ») |
| `LapsedIsReleased` | `FindStuckSweep.cfg` | `quantityReserved` is decremented twice; the CHECK constraint then makes every pass throw on the same order (stock.service.ts:242-243) |
| `NotifiedMoneyAccounted` | `FindUnflagged.cfg` | a second success of one window, learnt while the first is being applied, is not recorded as an excess |
| `NotifiedMoneyAccounted` | `FindReplayLost.cfg` | the replay of an orphan closes its row even when the provider could not be read |
| `ClosedOnlySucceeds` | `FindRevived.cfg` | the answer to an initiation overwrites a payment that another request has replaced |
| `InitiatedIsDecided` | `FindUndecided.cfg` | a payment whose initiation got no answer is never looked at again |
| `ReturnedOnce` | `FindReturnedTwice.cfg` | two transitions to FAILED each credit the payout back (payouts.service.ts:335) |
| `DoneStaysDone` | `FindDoneUndone.cfg` | a late failure reopens a completed refund (refunds.service.ts:767-768) |
| `AvailableWithinTotal` | `FindRefundWithdrawn.cfg` | the refund of a sale made before the verification stays held after that sale's money is freed (refunds.service.ts:77-79) |
| `VerifiedIsDated` | `FindUndatedSale.cfg` | a sale read before the verification and written after it stays held for ever (ledger.service.ts:226-236) |
| `EntranceIsRecorded` | `FindScanLost.cfg` | a scan answered "rejected" because the database failed leaves the queue unrecorded (lib/scan/db.ts:14) |
| `EnteredIsUsed` | `FindEnteredValid.cfg` | a revocation crossing an arbitration leaves an entry whose ticket is VALID (checkin.service.ts:700) |
| `CancelledStays` | `FindCancelledEnters.cfg` | a ticket cancelled during a scan becomes USED (docs/DATABASE_PROPOSAL.md 11.4) |
| `ThreeAttempts` | `FindThreeAttempts.cfg` | each retry writes a new row: a refused message is tried without end (outbound.service.ts:318 « Trois tentatives au maximum ») |
| `ConfirmedLeaves` | `FindConfirmationLost.cfg` | a delivery that reads before the commit leaves no row for a pass to take up (notifications.service.ts:61 « Un balayage de rattrapage la reprendra ») |
| `NeverTwice` | `FindSentTwice.cfg` | an e-mail is sent again when the text message beside it was refused (notifications.service.ts:29 « Rien n'est envoyé deux fois ») |
| `SameDeviceOnce` | `FindAdmittedTwice.cfg` | a phone forgets a scan once it is synchronised and does not mark the ticket in its manifest: it admits it again (contracts/src/checkin.ts:214-215 « deux scans successifs sur le MÊME appareil ne doivent pas passer deux fois ») |
| `VerifiedStays` | `FindUnverified.cfg` | a document of the organization uploaded after the approval puts it back under examination, and its payouts are blocked (organizations.service.ts:679-680 « le premier n'a plus rien à prouver »; pro/verification/page.tsx:35 « Rien d’autre à faire ici ») |

And, by replacing the property of the configuration named:

| Property | Configuration | What happens |
|---|---|---|
| `ReservedCountsActive` | `FindCancelledPaid.cfg` | the double decrement behind `FindStuckSweep.cfg` |
| `ClosedStaysClosed` | `FindCancelledPaid.cfg` | `confirm` reopens an order the sweep has expired |
| `SoldCountsTickets` | `MCRequests.cfg` | two confirmations of a free order count its places sold twice |
| `SettledRowFixed` | `FindUnflagged.cfg` | a stale failure erases the reference of a payment just settled |
| `UnverifiedIsReread` | `FindUnflagged.cfg`, `MaxFaults = 1` | an unverified notification is attached to nothing when the payment carries an earlier attempt |
| `DueIsDecided` | `FindUndecided.cfg` | a push cancelled after it was seen in progress is never closed |
| `NeverReopened` | `FindReturnedTwice.cfg` | two recordings by hand cross: the second rewrites a concluded payout (payouts.service.ts:442) |
| `ProcessingIsConcluded` | `MCRefunds.cfg`, with the order at Bictorys | a refund accepted by Bictorys stays PROCESSING (refunds.service.ts:410) |
| `NoFalseFlag` | `MCPayments.cfg`, with two requests | a page opens the window of a payment whose initiation is not recorded yet; it is paid and settles the order, the recording reopens the row, and the next reading takes the same transaction for an excess |
| `OneOpen` | `FindRevived.cfg` | a revived payment is a second one in flight |
| `PurgedIsGone` | `FindUnverified.cfg` | the storage refuses to remove a personal document and its row is marked destroyed all the same (verifications.service.ts:328-329) |
| `OnePerType` | `FindUnverified.cfg` | two uploads of one type at once leave two documents (organizations.service.ts:809) |

None of them oversells (`NoOversell`), credits an order twice or without money
(`CreditedOnce`, `MoneyInv`), credits back a payout that was sent
(`SentStaysDebited`), shows a refund as done that is not (`CompletionIsTrue`),
lets two scans enter (`CountIsExact`) or tells of a payment that was undone
(`NothingBeforeCommit`): these are proved.

## 6. Proofs

TLAPS checks each theorem for every value of the constants, under the assumptions
named in the modules.

**Checkout** (`PlaceAssumption`: finitely many places, each of one order and one
category, every order has one, as `create` refuses an empty cart;
`FreeAssumption`; `BoundAssumption`; `NoOrderAssumption`).

* `TypeCorrect`: the type invariant.
* `StockConsistent`, `NoOversellCorrect`. `NoOversell` is not inductive: a
  settlement adds tickets without looking at the other tickets. `StockInv` adds
  that the counters fit the quota, that an order holds all of its categories or
  none (so that `confirm`, which sells what it finds reserved, sells what
  `issueForOrder` issues), and that every ticket was counted in `sold`. It says
  nothing of `reserved` against the reservations: that equality is broken
  (`ReservedCountsActive`), and no oversell does not need it.
* `HoldsConsistent`, `NoPhantomCorrect`. A release decrements by what it saw
  earlier; it never leaves a place reserved for nobody because an order reserves
  only once, so what a release in flight saw contains what is still held
  (`ReleasesSawAll`), and no release is in flight for an order that does not
  exist yet (`FreshOrders`).
* `ServedCorrect`: served whole, once and only when paid; inductive as it is.
* `CheckoutImplementsOffice`: `Checkout` implements `SeatSale`, from the
  previous ones: the seats handed out are the tickets (whole orders), so the
  office's capacity is `NoOversell`.

**Payments** (windows are payments, wrong amounts are transactions, finitely many
payments, and the two "none" values are not members).

* `TypeCorrect`: the type invariant, with what each request and reader works on
  at each point of the code (`LocalInv`): a reader that asks the provider has a
  transaction to ask about.
* `CreditedOnceCorrect`: inductive as it is, because `applyOutcome` reads the
  order under its lock, whatever the stale readings say.
* `MoneyCorrect`, `OwnTransactionsCorrect`. Neither is inductive. `MoneyInv`
  needs that a success in a reader's hands is the state of its transaction
  (`LearntIsTaken`), and that a push, whose amount no reader compares, is never
  underpaid (`WindowMayDiffer`). Both need `LinkInv` (`LinkCorrect`): that the
  reference in a row, in an answer about to be written, and in a notification or a
  push being read belongs to the payment it is applied to. Only the page's
  transaction may be another payment's, and there `Misbound` refuses it.
* `PaymentsImplementPurchase`: a step that collects money is a provider's step,
  one that settles the order is a settlement of an order not yet settled, by
  money already taken; every other step is invisible.
* `NoFalseFlagCorrect`, for any number of readers and one initiation at a time
  (`OneBuyer`): with two it is false (section 5). Money is called an excess on a
  stale reading, so the invariant says what a reading remembers. The row that was
  settled stays a success and carries no other transaction (`SettledFixed`); a
  reading that saw it settled saw no other reference (`WasSettled`); an excess
  implies a success (`FlagsLate`), so nothing is flagged when the order is settled.
  Only the recording of an initiation could undo a success: until then nobody can
  pay the row or learn anything of it (`UnrecordedIsFresh`), which is where the
  second initiation, by showing the window, breaks it.

**Payouts**: `TypeCorrect`, `StatusCorrect`, `SentCorrect`. A task writes from a
stale reading; what makes the row true all the same is that what it wants to write
(`goals`) is what the provider said, and the provider does not change its mind
(`GoalsTrue`).

**Refunds**: every invariant of the run. `CompletionCorrect`, `RevertedCorrect`: the
strengthening says that an answer in a task's hands is true of the payment
(`TaskGood`), that a refund's rows are numbered without gaps (`Numbered`), and the
types with amounts left open (`Shaped`). `TypeCorrect`, `WithinPaidCorrect`,
`RefundedIsVoidCorrect`, `ListedIsDecidedCorrect`: what is decided for an order is a
sum, written as the number of its units (`Decided` counts `Units`), so that a refund
adds a set of units to it (`DecidedAdd`) and a change of status leaves it alone
(`SameDecided`). They hold together (`PInv`): only a paid order that costs something
has refunds (`PaidRows`), and what the cancellation has dealt with is promised back
or reported (`Swept`).

**Ledger**: every invariant of the run. A balance is a fold (`SumFunctionOnSet`), and
the provers cannot use the library's induction theorems; the first part of
`LedgerProofs` proves by well-founded descent over the subsets of a finite set
(`SubsetInduction`) that the fold is the number of the positive units less that of
the negative ones (`SumIs`), hence what a change of one entry, of a bound or of a
partition does to it (`SumChange`, `SumLe`, `SumParts`).

* `TypeCorrect`, for any number of requests and officers. `withdrawn` stays a natural
  number because what is debited and not yet concluded was withdrawn (`Debited`).
* `ConservedCorrect`, likewise; it needs that an unsold order has no refund
  (`Unsold`).
* `OwedCorrect`, likewise: for every day, past or to come, what was withdrawn, is set
  apart, is free and is dated by that day is within what the sales due by then
  earned (`Owed`). It needs that a sale is held until a date its event had
  (`Dates`), and that before the verification everything is held without a date and
  nothing was withdrawn (`Before`). No run checks it: it is what makes the next one
  inductive.
* `HeldUntilDueCorrect`, for one request and one officer at a time (`OneRequester`,
  `OneOfficer`): what was read is still there when it is written (`Alone`), which is
  what two requests, or two unfreezes, break.

**CheckIn**: `TypeCorrect`; `WaitsCorrect`, from `AnswersTrue` (what a batch has
answered is recorded or refused); `OldestCorrect` and `CountCorrect`, from `ReadTrue`
(the entry an arbitration read is still there, or was demoted or revoked) and
`OneEntry` (the partial unique index).

**Outbound**: `TypeCorrect`, `CommitCorrect`, `SentOnceCorrect`. `Committed`: every
row, and every delivery beyond its reading, has a committed notification behind it.
`OneRow`: a key has one notification, in or out of a transaction. `Tokens`: a message
whose deliveries went well is in one place, a delivery or a row that no delivery
works on; a pass lists rows that are old, and the row of such a message is not old
while its delivery is at work, so one pass alone can take it. `Owned` and `Bound`
say whose the rows are.

**Dossier**: `TypeCorrect`, `AsleepCorrect`, `PurgedCorrect`, `AgreeCorrect`,
`NoStrayCorrect`. `NeverAsleep` is inductive because an upload reads the rows again
after it has written its own. `DecidedIsPurged` needs `AsksNothing`: a decided
dossier asks for nothing, so an upload that comes in late finds nothing missing and
reopens it. `StatusesAgree` needs that a submission half-way finds the request
PENDING unless a decision fell in between (`Submitted`), `NoStrayFile` that what is
about to be marked has left the storage (`Removed`); the last one is checked by no run
any more.

Only model-checked: liveness (`LapsedReleasedUnlessDrift`, `DatedIsDecided`,
`HandedIsConcluded`, `KkiapayIsConcluded`, `QueueIsDrained`, `PendingIsSent`), because
fairness is out of the prover's reach. Every invariant and both refinements that the
runs check are theorems, two of them under the hypothesis that makes them true:
`NoFalseFlag` with one initiation at a time, `HeldUntilDue` with one request of a
payout and one officer.

`OneOpen`, `ClosedOnlySucceeds`, `SettledRowFixed` and `NotifiedMoneyAccounted` hold
with one request and one reader at a time, and two break them (section 5): no run
claims them. `StockConsistent`, `HoldsConsistent`, `LinkCorrect`, `NoStrayCorrect` and
`OwedCorrect` state strengthenings that no run checks: they are theorems.

## 7. Not modelled

Front ends (rendering; the scanner's queue is in `CheckIn`), media, places and
countries (reference data), reports (read-only), provider HTTP clients (their answers
are nondeterministic), ticket signatures (cryptography). Authentication: what matters
there is the secrecy of codes and the rate of attempts, of which a state machine of
sessions says little. Of the modelled parts, what each leaves out is in section 3;
the largest are the manual attachment of a transaction to a payment, the batch and
age windows of the payment poll, the drafts and moderation of events, direct messages
and ticket e-mails, the routing of payments among providers, and the members, invitations and payout
accounts of an organisation. The map covers the services that hold the
state; most of the repository's lines are the pages of the web application.
