# adzbyte-app in TLA+

Models, model-checking runs and machine-checked proofs for the commerce core
of adzbyte-app (Laravel; `src/app`). The code is the reference: every
definition is translated from the PHP source at the lines `PROJECT.json`
names under `map`.

## 1. Inventory

The application is a stateless PHP program over one relational database. Its
concurrency comes from HTTP requests, webhooks, queue jobs and scheduled
commands that run at the same time, each as a sequence of database
transactions (`Support/Database/RetryingTransaction.php`, re-run on a
deadlock) with HTTP calls, mail or queueing between and after them. Every
command carries an operation id whose receipt makes a repetition harmless, and
an expected revision that refuses a stale one.

| Component | State | Operations | What is hard |
|---|---|---|---|
| Order payment (`Actions/Payments`, `Services/Payments`) | `orders` (status axes, revision, `payment_attempt_id`), `payment_attempts`, `payment_controls`, `payment_settlements`, `payment_events`, `payment_resolutions`; hosted sessions at PayMongo | start; creation dispatch; webhook; cancel, expire, recover, verify and their dispatch; reconcile | POSTs that are lost, late or unanswered; reads outside locks; webhooks duplicated and racing commands; processes that die between commit and dispatch |
| Order status axes (`OrderLifecycle`, `Models/Order` hook) | four axes of an order | validate on save | a refusal after an irreversible provider call |
| Order review (`Actions/Orders`) | approval, expiry, proposal, accepted revisions, conversation | submit, approve, reject, clarify, propose, resubmit, accept, expire | expiry against start and approval; proposals that no longer match the current quote |
| Package checkout (`Services/PackageCheckout/PackageCheckouts`, `QrphWebhooks`) | `package_checkouts` (status, phase, provider identities), `package_qrph_events` | create and generate, status read, webhook | generator, two-minute timeout and webhooks in any order; recovery by metadata |
| Package deliveries (`PackagePurchaseDeliveries`) | `package_purchase_deliveries` (status, attempts, claim) | enqueue, claim, send, complete, retry | lease expiry while sending; late completions; unbounded abandoned claims |
| API idempotency (middleware) | cache lock, `api_idempotency_keys` | process, replay, prune | lock lease and pending timeout against a slow handler |
| Order notifications | `order_notification_deliveries`, queue | record, deliver, recover | mail sent but not recorded; lost and duplicate jobs |
| Carts and handoff (`Actions/Carts`) | carts, items, change receipts, handoffs | add, remove, confirm, attach/merge, issue, consume | changed carts behind a fingerprint; retired credentials |
| Record visibility, users | roles, `record_deletions` | delete, restore, update roles | the last super administrator under concurrent commands |
| Catalog | products, prices, terms, change receipts | publish, archive, availability, revisions | versions and receipts under concurrency |
| Customer portal | cases, messages, work items, receipts | open, reply, manage | replies against resolutions |
| Order totals | none (pure) | tax and total | rounding on decimal strings |
| Registration, HTTP, Filament, console, schema | - | - | see "Not modelled" |

The parts interact through the database. An order's review decides whether
`PaymentAttemptActions::start` may reserve it; from then on only the payment
protocol moves it. A webhook and a control command meet on the order row's
lock. A paid package checkout enqueues its delivery in the webhook's own
transaction. Notifications are enqueued by the review's events.

What makes each part correct:

* payment: the payer is charged at most once and only for the order's current
  attempt; a confirmed cancellation is real; captured money becomes a paid
  order; no hook refuses a step that has already happened outside;
* review: no order is approved on content the customer has not accepted, and an
  expired approval is not payable;
* package checkout: paid is final and wins over every other outcome, and is
  announced exactly by one delivery row;
* deliveries: one effective completion per claim, nothing left unclaimed, a
  review state that retry can leave;
* idempotency: one execution per key while the record lives;
* notifications: every event reaches its targets or is marked failed or
  suppressed;
* carts: one owner, one effective merge, one use of a handoff;
* users: there is always an active super administrator (not so, see section 9).

`PROJECT.json` lists under `hazards` where in the code each of these can go
wrong, and which property looks at it.

## 2. Plan

In the order in which the behaviour matters; all of it is done.

| Step | Modules | Composes or implements | Proofs |
|---|---|---|---|
| 1 | `OrderPayment` over `CheckoutProvider` and `OrderLifecycle` | implements `PaymentLedger` | `OrderPaymentProofs` |
| 2 | `PackageCheckout`, `PackageDeliveries`, `PackagePurchase` | the third composes the other two and implements `PackageSale` | `PackageCheckoutProofs`, `PackagePurchaseProofs` |
| 3 | `OrderReview` | extends `OrderPayment` and implements it | `OrderReviewProofs` |
| 4 | `Carts`, with the order a customer submits | - | `CartsProofs` |
| 5 | `OrderNotices` | - | `OrderNoticesProofs` |
| 6 | `ApiIdempotency` | - | `ApiIdempotencyProofs` |
| 7 | `SuperAdministrators` | - | `SuperAdministratorsProofs` |

What was planned and is not built - `Catalog`, `Portal`, `OrderTotals` - is in
section 10, with the reason.

## 3. The payment protocol

### Modules

* `OrderLifecycle` - the transition tables and `validate()` of
  `OrderLifecycle.php` as functions and predicates on a record of four axes.
* `CheckoutProvider` - the external provider. It has its own variables: POSTs on
  their way, and per session its attempt reference, its status and the payment
  on it. Only what the code relies on is assumed. A create or expire POST is
  executed at any later time or never, a session lapses by itself, and with
  `ExpiresWhileProcessing` it may even expire under a payment in progress. An
  expire request on a captured session is refused.
* `OrderPayment` - the application. One action is one transaction or one HTTP
  exchange. `DB::afterCommit` work is a process with a program counter
  (`creator[a]`, `worker[c]`) that can die between any two steps.
* `PaymentLedger` - what all this promises: reserve, charge once, confirm; or
  release uncharged. 47 lines, no sessions, no webhooks.
* `MCOrderPayment` - the symmetry sets for TLC.
* `OrderPaymentProofs` - the theorems.

| Model | Code |
|---|---|
| `revision, status, approval, payment, fulfillment, current` | the order row; `current` is `payment_attempt_id` |
| `attemptState, attemptSession, settlement` | attempt rows, their session and settlement |
| `control[c], controlState[c]` | a command's immutable columns (with the root action `effective()` computes) and its state |
| `receipt, reconciling, resolved` | event receipts, reconciliations between their two transactions, resolutions |
| `StartPayment`; `CreateSend`, `CreateAnswered`, `CreateFetched`, `CreateFails`, `CreateSaved`, `CreatorDies` | `PaymentAttemptActions::start`; `dispatch` and `update` |
| `ReceiveApplied`, `ReceiveRejected` | `PaymentEventActions::receive` with `PaymentSettlementActions::apply` |
| `ReconcileRead`, `ReconcileCommit`, `ReconcileAborts` | `PaymentOperations::reconcile` |
| `CancelLocally`, `RequestCancel`, `RequestExpire`, `RequestExpireOf`, `RequestVerify`, `RequestRecover` | `PaymentControlActions::start` by action |
| `WorkerReads`, `WorkerAuthorizes`, `WorkerSends`, `FinishActive`, `FinishExpired`, `WorkerMarks`, ... | `PaymentControlActions::dispatch`, `authorizeDispatch`, `finish`, `outcome` |

### Abstractions

* A transaction is atomic: each locks the order row first and re-checks what it
  acts on. A transaction rolled back and re-run is one that came later.
* A replayed request (same operation id) and a refused request change nothing.
* What a client reads over HTTP is kept as the branch it selects. The attempt
  that `dispatch()` loads without a lock is read as of the GET: an attempt has
  at most one session, and a command naming another one is blocked either way.
* The webhook's candidate lookup precedes its transaction, but attempts exist
  before their POST leaves and are never deleted, so it finds the same one later.
* The evidence of a receipt equals the provider's state when it is used: a
  captured session does not change any more.
* Roles, approval expiry and a pending proposal can refuse a request at any
  time: `WorkerDenied` may happen at every authorization, and `StartPayment` need
  not happen.
* Amounts, methods, URLs, livemode and the evidence's other fields are one bit:
  it verifies or not. With `ClockSkew` any evidence may fail to.
* Several copies of an event (`Copies`) are different provider event ids for the
  same payment; a repetition of the same id is a replay.
* `ReadLeadsTo` knows the checks of `CheckoutClosure` and `dispatch` by what they
  lead to. The reasons for `blocked` are not told apart, a session that does not
  match its attempt is one that is not `Closable`, and the intent's status is
  part of `sessionPay`.
* `OrderHookAccepts` states what `Order::booted` asks of the columns that this
  module has, with the exact next revision (`NextRevisions`). What it asks of
  `approval_expires_at` and `pending_proposal_id` is in `DealInv` (section 4).

### What the runs show

| Run | Instance | Result |
|---|---|---|
| `payment_safety` | 2 attempts, 2 sessions, 2 commands, 2 events per payment, skewed clock, weak provider | `PaymentInv`, `OneWayToPay`, `PaidIffSettled`, `ConfirmedClosureIsReal`, `OnlyExpiryStrandsMoney`, `HooksNeverRefuse` and the refinement hold; about 137,000 states |
| `payment_closure` | 1 attempt, 4 commands | `ClosureHidesPayment` is violated, see below |

The protocol's liveness, `CaptureIsAcknowledged`, is checked in the run `review`
(section 4), under all that can happen to an order besides.

Bounds. A second attempt exists only after the first is retired, and a third
would repeat the second; one session per attempt is all the code can make, and
`CreationInv` proves it. Two commands suffice for a takeover of a first by a
second; four are needed for the divergence. `ReviewBound` stops reviews, not
payments. None of these bounds is in the theorems.

The cfgs turn deadlock off: an order that is paid or cancelled with every
process ended really stops, and so does one whose creation process died.

### Finding

`docs/plans/2026-10-18-paymongo-operations.md:101` asks to "hide payable
continuation while closure is unresolved". `start()` accepts as the target of a
verification any earlier command of the attempt that is neither confirmed nor a
verification (`PaymentControlActions.php:77-80`), whatever came after it. With
a recover command that was never confirmed, a later command that brings the same
session back, and then a cancellation whose outcome is unknown, a verification of
that first recover command reads an active session and makes the attempt payable
again, while the cancellation stays unresolved.
The charge remains a single one (`OneWayToPay` holds in the same model); what is
lost is the customer's cancellation being held until it is resolved.

That is also the only way to lose it. `HeldSpec` is the protocol in which no
command that would make the attempt payable is stored after one that asked to
close it (`ClosuresAreNotOvertaken`), and `UnresolvedClosuresHidePayment` proves
that the plan's sentence holds there, for any number of commands. Recoveries
that were under way when the closure came need not be stopped: the closure takes
the next revision, and `finish()` refuses an older reservation. `HeldInv` says
so.

### What is proved

For every set of attempts, sessions, commands and copies, and every value of the
other constants (`PaymentAssumption`, `ProviderAssumption`: `None` is none of the
identities, the flags are Boolean, the bound is a number):

* `TypeCorrect`, `Invariant`, `NoSecondCharge`, `PaidMeansSettled`,
  `ClosureIsReal` - the invariants above,
* `MoneyIsWithinReach` - `OnlyExpiryStrandsMoney`, with `LiveInv` besides,
* `ClosuresAreHeld`, `UnresolvedClosuresHidePayment` - of `HeldSpec`, that
  `ClosureHidesPayment` holds, by way of `HeldInv`,
* `SavesAreAccepted` - the action property `HooksNeverRefuse`: every step, in
  every state of the invariant, is one the model hooks let through, and
* `LedgerImplemented` - the refinement of `PaymentLedger`.

A type invariant is the first conjunct of each inductive invariant, here and in
the other modules, and is not checked a second time by itself.

`OneWayToPay` is not inductive: it says nothing of POSTs still on their way or of
what a worker has read. `PaymentInv` adds it in six parts. `PointerInv` ties the
order to its attempt. `CreationInv` says that a POST leaves once, that an attempt
has one session, and that an attempt is closed only after its creation dispatch
has ended, so that nothing can appear after a closure. `BindingInv` says that a
bound session was made for its attempt. `RetirementInv` says that all sessions of
an expired attempt are dead. `SettlementInv` ties settlements to captures.
`DispatchInv` says that what a worker read stays true: an expired session
does not come back, and a session that belongs to an attempt goes on doing so.
The proof goes action by action; one lemma per part and group of actions, and a
lemma that the provider preserves it because it only moves sessions forward.

`OnlyExpiryStrandsMoney` is the safety side of `CaptureIsAcknowledged`: in every
state a capture can be settled by the webhook that reports it. That the webhook
then does it is the fairness. The proof is short because `PaymentInv` leaves no
room: a captured session is the only one of the current attempt, so that its
identity is found by either lookup and verifies; the attempt of a pending order is
in one of the four states `apply()` accepts; and that of a paid order is settled
by this session.

Only model-checked: the liveness property itself (fairness is outside the
prover's reach).

## 4. Order review

`OrderReview` extends `OrderPayment`: its steps are review commands, the
scheduler, the start of the payment, and every other step of the payment
protocol. It adds what `OrderPayment` leaves open: which content a command is
about. `ImplementsPayment` says that this only restricts the protocol.

| Model | Code |
|---|---|
| `live, sellable` | what `OrderReviewActions::quote` would return now, or that it would abort |
| `accepted` | the current `order_revisions` row: version and content |
| `proposals, proposal` | `order_proposals`, `orders.pending_proposal_id` |
| `lapsed`, `listed` | `approval_expires_at` is past; the order is in the list of `ExpireOrderApprovals` |
| `screen[t]` | the page a customer or a member of staff acts from: the revision, deal and proposal it showed |
| `charged[a]` | `payment_attempts.order_revision_id` |
| `Approve`, `Reject`, `Clarify`, `Propose`, `Resubmit`, `AcceptProposal`, `Converse` | the cases of `command()` |
| `ListOverdue`, `ExpireListed` | the selection without a lock, and `expire()` under it |
| `Pay` | `PaymentAttemptActions::start` with the rest of `eligible()` |

`consents` and `approvals` are history variables: the deals each side has agreed
to, as its own page showed them. Contents are numbered by quote; a new price,
new terms or a new policy is a new number (`Requote`), and versions never come
back. Replays of an operation id change nothing and are left out.

The run `review` has one page of each side, one attempt with its session and one
control command, five revisions' worth of reviews and a second quote; about
681,000 states. A page may be as old as the order: a second page of the same
side would be another delay of the same kind. It shows

* `ChargedAsAgreed`: the payer is charged for what the page showed, which both
  sides have agreed to, on an approval that has not run out;
* `ProposalIsNotBypassed`: no resubmission or stale page brings back what a
  proposal replaced;
* `ChangesAreCurrent`: what is accepted changes only to what is on offer;
* `ExpiryIsDue`: the scheduler's old list expires nothing that is not due;
* `OverdueIsExpired` and `CaptureIsAcknowledged`, the liveness.

Fairness. `commerce:expire-order-approvals` runs every minute
(`routes/console.php`) and may die, but not each time: weak fairness of
listing, strong fairness of expiring. A receipt that can be applied is
eventually applied: the provider repeats a signed delivery until it gets a 2xx,
and the webhook answers 2xx only with a stored receipt. Nothing is assumed of
customers, staff or dispatches, which can all stop or die. Two conditions of the
provider are left out of this run on purpose, because `CaptureIsAcknowledged` is
false with them: a receipt rejected for a skewed clock waits for an
administrator, and a payment captured on an expired session is refused for good
(`PaymentSettlementActions.php:33`).

Proved (`OrderReviewProofs`), for any sets of pages and any bounds, with
`ReviewAssumption` (no page belongs to both sides) besides the protocol's own:
all the safety properties and the refinement, and from the refinement every
theorem about `OrderPayment`, in the terms of a reviewed order
(`ReviewedOrdersPayOnce`, `ReviewedOrdersKeepLedger`). The invariant `ReviewInv` is
needed because none of them is inductive: `ScreenInv` says that a page which
shows the current revision shows the current content, which is what makes
`expected_revision` a check of content; `DealInv` says that an approval is of
the accepted deal, that a pending proposal is the newest one and keeps the order
in clarification, and that without one the accepted content is the newest
proposal's.

## 5. Package purchases

### Modules

* `PackageCheckout` - one checkout row. The request whose insert won runs the
  generator; every other request and every poll is a `StatusRead`. A webhook
  delivery runs in a handler, whose lookup and recovery precede its transaction.
* `PackageDeliveries` - the two outbox rows of a checkout, their senders and the
  bridge.
* `PackagePurchase` - both, with the enqueueing inside the transaction that
  makes a phase true.
* `PackageSale` - the promise: opened once, settled by one payment that stays,
  the shop told of the sale only after that.
* `MCPackage...` - the symmetry sets; `PackageCheckoutProofs` - the theorems about
  the checkout, `PackagePurchaseProofs` - those about the outbox and the two
  together.

| Model | Code |
|---|---|
| `status, phase, bound, paidBy, queued` | the `package_checkouts` row; `bound`: `provider_intent_id` is set; `queued`: the phases that have an outbox row |
| `receipt`, `handler[h]` | `package_qrph_events.outcome`; `QrphWebhooks::receive` between lookup and transaction |
| `Create`; `IntentAnswered`, `OfferEnds`, `MethodAnswered`, `AttachAnswered`, `GeneratorFails`, `GeneratorDies` | `PackageCheckouts::create`; `generate`, each through `advance` |
| `StatusRead` | `PackageCheckouts::status` |
| `Receive`, `Recover`, `RecoverFails`, `Apply`, `HandlerDies` | `QrphWebhooks::receive`, `recover` |
| `delivery[ph]`, `sender[w]` | a row of `package_purchase_deliveries`; a worker from claim to completion |
| `Enqueue`, `Claim`, `SentAnd...`, `Complete`, `Retry` | `PackagePurchaseDeliveries::enqueue`, `claim`, `send`, `complete`, `retry` |

### Abstractions

* Deadlines are not counted: whatever may have passed by the time it is asked
  for, may have passed at any time. That includes the two minutes of a creation,
  the code's expiry, the back-off of a delivery and, for a dead sender, its lease.
* A POST is sent once and executed at any later time or never (`posts`); for the
  bridge, `onWire`.
* The unique index on `operation_id` leaves one generator per checkout.
* Signed events carry the checkout's own amount, currency and mode. An expiry by
  intent and one by payment method find the same row, since a code is attached
  only after both identities are stored.
* Two deliveries of one event id that race on the primary key are one after the
  other: the loser is rolled back with all its effects. This relies on the
  database; no property would notice if it did otherwise. The receipts called
  rejected, of events that do not fit the checkout, change nothing else and are
  left out.
* Requests of one phase are the same to the bridge (their `Idempotency-Key`): one
  that is still under way when the phase is accepted needs no further step. A
  refusal or a local error leaves the request under way or not (`MayBePosted`).
* `attempts` names a claim in place of the random `claim_token`: every claim
  increases it.
* The order in which due rows are picked, payloads and hashes are left out.

### What the runs show

| Run | Instance | Result |
|---|---|---|
| `package_early` | 2 payments, 2 events for each fact, 2 handlers, `EarlyEvents` | `PaidIsAnnounced`, `ShownCodeIsMatched`, `CheckoutInv`, `OutcomeStands` hold; about 75,000 states |
| `delivery` | 2 senders, limit 3, 3 mishaps, slow senders | `DeliveredWasAccepted`, `DeliveriesInv`, `AttemptsArePaidFor`, `OnlyTheClaimHolderEnds` and `QueuedIsSettled` hold; about 459,000 states |
| `delivery_limit` | 2 senders, limit 2 | `TenAttemptsStop` is violated, see below |
| `purchase_safety` | 2 payments, 1 handler, 2 senders, limit 2 | `ImplementsSale`, `EventsAreMatched`, `OneSenderPerPhase`, `PurchaseInv` hold; about 301,000 states |
| `purchase_liveness` | 1 payment, 1 handler, 1 sender | `CaptureIsTold` holds; about 39,000 states |

Bounds. Two payments make a conflict, two event ids for one fact a repetition
that no receipt stops, two handlers a race; a slow sender
and its successor are two, and either is free to come back as a third. `Limit` is 10 in the
code; 2 or 3 reach it sooner by the same steps. `MishapBound` limits deaths,
lapses under live senders and operators' retries, since without a limit a
delivery need never settle: that is the finding below. None of the bounds is in
the theorems except as an arbitrary number.

`EarlyEvents` lets payments be reported on an intent that has no code yet. The
code is written for that (`recover()`), so the safety run allows it. A webhook
that looks the checkout up before the intent's identity is stored and recovers
after it is receipted as unmatched for good; `EventsAreMatched` (in
`purchase_safety`, where payers only use attached codes) shows that an attached
code excludes this.

Deadlock is off in the cfgs: a settled, delivered purchase stops.

Fairness. The provider repeats a signed delivery until it gets a 2xx, and each
repetition may meet a dying handler, hence strong fairness of `Receive` and
`Apply`. `package-purchases:deliver` is scheduled every minute
(`routes/console.php:7`), hence strong fairness of claiming a phase that can be
claimed again and again; a sender is bounded by its HTTP timeouts, hence weak
fairness of its own steps. That holds while `bridge_enabled` is set. Nothing is
assumed of the bridge, of operators, of payers, of readers or of the generator.

### Finding

`docs/reviews/2026-10-22-package-purchase-fulfillment.md:42`: "Ten unsuccessful
attempts stop in needs_review." `complete()` applies the limit
(`PackagePurchaseDeliveries.php:184`), and a sender that dies never gets there;
`claim()` takes its row up again after five minutes whatever `attempts` says.
A delivery that kills each of its senders is attempted for ever.

How far the limit is overrun is `AttemptsArePaidFor`: a delivery is attempted
at most `Limit` times, and once more for each sender that died, each lease that
lapsed under a live one and each retry by an operator; while another attempt is
due, fewer. So the sentence holds of senders that survive, and the run `delivery` and
the theorem `AttemptsAreAlwaysPaidFor` say so for any number of deaths.

### What is proved

For every set of payments, event copies, handlers and senders, every limit and
bound, and both values of the flags (`CheckoutAssumption`,
`DeliveriesAssumption`): all safety properties above, that the composition is a checkout and an outbox by
their own specifications (`PartsImplemented`), and that it implements
`PackageSale` (`SaleImplemented`).

`PaidIsAnnounced` alone is not inductive: a settlement writes the payment of the
event a handler holds, so `HandledInv` adds that this event was issued.
`ShownCodeIsMatched` and `EventsAreMatched` need `BindingInv`: the identity of the
intent is stored before anything can be attached. `OneSenderPerPhase` needs
`ClaimInv` (claims of one phase differ and none is newer than the row's) and
`LeaseInv` (without lapses a live sender holds its claim). The refinement needs
`OutboxInv` (rows are exactly what was queued, and the bridge knows of no other)
and `ReservedInv` (no webhook finds a checkout before it is reserved).

Only model-checked: the two liveness properties.

## 6. Carts, handoff and submission

`Carts` models guest carts under their own proofs, handoffs to a browser of the
application, the claim by a customer, and the order submitted from a cart.

| Model | Code |
|---|---|
| `credential, owner, mergedInto, revision, lines` | a row of `carts` with its `cart_items`; a quoted offer is the version of prices and terms together |
| `link`, `handoff`, `orders` | `customer_carts`, `cart_handoffs`, `orders` by cart and revision |
| `grant[u]`, `screen[u]` | the guest cart in a browser's session; the picture behind the fingerprint it was shown |
| `offer`, `limited`, `policy` | the catalog: newest version and availability; `limit_one_per_cart` of one category; the version of the commerce policy |
| `Revise`, `SwitchLimit`, `Publish` | staff: a product, the category's limit, `CommercePolicyActions::publish` |
| `Add`, `Remove`, `Confirm` through `Mutate` | `CartActions` |
| `Mint`, `Consume`, `Expire` | `CartHandoffActions`, the sixty seconds |
| `Preview`, `Attach`, `Merge` | `mergePreview`; `attach` without and with a cart of the customer's own |
| `Review`, `Submit` | `OrderActions` |

A transaction locks the cart and then, with locking reads, what its answer
depends on (`lockedProducts`, the commerce policy), so it is one action. A
fingerprint is equal to another exactly if the pictures are. Three liberties:

* That a product is hidden from the shop (`RecordVisibility::isDeleted`, at
  `CartActions.php:410` and `CartSnapshot.php:28`) is read without a lock and is
  in no fingerprint. It is left out: it can refuse a command, but no property
  speaks of it.
* A browser forgets its guest cart in the step that claims it, though the code
  clears the session after the commit. In between, the cart is no longer the
  guest's, so its credential opens nothing.
* Right after a login without conflicting services, `afterAuthentication` shows
  nothing and sends back the fingerprint it has just read (`CartSession.php:104-111`).
  That is `Preview` and then the claim, with nobody looking at the screen.

The run `carts` has two customers, two
carts, two handoffs, two products that rival each other and five changes of
carts, catalog or policy; about 1,005,000 states. Two of each are what a conflict needs;
two carts make one merge, and one that follows a claim of the other browser.
Five changes fill both carts, show a browser one state and move on twice.

`CartsInv` says that a cart has one authority, however tabs, browsers and claims
interleave. `ClaimIsAsShown` and `OrderIsAsReviewed` say that what is claimed or
ordered is what that browser had been shown, the category's limit and the policy
of the order included, although every piece of it can change between the two requests.
A category's limit that is switched on after services were added is no violation
of anything: the code lets such a cart stand and refuses to confirm or order it.

Proved (`CartsProofs`, from `CartsAssumption`): all four properties for all
values of the constants. `OwnershipInv` is inductive with the types; it carries
the two facts the action properties need, that a link names an owned cart and
that a browser's grant names a handoff that exists.

## 7. Order notifications

`OrderNotices` models one row of `order_notification_deliveries` and any number
of queued jobs for it. The queue and the mail server are external: a job is
pushed after the commit that promised it, or lost; it is run by one worker at a
time, counted, and offered again when the attempt throws or the worker dies.
Mail leaves inside the transaction that holds the row's lock, so that a worker
can die between the two, and `RetryingTransaction` can run the whole callback
again.

A send that throws after the server took the mail is a worker that dies there
(`WorkerDies`): the same rollback, the same next attempt. That `Job::fail`
deletes the job before it calls `failed()` is one step.

The run `notices` has two jobs (the recovery adds one to a first that is still
waiting), the code's three tries and five deaths, reruns or retries by an
operator; about 35,000 states.

* `OneMailPerReceipt`: mails are counted against transactions that never
  committed; there is one besides, and only if the row says so.
* `EndIsFinal`: sent, failed and suppressed exclude each other, and jobs still
  in the queue change nothing afterwards.
* `NotificationEnds`: under fair workers and the five-minute schedule every
  recorded notification ends.

Fairness is that of queue workers and of the schedule; a lock that is free again
and again is got at last, hence strong fairness where a step waits for it.
`MishapBound` limits deaths: without it nothing need end. A mail server that
refuses for ever is not excluded; then the notification ends as failed.

Proved (`OrderNoticesProofs`): the two safety properties for any number of jobs
and tries, from `LockInv`: the row is held by exactly the job between its check
and its commit, and has not ended while it is.

## 8. API idempotency

`ApiIdempotency` models all requests with one key. Nothing in the middleware is
one transaction, so each query is a step, and a request may stall or die between
any two. The cache lock is a lease that a slow request loses without noticing;
the pending record outlives it, but not for ever.

Between the save of an answer and its return the request can still die: then a
retry gets an answer nobody had before.

The run `idempotency` has five requests of two contents; about 2,900,000 states.
Three make a takeover and a late first; five do it with both contents.

* `OneRunAtATime`: two requests run at once only while one of them has been
  running for longer than the pending timeout of fifteen minutes.
* `AnswerIsOwn`: a replayed answer comes from a run of the same content, one that
  was itself answered so or died before it could be, also after the key was taken over: `save()` and `delete()` name the row by its id.
* `CompletedIsKept`: a stored answer stays until it expires, whatever slower
  requests delete. The exception is stated in it: a record that completed after
  the pending timeout may be removed by a request that had found it stale.

Deadlock is off: requests end.

Proved (`ApiIdempotencyProofs`, from `IdempotencyAssumption`): all three, for any
number of requests and any split of their contents. Nothing is atomic here, so
the argument is about rows, not about who holds the lock. `RunInv`: a request
that runs within the pending timeout has the key's record, pending and fresh;
there is one record, hence one such request. `RecordInv`: a completed record is
the work of the request it is named after, which gets the same answer or none,
and a pending one is of a request that is running or dead.
`DoomedInv` is the part that is easy to miss: a request that has found a record
stale deletes it later, by its id, and by then that record may only be one whose
writer is late or gone, or whose day is over. `IdempotencyInv` is all of these
together; the run checks it too.

## 9. Super administrators

`SuperAdministrators` models the requests that delete, restore and re-role users
in three steps: the first, plain query; the lock on the users it names; the rest.
The distinction matters on MySQL, whose default isolation is repeatable read:
the first plain query of a transaction fixes the snapshot in which all later
plain queries read, and so do the subqueries of a locking one, while rows that a
query locks are read as they are. A request therefore carries the roles and
deletions of its first query (`supers`, `deleted` in `request[r]`), whatever
committed while it waited. Other places of the code know this rule
(`OrderAggregate.php:12`, `CatalogActions.php:151`, `CartActions.php:385`).

### Finding

The run `identity` (three users, one of whom may manage without being a super
administrator, two requests) violates `AnActiveSuperAdministratorRemains` in six
steps. Super administrators a and b are the only two. b's request to delete a
makes its first query; a's request to demote b makes its own, locks both users
and commits. b's request now gets the locks. It finds b not deleted, b still a
super administrator in its snapshot, and counts two, because the role subquery
of `activeSuperAdministratorCount()` (`RecordVisibility.php:107`) reads the
snapshot too. It deletes a; b has lost the role: none is left.
`docs/evidence/2026-10-24-filament-ux/record-management.md:54-56` says that
deleting the last one is rejected, and
`tests/Feature/RecordVisibilityConcurrencyTest.php:62` is named after this race,
but runs on SQLite (`phpunit.xml:28`), whose writers do not wait with an older
snapshot; the deployment is on MySQL (`docs/deployment/hostinger-business.md:89`).
Locking the users before any plain query, or
reading `model_has_roles` with locking reads, would close it.

### What is proved

`CurrentRolesLeaveOne`: if no role changes while a request that has read the
roles has not ended (`RolesStayWhileRead`), there is always an active super
administrator - for any users and requests, with role changes, deletions and
restorations. So what the finding needs, a role changed under a snapshot, is all
that is wrong.

The argument is not the count but the actor: who deletes or demotes a super
administrator is one, is not the target, and is found active by a locking read.
The invariant adds what makes the first of these current: what a request that has
not ended has read of the roles stands (`ViewIsCurrent`).

`DeletionsLeaveOne`: deletions and restorations alone leave an active super
administrator. That is the claim of the comment at `RecordVisibility.php:128`,
and it is true; it follows from the first, since they change no role.

## 10. Not modelled

* **Catalog.** Each command locks its product or category and ends in one
  transaction. What others see of it is in `Carts` (`Revise`, `SwitchLimit`) and
  `OrderReview` (`Requote`, `SwitchSale`); two creations with one operation id
  are decided by a unique key. A model would restate the lock.
* **Customer portal.** The same mechanism as the review commands - one row lock,
  one expected revision - with no second party or process.
* **Order totals.** Digit-wise arithmetic on strings of up to 29 digits; the
  model checker's integers are 32 bits wide, and on numbers that fit the
  algorithm has nothing to get wrong that a table of examples would miss.
* **Registration and activation.** The framework's password tokens and mail
  around one insert.
* **Record visibility besides users.** Inherited deletion is a recursive query,
  not a protocol. The deletion of a role reads its assignments from the same
  kind of snapshot (`RecordVisibility.php:158`); that hazard is listed, not
  modelled.
* **HTTP parsing, policies, Filament pages, rendering, migrations, vendored
  code.** Sequential code around the actions. The JavaScript in `public/js` is
  Filament's published bundles, and `vite.config.js` is build configuration:
  the program itself is PHP, and that is what the modules and `map` are about.

Signature verification and hashing are taken to work throughout.
