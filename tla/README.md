# GRIDGO API: TLA+ specification

`src/` is the HTTP API of a print marketplace: clients order printed goods,
shops produce them, riders carry them, and GRIDGO's Operations desk confirms
transfers, reviews work, pays shops and settles refunds. It is one Node server
(`src/src/server.js`) over PostgreSQL, run in several replicas, with background
sweeps on timers. This directory models the parts where the order of events
decides whether somebody loses money or goods.

## 1. Inventory

### How the program runs

* Every mutating request and every sweep runs inside one database transaction
  that first takes the advisory lock `gridgo-domain-mutation`
  (`database.js` `transaction`, `server.js` `enqueueMutation`). It loads the
  rows, changes objects in memory and calls `save()`, which writes the
  difference, derives events and notifications and queues push rows. Realtime
  messages leave only after the commit. A refused request commits nothing (a
  few refusals, such as a wrong handover code, commit their attempt counter).
* So requests do not interleave *inside*, and what is hard is the order of
  *whole* requests: five kinds of people and a clock act on the same order for
  weeks, each handler checking a part of the state and trusting the rest.
* Three things do run outside that lock: the push worker, the deletion of
  object bytes, and network transports.

### Components

| Component | State | Operations | What makes it correct | Status |
|---|---|---|---|---|
| Order lifecycle | `order.state`, `timeline`, `cancelledAt` | `/orders/:id/transition`, production finished/review | goods only move on reviewed work; a stopped order stays stopped | Order |
| Payments | `order.payments` | submit, confirm, reject | every submission can be decided; nothing collected after a settlement | Order |
| Payout stages | `order.payoutMilestones` | proof, release, payout_released | never pay out money not collected; pay only for work done | Order, Escrow |
| Claims, issues, escalations | `claims`, `issues`, `order.payoutHold` | raise, hold, release, report, resolve | holds have causes and block what they must | Order |
| Issue window | `issueWindowOpenedAt`, `issueWindowExpiresAt` | handover, expiry sweep, client confirm | every handover opens it, every window closes | Order |
| Refunds | `refundRequests`, `refundSettlements`, `refundSupplierPayouts` | file, destination, review, settle, pay | a settlement divides what is left and no more | Order, Escrow |
| Dispatch and handover | checklist, `order.handover` | accept, inspect, pickup, deliver, collect | the balance is settled before goods change hands | Order |
| Transactions, domain lock | connection, callbacks | transaction, afterCommit, markRollback | atomic, callbacks only after commit | Realtime |
| Realtime transport | listener, epochs, streams | notify, listen, reconnect, refresh, stream | only committed rows are shown; an open stream catches up, lost call pointers apart | Realtime |
| Push outbox | `notification_push_outbox` rows | enqueue, claim, renew, send, verdict, expire | at least once until expiry, one owner per attempt, nothing forgotten | PushOutbox |
| Files: attachments, previews, retention | `files`, references, objects in the store | upload, save, preview, delete, sweep, reconcile | rows and objects agree; what is needed keeps its bytes; deletions finish | Files |
| Order calls | `order_calls`, signals | create, accept, decline, heartbeat, signal, tick | an active call is between the current parties; each call ends | OrderCalls |
| Vouchers, checkout, baskets | vouchers, reservations, redemptions, carts, group payments | choose, checkout, submit, confirm, cancel, refund, sweep | one voucher funds one payment; groups of a basket are paid together | Checkout |
| Shop recovery, moves, changes, deadlines | `order.shopRecovery`, supplements, changes, reschedule | decline, time-out, move, pay, ask, agree, refund | one shop owns the job; price differences are funded | Interventions |
| Quotes and samples | `quoteRequests`, private listings, `sampleBatchDrafts` | reply, publish, accept, renew, decide, check out | what is ordered is what was promised, in time, once | Offers |
| Refund commands | `refundCommands`, `refundAttempts`, request version | the commands of `refunds.js`, repeated or late | the money is sent once; nothing is filed that nobody asked for | RefundCommands |
| Shop's case, service lines, listings | approval case, `supplierServices`, catalogue items, photos | decide, reapply, submit, verify, suspend, edit, review, take down | what is sold was reviewed; its photos stay; a restore brings back what its suspension took | Catalog |
| Everything else | see `components` in PROJECT.json | | | not modelled, with the reason |

### What is hard to test here

`PROJECT.json` lists each hazard at its line. The main kinds: releases,
confirmations and settlements of one order in orders nobody wrote a test for;
facts decided early and trusted late (`beforeProduction`); holds raised and
lifted by several people; a generic transition route beside dedicated ones with
more checks; sweeps racing clients at a deadline; lost answers and repeated
commands; leases of crashed workers.

## 2. Plan

Done: `Order` with `Escrow`, `PushOutbox`, `Files`, `Checkout`, `OrderCalls`,
`Realtime`, `Interventions`, `Offers`, `RefundCommands` and `Catalog`, each with a
run, its type invariant and its safety properties proved. What no theorem states
is liveness and one property about ENABLED (section 5).

Left, in this order:

1. More refinements, in the way `Order` implements `Escrow`: one wallet transfer per
   settlement as what `RefundCommands` promises, an at-least-once mailbox as what
   `PushOutbox` promises.
2. **Handover**: code attempts and lockouts, hub reminders, staff claims of a
   handover after the window; composes with `Order`.
3. **Money**: `roundBps`, both payout plans, proportional fees and voucher
   splits against reference definitions over bounded inputs.
4. The working-hours clock of production time, and the penalties it leads to
   (`Interventions` has the deduction only).

Runs: one per question, small constants. Constants are parameters with
assumptions so that each module can also be proved about; recursion stays out
of modules with proofs.

## 3. Modules

| Module | What it is |
|---|---|
| `Escrow` | Abstract ledger of the shop's price: received, paid, owed, returned, closed. |
| `Order` | The order: every handler that changes one, as one action each; properties; the refinement mapping `Ledger` to Escrow. |
| `MCOrder` | Instances of Order for TLC: witnesses that the chosen amounts are interesting. |
| `OrderProofs` | The order: types, funds, the refinement of Escrow, its path and what rests on that. Then `OrderCalls` and `Realtime`: what its parties hear of it. |
| `PushOutbox` | The outbox table, the drain of each replica, devices, time and faults; properties. |
| `MCPushOutbox` | Symmetry and `OneMishapSpec` for TLC. |
| `PushOutboxProofs` | Types, leases, verdicts, the bound on attempts; what a drain sees and what it leaves behind. |
| `Files` | A client's files: rows, bytes, renditions, saving, use by an order, deletion in steps with faults. |
| `Checkout` | Carts, baskets, vouchers, the payments and refunds that move them. |
| `OrderCalls` | Calls between client, shop and riders while the order changes hands. |
| `Realtime` | Transactions under the domain lock, NOTIFY and LISTEN, streams and a client. |
| `Interventions` | Failures, substitutes, extra prices, asked changes, missed deadlines and refunds of one job. |
| `Offers` | Quotes and samples: prices promised for a time, carts and checkouts. |
| `RefundCommands` | Refund commands over an unreliable network, and the payer's transfer. |
| `Catalog` | A shop's approval case, its service lines, a listing under review and its photos. |
| `CatalogProofs`, `RefundCommandsProofs`, `CheckoutProofs`, `FilesProofs`, `OffersProofs`, `InterventionsProofs` | The theorems about the module each is named for. |
| `MC...` | Each module on the instances TLC checks. |

The modules meet where the code does, and each takes from the others what its
guards read. A step of `Order`, `Checkout`, `Interventions` or `Offers` is one
transaction; `Realtime` has what a transaction is made of. `PushOutbox` starts
from the commit that adds its rows, whatever caused it. `RefundCommands` has who
may say what about a refund, `Order` what that does to money and work, and
`Interventions` and `Checkout` what it does to a recovery and a voucher.
`Order` has one order with one shop at one price; `Interventions` has what
changes the shop and the price. `Catalog` has what may be ordered at all, and ends
where an order names a listing. `OrderCalls` and `Realtime` have names of their own
for what every module has (`OCSpec`, `RTSpec`), because one module proves about both.

### How Order corresponds to the code

State is one order row and its cases. `state`, `timeline` (only the states from
production on, which is all that any guard reads), `cancelledAt`; `payments`,
`stages` by code; `claims`, `issues`, `payoutHold`; `shopHandover`,
`forcedSteps`, `pickupChecklist`; the latest refund request in `refund` with
what the settlement arithmetic reads; and the sums of settlements
(`refunded`, `riderEntitlement`, `settlementPaid`, `pendingPayout`). At most one
refund request is active (`refunds.js` refuses a second), so the latest one is
all a guard can see.

An action is a whole request: its early returns are conjuncts, its writes the
primed variables, in one step because the request is one transaction. Who asks is
abstracted to "some authorised account": nearly every guard about roles decides
*who*, not *whether*. `MoveTo` is the commit: it records the state in the timeline and
has the database's `orders_cancellation_shape_check` as its guard, because a
request that breaks the check is refused as a whole.

| Actions | Code |
|---|---|
| `Transition`, `CancelTransition`, `PackagingTransition`, `PayoutReleasedTransition` | `/orders/:id/transition`, split by the target state's own checks |
| `SubmitPayment`, `ConfirmPayment`, `RejectPayment` | `/orders/:id/payments/:code/...` |
| `FinishProduction`, `ReviewProduction` | `/orders/:id/production-finished`, `-review` |
| `AcceptDispatch`, `CheckUnpacked`, `ConfirmPickup`, `RecordDelivery` | `/dispatch/:id/...` |
| `CollectAtCounter` | `/orders/:id/collection`, and the staff claim of a minted code |
| `ReportIssue`, `ResolveIssue`, `RaiseClaim`, `HoldClaim`, `ReleaseClaim`, `ResolveEscalation` | issues, claims, escalations |
| `ExpireIssueWindow`, `ConfirmIssueWindow`, `IssueWindowElapses` | the sweep, `/orders/:id/confirm`, and time |
| `AttachProof`, `ReleaseMilestone` | proof attachment, `/milestones/:code/release` |
| `FileRefund` ... `SettleRefund`, `PaySettlement` | `refunds.js` `routeRefunds`, one action per command |

`WorkStopped` is the guard in front of all `/orders/:id/*` and `/dispatch/:id/*`
routes; the routes it lets through (issues, claims, escalations, file
attachment, reconciling the final instalment, refunds themselves) are exactly
the actions without it.

### How PushOutbox corresponds to the code

The drain runs outside the domain lock, so its grain is finer: **one query is
one step, together with the local work up to the next `await`**. A replica's drain
goes through `phase` (expiring, claiming, loading, sending, finishing; idle is
`busy = false`), with `again` as in `drain()`. The work of `processRow` on a row is
a record in `job`: the stage it has reached, the `attempts` it claimed the row
with, the status it is going to record, whether it will prune.

| Actions | Code |
|---|---|
| `Commit`, `Kick`, `Tick` | `enqueueNotificationPushes` in `save()`, `kickPushDrain` after the commit, `runLifecycleWork` |
| `ExpireRows`, `Claim`, `NothingToClaim`, `PassEnds` | `drainOnce` up to the claim and its empty answer; the `do ... while (again)` |
| `LoadStore`, `BatchEnds` | the snapshot per batch, `Promise.allSettled` |
| `StartSend`, `Answer`, `Record`, `Prune` | `processRow`: renew and recheck, transport and verdict, record, delete the registration |
| `DrainFails`, `RowFails`, `Crash` | a query of the drain or of a row rejects, or the process dies |
| `BecomesDue`, `LeaseOutlived`, `Overdue` | `next_attempt_at` and `expires_at` are reached |
| `Released`, `Returned`, `Removed` | the handset is signed out or claimed by another user, registers again, is deleted with its rows |

* `NothingToClaim` and `PassEnds` are two steps because a row may be committed and
  kicked between the moment the database finds nothing and the moment the
  replica handles that answer.
* Time is two flags of a row, `due` and `overdue`. A lease lapses by itself only
  when nobody works on the row (`BecomesDue`); that it lapses under its owner is a
  separate, bounded event (`LeaseOutlived`).
* Crashes and failed queries count in `faults`, bounded by `MaxFaults`. Time and
  faults are never guards of the code's own steps.
* `addressed` stands for `deviceAcceptsNotification` and the ownership check:
  whether the row's device would still be sent the row's notification.
* Coarser than the code: a claim takes any set of due rows up to the limit,
  where SQL takes the oldest; a row another replica is just writing may be
  skipped (`SKIP LOCKED`), here any row it works on; a failed worker may leave any
  row of its batch that has not been started; ticks are not held back by
  `lifecycleBusy`. Each admits more behaviour than the code, so what holds here
  holds there.
* Transports are configured (without them the drain returns after expiring
  rows). The stamps a web subscription gets after a send are left out.

### How Files corresponds to the code

A file is its row (`state`, who asked for its deletion in `source`, saved or
not) and its bytes. Mutations of rows are transactions; a call of the object
store is a step of its own that may fail, may have worked all the same, and is
not undone by a rollback. `Put`, `Ready`, `UndoPut`, `UndoRow` are the upload and
its compensation; `StartDrawing`, `Draw` the preview, drawn outside the lock from
bytes read before; `DeleteEarly`, `Expire`, `CloseFile` the three ways a deletion
begins and `FinishPending`, `FinishFails` how it ends; `SetCart`, `Attach`,
`Checkout`, `Close`, `SetCase` what an order does with its files; `CloseLibrary`,
`RestoreAccount` what happens to the client's account. `Crash` loses the work in
hand and `Boot` reconciles. `HeldBytesStay` and `UsedFilesKeepBytes` except files
whose ready commit was not answered (`unanswered`), see below.

### How Checkout corresponds to the code

The latest reservation of each cart, the redemption it led to, each voucher, each
order's payment, and one payment for a basket. `ChooseVoucher` to `Checkout` are
the cart routes, `Submit...`, `Confirm...`, `Reject...` the payments of an order or a
basket, `CancelOrder`, `SettleRefund`, `RecordTransfer` what gives a voucher back,
`VoidVoucher`, `ReissueVoucher`, `SetCampaign` the administration, `Sweep` the
lifecycle pass. Thirty minutes and a voucher's validity are flags (`Lapse`,
`Elapse`). Assumed of the data: every group of a discounted basket has a share
of the discount (`voucher-money.js:60-63`); one settlement per order. After the
reservation lapsed a discounted payment can no longer be confirmed, as
`VOUCHERS_API.md:143` says, and cancelling one group releases the reservation of
the whole basket.

### How OrderCalls corresponds to the code

A request of a party reconciles before it acts, and so does every save
(`server.js:438`), so `AssignRider`, `PickUp`, `HandOver`, `ResetDispatch`, `Revoke`,
`Restore` end the calls they make void. `Tick` is a second of the clock;
`Reconcile` is the sweep. Ring, lease and cap are constants: only their order
matters (half a minute, a minute and a half, two hours).

### How Realtime corresponds to the code

A replica takes the lock (`Begin`), writes and notifies (`Save`), and commits,
whereupon PostgreSQL appends the pointer to the queue of every listener
(`Commit`), and then runs its callbacks (`AfterCommit`). `CommitUnanswered` commits
without running them. `Listen`, `LoseListener`, `ListenAgain`, `Refresh` are
`start()` and `reconnect()`; `Deliver` is `receive` with the read it makes.
`OpenStream` and `Subscribe` are two steps, as they are in the route. The client
refetches what a hint names: a resource, of which the model has two, the screens
and the calls. They differ in recovery only. `Refresh` tells of every resource
but the calls (realtime-transport.js:94-95), so a change of a call whose pointer the
replica did not get, or lost (`stream.missed`), is not told on that stream. The app
polls its calls and reads them when it reconnects, which is outside of the
model; `ServedStreamsCatchUp` excepts exactly these changes.

### How Interventions corresponds to the code

`JobNext` is the job (`ShopFails` with every reason, `ExpireAcceptance` the hour's
silence, `Advance`, `Release`, `Deduct`), `RecoveryNext` the way to another shop or to
a refund, `ChangeNext` a change the shop asks for, with or without a price, and
`DeadlineNext` a later deadline and the way out of its refusal. They meet in
`Save`, which has the guards and closings that every `save()` performs, and in
`WorkStopped` and `RecoveryHeld`, which hold the work. Money is what the client paid
for the shop (`Subtotal`, extras), GRIDGO's fee that covers a dearer shop, what a
cheaper one credits, and what is released.

### How Offers corresponds to the code

A quote has replies, publications, and one private listing per published option;
a listing can be ordered while it is `active`. A sample has a draft with the price
list held for its batch. Both end in a cart (`AcceptOption`, `AddSample`,
`OpenBatchCart`), and later in a checkout that checks again (`CheckoutQuote`,
`CheckoutSample`, `CheckoutBatch`). Days are a counter. A cart has one line, which
is what these kinds of carts may have. The quote and the samples share nothing but
the clock, so a behaviour follows one of them.

### How RefundCommands corresponds to the code

`Arrive` is `routeRefunds` on one command: the stored answer of the actor's key, or
a refusal, or the effect (`Verdict`). Around it is the world: a sender composes a
command from the request as it reads it (`Send`), may lose the answer and repeat
(`AnswerLost`), or give up while a copy is under way (`GiveUp`), and copies arrive
late or never. `Transfer` is the payer's wallet, which the code does not see. Three
assumptions about the payers are needed, and are the procedure `REFUNDS_API.md`
asks for: a payer sends once, after its reservation was acknowledged; a transfer is
recorded only if it was made; whoever reports that nothing was sent knows that
the reserved payer will not send, nor still waits for its acknowledgement.

### How Catalog corresponds to the code

Three desks decide about one shop: `Cases` is the approval case (`decideApprovalCase`,
the reapplication, and the two legacy routes that write the verification or the role and
leave the case to follow), `LineSteps` its service lines, and the rest its listing. A line
remembers why it is suspended in a `tag` (`approvalSuspensionCaseId`) and, for rows
of an older release, in `alike`: a fixed reason within five seconds of the
decision. The listing's terms are what is reviewed; its name, description, turnaround,
Express and its sample offer with the price go live at once (`LIVE_FIELDS`) and are no
part of them. `Edited` is `startListingReview`: the first edit of an approved listing
copies it into a snapshot, which goes on being sold (`View`) until a reviewer decides the
draft; `Retained` is `retainApprovedPhotos`. A reviewer decides the version he has
open (`OpenReview`, `DecideReview`), and every write closes the desks, as a raised
version makes them stale. `down` and `reviewed` are histories. `ExpirePhoto` is
retention, which asks for references and for the photos of the draft.

## 4. Runs

| Run | Instance | Shows |
|---|---|---|
| `order_delivery` (about 0.9 million states) | door delivery, 75/25, price 3, fee 1, delivery 1, one hand-raised claim, one problem, two refund requests | nobody is owed or sent more than was collected, the order implements `Escrow`, stopped orders stay stopped, an active claim holds money and goods |
| `order_pickup` (about 95 thousand) | collection at GRIDGO Office, codes on, one problem, one refund request | the balance before the handover; liveness of the sweep |
| `push_outbox` (about 0.6 million) | two replicas, one row, two attempts, one mishap: a crash, a failed query or an outlived lease; fair | leases, verdicts, kicks, rechecks; every push settles |
| `files` (about 0.74 million) | two files, one a document, one ordered, quota 1, one fault | rows and objects agree; deletions finish |
| `checkout` (about 0.34 million) | a basket of two orders and a single order, an ordinary and a covering voucher | one voucher funds one payment |
| `order_calls` (about 0.27 million) | two calls, two riders, three changes, two signals | calls are current, and end |
| `realtime` (about 0.61 million) | two replicas, a change of the screens and then one of a call, two faults of any kind | committed rows only; open streams catch up, but for lost call pointers |
| `interventions` (about 0.89 million) | three shops asking 8, 11 or 14 for a job of 10, two incidents | moves are funded; no term outlives its shop |
| `offers` (about 1.8 million) | two shops, two prices, two carts | what is ordered is what was promised |
| `refund_commands` (about 2.4 million) | a client and two payers, two commands under way, two requests | the money is sent once |
| `catalog` (about 0.3 million) | one line and its listing, two texts, two photos, two reviewers | what is sold was reviewed and keeps its photos |
| `stuck_payment` (violation) | door delivery | `EverySubmissionReconcilable` fails |

**Bounds of Order.** Amounts are centavos, and 3 + 1 + 1 is the smallest order in which
every interesting case of the rounding happens: all three stages are positive,
the first instalment does not cover all the stages but covers some, the fee is
collected in one instalment, a partial refund leaves something. `MCOrder`
evaluates these facts as an ASSUME. One claim by hand beside one claim of an
issue is enough for "another claim is active"; two refund requests are needed
for a settlement after a settlement (`MaxRequests` is the only bound in a
guard). The theorems hold for all values.

**Bounds of PushOutbox.** Races over a lease are about one row, so `push_outbox`
takes one row and two replicas, and one mishap of any kind at any point of either
(`OneMishapNext` of `MCPushOutbox`). Two attempts stand for eight: one that may be
retried and the last. The invariants and the liveness are checked on the same
graph, under `Fairness`. `MaxFaults` and `MaxOutlived` are the only bounds in
guards. The theorems hold for any number of all of these.

**Bounds of the other modules.** Each has the smallest instance in which its actors
can get in each other's way: two files compete for a quota of one; two carts
and three orders for two vouchers; a rider is replaced once and may return; the
second change of a stream passes the first; an edit waits for a reviewer who has the
version before it open, and a photo is replaced by another; three shops let a substitute fail
too; two publications make an old cart; a second request makes a late command one
of an earlier request. The bounds in guards are the constants marked "bound".

**Fairness.** No person is assumed to act. What is assumed is that timers fire and
their passes get through: time passes and the sweep closes windows (`Order`); the
tick, the queries and transports of a drain answer or fail, delays and dead leases
run out (`PushOutbox`); retention keeps reconciling and the object store does not fail
each time it is asked (`Files`); reservations lapse and are swept (`Checkout`); a
second passes and calls are swept (`OrderCalls`); callbacks run, a listener retries
every second, pointers and reads are answered (`Realtime`); both deadline sweeps run
(`Interventions`). Weak fairness is all a timer justifies. A hold may be lifted and
raised again forever, and the sweep may find a hold each time, so
`ElapsedWindowsClose` promises a close only if holds do not keep coming back;
`IntentsFinish` and `AcceptanceEnds` make the same kind of exception. No fault is
assumed to happen or to stop, beyond its bound. `Offers` and `RefundCommands`
promise nothing that must happen.

**Deadlock.** Most modules may rest: an order ends, a call is over, every change has
been delivered. Their configurations switch the check off and say so.

### What disagrees with the documents

1. *A cancelled order with an unreviewed transfer is stuck* (`stuck_payment`).
   `TRANSITIONS` (server.js:2209) lets Operations cancel during
   `initial_payment_review`; confirming or rejecting the transfer later writes a state that
   the cancellation check refuses, and a refund cannot be settled while a
   transfer is pending. The group checkout has the missing condition
   (`baskets.js:107`).

No run is spent on these, which modelling showed as well:

2. *The counter can be bypassed.* With handover codes off, the default,
   Operations' transition `awaiting_collection -> delivered` (server.js:2240-2241)
   looks neither at the balance, against the comment above it and
   `HUB_HANDOVER_API.md:64`, nor opens an issue window: the client cannot report a
   problem and the sweep never completes the order. The theorems `BalanceIsSettled` and
   `ClientsGetTheirWindow` assume it away (`BalanceGated`).
3. *A substitute GRIDGO covers cannot be paid in full.* Its stages are dearer than what
   the client was asked for, and `releaseMilestone` (operational-model.js:1056-1067)
   compares them with what the client paid, without the cover that line 912 counts.
   `SHOP_RECOVERY_API.md:226-229` says the substitute is paid on its own price.
4. *A top-up can be stranded.* A refund that is requested instead of a top-up and
   rejected reopens the choice (`SHOP_RECOVERY_API.md:219-220`), while the row of the
   top-up was closed with it (`shop-move-pricing.js:154-158`).
5. *A stream has a gap.* `GET /notifications/stream` reads its snapshot before it
   subscribes (server.js:2451-2457, 3835-3862), so a banner committed in between
   is shown by neither; the row itself comes with the next refetch.
   `OPERATIONAL_MODEL_V2_API.md:700` promises the stream resumes after the snapshot.
6. *A replica whose first LISTEN fails* never asks its streams to refetch once
   it gets one, because `connectedBefore` stayed false, against
   `REALTIME_EVENTS.md:19`; a commit whose answer is lost runs no callbacks. The
   replicas concerned are `deaf` in `Realtime`, and `ServedStreamsCatchUp` excepts them.
   Nor does recovery ask "every mounted resource" of that line: it leaves out the calls,
   as lines 119-126 of the same document and the comment in the code say.
7. *A ready upload may lose its bytes.* If the commit that makes it ready works and
   its answer is lost, the handler compensates the upload (server.js:3491-3494,
   `STORAGE_API.md:497`), and the row stays ready without bytes. `reconcile()` looks
   after `delete_pending` rows only, so a row left in `pending_upload` by a crash
   stays, against the comment at server.js:666.

8. *An approved edit does not make a cart stale.* Choosing a matched listing checks its
   version (order-match-routes.js:2373), but a checkout compares `item.version` with
   itself, out of the store it has just loaded (1286-1291), where
   `SUPPLIER_CATALOG_API.md:217-220` says the checks of a cart still apply to an
   approved replacement.
9. *A line suspended on its own may come back with the account.* The fallback for rows of
   an older release takes a suspension of the fixed reason within five seconds for
   the account's, tagged or not (approval-cases.js:225-241);
   `OPERATIONAL_MODEL_V2_API.md` says such a line never counts as `suspendedWithAccount`.
   The run and the theorem leave such lines out (`Lookalikes`).

Worth knowing, without a document that says otherwise: a claim raised without a hold
clears the stored hold of another claim (server.js:5249), which misleads only who reads
the flag, since every gate looks at the claims as well (`ClaimsHoldMoneyAndGoods`); a quote whose cart line was
deleted cannot be checked out until it lapses or is cancelled (`quote_line_locked`); a
quote and a batch stay `ordered` when their order is cancelled; a refund asked for
from a refused deadline and withdrawn leaves the resolution to Operations; a move to
Operations' review (`ops_review`) has no exit but a refund; a repeated reservation of
a refund is answered as it was the first time, even if the attempt was since
reported failed (`refunds.js:216-220`); a line that took on new work while its account was
suspended is live again when the account is, without a verification; a listing deleted
without an order keeps its references, so retention never frees its photos; a Super
Admin may delete a photo that is on show.

## 5. Proofs

TLAPS proves every safety invariant and every action property that a run checks, for
all values of the constants that the module's assumption allows, and type
correctness of every module. The assumptions only say what kind of thing a constant
is and that the finite sets are finite, except where this section says more.

**Order** (`OrderProofs`), for all prices, fees, percentages, claims, issues and
numbers of requests, in the ranges that checkout enforces (`OrderAssumption`):

* `TypeCorrect`.
* `FundsAreCovered`: the inductive invariant is `FundsInv`, `FundsCover` with
  `Unsettled` (an order without settlements has none of their amounts).
  `FundsCover` alone is not inductive: releasing a stage is guarded by stage
  releases only, which is enough only because a stage is never released once
  there is a settlement.
* `OrderImplementsEscrow`: initial states map to initial states and each action
  to one of Escrow's or a stutter, from the same invariant.
* `OrdersKeepTheirPath`: `Path`, the inductive invariant that ties `state` to the
  `timeline`, the stamps and the reviews recorded on the way.
* From it `StoppedStaysStopped`, `SharesWereEarned`,
  `BeforeProductionStaysTrue`, `HoldsHaveACause`, `PaidOutWasPaidIn`,
  `DispatchWasReviewed`.
* `ClaimsHold` needs no more than the guards of each request: they ask for active
  claims and not for the stored hold alone, which a second claim may have cleared.
* `BalanceIsSettled` and `ClientsGetTheirWindow` assume `BalanceGated`: a door
  delivery, or handover codes on. Section 4 says
  what happens without it.

**PushOutbox**, for all numbers of replicas, rows, attempts, faults and batch
sizes, assuming only `OutboxAssumption` (the bounds are natural numbers, the attempt limit
and the batch size positive):

* `TypeCorrect`, and from it `VerdictsStand`: every step that writes a status
  finds the row pending or sending, or removes it.
* `SingleFlight`, `LatestCounts`, `OnlyOutlivedOverlap`: the inductive invariant
  `LeaseInv` says that a replica works only within its batch, that no job is ahead
  of its row, that an attempt is in one hand, that the row of the latest attempt is
  still open, and that a send whose row has been, or may be, claimed again has
  lapsed. The properties are not inductive alone: the step that overtakes an
  attempt is a claim, and what allows it is a lease that lapsed long before.
* `AttemptsBounded`: the count alone says nothing about the attempt that comes
  next, so `BoundInv` charges an attempt as soon as it is cut short (its row may be
  claimed again before its verdict) to the fault or the outlived lease that did it.
* `RechecksSee`: `RecheckInv`, a row barred before its claim is not in the snapshot,
  because the batch reads it afterwards.
* `KickedAreTaken`: `KickInv`, an untried row is due, so a claim that finds nothing
  has not overlooked it; while a drain was asked for one it is busy, and once its
  last claim came back empty it has `again` set.

`StagesFollowWork`, `DispatchedWorkWasReviewed`, `HandedGoodsHaveAWindow`,
`OneBatchAtATime`, `FinalStaysFinal` and `AttemptsAreBounded` are proved and no
longer model-checked by a run.

**OrderCalls** (in `OrderProofs`): `CallsAreCurrent` goes by induction with the types
alone, row by row: every step either answers a request, and reconciles the rows it
leaves, or saves, and reconciles them all. `LateIsLate` is about one step but needs that
invariant: a purge deletes the calls of a closed chat, and only the open window of an
active call says that no overdue call is among them.

**Realtime** (in `OrderProofs`): `CommittedShown`. `OnlyCommittedIsShown` is not inductive,
since what is shown comes out of callbacks, queues and snapshots. `ToldInv` says that
these hold committed versions only, and `LockInv` that one replica works at a time, so
that the number it wrote is the next one to be committed.

**Catalog**: `ReviewedSold` and `PhotosKept` from `ListingInv`. `Reviewed` says what was
approved, for each place it may be in: an approved draft, a snapshot, a desk. `Held` says
that the photos of draft and snapshot have references and that a file with a reference
is not expired; retention asks for less, so the property alone does not survive it.
`RestoredExactly` is inductive with the types, without `Lookalikes`; `NothingLiveWhileSuspended`
is a property no run spends its time on.

**RefundCommands**: `MoneyMovesOnce` and `FiledAsAsked`. A copy of a
command may arrive at any later time, so the invariant has to say what each copy can
still do. `KeyInv`: a key stands for one command, wherever its copies are. `FreshInv`: a
command with today's version was composed from today's request, since every effect
moves the version. `StatusInv` and `MoneyInv` relate the request, the attempt and the
wallet, and `PayInv` lets a payer who heard late still pay, because nobody may deny
the payment meanwhile. `AskedInv` counts: refunds filed, and requests under way that
are not yet performed, are no more than were asked for. The assumption asks for as
many keys as there may be commands under way, so that a sender always has a new one.

**Checkout**: `VouchersOnce`, `PromisesHold`, `Funded` and `BasketsMoveTogether`. `HeldInv` and
`OnceInv` keep the voucher of a reserved row available and that of a redemption used,
so that the voucher cannot be chosen elsewhere; `OrdersInv` keeps orders in step with their
group's payment; `FundInv` says that a confirmed discounted payment has a redemption, and that
one was undone only after every order was remedied. Carts
are assumed to have orders of their own, finitely many.

**Files**: `RowsAndStoreAgree` needs `NewInv` (a row that was never ready is used nowhere)
and `UploadInv`: as long as the request that uploads a file can take the bytes back, its
row is pending and too young to expire, or its ready commit was not answered.
`UsedFilesKept` and `HeldBytesKept` rest on both, because only a compensation and the end
of a deletion remove bytes; the first needs `KeptInv` too, that the thirty days which
free an order's files are those of a completed one. `QuotaKept` counts the rows that take
room, and is inductive with the rest.

**Offers**: `QuotesAreKept` from `QuoteInv` (a listing belongs to one option of one
publication; what is accepted, or may be brought back, is listed), `HeldPricesEarned` and
`SamplesUsedOnce` from `SampleInv` (what was decided on a sample and what a batch cart
was opened with). `MaxTime` is at least one day and there is a price.

**Interventions**: `TermsFollowTheShop` and `MovesFunded` from `Sound`. An open change is of
the shop that makes the job only because a shop that is offered or rematched is always
a new one, so that whatever changes the shop closes the rows of the one before; and no
deadline is asked beside an open change. Funding needs to know how each price was
divided when it was asked (client, GRIDGO's fee, credit), that an open top-up asks for
what its move says, and that a second move only follows one without a price of its
own. Types need an argument too: failures are counted within the number of shops
because each is of another shop.

Only model-checked: the liveness properties (`ElapsedWindowsClose`,
`EveryPushSettles`, `IntentsFinish`, `EveryCallEnds`, `SubmittedPromisesEnd`,
`AcceptanceEnds`, `ServedStreamsCatchUp`), whose fairness is beyond the prover, and
`EverySubmissionReconcilable` (ENABLED), which the code violates. No operator is
recursive, so no induction over data is left open.

## 6. Not modelled

In `Order`: roles; the quote-era states; plan 1 of legacy orders; delivery-pin
changes with their hold; complaint remedies; transfer references; evidence of
issues. What other modules have is not repeated there: another shop, changes,
deadlines and deductions (`Interventions`), vouchers and baskets (`Checkout`),
versions and repeated commands (`RefundCommands`). One consequence of the split:
`FundsCover` is about an order whose shop and price stay; `MovesAreFunded` says the
rest on its own ledger.

In `PushOutbox`: the content rules of `deviceAcceptsNotification`, the transports and
their wire formats, the length of the delays.

In `Files`: kinds of attachments other than a client's artwork, who may read a
file, types and sizes. In `Checkout`: issuing vouchers, which one is best, the
amounts of a discount and of GRIDGO's top-up, lines and matching. In
`OrderCalls`: the limits of ten calls in ten minutes and of 256 signals, ICE
and SDP contents, push wording. In `Realtime`: nested transactions (they join
the outer one), the size of the pool. In `Interventions`: which shops match, what
is changed, dates, and the payout of an extra to the shop. In `Offers`: how
options are ranked, the brief, and what only makes a handler refuse (a shop that
closed, a changed fee, missing artwork). In `RefundCommands`: the no-cash remedy,
the payout to the shop (which only moves the version), wallet references. In
`Catalog`: prices and the rules for options, requests for new product types, starters,
a second listing on a line; applications of riders and organisations and their documents.

The rest of the system is listed with reasons under `components`: taxonomy,
pricing, artwork analysis, chats, reports and the `save()` diff of rows are
large parts of the source, and either compute over data or append rows that no
guard reads.
