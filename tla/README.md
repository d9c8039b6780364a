# Verification of the Soundwalk backend

This directory holds TLA+ models of the backend's core (the Django project under
`src/app`), the TLC configurations that model-check them and the proofs that
TLAPS checks. `PROJECT.json` maps every definition to the lines it models, and
lists the runs, the mutants each property must catch, the hazards of the code
and the theorems. Paths below are relative to `src/app`.

## The system

A Django/Celery backend over PostgreSQL, Redis (cache, locks, Celery broker),
Stripe, clamd and object storage. Web requests and Celery tasks are the
processes. They share database rows (transactions, `SELECT ... FOR UPDATE`),
Redis keys (locks with a TTL, caches) and Celery messages (delivered at least
once where `acks_late`).

| Component | State | Operations | What is hard | What makes it correct |
|---|---|---|---|---|
| Distributed lock (`payments/locks.py`) | a Redis key with token and TTL | acquire (blocking or not), extend, release | expiry under the holder, death of the holder, late release | a live lease is exclusive; a dead holder's key goes |
| Hold manager (`payments/workers/hold_manager.py`) | FundHold, PaymentOrder | scan of expired holds, release of one | worker, direct caller, refund and lock expiry race | one payout per released hold; expired holds get released |
| Ledger (`payments/ledger`) | accounts, append-only entries | record_entry, record_entries, (de)activate, get_or_create | row locks, unique keys, a failing entry in a batch | no overdraft, a batch is one step, no circular wait |
| Escrow strategy (`payments/strategies/escrow.py`) | order, hold, ledger | capture, fail, release | late and repeated webhooks | books follow the order |
| Payouts (`payments/services/payout_service.py`, `payments/workers/payout_executor.py`) | Payout, Redis lease, Stripe transfer | scan, execute in three phases, retry | lost answers, redelivery, retries with a new idempotency key | the recipient is sent the money once |
| Refunds (`payments/services/refund_service.py`) | Refund, payout, order, ledger | create_refund in phases | Stripe between two transactions, overlapping webhooks | no refund booked that was not made |
| Webhook inbox (`payments/webhooks/views.py`, `payments/tasks.py`) | WebhookEvent | receive, process, retry, clean up | no row is locked: stale copies, crashes, sweeps | processed means handled; nothing begun is forgotten |
| Webhook handlers (`payments/webhooks/handlers.py`) | all of the above | one handler per event type | any order, any number of times | final states stay final |
| Direct payments, subscriptions, monthly payouts (`payments/strategies`, `payments/tasks.py`) | order, Subscription, aggregated Payout | capture, invoices, cancellation, aggregation | swallowed ledger errors, stale saves, payouts without an order | rows say nothing that Stripe does not; an invoice is booked once |
| Reconciliation (`payments/services/reconciliation_service.py`) | the rows it heals | compare with Stripe, heal or flag | heals race webhooks and skip the ledger | what arrived is seen in the end |
| Circuit breaker (`core/circuit_breaker.py`) | four cache keys | is_available, record_success/failure | read-then-write on a shared cache | it opens, and it closes again |
| Notifications (`notifications`) | Notification, NotificationDelivery, preferences and their cache | create, dispatch, send, callbacks, preferences | repeated callers, retries, late callbacks, stale cache | one notification per key; no retry undoes a report |
| Chat (`chat`) | Conversation, Participant, Message, reactions | create, add, remove, leave, roles, send, edit, delete, react | requests that act on what they read before | nobody is in it twice; an empty one closes; a deleted message stays as it was |
| Media (`media`) | UploadSession, MediaFile, MediaAsset, quota, quarantine | parts, finalize, scan, process, sweep | stale copies saved over newer rows, deaths between file and row | files are whole, a late scan serves nothing infected as clean, an old upload is closed |
| Authentication | User, tokens, biometric challenges | verify, reset, challenge, authenticate | check-then-delete of tokens | single use |
| Toolkit, user_posts, map, places, songs, connections, config | – | CRUD, helpers, stubs | – | – |

How they interact: the inbox hands an event to a handler; handlers and workers
call the strategies and services, which change orders, holds, payouts and
refunds and record ledger entries in the same transaction; services call Stripe
between two transactions and Stripe answers again later by webhook, or never,
and then reconciliation compares. The lock of `locks.py` is used by the hold
manager, the escrow strategy, the payout and refund services and reconciliation.
A finished upload queues a chain of two tasks, scan and processing; the scanner
asks the circuit breaker. A user's usage is charged by uploads, quarantine and
restore, and set right by the recalculation.

## Modules

| Module | Models | Composes |
|---|---|---|
| `DistributedLock` | `payments/locks.py` over Redis | – |
| `HoldRelease` (`MCHoldRelease`) | hold manager and `release_hold` with two lock objects of one key | extends `DistributedLock` |
| `AbstractLedger` | the promise: a batch is posted in one step, valid or not at all | – |
| `Ledger` (`MCLedger`) | `record_entries` over row locks, unique index, deadlock detector | implements `AbstractLedger` |
| `LedgerAccounts` | `get_or_create_account` over the unique constraint | – |
| `EscrowMoney` | the promise: one charge, one transfer at a time, refunds up to the charge | – |
| `EscrowPayment` (`MCEscrowPayment`) | one order through capture, release, payout, refunds, webhooks and Stripe | implements `EscrowMoney` |
| `WebhookInbox` | `stripe_webhook`, `process_webhook_event` and the two sweeps | – |
| `Subscription` | one subscription, its invoices, `invoice.*` and `customer.subscription.*` | – |
| `MonthlyPayout` | a recipient's balance, the monthly aggregation, execution and `transfer.*` | extends `Subscription`, which credits the balance |
| `DirectPayment` | the orchestrator and the direct strategy with `payment_intent.*` | – |
| `Reconciliation` (`MCBilling`) | the checks that heal, over all three | extends `MonthlyPayout` and `DirectPayment` |
| `ChunkedUpload` | sessions of both backends, the views that load them, the sweeps, the quota | – |
| `CircuitBreaker` | `core/circuit_breaker.py` over a cache | – |
| `MalwareScan` | the scan task, rescan, health check, quarantine and restore | extends `CircuitBreaker` |
| `MediaProcessing` | the processing task with its generators, retries and two sweeps | – |
| `ChatMembers` | the members of one conversation | – |
| `ChatMessages` (`MCChat`) | one message of it, its edits and reactions | extends `ChatMembers` |
| `NotificationDelivery` | one keyed notification, its channels and the preferences | – |
| `*_proofs` | theorems about the module they are named for | – |
| `MediaUpload_proofs` | theorems about `ChunkedUpload` and `MalwareScan` | – |
| `Messaging_proofs` | theorems about `ChatMessages` and `NotificationDelivery` | – |

How state and actions correspond to the code:

* **DistributedLock.** `token`/`left` are the Redis key and its remaining life;
  a lock object is one `with` block. `lease` is a history variable: the time the
  caller was granted. The Lua scripts are atomic, hence one action each. Time is
  in ticks: `Tick` ages key, deadlines and leases together.
* **HoldRelease.** `release_single_hold` takes one lock object (`Outer`), reads
  the order again and calls `release_hold`, which takes another (`Inner`) for
  the same key; `_execute_release` holds the rows of order and hold and is one
  step. A direct caller uses only an inner object; `Others` do whatever the
  lock's API allows. A refund may take the order away.
* **Ledger.** A transaction runs its script of batches. `LockRow` takes rows in
  the order of their ids, `Check` reads the key and both accounts, `Insert`
  waits for an uncommitted row of the same key, and fails as a whole when one
  was committed meanwhile. A transaction sees its own entries (`delta`).
  Any step may be the last: `CallerFails`, `DeadlockVictim`.
* **EscrowPayment.** A database transaction is one step; what a worker or a call
  carries over to the next transaction (attempt number, amount, "is it the full
  refund", "did I cancel the payout") is in `payJob` and `refundJob`. The Stripe
  call has three outcomes: answered, done with the answer lost, refused for
  good; a transient error without effect is `PayoutStops`/`RefundStops`, which is
  also a dying worker. Stripe keeps one transfer per idempotency key; whether it
  keeps a refusal depends on where the request failed, so both happen. Webhooks
  are enabled as long as what they report is true of Stripe: they arrive any
  number of times, late, in any order. `charge.refunded` carries the list of
  refunds of the moment it was sent, a prefix of the list of now. The Redis
  lock of a payout is the constant `LeasesHold` (mutual exclusion of the workers
  or none); the lock of refunds is left out, which allows more than the code.
* **WebhookInbox.** One event. `task[t]` is a Celery message with the copy of
  the row its task read; saving writes the whole copy. `cleanup` holds copies a
  run of the sweep has read. Messages are acknowledged or redelivered when a
  worker dies; none outlives the time limit.
* **Subscription, MonthlyPayout, DirectPayment, Reconciliation.** Handlers are
  transactions on a locked row, hence one step; what is not under the lock is a
  step of its own (`FindNoOrder` before `HandleInvoicePaid`, `CancelAtStripe`
  before `SaveCancel`). Stripe's objects (`stripeSub`, `invoice`, `intent`,
  `transfer`) are variables, and an event may be handled whenever it is true of
  them. Ledger errors that the code logs or returns are choices of the step
  (`SettleInvoice`, `RecordEntries`, `RecordCompletion`). The execution of a
  payout is its three phases (`BeginPayout`, `CallStripe`, `StoreTransferId`)
  with what may go wrong between them, by one worker at a time; `known` is which
  of the payout's transfers has its id stored. A second worker and the attempt
  numbers are `EscrowPayment`'s subject. Reconciliation is a check and its heal;
  what is only flagged for review changes nothing.
* **The adapter.** `PayoutService` calls `create_transfer` with a name its own
  tests' adapter has and `StripeAdapter` has not, so with the adapter of this
  repository the call raises TypeError and no transfer is ever made (see below).
  The constant `AdapterFits` of `EscrowPayment` and `MonthlyPayout` says which
  adapter is set: TRUE for the one the tests inject, FALSE for `StripeAdapter`.
  It is a guard of the steps that reach Stripe and of nothing else, so FALSE
  allows a part of what TRUE allows: what is checked, or proved for both values,
  of safety holds for the program as it is, and says what the payouts will do
  once the name is right.
* **ChunkedUpload.** No call locks the session. The view loads the row, the
  service decides by the copy and saves all of it: `Begin` and a save are two
  steps, with any other step between. Parts on disk or at S3 are `stored`, the
  directory or multipart upload is in `open`. `SweepOrphan` changes nothing: both
  sweeps for orphans end in an error before they free anything.
* **MalwareScan, CircuitBreaker.** A scan task is `ask` (the breaker is read),
  `admit` (it is written), `sent` (clamd), and a save of columns over whatever
  the row has become; quarantine moves the file first and saves then; so does
  restore. When clamd does not answer, the scan is retried and the chain goes on
  in the end; any answer but FOUND passes for clean (`Outcomes`), and `misread`
  remembers that one did for malicious bytes that were there.
* **MediaProcessing.** Each generator makes the row of its asset (`MakeRow`),
  then stores its file (`SaveFile`); between the two a worker may die. A sweep's
  query (`held`) and its save are two steps.
* **ChatMembers, ChatMessages.** `req[p]` is what a request has read and
  checked (`Ask...`); the transaction that follows is one step, because each
  updates the row of the conversation or locks the message. Constraints of the
  database are guards (`RowIsNew`, `PairIsNew`, `conv.count > 0`): a transaction
  they refuse is `Fail`.
* **NotificationDelivery.** A caller looks for the key, resolves the
  preferences (through the cache), inserts and dispatches in four steps; a task
  loads, sends and marks in three. The three preference rows are read as one.

## Runs

| Run | Shows | Bounds, and why they suffice |
|---|---|---|
| `hold_release` | exclusive leases, one payout per hold, everybody comes back, a worker gets in only on its own expired lock | one worker, one direct caller, one stranger, one crash, TTL 3, timeout 1: expiry under each of them, takeover and late release all occur |
| `ledger` | refinement of `AbstractLedger`, no overdraft, frozen inactive accounts, single calls never deadlock, transactions of several calls end | four accounts (one may go negative, one is closed and reopened), five transactions: two captures with one key, a release batch, a refund of two calls, a clash of keys; circular waits and key waits occur |
| `ledger_accounts` | **violated**: the platform's accounts are not unique | three sessions, one owned and one platform key |
| `escrow` | refinement of `EscrowMoney`, books, recipient's balance, refunds, final states | amount 2, fee 1, one unit of other orders' escrow, three refund rows, two payout workers, two refund calls, one retry: partial and full refunds, two attempts with different keys, overlapping calls and dashboard refunds occur |
| `webhook_inbox` | processed means handled, no event is given up early, the sweep finds only dead tasks, what is begun is resolved | two messages at a time, three posts, two deaths, limit of two retries, counters saturate at the limits they are compared with |
| `billing` | an invoice is booked once, rows say nothing Stripe does not, payouts are booked only when they arrived, and what arrived is seen in the end | one invoice, one direct order, an escrow order's payout and a monthly one of the same balance, threshold 2. `MCBilling` checks the system in three parts, of which a run takes one from its start: a subscription with the payouts of what it earns and one transfer each; direct orders, which share no variable with the rest; payouts alone with two transfers each. Swallowed ledger errors, stale cancellations, retries, ids of failed transfers stored between the phases, lost answers and heals occur. Three transfers of one payout were checked as well, without the monthly one |
| `payout_unsent` | **violated**: a payout whose call raised is tried again or fails | one payout, `AdapterFits` FALSE, no deaths, every worker runs on |
| `upload` | files are whole, an old upload does not stay in progress, usage comes right | one session of two parts on either backend, two requests and the sweeper; sessions share nothing but the quota |
| `scan` | no scan that is late, repeated or unanswered serves a malicious file as clean, a skipped scan is made up for | two workers, one retry, one death, the breaker opens at the first failure and lets one probe through: its state machine is the same for larger numbers |
| `processing` | a READY file with no error noted is whole; files settle | an image (three generators), two workers, two deaths, two retries |
| `chat` | one active row per user, counters err to one side, who leaves last closes, deleted messages stay | three users, two requests, three participant rows, two emojis, two edits; a message only in a direct conversation (`Talks`), since messages ask of a conversation only whether it is deleted and who is in it |
| `notifications` | one notification per key, one sending per try, no retry undoes a report, the cache catches up | one channel, two callers, two retries; channels share only the preferences and the moment of their dispatch |

Deadlock is checked in `hold_release`, `ledger` and `webhook_inbox`. The other
systems may really stop (an order, a conversation or a file is done), so their
runs say `CHECK_DEADLOCK FALSE`.

Every property of a passing run has a mutant in `PROJECT.json`: a change a
plausible bug would make (operators marked `bug:` in the modules), under which
TLC finds the property violated.

### Disagreements between code and documents

Two are runs that TLC must find violated:

1. *Platform accounts are not unique* (`ledger_accounts`,
   `payments/ledger/models.py:153`): the constraint does not bind rows whose
   `owner_id` is NULL.
2. *No payout is sent, and none fails* (`payout_unsent`,
   `payments/services/payout_service.py:564`): the call passes
   `destination_account_id=`, `StripeAdapter.create_transfer` takes
   `destination_account`. The TypeError is none of Stripe's errors: the task ends,
   the row stays PROCESSING, and a later task takes it for done.

The others are behaviours of the models that no property forbids, or that a
property states the way the code has it:

3. *The sweeps for orphans free nothing* (`media/tasks.py:1013`, `1420`):
   `django.utils.timezone.utc` is gone since Django 5.0, and 5.2.9 is pinned. The
   local sweep raises AttributeError, the one for S3 returns the error
   (`SweepOrphan`), though both call themselves a safety net (`media/tasks.py:959`,
   `1357`). Storage that no session in progress protects stays.
4. *An error of clamd counts as clean* (`media/services/scanner.py:268`, `340`): only
   the answer FOUND is looked for (`Misread`), while `media/tasks.py:78` lets an
   error be retried. `ScanSafe` exempts a file of which that happened.
5. *DELIVERED is not final* (`notifications/webhooks.py:182`): a late callback saves
   FAILED over it (`Callback`); `notifications/models.py:87` and
   `notifications/ARCHITECTURE.md:314` end there. No property asks for either.
6. *Expired holds are not released* (`payments/workers/hold_manager.py:242`): the
   worker holds the lock its own call of `release_hold` waits for; the call
   gives up after its timeout, before the worker's lock would expire.
   `WorkerWaitsForItself` of `HoldRelease`, checked and proved, says so, while
   migration 0003 promises that funds are released when holds expire.
7. *A refunded order may pay out* (`payments/webhooks/handlers.py:880`): a refund
   made in Stripe's dashboard does not cancel the payout of a released order
   (`ChargeRefunded`), though `refund_full` notes that it must be cancelled first.
8. *State checks alone do not stop a second transfer*
   (`payments/services/payout_service.py:293`): a worker that outlives its lease
   may process a SCHEDULED payout again. `NoDoubleTransfer` holds, and is proved,
   with `LeasesHold`; with it FALSE it does not.
9. *A refused event stays PENDING* although Stripe was told 200
   (`payments/webhooks/views.py:149`), and PROCESSED may be overwritten by a task
   that read the row before (`payments/tasks.py:120`).
10. *Reconciliation cannot heal an order* (`payments/services/reconciliation_service.py:1352`):
   `refresh_from_db()` on a protected state field raises between the two
   transitions, so a PENDING order that was paid stays PENDING
   (`HealPaymentSucceeded` changes nothing).
11. *A PENDING subscription that Stripe cancelled stays PENDING*
   (`payments/webhooks/handlers.py:1499`): `cancel()` has no such transition.
12. *Ownership of a group can be lost or doubled* (`chat/services.py:922`, `947`):
   a transfer to somebody who is leaving leaves no owner, an heir beside a
   transfer makes two.
13. *A group closes under a member* (`chat/services.py:725`): two requests that
    end one participation count it twice, and `leave()` closes a group by the
    count. `ChatIsCounted` says the count errs to that side only.
14. *The last member may be unable to leave*: the same drift takes the count to
    0, and the next departure fails on the column's constraint.
15. *A reaction removed twice* lowers its count twice (`chat/services.py:1711`).
16. *A local upload can become two files* (`media/services/chunked_upload/local.py:275`)
    when two requests finalize it at once; its directory is removed after the commit.
17. *A removal may leave an open, empty group* (`chat/services.py:621`): only
    `leave()` closes a conversation, while the diagram of `chat/ARCHITECTURE.md:346`
    ends in "Soft Delete" when a removal finds the group empty.
    `LastToLeaveCloses` is about departures and exempts such a removal.
18. *A restore removes what another scan has quarantined meanwhile*
    (`media/services/quarantine.py:316`), and with it the only copy.
19. *A file may stay PENDING after its retry was refused* by the broker
    (`media/tasks.py:637`), or with a stale copy saved over READY.
20. *Exhausted retries leave a delivery PENDING* (`notifications/tasks.py:151`),
    though `notifications/models.py:89` has a status for failures.
21. *Changes of global and category preferences invalidate nothing*
    (`notifications/preferences.py:263`): only the name of a type deletes a key.
22. *A balance is paid again* (`payments/webhooks/handlers.py:602`): a monthly payout
    has no order, so the handler of `transfer.paid` raises after it has recorded
    the PAYOUT entry, and the transaction is rolled back; reconciliation completes
    the payout without an entry. The balance stays, and the next run of the
    monthly task takes it again.
23. *A transfer nobody looks for* (`payments/services/reconciliation_service.py:916`):
    a retry clears the stored id (`payments/models/payout.py:335`); a run between
    its Phase 1 and Phase 2 stores that of the transfer that failed. If the worker
    then dies with the new transfer's, no webhook and no run finds that one; and
    when `transfer.failed` of the old one comes, the payout fails and is sent
    again, perhaps beside the new one. `SentPayoutEnds` says which transfers are
    seen in the end; the theorems of `EscrowPayment`, where reconciliation stores
    no id, are about a payout it leaves alone.

22 and 23 need an adapter that makes transfers.

### Fairness

* `HoldRelease`: the beat schedule of migration 0003 queues the scan (weak
  fairness of `Queue`), a started task or call runs on, time passes. Nothing is
  assumed of crashes, refunds, account updates or strangers.
* `Ledger`: strong fairness of a transaction's steps, because PostgreSQL queues
  the waiters of a row; weak fairness of its deadlock detector. Nobody must
  begin, fail or commit another's work.
* `WebhookInbox`: Celery runs what is queued, time passes, and the two sweeps
  run again and again. The last is what their docstrings ask of the deployment
  ("should be scheduled via celery-beat"); no migration installs it, so the
  liveness result holds only where an operator has done so.
* `Reconciliation`: weak fairness of the check of each payout, and of nothing
  else: no webhook, worker or answer of Stripe is relied on. The task that runs
  it is meant for a beat schedule as well, which the deployment must have, and
  the payout must lie in the window the run looks at. `payout_unsent` has a
  specification of its own (`ExecutionSpec`), in which no worker dies and each
  goes on with its payout: what it refutes is not due to a lost task.
* `ChunkedUpload`: the sweep of expired sessions and the recalculation, which
  migration 0009 of `media` schedules. It schedules the sweeps for orphans too,
  which change nothing. Requests may stop anywhere.
* `MalwareScan`, `MediaProcessing`: workers take every message (strong, since
  both compete for it) and go on with what they have begun, the sweeps of
  migration 0009 are started, clocks run, and quarantining does not fail for
  ever. Nothing is assumed of clamd, operators or the health check.
* `NotificationDelivery`: the TTL of a cache entry runs out.
* `EscrowPayment` and `ChatMessages` are checked for safety only; a payout left
  PROCESSING by a lost answer is moved on by reconciliation, see `SentPayoutEnds`.

## Proofs

All for every value of the constants, under the named assumption of each module.
Every invariant and every action property of the passing runs is a theorem, and
so are both refinements. Each strengthening was first checked by TLC.

* `HoldRelease_proofs`: a live lease is exclusive (`LeaseExclusion`), also with
  nested objects of one key; the hold is paid over once (`HoldIsPaidOverOnce`,
  from the checks under the row locks and not from the lock); a worker enters the
  release only when its own lease is over (`WorkerNeedsItsLockToExpire`: both
  objects want the same key, so exclusion of the live lease decides).
* `Ledger_proofs`: types; no overdraft (the owner of a row lock is the only one
  with a delta on the account, so a balance that covered the debit at `Check`
  still does at `Commit`); inactive accounts stand still (the same lock blocks
  the UPDATE of `is_active`); transactions of a single call wait only for rows
  above those they hold (`SingleCallsClimb`).
  `LedgerActsAsOneStep` is the refinement of `AbstractLedger`. Its invariant
  (`EntriesInv`) says of each transaction that its delta is the sum of the
  entries it has pending, that these, with those that were posted before, are the
  ones its place in the script is past, and that no two transactions hold one key. A commit
  then moves every balance by what the abstract request does. The sums are folds
  over sets; that they exist and do not depend on the order in which the fold
  takes the entries is shown by a smallest set for which it fails
  (`TotalsExist`, `TotalsAgree`, `TotalAdds`), not by induction over data. The
  assumption `KeysAreDistinct` says that the entries of one transaction have
  different keys, as `escrow.py:833`, `849` and `refund_service.py:882`, `902` do.
  `SingleCallsDoNotDeadlock` needs more than the order of the rows: a transaction
  also waits for a *key* somebody else has inserted and not committed. Its
  hypothesis `KeysInOrder` is that calls which share keys book them along one
  order. The callers do: keys are made from the row and the kind of the entry,
  in one fixed order. It cannot be dropped: two calls that insert the same two
  keys in opposite orders on disjoint accounts do wait in a circle.
* `EscrowPayment_proofs`: types; one transfer at a time (`RecipientIsSentOnce`)
  and the refinement (`EscrowImplementsMoney`) if no worker outlives its lease;
  final states stay (`WhatIsOverStaysOver`, without that condition). The
  invariant `NoDoubleTransfer` is not inductive: it needs that attempts with a
  number above `retry_count + 1` have no transfer, that earlier attempts ended in
  failure or refusal once the payout was retried, and that a job between its
  phases belongs to the current attempt (`OneTransfer`).
  `BookedRefundsAreReal`, `BooksFollowTheOrder` and `TheRecipientIsOwed` hold
  without a condition on leases. The first needs to know what a refund call has
  between its two phases (`RefundCalls`: its row is PROCESSING and its alone,
  Stripe has nothing for it before the call and its amount after it) and says of
  Stripe's refunds as a set what the rows claim of them (`RealRefunds`). The other two share
  `Books`: which entries there are for each state of the order, the hold, the
  payout and the refunds; the part for a cancelled payout (`CancelledBooks`)
  says that at most one refund has taken the share back.
* `WebhookInbox_proofs`: types; processed means handled; retry_count never runs
  ahead of the attempts, since every copy is taken from a row that does not;
  the sweep finds only dead tasks, since the row is not older than the start
  of any task that wrote it, and the time limit is not above the threshold.
* `MediaUpload_proofs`, first part (`LateScansAreSafe`): the strengthening
  (`NoWayBack`) adds the workers that have found malicious bytes clean and not
  saved it yet, and the restore under way: unless clamd fails to read bytes that
  are there (`misread`), a scan finds them clean only where they are gone, and
  they come back only with a restore, of a row without a name.
  Second part (`UploadsAreSafe`): a request's copy is of a row that was made, on
  its backend (`CallsKnow`); an S3 upload is used up by its one file, and a local
  one has made a file for each request that is about to remove its directory
  (`FilesMade`); usage, and the sum the recalculation has read, are never above
  the files there are (`Charged`), which needs finitely many sessions and callers.
* `MediaProcessing_proofs`: a READY file without a noted error is whole
  (`ReadyFilesAreWhole`). The strengthening is about the jobs: a generator that a
  job is past has stored its file or left an error in the job's list; files are
  never taken away, so a job that finishes without an error finds all of them,
  whoever made them.
* `Messaging_proofs`, chat: the four properties of the run. Besides the types, the
  invariant says of each request what it may still refer to (`Requesting`: the
  row it names exists, and an `add` or `delete` is of a group), that each user
  has one active row, and that the count is not above the active rows; two
  departures of one row then only lower it. That counts of reactions are not
  above the rows needs that a row added is new (`FS_AddElement`) and that every
  removal counts down.
  Notifications (`NotifiesOnce`): only the caller that made the notification
  dispatches it, and nothing was sent before (`MadeOnce`, `NothingSent`); what
  was sent is bounded by the tries of the task and its place, and a channel whose
  provider knows the message is not PENDING, so a task that runs again finds
  nothing to send and leaves the report as it is (`ChannelIsSound`). That a later
  report leaves an earlier one is not true.
* `Reconciliation_proofs`: rows say what Stripe says (`RowsAreStripes`,
  `OnlySentMoneyIsBooked`, `InvoicesAreBookedOnce`) and the whole of
  `BillingSafe` (`BillingIsSafe`) for any number of invoices,
  months and orders. Each part has an invariant of its own which the steps of the
  others, and the heals of the others, leave alone. The subscription's needs that
  what a cancellation holds is as true as when it was read (`CallIsTrue`): its
  stale copy may be old, but the payment or the failed attempt it speaks of did
  happen. The payouts' needs that a PAID row is written by no step, in whatever
  phase its worker is, that a transfer that arrived stays so (`RowsStay`,
  `TransferEnded`), and, for the range of the amounts, that only the escrow
  order's own payout is ever booked (`OnlyOwnIsBooked`): `Balance` then subtracts
  at most one amount. The same fact is why a balance is paid again.

Model-checked only: the liveness properties (`CrashedHolderExpires`,
`ReleaseReturns`, `SeveralCallsEnd`, `BegunIsResolved`, `SentPayoutEnds`,
`AbandonedIsClosed`, `UsageIsRepaired`, `SkippedFileIsScanned`,
`ProcessingSettles`, `CacheCatchesUp`), which need ENABLED and rules for
fairness this prover does not have.

## Not modelled

Reading and formatting code, serializers, admin, pagination, search, presigned
URLs, e-mail: no protocol. `check_version` and `LedgerService.transfer` have no
caller of interest. `refund_held_payment` always ends in its error return (it
calls the adapter without a required argument) and changes nothing. Row locks
across tables inside one transaction of `EscrowPayment` are one step: an
inversion of their order makes PostgreSQL abort one side, a step that does not
happen. `cleanup_old_webhooks` deletes rows past their retention. Period dates
of subscriptions, titles, read marks, presence and the fan-out of chat decide
nothing in the models. Shares of media files are rows without a lock
(`media/services/access_control.py:412`, `231`: `save()` of a copy brings a
revoked share back), authentication's challenges are checked and deleted in two
calls (`authentication/services/biometric_service.py:275`): both are one step
wide, and visible without a model.

## Plan

Done: the lock and the holds, the ledger, the escrow order, the inbox, billing
with reconciliation, media, chat and notifications. What is left, in this order:

1. Proofs: what the circuit breaker lets through for any number of callers, and
   abstract specifications of the inbox and of a notification's delivery with
   their refinements.
2. Composition of `MalwareScan` and `MediaProcessing` into one chain.
3. `AuthTokens`: challenges, e-mail tokens and the deletion of accounts.
