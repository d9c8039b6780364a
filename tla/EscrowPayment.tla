---------------------------- MODULE EscrowPayment ----------------------------
(***************************************************************************)
(* One escrow order of the payments app from its payment intent to the     *)
(* last refund: the escrow strategy (strategies/escrow.py), the payout     *)
(* service and its workers, the refund service, the Stripe webhook         *)
(* handlers, and Stripe.                                                   *)
(*                                                                         *)
(* A database transaction is one step: it holds the rows it decides on.    *)
(* What a worker carries from one transaction or Stripe call to the next   *)
(* is its own (payJob, refundJob).  A webhook may arrive any number of     *)
(* times, late, and in any order.  The Redis lock of a payout is a lease   *)
(* (DistributedLock): LeasesHold says whether every worker is done before  *)
(* its lease is.  The lock of refunds is left out: calls may overlap, and  *)
(* what holds of them rests on the locked rows alone.                      *)
(***************************************************************************)
EXTENDS Naturals, Sequences, FiniteSetsExt

CONSTANTS Amount,        \* amount_cents of the order
          Fee,           \* the platform's share of it
          OtherEscrow,   \* what the escrow account holds for other orders
          RefundAmounts, \* amounts that refunds are asked for
          RefundRows,    \* Refund rows that may be made
          NoRow,
          Attempts,      \* attempt numbers of create_transfer, from 1
          MaxRetries,    \* MAX_RETRY_ATTEMPTS of the payout executor
          PayWorkers,    \* runs of execute_single_payout
          Refunders,     \* calls of create_refund
          LeasesHold,    \* no payout worker outlives the lease of its lock
          AdapterFits    \* the adapter set on PayoutService takes the arguments
                         \* it is called with: the one the tests inject does,
                         \* StripeAdapter has no destination_account_id

ASSUME EscrowAssumption ==
    /\ Amount \in Nat \ {0}
    /\ Fee \in 0..(Amount - 1)
    /\ OtherEscrow \in Nat
    /\ RefundAmounts \subseteq 1..Amount
    /\ NoRow \notin RefundRows
    /\ MaxRetries \in Nat
    /\ Attempts = 1..(MaxRetries + 1)
    /\ LeasesHold \in BOOLEAN
    /\ AdapterFits \in BOOLEAN

VARIABLES order,      \* PaymentOrder.state
          hold,       \* the FundHold: "none", "active" or "released"
          payout,     \* the Payout: state, stripe_transfer_id, retry_count
          refunds,    \* the Refund rows: state, amount, stripe_refund_id
          ledger,     \* LedgerEntry rows of the order, as <<kind, row>>
          queued,     \* attempt numbers of queued execute_single_payout tasks
          payJob,     \* what each payout worker is doing
          refundJob,  \* what each refund call is doing
          intent,     \* Stripe's payment intent
          declined,   \* a payment attempt on the intent failed
          transfers,  \* Stripe's transfers, one per idempotency key
          refunded    \* Stripe's refunds of the charge, in order

rows == <<order, hold, payout, refunds, ledger>>
stripe == <<intent, declined, transfers, refunded>>
jobs == <<queued, payJob, refundJob>>
vars == <<rows, stripe, jobs>>

Net == Amount - Fee
OrderStates == {"PENDING", "FAILED", "CANCELLED", "HELD", "RELEASED", "SETTLED",
                "PARTIALLY_REFUNDED", "REFUNDED"}
PayoutStates == {"NONE", "PENDING", "PROCESSING", "SCHEDULED", "PAID", "FAILED",
                 "CANCELLED"}
Entry == {"capture", "release", "payout"} \X {NoRow}
            \cup {"payout_cancel", "reversal"} \X RefundRows
IdlePayJob == [pc |-> "idle", attempt |-> 0]
IdleRefundJob == [pc |-> "idle", row |-> NoRow, amount |-> 0, full |-> FALSE,
                  cancels |-> FALSE]

PayoutRow == [state : PayoutStates, transfer : Attempts \cup {0}, retries : 0..MaxRetries]
RefundRow == [state : {"NONE", "PROCESSING", "COMPLETED", "FAILED"},
              amount : 0..Amount, stripe : RefundRows \cup {NoRow}]
PayJobs == [pc : {"idle", "loaded", "stripe", "fail", "store"},
            attempt : Attempts \cup {0}]
RefundJobs == [pc : {"idle", "create", "stripe", "fail", "finish"},
               row : RefundRows \cup {NoRow}, amount : 0..Amount,
               full : BOOLEAN, cancels : BOOLEAN]
StripeRefund == [row : RefundRows, amount : 1..Amount]
TransferStates == {"none", "refused", "created", "paid", "failed"}

TypeOK ==
    /\ order \in OrderStates
    /\ hold \in {"none", "active", "released"}
    /\ payout \in PayoutRow
    /\ refunds \in [RefundRows -> RefundRow]
    /\ ledger \subseteq Entry
    /\ queued \subseteq Attempts
    /\ payJob \in [PayWorkers -> PayJobs]
    /\ refundJob \in [Refunders -> RefundJobs]
    /\ intent \in {"open", "succeeded", "canceled"}
    /\ declined \in BOOLEAN
    /\ transfers \in [Attempts -> TransferStates]
    /\ refunded \in Seq(StripeRefund)

Init ==
    /\ order = "PENDING"
    /\ hold = "none"
    /\ payout = [state |-> "NONE", transfer |-> 0, retries |-> 0]
    /\ refunds = [r \in RefundRows |->
                    [state |-> "NONE", amount |-> 0, stripe |-> NoRow]]
    /\ ledger = {}
    /\ queued = {}
    /\ payJob = [w \in PayWorkers |-> IdlePayJob]
    /\ refundJob = [c \in Refunders |-> IdleRefundJob]
    /\ intent = "open"
    /\ declined = FALSE
    /\ transfers = [k \in Attempts |-> "none"]
    /\ refunded = <<>>

-----------------------------------------------------------------------------
(* The real money: transfers on their way or arrived, and the abstract     *)
(* view of it all.                                                         *)

Live == {k \in Attempts : transfers[k] \in {"created", "paid"}}

EM == INSTANCE EscrowMoney WITH
          charged <- (intent = "succeeded"), sent <- Live, returned <- refunded

-----------------------------------------------------------------------------
(* Sums over the rows.                                                     *)

Posted(kind) == IF <<kind, NoRow>> \in ledger THEN 1 ELSE 0
PostedFor(kind) == {r \in RefundRows : <<kind, r>> \in ledger}
AmountOf(some) == MapThenSumSet(LAMBDA r : refunds[r].amount, some)
Total(list) == EM!Total(list)

(* What record_entry compares a debit with, the credits before the debits. *)
EscrowIn == OtherEscrow + Amount * Posted("capture")
                + Net * Cardinality(PostedFor("payout_cancel"))
EscrowOut == Amount * Posted("release") + AmountOf(PostedFor("reversal"))
EscrowCovers(n) == EscrowIn >= EscrowOut + n

UserIn == Net * Posted("release")
UserOut == Net * (Posted("payout") + Cardinality(PostedFor("payout_cancel")))
UserCovers(n) == UserIn >= UserOut + n

Completed == {r \in RefundRows : refunds[r].state = "COMPLETED"}
Processing == {r \in RefundRows : refunds[r].state = "PROCESSING"}
Refundable == Amount - AmountOf(Completed)

AtStripe == {refunded[i].row : i \in DOMAIN refunded}
Known == {refunds[r].stripe : r \in RefundRows}
FreshRows == {r \in RefundRows : refunds[r].state = "NONE"} \ (AtStripe \cup Known)

-----------------------------------------------------------------------------
(* Stripe                                                                  *)

Pay ==
    /\ intent = "open"
    /\ intent' = "succeeded"
    /\ UNCHANGED <<rows, jobs, declined, transfers, refunded>>

Decline ==
    /\ intent = "open"
    /\ declined' = TRUE
    /\ UNCHANGED <<rows, jobs, intent, transfers, refunded>>

CancelIntent ==
    /\ intent = "open"
    /\ intent' = "canceled"
    /\ UNCHANGED <<rows, jobs, declined, transfers, refunded>>

TransferEnds(k) ==
    /\ transfers[k] = "created"
    /\ \E end \in {"paid", "failed"} : transfers' = [transfers EXCEPT ![k] = end]
    /\ UNCHANGED <<rows, jobs, intent, declined, refunded>>

(* Stripe refunds no more than the charge, and each of our refunds once    *)
(* (the idempotency key holds the id of the row).                          *)
StripeTakes(r, n) ==
    /\ intent = "succeeded"
    /\ Total(refunded) + n <= Amount
    /\ refunded' = Append(refunded, [row |-> r, amount |-> n])

(* A refund made in the dashboard of Stripe, "externally-initiated".       *)
DashboardRefund(r, n) ==
    /\ r \in FreshRows
    /\ \A c \in Refunders : refundJob[c].row # r
    /\ StripeTakes(r, n)
    /\ UNCHANGED <<rows, jobs, intent, declined, transfers>>

-----------------------------------------------------------------------------
(* payment_intent webhooks                                                 *)

IntentSucceeded ==
    /\ intent = "succeeded"
    /\ order = "PENDING"
    /\ order' = "HELD"
    /\ hold' = "active"
    /\ ledger' = ledger \cup {<<"capture", NoRow>>}
    /\ UNCHANGED <<payout, refunds, jobs, stripe>>

IntentFailed ==
    /\ declined
    /\ order = "PENDING"
    /\ order' = "FAILED"
    /\ UNCHANGED <<hold, payout, refunds, ledger, jobs, stripe>>

IntentCanceled ==
    /\ intent = "canceled"
    /\ order = "PENDING"
    /\ order' = "CANCELLED"
    /\ UNCHANGED <<hold, payout, refunds, ledger, jobs, stripe>>

-----------------------------------------------------------------------------
(* The release of the hold (what is not ready or not covered rolls back).  *)

Release ==
    /\ order = "HELD"
    /\ hold = "active"
    /\ EscrowCovers(Amount)
    /\ order' = "RELEASED"
    /\ hold' = "released"
    /\ payout' = [payout EXCEPT !.state = "PENDING"]
    /\ ledger' = ledger \cup {<<"release", NoRow>>}
    /\ UNCHANGED <<refunds, jobs, stripe>>

-----------------------------------------------------------------------------
(* Payouts.  A queued task may run again: the beat task queues attempt 1   *)
(* as long as it finds the payout PENDING, a started task is redelivered   *)
(* when its worker dies, and Celery retries it after a transient error.    *)

QueuePending ==
    /\ payout.state = "PENDING"
    /\ queued' = queued \cup {1}
    /\ UNCHANGED <<rows, payJob, refundJob, stripe>>

PayJob(w, pc, k) ==
    /\ payJob' = [payJob EXCEPT ![w] = [pc |-> pc, attempt |-> k]]
    /\ UNCHANGED <<queued, refundJob>>

LoadsUnpaid == payout.state \notin {"PAID", "FAILED", "CANCELLED"}
                                          \* bug: PROCESSING and SCHEDULED pass
MayLoad == payout.state = "PENDING"

PayoutLoad(w, k) ==
    /\ payJob[w].pc = "idle"
    /\ LeasesHold => \A v \in PayWorkers : payJob[v].pc = "idle"
    /\ k \in queued
    /\ MayLoad
    /\ PayJob(w, "loaded", k)
    /\ UNCHANGED <<rows, stripe>>

(* Phase 1, on the locked row: PROCESSING is committed before the call.    *)
PayoutStart(w) ==
    /\ payJob[w].pc = "loaded"
    /\ IF payout.state \in {"PENDING", "SCHEDULED"}
       THEN /\ payout' = [payout EXCEPT !.state = "PROCESSING"]
            /\ PayJob(w, "stripe", payJob[w].attempt)
       ELSE PayJob(w, "idle", 0) /\ UNCHANGED payout
    /\ UNCHANGED <<order, hold, refunds, ledger, stripe>>

(* Stripe makes the transfer of an idempotency key once; later calls get   *)
(* the same one.                                                           *)
MakeTransfer(k) ==
    /\ transfers[k] # "refused"
    /\ transfers' = [transfers EXCEPT ![k] = IF @ = "none" THEN "created" ELSE @]
    /\ UNCHANGED <<intent, declined, refunded>>

(* A refusal is kept with the key, unless the request was found invalid    *)
(* before Stripe began to execute it.                                      *)
RefuseTransfer(k) ==
    /\ transfers[k] \in {"none", "refused"}
    /\ \E kept \in {transfers[k], "refused"} : transfers' = [transfers EXCEPT ![k] = kept]
    /\ UNCHANGED <<intent, declined, refunded>>

(* Phase 2: the transfer is made and the answer arrives, the answer is     *)
(* lost (a transient error is raised again, the row stays as it is), or    *)
(* Stripe refuses for good.  An adapter that does not take the call raises *)
(* TypeError before it asks Stripe: the task ends, as it may at any time   *)
(* (PayoutStops), and the payout stays PROCESSING.                         *)
FailsOnLostAnswer == "fail"               \* bug: a timeout taken for a refusal
AfterLostAnswer == "idle"

PayoutAtStripe(w) ==
    LET k == payJob[w].attempt IN
    /\ payJob[w].pc = "stripe" /\ AdapterFits
    /\ \/ MakeTransfer(k) /\ PayJob(w, "store", k)
       \/ MakeTransfer(k) /\ PayJob(w, AfterLostAnswer, 0)
       \/ RefuseTransfer(k) /\ PayJob(w, "fail", k)
    /\ UNCHANGED rows

PayoutFail(w) ==
    /\ payJob[w].pc = "fail"
    /\ payout' = IF payout.state \in {"PROCESSING", "SCHEDULED"}
                 THEN [payout EXCEPT !.state = "FAILED"] ELSE payout
    /\ PayJob(w, "idle", 0)
    /\ UNCHANGED <<order, hold, refunds, ledger, stripe>>

(* Phase 3: the id of the transfer is stored, unless a webhook was faster. *)
PayoutStore(w) ==
    /\ payJob[w].pc = "store"
    /\ payout' = IF payout.state = "PROCESSING"
                 THEN [payout EXCEPT !.transfer = payJob[w].attempt] ELSE payout
    /\ PayJob(w, "idle", 0)
    /\ UNCHANGED <<order, hold, refunds, ledger, stripe>>

(* A transient error before anything happened at Stripe, an exception that *)
(* is logged and dropped, or the death of the worker.                      *)
PayoutStops(w) ==
    /\ payJob[w].pc # "idle"
    /\ PayJob(w, "idle", 0)
    /\ UNCHANGED <<rows, stripe>>

(* retry_failed_payouts, for the failures it takes as retryable.           *)
RetriesForever == payout.state = "FAILED"   \* bug: the count is not looked at
MayRetry == payout.state = "FAILED" /\ payout.retries < MaxRetries

RetryFailed ==
    /\ MayRetry
    /\ payout' = [state |-> "PENDING", transfer |-> 0, retries |-> payout.retries + 1]
    /\ queued' = queued \cup {payout.retries + 2}
    /\ UNCHANGED <<order, hold, refunds, ledger, payJob, refundJob, stripe>>

(* transfer webhooks: the payout is found by the id of the transfer.       *)

TransferCreated(k) ==
    /\ transfers[k] # "none"
    /\ payout.transfer = k
    /\ payout.state = "PROCESSING"
    /\ payout' = [payout EXCEPT !.state = "SCHEDULED"]
    /\ UNCHANGED <<order, hold, refunds, ledger, jobs, stripe>>

(* The ledger entry is attempted, a failure of it is swallowed; then the   *)
(* order is settled.                                                       *)
MayPayCancelled == payout.state # "PAID"  \* bug: only PAID is looked at
MayPay == payout.state \in {"PROCESSING", "SCHEDULED"}

GrossEntry == IF UserCovers(Amount) THEN {<<"payout", NoRow>>} ELSE {}
                                          \* bug: debits the amount of the order
PayoutEntry == IF UserCovers(Net) THEN {<<"payout", NoRow>>} ELSE {}

SettlesAny == "SETTLED"                   \* bug: the order is not looked at
Settled == IF order = "RELEASED" THEN "SETTLED" ELSE order

TransferPaid(k) ==
    /\ transfers[k] = "paid"
    /\ payout.transfer = k
    /\ MayPay
    /\ payout' = [payout EXCEPT !.state = "PAID"]
    /\ ledger' = ledger \cup PayoutEntry
    /\ order' = Settled
    /\ UNCHANGED <<hold, refunds, jobs, stripe>>

TransferFailed(k) ==
    /\ transfers[k] = "failed"
    /\ payout.transfer = k
    /\ payout.state \in {"PROCESSING", "SCHEDULED"}
    /\ payout' = [payout EXCEPT !.state = "FAILED"]
    /\ UNCHANGED <<order, hold, refunds, ledger, jobs, stripe>>

-----------------------------------------------------------------------------
(* Refunds                                                                 *)

Refunding == {"HELD", "RELEASED", "SETTLED", "PARTIALLY_REFUNDED"}

(* check_refund_eligibility; only RELEASED and SETTLED look at the payout. *)
Eligible ==
    /\ order \in Refunding
    /\ Processing = {}
    /\ Refundable > 0
    /\ order \in {"RELEASED", "SETTLED"} => payout.state \notin {"PROCESSING", "PAID"}

CancelsPayout ==
    order \in {"RELEASED", "SETTLED"} /\ payout.state \in {"PENDING", "SCHEDULED"}

RefundJob(c, job) ==
    /\ refundJob' = [refundJob EXCEPT ![c] = job]
    /\ UNCHANGED <<queued, payJob>>

(* Amount and fullness are decided before the order is locked.             *)
RefundLoad(c, n) ==
    /\ refundJob[c].pc = "idle"
    /\ Eligible
    /\ n <= Refundable
    /\ RefundJob(c, [IdleRefundJob EXCEPT !.pc = "create", !.amount = n,
                                         !.full = (n = Refundable)])
    /\ UNCHANGED <<rows, stripe>>

(* Phase 1, on the locked order: the row is made and the payout cancelled. *)
RefundCreate(c, r) ==
    LET job == refundJob[c] IN
    /\ job.pc = "create"
    /\ Eligible
    /\ r \in FreshRows
    /\ refunds' = [refunds EXCEPT ![r] = [state |-> "PROCESSING",
                                         amount |-> job.amount, stripe |-> NoRow]]
    /\ payout' = IF CancelsPayout THEN [payout EXCEPT !.state = "CANCELLED"] ELSE payout
    /\ RefundJob(c, [job EXCEPT !.pc = "stripe", !.row = r, !.cancels = CancelsPayout])
    /\ UNCHANGED <<order, hold, ledger, stripe>>

(* Phase 2: the refund is made and the answer arrives, the answer is lost, *)
(* or Stripe refuses for good.                                             *)
RefundAtStripe(c) ==
    LET job == refundJob[c] IN
    /\ job.pc = "stripe"
    /\ \/ /\ StripeTakes(job.row, job.amount)
          /\ \/ RefundJob(c, [job EXCEPT !.pc = "finish"])
             \/ RefundJob(c, IdleRefundJob)
          /\ UNCHANGED <<intent, declined, transfers>>
       \/ RefundJob(c, [job EXCEPT !.pc = "fail"]) /\ UNCHANGED stripe
    /\ UNCHANGED rows

RefundFail(c) ==
    LET job == refundJob[c] IN
    /\ job.pc = "fail"
    /\ refunds' = IF refunds[job.row].state = "PROCESSING"
                  THEN [refunds EXCEPT ![job.row].state = "FAILED"] ELSE refunds
    /\ RefundJob(c, IdleRefundJob)
    /\ UNCHANGED <<order, hold, payout, ledger, stripe>>

(* The debits of _record_refund_ledger_entries: the recipient gives Net    *)
(* back if the payout was cancelled, escrow pays the refund.               *)
RefundCovered(job) ==
    IF job.cancels
    THEN UserCovers(Net) /\ EscrowIn + Net >= EscrowOut + job.amount
    ELSE EscrowCovers(job.amount)

RefundEntries(job) ==
    {<<"reversal", job.row>>}
        \cup (IF job.cancels THEN {<<"payout_cancel", job.row>>} ELSE {})

TakesAnyId(r) == TRUE                     \* bug: no unique stripe_refund_id
IdIsFree(r) == r \notin Known

(* Phase 3, all or nothing: a failed debit, an order that refuses the      *)
(* transition or an id that another row has already (unique) undoes it,    *)
(* and the call answers success (RefundStops).                             *)
RefundFinish(c) ==
    LET job == refundJob[c] IN
    /\ job.pc = "finish"
    /\ refunds[job.row].state = "PROCESSING"
    /\ IdIsFree(job.row)
    /\ RefundCovered(job)
    /\ order \in Refunding
    /\ ledger' = ledger \cup RefundEntries(job)
    /\ refunds' = [refunds EXCEPT ![job.row] = [@ EXCEPT !.state = "COMPLETED",
                                                        !.stripe = job.row]]
    /\ order' = IF job.full THEN "REFUNDED" ELSE "PARTIALLY_REFUNDED"
    /\ RefundJob(c, IdleRefundJob)
    /\ UNCHANGED <<hold, payout, stripe>>

(* A refusal, an exception on the way, or the death of the process; what   *)
(* was committed before stays.                                             *)
RefundStops(c) ==
    /\ refundJob[c].pc # "idle"
    /\ RefundJob(c, IdleRefundJob)
    /\ UNCHANGED <<rows, stripe>>

(* charge.refunded, with the refunds the charge had when it was sent.  A   *)
(* refund no row has the id of gets a row, completed, without an entry.    *)
Unknown(list) == {list[i].row : i \in DOMAIN list} \ Known
AmountIn(list, s) == CHOOSE n \in 0..Amount : \E i \in DOMAIN list : list[i] = [row |-> s, amount |-> n]

ChargeRefunded(list) ==
    /\ \E new \in [Unknown(list) -> FreshRows] :
          /\ \A s, t \in Unknown(list) : new[s] = new[t] => s = t
          /\ refunds' = [r \in RefundRows |->
                IF \E s \in Unknown(list) : new[s] = r
                THEN LET s == CHOOSE s \in Unknown(list) : new[s] = r
                     IN [state |-> "COMPLETED", amount |-> AmountIn(list, s), stripe |-> s]
                ELSE refunds[r]]
    /\ order' = IF order \in Refunding
                THEN IF Total(list) >= Amount THEN "REFUNDED" ELSE "PARTIALLY_REFUNDED"
                ELSE order
    /\ UNCHANGED <<hold, payout, ledger, jobs, stripe>>

-----------------------------------------------------------------------------
StripeStep ==
    \/ Pay
    \/ Decline
    \/ CancelIntent
    \/ \E k \in Attempts : TransferEnds(k)
    \/ \E r \in RefundRows, n \in RefundAmounts : DashboardRefund(r, n)

Webhook ==
    \/ IntentSucceeded
    \/ IntentFailed
    \/ IntentCanceled
    \/ \E k \in Attempts : TransferCreated(k) \/ TransferPaid(k) \/ TransferFailed(k)
    \/ \E n \in DOMAIN refunded : ChargeRefunded(SubSeq(refunded, 1, n))

PayoutStep(w) ==
    \/ \E k \in Attempts : PayoutLoad(w, k)
    \/ PayoutStart(w)
    \/ PayoutAtStripe(w)
    \/ PayoutFail(w)
    \/ PayoutStore(w)
    \/ PayoutStops(w)

RefundStep(c) ==
    \/ \E n \in RefundAmounts : RefundLoad(c, n)
    \/ \E r \in RefundRows : RefundCreate(c, r)
    \/ RefundAtStripe(c)
    \/ RefundFail(c)
    \/ RefundFinish(c)
    \/ RefundStops(c)

Next ==
    \/ StripeStep
    \/ Webhook
    \/ Release
    \/ QueuePending
    \/ RetryFailed
    \/ \E w \in PayWorkers : PayoutStep(w)
    \/ \E c \in Refunders : RefundStep(c)

Spec == Init /\ [][Next]_vars

-----------------------------------------------------------------------------
(* The recipient is never sent the money twice: of all transfers made for  *)
(* the payout, whatever answers were lost, workers died, retries ran and   *)
(* webhooks came late, at most one is on its way or has arrived            *)
(* (payout_service.py, the three phases of execute_payout).  It is said of *)
(* a payout that reconciliation leaves alone: see MonthlyPayout and        *)
(* Reconciliation for what a run that stores an old id can do.             *)
NoDoubleTransfer == Cardinality(Live) <= 1

(* The books follow the order: what was captured, released and held is     *)
(* what its state and its hold say, and a payout exists exactly for a      *)
(* released hold (escrow.py, one transaction per transition).              *)
BooksFollowOrder ==
    /\ order \in {"PENDING", "FAILED", "CANCELLED"} => ledger = {} /\ hold = "none"
    /\ order = "HELD" => hold = "active" /\ ledger = {<<"capture", NoRow>>}
    /\ order = "RELEASED" => payout.state # "PAID"
    /\ order = "SETTLED" => payout.state = "PAID" /\ PostedFor("reversal") = {}
    /\ (hold = "released") <=> (payout.state # "NONE")
    /\ (hold = "released") <=> (<<"release", NoRow>> \in ledger)

(* The recipient's balance is what the platform owes: the share while a    *)
(* payout is due, nothing once it is paid, and for a cancelled payout      *)
(* nothing as soon as the refund has been booked (handlers.py:521-585,     *)
(* refund_service.py:866-893).                                             *)
RecipientIsOwed ==
    LET balance == UserIn - UserOut IN
    /\ payout.state \in {"NONE", "PAID"} => balance = 0
    /\ payout.state \in {"PENDING", "PROCESSING", "SCHEDULED", "FAILED"} => balance = Net
    /\ payout.state = "CANCELLED" => balance \in {0, Net}

(* No refund is booked that Stripe did not make, none is booked for more   *)
(* rows than it made, and none is called failed that it made               *)
(* (refund_service.py, the two phases of create_refund; the unique         *)
(* stripe_refund_id of models/refund.py:124).                              *)
RefundsAreReal ==
    /\ \A r \in Completed :
          \E i \in DOMAIN refunded : refunded[i] = [row |-> refunds[r].stripe,
                                                 amount |-> refunds[r].amount]
    /\ \A r, s \in Completed : refunds[r].stripe = refunds[s].stripe => r = s
    /\ \A r \in RefundRows : refunds[r].state = "FAILED" => r \notin AtStripe
    /\ \A r \in PostedFor("reversal") : r \in Completed /\ refunds[r].stripe = r

(* What is over stays over: no late webhook, retry or refund takes an      *)
(* order out of REFUNDED, a payout out of PAID or CANCELLED, a refund out  *)
(* of COMPLETED or FAILED, or an entry out of the ledger (models/*.py, the *)
(* sources of the transitions).                                            *)
NothingComesBack ==
    [][/\ order \in {"REFUNDED", "CANCELLED"} => order' = order
       /\ payout.state \in {"PAID", "CANCELLED"} => payout' = payout
       /\ \A r \in RefundRows :
             refunds[r].state \in {"COMPLETED", "FAILED"} => refunds'[r] = refunds[r]
       /\ ledger \subseteq ledger']_vars

(* To the payer and the recipient the whole machinery is EscrowMoney: one  *)
(* charge, one transfer at a time, every refund of its own and together    *)
(* no more than the charge.                                                *)
MovesMoneyLikeEscrow == EM!Spec
=============================================================================
