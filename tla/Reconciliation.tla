---------------------------- MODULE Reconciliation ----------------------------
(***************************************************************************)
(* Subscriptions, direct payments and payouts together, and the runs of    *)
(* ReconciliationService (services/reconciliation_service.py) that compare *)
(* their rows with Stripe: webhooks may be lost for good, and then only    *)
(* reconciliation is left.                                                 *)
(*                                                                         *)
(* A check and the heal that follows are one step: both hold for Stripe's  *)
(* final states, and the heal reads the row again under its lock.  A heal  *)
(* long after its check may still store the id of a transfer that is no    *)
(* longer the newest: that comes to what it would have done before the     *)
(* newer one was made.  What a run only flags for review changes no row    *)
(* and is left out: cancelled intents, stuck rows, failed transfers,       *)
(* invoices without an order, and a cancelled row whose subscription       *)
(* Stripe still runs.                                                      *)
(***************************************************************************)
EXTENDS MonthlyPayout, DirectPayment

billingVars == <<subVars, directVars, payoutVars>>

-----------------------------------------------------------------------------
(* What the adapter reads of Stripe; when it raises, the run finds nothing *)
(* wrong with the row.                                                     *)
ChargedAtStripe(o) == intent[o] = "succeeded"
ListedAtStripe(p) == transfer[p] # <<>>
AnyAtStripe(p, i) == i \in DOMAIN transfer[p]        \* bug: the status is not read
PaidAtStripe(p, i) == i \in DOMAIN transfer[p] /\ transfer[p][i] = "paid"
EndedAtStripe == stripeSub = "canceled"

(* _heal_payout_backfill_transfer_id: phase 3 was lost, or is still to     *)
(* come; the newest transfer with the payout's id in its metadata is       *)
(* taken, whichever attempt made it.                                       *)
FoundByMetadata(p) ==
    /\ payouts[p].state = "PROCESSING" /\ payouts[p].known = 0
    /\ ListedAtStripe(p)

BackfillTransferId(p) ==
    /\ FoundByMetadata(p)
    /\ LET newest == Len(transfer[p])
           state == IF PaidAtStripe(p, newest) THEN "PAID" ELSE payouts[p].state
       IN  payouts' = [payouts EXCEPT ![p].known = newest, ![p].state = state]
    /\ UNCHANGED <<transfer, worker, bookVars>>

(* _heal_payout_complete: no entry is recorded and no order settled.       *)
TransferPaidUnseen(p) ==
    /\ payouts[p].state \in UnderWay
    /\ PaidAtStripe(p, payouts[p].known)

HealPayoutComplete(p) ==
    /\ TransferPaidUnseen(p)
    /\ Become(p, "PAID")
    /\ UNCHANGED <<transfer, worker, bookVars>>

ReconcilePayout(p) ==
    /\ BackfillTransferId(p) \/ HealPayoutComplete(p)
    /\ UNCHANGED <<subVars, directVars>>

(* _heal_subscription_cancelled; rows that are PENDING or PAST_DUE are     *)
(* fetched but nothing is checked of them.                                 *)
CancelledUnseen == subscription = "ACTIVE" /\ EndedAtStripe

HealSubscriptionCancelled ==
    /\ subscription' = "CANCELLED"
    /\ UNCHANGED <<orders, credited, checked, canceller, subStripe>>

ReconcileSubscription ==
    /\ CancelledUnseen
    /\ HealSubscriptionCancelled
    /\ UNCHANGED <<directVars, payoutVars>>

(* _heal_payment_succeeded_from_pending: refresh_from_db() on the          *)
(* protected state field raises between the two transitions, and the       *)
(* transaction is rolled back: the order stays PENDING.  No row is ever    *)
(* committed as PROCESSING, so the other two heals find no order.          *)
SucceededUnseen(o) == order[o] = "PENDING" /\ ChargedAtStripe(o)

HealPaymentSucceeded(o) == UNCHANGED directVars

ReconcileOrder(o) ==
    /\ SucceededUnseen(o)
    /\ HealPaymentSucceeded(o)
    /\ UNCHANGED <<subVars, payoutVars>>

(* The scheduled run goes through the three kinds of rows; a task on       *)
(* demand, which does not take the lock of the run, looks at one order or  *)
(* one payout.                                                             *)
RunWithLock ==
    \/ \E o \in DirectOrders : ReconcileOrder(o)
    \/ \E p \in Payouts : ReconcilePayout(p)
    \/ ReconcileSubscription

ReconcileSingle ==
    \/ \E o \in DirectOrders : ReconcileOrder(o)
    \/ \E p \in Payouts : ReconcilePayout(p)

RunReconciliation == RunWithLock \/ ReconcileSingle

-----------------------------------------------------------------------------
BillingInit == SubscriptionInit /\ DirectInit /\ PayoutInit

BillingNext ==
    \/ SubscriptionNext /\ UNCHANGED <<directVars, payoutVars>>
    \/ DirectNext /\ UNCHANGED <<subVars, payoutVars>>
    \/ PayoutNext /\ UNCHANGED <<subVars, directVars>>
    \/ RunReconciliation

(* Runs of reconciliation keep coming while a payout is in their window;   *)
(* nothing is assumed of webhooks, workers or Stripe.                      *)
BillingSpec ==
    /\ BillingInit /\ [][BillingNext]_billingVars
    /\ \A p \in Payouts : WF_billingVars(ReconcilePayout(p))

(* Payouts alone, with workers that live and finish what they have begun.  *)
ExecutionNext ==
    /\ PayoutSteps \/ \E p \in Payouts : ReconcilePayout(p)
    /\ UNCHANGED <<subVars, directVars>>

ExecutionSpec ==
    /\ BillingInit /\ [][ExecutionNext]_billingVars
    /\ \A p \in Payouts : WF_billingVars(/\ ExecutePayout(p)
                                         /\ UNCHANGED <<subVars, directVars>>)

BillingTypes == SubscriptionTypes /\ DirectTypes /\ PayoutTypes

-----------------------------------------------------------------------------
(* An invoice is booked once, in one order, and only when Stripe was paid, *)
(* however many tasks handle invoice.paid at once                          *)
(* (webhooks/handlers.py:1086-1141).                                       *)
InvoiceBookedOnce ==
    \A i \in Invoices :
       /\ orders[i] <= 1
       /\ i \in credited => orders[i] = 1 /\ invoice[i].status = "paid"

BillingSafe == BillingTypes /\ InvoiceBookedOnce

(* A subscription that is over here is over at Stripe, and one that is or  *)
(* was active has been paid for, although cancel_subscription saves a copy *)
(* that may be old (strategies/subscription.py:323-334).                   *)
SubscriptionFollowsStripe ==
    /\ subscription = "CANCELLED" => stripeSub = "canceled"
    /\ subscription \in {"ACTIVE", "PAST_DUE"} => credited # {}
    /\ subscription = "PAST_DUE" => \E i \in Invoices : invoice[i].failed

(* Subscriptions and direct orders alike say nothing that Stripe does not. *)
RowsFollowStripe == SubscriptionFollowsStripe /\ DirectFollowsStripe

(* The ledger books a payout, and the order is settled, only when the      *)
(* money has arrived; a payout that is over here has arrived too, whatever *)
(* transfer's id a late answer or a run has stored meanwhile               *)
(* (webhooks/handlers.py:460-518, reconciliation_service.py:1430-1516).    *)
SomeArrived(p) == \E i \in DOMAIN transfer[p] : transfer[p][i] = "paid"

BooksOnlySentMoney ==
    /\ \A p \in Payouts : payouts[p].state = "PAID" => SomeArrived(p)
    /\ \A p \in paidOut : payouts[p].state = "PAID"
    /\ ownOrder = "SETTLED" => payouts[Own].state = "PAID"

(* A transfer that Stripe completes is seen here in the end, although its  *)
(* answer, the worker that stores it and every webhook may be lost and the *)
(* task's own retry takes PROCESSING for done (payout_executor.py:229,     *)
(* reconciliation_service.py:777-879).  It is the payout's only one, or    *)
(* the one whose id is stored, and no worker has another in hand: when a   *)
(* run has stored the id of an earlier one that failed, and the worker     *)
(* dies with the new one, nobody looks for that.                           *)
LastArrived(p) ==
    LET newest == Len(transfer[p])
    IN  /\ PaidAtStripe(p, newest)
        /\ payouts[p].state \in UnderWay
        /\ payouts[p].known \in (IF newest = 1 THEN {0, 1} ELSE {newest})
        /\ worker[p].step # "call" /\ worker[p].made \in {0, newest}

SentPayoutEnds == \A p \in Payouts : LastArrived(p) ~> payouts[p].state = "PAID"

(* "Transient errors (rate limits, timeouts): Raise to trigger retry" and  *)
(* "Permanent errors (invalid account): Transition to FAILED"              *)
(* (payout_service.py:118-119): a payout that a worker has taken, and that *)
(* no transfer was made for, is tried again or has failed.                 *)
Unsent(p) ==
    payouts[p].state = "PROCESSING" /\ worker[p] = Idle /\ transfer[p] = <<>>

UnsentIsFollowedUp == \A p \in Payouts : Unsent(p) ~> ~Unsent(p)
=============================================================================
