----------------------------- MODULE Subscription -----------------------------
(***************************************************************************)
(* One subscription of the payments app: SubscriptionPaymentStrategy       *)
(* (strategies/subscription.py), the handlers of invoice.* and of          *)
(* customer.subscription.* (webhooks/handlers.py), and Stripe's side.      *)
(*                                                                         *)
(* A webhook may arrive any number of times, late, and in any order.  A    *)
(* handler is one transaction on the locked row, but handle_invoice_paid   *)
(* looks for an order of the invoice before it waits for the row.  The     *)
(* caller of cancel_subscription locks nothing and saves the whole copy it *)
(* has.  Period dates and cancel_at_period_end decide nothing and are left *)
(* out, and with them customer.subscription.created and .updated, which    *)
(* change nothing else.                                                    *)
(***************************************************************************)
EXTENDS Naturals, FiniteSetsExt

CONSTANT Invoices    \* Stripe's invoices of the subscription

VARIABLES subscription, \* Subscription.state, "NONE" before the row exists
          orders,       \* the number of PaymentOrder rows of each invoice
          credited,     \* invoices whose ledger entries are recorded
          checked,      \* invoices a handler has found without an order
          canceller,    \* the call of cancel_subscription between Stripe's
                        \* answer and save(): its mode and its copy
          stripeSub,    \* Stripe's subscription
          invoice       \* Stripe's invoices: status, and an attempt failed

subRows == <<subscription, orders, credited>>
subStripe == <<stripeSub, invoice>>
subVars == <<subRows, checked, canceller, subStripe>>

States == {"NONE", "PENDING", "ACTIVE", "PAST_DUE", "CANCELLED"}
NoCall == [mode |-> "none", copy |-> "NONE"]
CancelCall == [mode : {"none", "now", "period_end"}, copy : States]

SubscriptionTypes ==
    /\ subscription \in States
    /\ orders \in [Invoices -> 0..2]
    /\ credited \subseteq Invoices
    /\ checked \subseteq Invoices
    /\ canceller \in CancelCall
    /\ stripeSub \in {"none", "open", "canceled"}
    /\ invoice \in [Invoices -> [status : {"none", "open", "paid"}, failed : BOOLEAN]]

SubscriptionInit ==
    /\ subscription = "NONE"
    /\ orders = [i \in Invoices |-> 0]
    /\ credited = {}
    /\ checked = {}
    /\ canceller = NoCall
    /\ stripeSub = "none"
    /\ invoice = [i \in Invoices |-> [status |-> "none", failed |-> FALSE]]

-----------------------------------------------------------------------------
(* Stripe                                                                  *)

IssueInvoice(i) ==
    /\ stripeSub = "open"
    /\ invoice[i].status = "none"
    /\ invoice' = [invoice EXCEPT ![i].status = "open"]
    /\ UNCHANGED <<subRows, checked, canceller, stripeSub>>

AttemptFails(i) ==
    /\ invoice[i].status = "open"
    /\ invoice' = [invoice EXCEPT ![i].failed = TRUE]
    /\ UNCHANGED <<subRows, checked, canceller, stripeSub>>

InvoicePaid(i) ==
    /\ stripeSub = "open"
    /\ invoice[i].status = "open"
    /\ invoice' = [invoice EXCEPT ![i].status = "paid"]
    /\ UNCHANGED <<subRows, checked, canceller, stripeSub>>

(* At the end of the period, after the last retry, or in the dashboard.    *)
StripeCancels ==
    /\ stripeSub = "open"
    /\ stripeSub' = "canceled"
    /\ UNCHANGED <<subRows, checked, canceller, invoice>>

-----------------------------------------------------------------------------
(* create_subscription: the customer and the subscription are made at      *)
(* Stripe inside the transaction of the row; when it does not commit,      *)
(* Stripe's subscription stays, and the next call gets it again by the     *)
(* idempotency key of payer and recipient.                                 *)

SubscribedAtStripe ==
    /\ stripeSub \in {"none", "open"}
    /\ stripeSub' = "open"
    /\ UNCHANGED invoice

CreateSubscription ==
    /\ subscription = "NONE"
    /\ SubscribedAtStripe
    /\ subscription' \in {"PENDING", "NONE"}      \* committed or not
    /\ UNCHANGED <<orders, credited, checked, canceller>>

(* cancel_subscription: Stripe is told first, then the copy is saved.  A   *)
(* copy that is PENDING cannot be cancelled: cancel() raises.              *)
CanceledAtStripe(mode) ==
    /\ stripeSub = "open"
    /\ stripeSub' = IF mode = "now" THEN "canceled" ELSE stripeSub

CancelAtStripe(mode) ==
    /\ canceller = NoCall
    /\ subscription # "NONE"
    /\ canceller' = [mode |-> mode, copy |-> subscription]
    /\ CanceledAtStripe(mode)
    /\ UNCHANGED <<subRows, checked, invoice>>

MayCancel(state) == state \in {"ACTIVE", "PAST_DUE"}

SaveCancel ==
    /\ canceller # NoCall
    /\ subscription' =
          IF canceller.mode = "period_end" THEN canceller.copy
          ELSE IF MayCancel(canceller.copy) THEN "CANCELLED" ELSE subscription
    /\ canceller' = NoCall
    /\ UNCHANGED <<orders, credited, checked, subStripe>>

-----------------------------------------------------------------------------
(* invoice.paid.  Two tasks may both find no order; the row lock of the    *)
(* subscription lets them in one after the other, and the unique           *)
(* stripe_invoice_id rolls the second one back.                            *)

FindNoOrder(i) ==
    /\ invoice[i].status = "paid"
    /\ orders[i] = 0
    /\ checked' = checked \cup {i}
    /\ UNCHANGED <<subRows, canceller, subStripe>>

AnyOrder(i) == TRUE                       \* bug: the id is not unique
UniqueInvoice(i) == orders[i] = 0

AfterPayment(state) ==
    IF state \in {"PENDING", "PAST_DUE"} THEN "ACTIVE" ELSE state

CreditEntries(i) == credited' = credited \cup {i}

(* handle_payment_succeeded of the strategy: the order is SETTLED, the     *)
(* entries of the invoice are recorded, the subscription is active.  When  *)
(* the ledger fails, the failure is returned, not raised: the order is     *)
(* committed without entries, and the retried event finds it.              *)
SettleInvoice(i) ==
    \/ /\ CreditEntries(i)
       /\ subscription' = AfterPayment(subscription)
    \/ UNCHANGED <<credited, subscription>>

HandleInvoicePaid(i) ==
    /\ i \in checked
    /\ subscription # "NONE"
    /\ UniqueInvoice(i)
    /\ orders' = [orders EXCEPT ![i] = @ + 1]
    /\ SettleInvoice(i)
    /\ UNCHANGED <<checked, canceller, subStripe>>

(* invoice.payment_failed, perhaps after the payment that succeeded.       *)
AnyRow(state) == state # "NONE"               \* bug: the state is not read
MayFallDue(state) == state = "ACTIVE"

HandleInvoicePaymentFailed(i) ==
    /\ invoice[i].failed
    /\ MayFallDue(subscription)
    /\ subscription' = "PAST_DUE"
    /\ UNCHANGED <<orders, credited, checked, canceller, subStripe>>

(* customer.subscription.deleted.  For a PENDING row cancel() raises, the  *)
(* transaction rolls back and the event fails.                             *)
HandleSubscriptionDeleted ==
    /\ stripeSub = "canceled"
    /\ MayCancel(subscription)
    /\ subscription' = "CANCELLED"
    /\ UNCHANGED <<orders, credited, checked, canceller, subStripe>>

-----------------------------------------------------------------------------
SubscriptionNext ==
    \/ \E i \in Invoices :
          \/ IssueInvoice(i) \/ AttemptFails(i) \/ InvoicePaid(i)
          \/ FindNoOrder(i) \/ HandleInvoicePaid(i) \/ HandleInvoicePaymentFailed(i)
    \/ StripeCancels
    \/ CreateSubscription
    \/ \E mode \in {"now", "period_end"} : CancelAtStripe(mode)
    \/ SaveCancel
    \/ HandleSubscriptionDeleted
=============================================================================
