----------------------------- MODULE DirectPayment ----------------------------
(***************************************************************************)
(* Direct payments: PaymentOrchestrator.initiate_payment                   *)
(* (services/payment_orchestrator.py), DirectPaymentStrategy               *)
(* (strategies/direct.py), the payment_intent handlers as they treat a     *)
(* direct order, and Stripe's payment intents.                             *)
(***************************************************************************)
EXTENDS Naturals

CONSTANT DirectOrders

VARIABLES order,     \* PaymentOrder.state, "NONE" before the row exists
          entries,   \* orders whose ledger entries are recorded
          intent,    \* Stripe's payment intents
          declined   \* intents of which an attempt was declined

directVars == <<order, entries, intent, declined>>

DirectTypes ==
    /\ order \in [DirectOrders -> {"NONE", "PENDING", "SETTLED", "FAILED", "CANCELLED"}]
    /\ entries \subseteq DirectOrders
    /\ intent \in [DirectOrders -> {"none", "open", "succeeded", "canceled"}]
    /\ declined \subseteq DirectOrders

DirectInit ==
    /\ order = [o \in DirectOrders |-> "NONE"]
    /\ entries = {}
    /\ intent = [o \in DirectOrders |-> "none"]
    /\ declined = {}

-----------------------------------------------------------------------------
(* The intent is made inside the transaction of the order: an error of     *)
(* Stripe, or a later one, leaves no order, and an intent whose secret     *)
(* nobody was given.                                                       *)
CreateIntent(o) ==
    /\ intent[o] = "none"
    /\ intent' = [intent EXCEPT ![o] = "open"]

CreatePayment(o) ==
    /\ CreateIntent(o)
    /\ order' = [order EXCEPT ![o] = "PENDING"]

InitiatePayment(o) ==
    /\ order[o] = "NONE"
    /\ CreatePayment(o)
    /\ UNCHANGED <<entries, declined>>

(* Stripe; a declined payer may try again on the same intent.              *)
IntentEnds(o, end) ==
    /\ intent[o] = "open"
    /\ intent' = [intent EXCEPT ![o] = end]
    /\ UNCHANGED <<order, entries, declined>>

AttemptDeclined(o) ==
    /\ intent[o] = "open"
    /\ declined' = declined \cup {o}
    /\ UNCHANGED <<order, entries, intent>>

-----------------------------------------------------------------------------
(* The handlers find the order by its intent and lock it.                  *)

BecomeDirect(o, state) ==
    /\ order[o] = "PENDING"
    /\ order' = [order EXCEPT ![o] = state]
    /\ UNCHANGED <<intent, declined>>

Succeeded(o) == intent[o] = "succeeded"

(* handle_payment_succeeded: when the ledger fails, the order is committed *)
(* as SETTLED without entries; the failure is only returned.               *)
RecordEntries(o) == entries' \in {entries, entries \cup {o}}

SettleDirect(o) == BecomeDirect(o, "SETTLED") /\ RecordEntries(o)

FailDirect(o) == BecomeDirect(o, "FAILED") /\ UNCHANGED entries

DirectSucceeded(o) == Succeeded(o) /\ SettleDirect(o)

DirectFailed(o) == o \in declined /\ FailDirect(o)

DirectCanceled(o) ==
    /\ intent[o] = "canceled"
    /\ BecomeDirect(o, "CANCELLED")
    /\ UNCHANGED entries

DirectNext ==
    \E o \in DirectOrders :
       \/ InitiatePayment(o)
       \/ \E end \in {"succeeded", "canceled"} : IntentEnds(o, end)
       \/ AttemptDeclined(o)
       \/ DirectSucceeded(o) \/ DirectFailed(o) \/ DirectCanceled(o)

-----------------------------------------------------------------------------
(* A direct order is what its intent says, and has entries only when it    *)
(* was settled, whatever the order of the events                           *)
(* (strategies/direct.py:234-323, webhooks/handlers.py:131-325).           *)
DirectFollowsStripe ==
    \A o \in DirectOrders :
       /\ order[o] = "SETTLED" => intent[o] = "succeeded"
       /\ order[o] = "CANCELLED" => intent[o] = "canceled"
       /\ order[o] = "FAILED" => o \in declined
       /\ o \in entries => order[o] = "SETTLED"
=============================================================================
