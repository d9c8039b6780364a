------------------------------ MODULE MCBilling ------------------------------
(***************************************************************************)
(* Reconciliation in parts, so that the state space is the sum of theirs   *)
(* and not the product.  Direct orders share no variable with the rest;    *)
(* of a subscription, payouts read what it has credited.  The part is      *)
(* chosen at the start and never changes.                                  *)
(***************************************************************************)
EXTENDS Reconciliation

VARIABLE part

MCVars == <<billingVars, part>>

(* A subscription and the payouts of what it earns, without a retried      *)
(* transfer; direct orders; payouts with as many transfers as Stripe makes.*)
Subscribing == UNCHANGED directVars /\ \A p \in Payouts : Len(transfer'[p]) <= 1
PayingDirect == UNCHANGED <<subVars, payoutVars>>
PayingOut == UNCHANGED <<subVars, directVars>>

MCInit == BillingInit /\ part \in {"subscribing", "direct", "payouts"}

MCNext ==
    /\ BillingNext
    /\ part = "subscribing" => Subscribing
    /\ part = "direct" => PayingDirect
    /\ part = "payouts" => PayingOut
    /\ UNCHANGED part

MCSpec ==
    /\ MCInit /\ [][MCNext]_MCVars
    /\ \A p \in Payouts : WF_MCVars(ReconcilePayout(p) /\ UNCHANGED part)
=============================================================================
