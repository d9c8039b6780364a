---------------------------- MODULE MonthlyPayout -----------------------------
(***************************************************************************)
(* What one recipient is paid: the monthly payouts that aggregate the      *)
(* balance (create_monthly_subscription_payouts, tasks.py), next to the    *)
(* payout of an escrow order of the same recipient, with their execution   *)
(* (PayoutService) and the transfer.* handlers.                            *)
(*                                                                         *)
(* One worker at a time is at a payout, as long as its lease lasts (that   *)
(* is EscrowPayment's subject); its three phases are steps, between which  *)
(* handlers, retries of the row and reconciliation come, none of which     *)
(* takes the worker's lock.                                                *)
(***************************************************************************)
EXTENDS Subscription, Sequences

CONSTANTS Months,      \* the number of runs of the monthly task
          Net,         \* what an invoice leaves the recipient, in cents
          OwnAmount,   \* the recipient's part of the escrow order
          Threshold,   \* minimum_payout_amount
          Transfers,   \* the most transfers Stripe makes for one payout
          AdapterFits  \* the adapter set on PayoutService takes the arguments
                       \* it is called with: the one the tests inject does,
                       \* StripeAdapter has no destination_account_id

ASSUME BillingAssumption == /\ Months \in Nat
                            /\ Net \in Nat \ {0}
                            /\ OwnAmount \in Nat
                            /\ Threshold \in Nat \ {0}
                            /\ Transfers \in Nat
                            /\ AdapterFits \in BOOLEAN

Own == 0                       \* the payout of the escrow order
Payouts == 0..Months

VARIABLES payouts,    \* Payout rows: state, amount, and which transfer's id is
                      \* stored (0: none)
          transfer,   \* Stripe's transfers for each payout, oldest first
          worker,     \* the execution of each payout: before the call of
                      \* Stripe, or with a transfer whose id it has to store
          paidOut,    \* payouts with a PAYOUT entry in the ledger
          ownOrder    \* the escrow order's state

bookVars == <<paidOut, ownOrder>>
payoutVars == <<payouts, transfer, worker, bookVars>>

PayoutRow ==
    [state : {"NONE", "PENDING", "PROCESSING", "SCHEDULED", "PAID", "FAILED"},
     amount : Nat, known : Nat]

Idle == [step |-> "idle", made |-> 0]

PayoutTypes ==
    /\ payouts \in [Payouts -> PayoutRow]
    /\ transfer \in [Payouts -> Seq({"made", "paid", "failed"})]
    /\ worker \in [Payouts -> [step : {"idle", "call", "store"}, made : Nat]]
    /\ paidOut \subseteq Payouts
    /\ ownOrder \in {"RELEASED", "SETTLED"}

NoPayout == [state |-> "NONE", amount |-> 0, known |-> 0]
NewPayout(amount) == [state |-> "PENDING", amount |-> amount, known |-> 0]

PayoutInit ==
    /\ payouts = [p \in Payouts |-> IF p = Own THEN NewPayout(OwnAmount) ELSE NoPayout]
    /\ transfer = [p \in Payouts |-> <<>>]
    /\ worker = [p \in Payouts |-> Idle]
    /\ paidOut = {}
    /\ ownOrder = "RELEASED"

-----------------------------------------------------------------------------
Amounts(set) == MapThenSumSet(LAMBDA p : payouts[p].amount, set)

Earned == Net * Cardinality(credited) + OwnAmount

(* The USER_BALANCE: what was earned less the PAYOUT entries.              *)
Balance == Earned - Amounts(paidOut)

(* One run of the monthly task: payouts that are still on their way are    *)
(* not looked at.                                                          *)
CreateMonthlyPayout(m) ==
    /\ m # Own /\ payouts[m].state = "NONE"
    /\ m > 1 => payouts[m - 1].state # "NONE"
    /\ Balance >= Threshold
    /\ payouts' = [payouts EXCEPT ![m] = NewPayout(Balance)]
    /\ UNCHANGED <<transfer, worker, bookVars>>

-----------------------------------------------------------------------------
Become(p, state) == payouts' = [payouts EXCEPT ![p].state = state]

OnlyProcessing == {"PROCESSING"}              \* bug: SCHEDULED is forgotten
UnderWay == {"PROCESSING", "SCHEDULED"}

(* Phase 1.  A payout that is PROCESSING or further on counts as done,     *)
(* also for the retry Celery makes after an error that may pass.           *)
Payable(p) == payouts[p].state = "PENDING" /\ payouts[p].amount > 0

BeginPayout(p) ==
    /\ Payable(p) /\ worker[p] = Idle
    /\ Become(p, "PROCESSING")
    /\ worker' = [worker EXCEPT ![p] = [step |-> "call", made |-> 0]]
    /\ UNCHANGED <<transfer, bookVars>>

(* Phase 2.  Stripe makes a transfer, or answers with one it made before,  *)
(* if the idempotency key of that attempt is used again: the scan of       *)
(* pending payouts gives no attempt number.                                *)
MakesTransfer(p, i) ==
    \/ /\ Len(transfer[p]) < Transfers /\ i = Len(transfer[p]) + 1
       /\ transfer' = [transfer EXCEPT ![p] = Append(@, "made")]
    \/ i \in DOMAIN transfer[p] /\ UNCHANGED transfer

CallStripe(p, i) ==
    /\ worker[p].step = "call" /\ AdapterFits
    /\ MakesTransfer(p, i)
    /\ worker' = [worker EXCEPT ![p] = [step |-> "store", made |-> i]]
    /\ UNCHANGED <<payouts, bookVars>>

(* An error that may pass, or Python's TypeError when the adapter does not *)
(* take the call: the task ends and the row stays PROCESSING.              *)
CallRaises(p) ==
    /\ worker[p].step = "call"
    /\ worker' = [worker EXCEPT ![p] = Idle]
    /\ UNCHANGED <<payouts, transfer, bookVars>>

(* Any other error of Stripe fails the payout.                             *)
CallRefused(p) ==
    /\ worker[p].step = "call" /\ AdapterFits
    /\ IF payouts[p].state \in UnderWay THEN Become(p, "FAILED") ELSE UNCHANGED payouts
    /\ worker' = [worker EXCEPT ![p] = Idle]
    /\ UNCHANGED <<transfer, bookVars>>

(* Phase 3.                                                                *)
StoreTransferId(p) ==
    /\ worker[p].step = "store"
    /\ IF payouts[p].state = "PROCESSING"
       THEN payouts' = [payouts EXCEPT ![p].known = worker[p].made]
       ELSE UNCHANGED payouts
    /\ worker' = [worker EXCEPT ![p] = Idle]
    /\ UNCHANGED <<transfer, bookVars>>

(* The answer of Stripe is lost, the id cannot be stored, or the worker    *)
(* dies.                                                                   *)
WorkerStops(p) ==
    /\ worker[p] # Idle
    /\ worker' = [worker EXCEPT ![p] = Idle]
    /\ UNCHANGED <<payouts, transfer, bookVars>>

(* retry_failed_payouts resets the row, id and all.                        *)
RetryFailedPayout(p) ==
    /\ payouts[p].state = "FAILED"
    /\ payouts' = [payouts EXCEPT ![p] = NewPayout(@.amount)]
    /\ UNCHANGED <<transfer, worker, bookVars>>

(* Stripe *)
TransferEnds(p, i) ==
    /\ transfer[p][i] = "made"
    /\ \E end \in {"paid", "failed"} : transfer' = [transfer EXCEPT ![p][i] = end]
    /\ UNCHANGED <<payouts, worker, bookVars>>

-----------------------------------------------------------------------------
(* transfer.created, transfer.paid and transfer.failed find the payout by  *)
(* the id it has stored and lock it.                                       *)

KnownIs(p, status) ==
    /\ payouts[p].known \in DOMAIN transfer[p]
    /\ transfer[p][payouts[p].known] = status

HandleTransferCreated(p) ==
    /\ payouts[p].known # 0
    /\ payouts[p].state = "PROCESSING"
    /\ Become(p, "SCHEDULED")
    /\ UNCHANGED <<transfer, worker, bookVars>>

(* The entry of the payout; a refusal of the ledger is logged, not raised. *)
RecordCompletion(p) == paidOut' \in {paidOut, paidOut \cup {p}}

(* An aggregated payout has no order: settling raises, and the whole       *)
(* transaction is rolled back, so transfer.paid never completes one.       *)
SettleOrderOf(p) ==
    /\ p = Own
    /\ ownOrder' = "SETTLED"

HandleTransferPaid(p) ==
    /\ KnownIs(p, "paid")
    /\ payouts[p].state \in UnderWay
    /\ Become(p, "PAID")
    /\ RecordCompletion(p)
    /\ SettleOrderOf(p)
    /\ UNCHANGED <<transfer, worker>>

HandleTransferFailed(p) ==
    /\ KnownIs(p, "failed")
    /\ payouts[p].state \in UnderWay
    /\ Become(p, "FAILED")
    /\ UNCHANGED <<transfer, worker, bookVars>>

ExecutePayout(p) ==
    \/ BeginPayout(p)
    \/ \E i \in 1..Transfers : CallStripe(p, i)
    \/ CallRaises(p) \/ CallRefused(p)
    \/ StoreTransferId(p)

(* All but the lost answers and deaths.                                    *)
PayoutSteps ==
    \E p \in Payouts :
       \/ CreateMonthlyPayout(p) \/ ExecutePayout(p) \/ RetryFailedPayout(p)
       \/ \E i \in DOMAIN transfer[p] : TransferEnds(p, i)
       \/ HandleTransferCreated(p) \/ HandleTransferPaid(p) \/ HandleTransferFailed(p)

PayoutNext == PayoutSteps \/ \E p \in Payouts : WorkerStops(p)
=============================================================================
