------------------------- MODULE EscrowPayment_proofs -------------------------
(***************************************************************************)
(* Proofs about EscrowPayment for any number of payout workers, refund     *)
(* calls, refund rows, retries and amounts.  The inductive invariant has   *)
(* four parts: what a payout worker may rely on between its transactions   *)
(* (OneTransfer), what a refund call may rely on (OwnRefunds, RefundCalls),*)
(* what Stripe took of what is booked (RealRefunds), and what the entries  *)
(* say of the order and the payout (Books).                                *)
(***************************************************************************)
EXTENDS EscrowPayment, FiniteSetTheorems, TLAPS

-----------------------------------------------------------------------------
(* Types                                                                   *)

(* What a change of one field makes of a row or a job.                     *)
LEMMA PayoutEdits ==
  ASSUME TypeOK
  PROVE  /\ \A s \in PayoutStates : [payout EXCEPT !.state = s] \in PayoutRow
         /\ \A k \in Attempts : [payout EXCEPT !.transfer = k] \in PayoutRow
PROOF BY DEF TypeOK, PayoutRow

LEMMA PayJobEdits ==
  ASSUME TypeOK, NEW w \in PayWorkers, NEW k \in Attempts \cup {0},
         NEW pc \in {"idle", "loaded", "stripe", "fail", "store"},
         PayJob(w, pc, k)
  PROVE  /\ payJob' \in [PayWorkers -> PayJobs]
         /\ payJob' = [payJob EXCEPT ![w] = [pc |-> pc, attempt |-> k]]
         /\ payJob'[w].pc = pc /\ payJob'[w].attempt = k
         /\ \A v \in PayWorkers \ {w} : payJob'[v] = payJob[v]
         /\ queued' = queued /\ refundJob' = refundJob
PROOF
  <1>1. [pc |-> pc, attempt |-> k] \in PayJobs
    BY DEF PayJobs
  <1> QED BY <1>1 DEF TypeOK, PayJob

LEMMA TransferEdits ==
  ASSUME TypeOK, NEW k, NEW s \in TransferStates
  PROVE  [transfers EXCEPT ![k] = s] \in [Attempts -> TransferStates]
PROOF BY DEF TypeOK

LEMMA StripeTypes ==
  ASSUME TypeOK, StripeStep PROVE TypeOK'
PROOF
  <1> USE DEF TypeOK
  <1>1. ASSUME Pay \/ Decline \/ CancelIntent PROVE TypeOK'
    BY <1>1 DEF Pay, Decline, CancelIntent, rows, jobs
  <1>2. ASSUME NEW k \in Attempts, TransferEnds(k) PROVE TypeOK'
    BY <1>2 DEF TransferEnds, TransferStates, rows, jobs
  <1>3. ASSUME NEW r \in RefundRows, NEW n \in RefundAmounts, DashboardRefund(r, n)
        PROVE TypeOK'
    <2>1. [row |-> r, amount |-> n] \in StripeRefund
      BY EscrowAssumption DEF StripeRefund
    <2> QED BY <1>3, <2>1 DEF DashboardRefund, StripeTakes, rows, jobs
  <1> QED BY <1>1, <1>2, <1>3 DEF StripeStep

LEMMA PaymentTypes ==
  ASSUME TypeOK, IntentSucceeded \/ IntentFailed \/ IntentCanceled \/ Release
  PROVE  TypeOK'
PROOF
  <1> USE DEF TypeOK, OrderStates, Entry
  <1>1. CASE IntentSucceeded BY <1>1 DEF IntentSucceeded, jobs, stripe
  <1>2. CASE IntentFailed BY <1>2 DEF IntentFailed, jobs, stripe
  <1>3. CASE IntentCanceled BY <1>3 DEF IntentCanceled, jobs, stripe
  <1>4. CASE Release
    <2>1. payout' \in PayoutRow
      BY <1>4, PayoutEdits DEF Release, PayoutStates
    <2> QED BY <1>4, <2>1 DEF Release, jobs, stripe
  <1> QED BY <1>1, <1>2, <1>3, <1>4

LEMMA PayoutTypes ==
  ASSUME TypeOK, NEW w \in PayWorkers, PayoutStep(w) PROVE TypeOK'
PROOF
  <1> DEFINE k == payJob[w].attempt
  <1>0. k \in Attempts \cup {0}
    BY DEF TypeOK, PayJobs
  <1>1. ASSUME NEW j \in Attempts, PayoutLoad(w, j) PROVE TypeOK'
    <2>1. PayJob(w, "loaded", j)
      BY <1>1 DEF PayoutLoad
    <2> QED BY <1>1, <2>1, PayJobEdits DEF PayoutLoad, TypeOK, rows, stripe
  <1>2. CASE PayoutStart(w)
    <2>1. PayJob(w, "stripe", k) \/ PayJob(w, "idle", 0)
      BY <1>2 DEF PayoutStart
    <2>2. payJob' \in [PayWorkers -> PayJobs] /\ queued' = queued /\ refundJob' = refundJob
      BY <1>0, <2>1, PayJobEdits
    <2>3. payout' \in PayoutRow
      BY <1>2, PayoutEdits DEF PayoutStart, PayoutStates, TypeOK
    <2> QED BY <1>2, <2>2, <2>3 DEF PayoutStart, TypeOK, stripe
  <1>3. CASE PayoutAtStripe(w)
    <2>1. PayJob(w, "store", k) \/ PayJob(w, "idle", 0) \/ PayJob(w, "fail", k)
      BY <1>3 DEF PayoutAtStripe, AfterLostAnswer
    <2>2. payJob' \in [PayWorkers -> PayJobs] /\ queued' = queued /\ refundJob' = refundJob
      BY <1>0, <2>1, PayJobEdits
    <2>3. MakeTransfer(k) \/ RefuseTransfer(k)
      BY <1>3 DEF PayoutAtStripe
    <2>4. CASE MakeTransfer(k)
      <3>1. (IF transfers[k] = "none" THEN "created" ELSE transfers[k]) \in TransferStates
                \/ k \notin Attempts
        BY DEF TypeOK, TransferStates
      <3>2. transfers' \in [Attempts -> TransferStates]
        BY <2>4, <3>1, TransferEdits DEF MakeTransfer, TypeOK
      <3> QED BY <1>3, <2>2, <2>4, <3>2 DEF PayoutAtStripe, MakeTransfer, TypeOK, rows
    <2>5. CASE RefuseTransfer(k)
      <3>1. transfers' \in [Attempts -> TransferStates]
        BY <2>5, TransferEdits DEF RefuseTransfer, TransferStates
      <3> QED BY <1>3, <2>2, <2>5, <3>1 DEF PayoutAtStripe, RefuseTransfer, TypeOK, rows
    <2> QED BY <2>3, <2>4, <2>5
  <1>4. CASE PayoutFail(w)
    <2>1. payout' \in PayoutRow
      BY <1>4, PayoutEdits DEF PayoutFail, PayoutStates, TypeOK
    <2>2. PayJob(w, "idle", 0)
      BY <1>4 DEF PayoutFail
    <2> QED BY <1>4, <2>1, <2>2, PayJobEdits DEF PayoutFail, TypeOK, stripe
  <1>5. CASE PayoutStore(w)
    <2>1. payout' \in PayoutRow
      BY <1>0, <1>5, PayoutEdits DEF PayoutStore, PayoutRow, TypeOK
    <2>2. PayJob(w, "idle", 0)
      BY <1>5 DEF PayoutStore
    <2> QED BY <1>5, <2>1, <2>2, PayJobEdits DEF PayoutStore, TypeOK, stripe
  <1>6. CASE PayoutStops(w)
    <2>1. PayJob(w, "idle", 0)
      BY <1>6 DEF PayoutStops
    <2> QED BY <1>6, <2>1, PayJobEdits DEF PayoutStops, TypeOK, rows, stripe
  <1> QED BY <1>1, <1>2, <1>3, <1>4, <1>5, <1>6 DEF PayoutStep

LEMMA PayoutDutyTypes ==
  ASSUME TypeOK, \/ QueuePending \/ RetryFailed
                 \/ \E k \in Attempts : TransferCreated(k) \/ TransferPaid(k)
                                            \/ TransferFailed(k)
  PROVE  TypeOK'
PROOF
  <1>1. CASE QueuePending
    BY <1>1, EscrowAssumption DEF QueuePending, TypeOK, rows, stripe
  <1>2. CASE RetryFailed
    <2>1. /\ payout.retries \in 0..MaxRetries /\ payout.retries < MaxRetries
          /\ MaxRetries \in Nat /\ Attempts = 1..(MaxRetries + 1)
      BY <1>2, EscrowAssumption DEF RetryFailed, MayRetry, TypeOK, PayoutRow
    <2>2. payout' \in PayoutRow
      BY <1>2, <2>1 DEF RetryFailed, PayoutRow, PayoutStates
    <2>3. payout.retries + 2 \in Attempts
      BY <2>1
    <2> QED BY <1>2, <2>2, <2>3 DEF RetryFailed, TypeOK, stripe
  <1>3. ASSUME NEW k \in Attempts, TransferCreated(k) PROVE TypeOK'
    <2>1. payout' \in PayoutRow
      BY <1>3, PayoutEdits DEF TransferCreated, PayoutStates
    <2> QED BY <1>3, <2>1 DEF TransferCreated, TypeOK, jobs, stripe
  <1>4. ASSUME NEW k \in Attempts, TransferPaid(k) PROVE TypeOK'
    <2>1. payout' \in PayoutRow
      BY <1>4, PayoutEdits DEF TransferPaid, PayoutStates
    <2> QED BY <1>4, <2>1 DEF TransferPaid, PayoutEntry, Settled, Entry, OrderStates,
               TypeOK, jobs, stripe
  <1>5. ASSUME NEW k \in Attempts, TransferFailed(k) PROVE TypeOK'
    <2>1. payout' \in PayoutRow
      BY <1>5, PayoutEdits DEF TransferFailed, PayoutStates
    <2> QED BY <1>5, <2>1 DEF TransferFailed, TypeOK, jobs, stripe
  <1> QED BY <1>1, <1>2, <1>3, <1>4, <1>5

(* A call that went past Phase 1 has a row, and one that was loaded has an *)
(* amount.                                                                 *)
JobsHaveRows ==
    \A c \in Refunders :
        /\ refundJob[c].pc \in {"stripe", "fail", "finish"} => refundJob[c].row \in RefundRows
        /\ refundJob[c].pc # "idle" => refundJob[c].amount \in 1..Amount

LEMMA RefundJobEdits ==
  ASSUME TypeOK, JobsHaveRows, NEW c \in Refunders, NEW job \in RefundJobs, RefundJob(c, job),
         job.pc \in {"stripe", "fail", "finish"} => job.row \in RefundRows,
         job.pc # "idle" => job.amount \in 1..Amount
  PROVE  /\ refundJob' \in [Refunders -> RefundJobs]
         /\ refundJob'[c] = job
         /\ \A d \in Refunders \ {c} : refundJob'[d] = refundJob[d]
         /\ queued' = queued /\ payJob' = payJob
         /\ JobsHaveRows'
PROOF BY DEF TypeOK, RefundJob, JobsHaveRows

LEMMA IdleIsAJob == IdleRefundJob \in RefundJobs
PROOF BY EscrowAssumption DEF IdleRefundJob, RefundJobs

LEMMA RefundTypes ==
  ASSUME TypeOK, JobsHaveRows, NEW c \in Refunders, RefundStep(c)
  PROVE  TypeOK' /\ JobsHaveRows'
PROOF
  <1> DEFINE job == refundJob[c]
  <1>0. job \in RefundJobs
    BY DEF TypeOK
  <1>1. ASSUME NEW n \in RefundAmounts, RefundLoad(c, n) PROVE TypeOK' /\ JobsHaveRows'
    <2> DEFINE new == [IdleRefundJob EXCEPT !.pc = "create", !.amount = n,
                                            !.full = (n = Refundable)]
    <2>0. n \in 1..Amount /\ n \in 0..Amount /\ (n = Refundable) \in BOOLEAN
      BY EscrowAssumption
    <2>1. new \in RefundJobs /\ new.pc = "create" /\ new.amount = n
      BY <2>0 DEF IdleRefundJob, RefundJobs
    <2>2. RefundJob(c, new)
      BY <1>1 DEF RefundLoad
    <2> HIDE DEF new
    <2> QED BY <1>1, <2>0, <2>1, <2>2, RefundJobEdits DEF RefundLoad, TypeOK, rows, stripe
  <1>2. ASSUME NEW r \in RefundRows, RefundCreate(c, r) PROVE TypeOK' /\ JobsHaveRows'
    <2> DEFINE new == [job EXCEPT !.pc = "stripe", !.row = r, !.cancels = CancelsPayout]
    <2>1. /\ new \in RefundJobs /\ new.pc = "stripe" /\ new.row = r
          /\ new.amount \in 1..Amount
      BY <1>0, <1>2 DEF RefundJobs, RefundCreate, CancelsPayout, JobsHaveRows
    <2>2. RefundJob(c, new)
      BY <1>2 DEF RefundCreate
    <2>3. [state |-> "PROCESSING", amount |-> job.amount, stripe |-> NoRow] \in RefundRow
      BY <1>0 DEF RefundJobs, RefundRow
    <2>4. refunds' \in [RefundRows -> RefundRow]
      BY <1>2, <2>3 DEF RefundCreate, TypeOK
    <2>5. payout' \in PayoutRow
      BY <1>2, PayoutEdits DEF RefundCreate, PayoutStates, TypeOK
    <2> HIDE DEF new
    <2> QED BY <1>2, <2>1, <2>2, <2>4, <2>5, RefundJobEdits DEF RefundCreate, TypeOK, stripe
  <1>3. CASE RefundAtStripe(c)
    <2>0. job.row \in RefundRows /\ job.amount \in 1..Amount /\ job.pc = "stripe"
      BY <1>3 DEF RefundAtStripe, JobsHaveRows
    <2>1. \A pc \in {"finish", "fail"} :
             [job EXCEPT !.pc = pc] \in RefundJobs /\ [job EXCEPT !.pc = pc].pc = pc
               /\ [job EXCEPT !.pc = pc].row = job.row
               /\ [job EXCEPT !.pc = pc].amount = job.amount
      BY <1>0 DEF RefundJobs
    <2>2. IdleRefundJob.pc = "idle"
      BY DEF IdleRefundJob
    <2>3. RefundJob(c, [job EXCEPT !.pc = "finish"]) \/ RefundJob(c, IdleRefundJob)
             \/ RefundJob(c, [job EXCEPT !.pc = "fail"])
      BY <1>3 DEF RefundAtStripe
    <2>4. /\ refundJob' \in [Refunders -> RefundJobs] /\ JobsHaveRows'
          /\ queued' = queued /\ payJob' = payJob
      <3>1. CASE RefundJob(c, IdleRefundJob)
        BY <3>1, <2>2, IdleIsAJob, RefundJobEdits
      <3>2. CASE RefundJob(c, [job EXCEPT !.pc = "finish"])
        BY <3>2, <2>0, <2>1, RefundJobEdits
      <3>3. CASE RefundJob(c, [job EXCEPT !.pc = "fail"])
        BY <3>3, <2>0, <2>1, RefundJobEdits
      <3> QED BY <2>3, <3>1, <3>2, <3>3
    <2>5. [row |-> job.row, amount |-> job.amount] \in StripeRefund
      BY <2>0 DEF StripeRefund
    <2>6. refunded' \in Seq(StripeRefund) /\ UNCHANGED <<intent, declined, transfers>>
      BY <1>3, <2>5 DEF RefundAtStripe, StripeTakes, TypeOK, stripe
    <2> QED BY <1>3, <2>4, <2>6 DEF RefundAtStripe, TypeOK, rows
  <1>4. CASE RefundFail(c)
    <2>1. RefundJob(c, IdleRefundJob) /\ IdleRefundJob.pc = "idle"
      BY <1>4 DEF RefundFail, IdleRefundJob
    <2>2. job.row \in RefundRows
      BY <1>4 DEF RefundFail, JobsHaveRows
    <2>3. [refunds[job.row] EXCEPT !.state = "FAILED"] \in RefundRow
      BY <2>2 DEF TypeOK, RefundRow
    <2>4. refunds' \in [RefundRows -> RefundRow]
      BY <1>4, <2>2, <2>3 DEF RefundFail, TypeOK
    <2> QED BY <1>4, <2>1, <2>4, IdleIsAJob, RefundJobEdits DEF RefundFail, TypeOK, stripe
  <1>5. CASE RefundFinish(c)
    <2>1. RefundJob(c, IdleRefundJob) /\ IdleRefundJob.pc = "idle"
      BY <1>5 DEF RefundFinish, IdleRefundJob
    <2>2. job.row \in RefundRows
      BY <1>5 DEF RefundFinish, JobsHaveRows
    <2>3. [refunds[job.row] EXCEPT !.state = "COMPLETED", !.stripe = job.row] \in RefundRow
      BY <2>2 DEF TypeOK, RefundRow
    <2>4. refunds' \in [RefundRows -> RefundRow]
      BY <1>5, <2>2, <2>3 DEF RefundFinish, TypeOK
    <2>5. ledger' \subseteq Entry
      BY <1>5, <2>2 DEF RefundFinish, RefundEntries, TypeOK, Entry
    <2>6. order' \in OrderStates
      BY <1>5 DEF RefundFinish, OrderStates
    <2> QED BY <1>5, <2>1, <2>4, <2>5, <2>6, IdleIsAJob, RefundJobEdits
            DEF RefundFinish, TypeOK, stripe
  <1>6. CASE RefundStops(c)
    <2>1. RefundJob(c, IdleRefundJob) /\ IdleRefundJob.pc = "idle"
      BY <1>6 DEF RefundStops, IdleRefundJob
    <2> QED BY <1>6, <2>1, IdleIsAJob, RefundJobEdits DEF RefundStops, TypeOK, rows, stripe
  <1> QED BY <1>1, <1>2, <1>3, <1>4, <1>5, <1>6 DEF RefundStep

LEMMA ChargeRefundedTypes ==
  ASSUME TypeOK, NEW n \in DOMAIN refunded, ChargeRefunded(SubSeq(refunded, 1, n))
  PROVE  TypeOK'
PROOF
  <1> DEFINE list == SubSeq(refunded, 1, n)
  <1>1. \A i \in DOMAIN list : list[i] \in StripeRefund
    BY DEF TypeOK
  <1>2. ASSUME NEW s \in Unknown(list)
        PROVE  s \in RefundRows /\ AmountIn(list, s) \in 0..Amount
    <2>1. PICK i \in DOMAIN list : s = list[i].row
      BY <1>2 DEF Unknown
    <2>2. /\ list[i] = [row |-> s, amount |-> list[i].amount]
          /\ s \in RefundRows /\ list[i].amount \in 0..Amount
      <3> HIDE DEF list
      <3> QED BY <1>1, <2>1, EscrowAssumption DEF StripeRefund
    <2> QED BY <2>2 DEF AmountIn
  <1> HIDE DEF list
  <1>3. PICK new \in [Unknown(list) -> FreshRows] :
           refunds' = [r \in RefundRows |->
                IF \E s \in Unknown(list) : new[s] = r
                THEN LET s == CHOOSE s \in Unknown(list) : new[s] = r
                     IN [state |-> "COMPLETED", amount |-> AmountIn(list, s), stripe |-> s]
                ELSE refunds[r]]
    BY DEF ChargeRefunded, list
  <1>4. refunds' \in [RefundRows -> RefundRow]
    <2>1. ASSUME NEW r \in RefundRows PROVE refunds'[r] \in RefundRow
      <3>1. CASE \E s \in Unknown(list) : new[s] = r
        <4> DEFINE s == CHOOSE s \in Unknown(list) : new[s] = r
        <4>1. s \in Unknown(list)
          BY <3>1
        <4>2. refunds'[r] = [state |-> "COMPLETED", amount |-> AmountIn(list, s), stripe |-> s]
          BY <1>3, <3>1
        <4> HIDE DEF s
        <4> QED BY <4>1, <4>2, <1>2 DEF RefundRow
      <3>2. CASE ~ \E s \in Unknown(list) : new[s] = r
        BY <1>3, <3>2 DEF TypeOK
      <3> QED BY <3>1, <3>2
    <2> QED BY <1>3, <2>1
  <1>5. order' \in OrderStates /\ UNCHANGED <<hold, payout, ledger, jobs, stripe>>
    BY DEF ChargeRefunded, TypeOK, OrderStates
  <1> QED BY <1>4, <1>5 DEF TypeOK, jobs, stripe

LEMMA InitTypes ==
  ASSUME Init PROVE TypeOK /\ JobsHaveRows
PROOF
  <1>1. payout \in PayoutRow
    BY EscrowAssumption DEF Init, PayoutRow, PayoutStates
  <1>2. [state |-> "NONE", amount |-> 0, stripe |-> NoRow] \in RefundRow
    BY EscrowAssumption DEF RefundRow
  <1>3. IdlePayJob \in PayJobs
    BY DEF IdlePayJob, PayJobs
  <1>4. "none" \in TransferStates /\ order \in OrderStates
    BY DEF Init, TransferStates, OrderStates
  <1>5. JobsHaveRows
    BY DEF Init, JobsHaveRows, IdleRefundJob
  <1>6. <<>> \in Seq(StripeRefund)
    OBVIOUS
  <1>7. /\ refunds \in [RefundRows -> RefundRow] /\ payJob \in [PayWorkers -> PayJobs]
        /\ refundJob \in [Refunders -> RefundJobs]
        /\ transfers \in [Attempts -> TransferStates]
    BY <1>2, <1>3, <1>4, IdleIsAJob DEF Init
  <1> QED BY <1>1, <1>4, <1>5, <1>6, <1>7 DEF Init, TypeOK

LEMMA NextTypes ==
  ASSUME TypeOK, JobsHaveRows, [Next]_vars
  PROVE  TypeOK' /\ JobsHaveRows'
PROOF
  <1>1. CASE StripeStep
    BY <1>1, StripeTypes DEF StripeStep, Pay, Decline, CancelIntent, TransferEnds,
       DashboardRefund, jobs, JobsHaveRows
  <1>2. CASE IntentSucceeded \/ IntentFailed \/ IntentCanceled \/ Release
    BY <1>2, PaymentTypes DEF IntentSucceeded, IntentFailed, IntentCanceled, Release, jobs,
       JobsHaveRows
  <1>3. CASE \/ QueuePending \/ RetryFailed
             \/ \E k \in Attempts : TransferCreated(k) \/ TransferPaid(k) \/ TransferFailed(k)
    BY <1>3, PayoutDutyTypes DEF QueuePending, RetryFailed, TransferCreated, TransferPaid,
       TransferFailed, jobs, JobsHaveRows
  <1>4. ASSUME NEW n \in DOMAIN refunded, ChargeRefunded(SubSeq(refunded, 1, n))
        PROVE  TypeOK' /\ JobsHaveRows'
    BY <1>4, ChargeRefundedTypes DEF ChargeRefunded, jobs, JobsHaveRows
  <1>5. ASSUME NEW w \in PayWorkers, PayoutStep(w) PROVE TypeOK' /\ JobsHaveRows'
    <2>1. refundJob' = refundJob
      BY <1>5 DEF PayoutStep, PayoutLoad, PayoutStart, PayoutAtStripe, PayoutFail,
         PayoutStore, PayoutStops, PayJob
    <2> QED BY <1>5, <2>1, PayoutTypes DEF JobsHaveRows
  <1>6. ASSUME NEW c \in Refunders, RefundStep(c) PROVE TypeOK' /\ JobsHaveRows'
    BY <1>6, RefundTypes
  <1>7. CASE UNCHANGED vars
    BY <1>7 DEF vars, rows, stripe, jobs, TypeOK, JobsHaveRows
  <1> QED BY <1>1, <1>2, <1>3, <1>4, <1>5, <1>6, <1>7 DEF Next, Webhook

(* Every variable keeps its type in every state (EscrowPayment.TypeOK).    *)
THEOREM EscrowTypes == Spec => []TypeOK
PROOF
  <1>1. Init => TypeOK /\ JobsHaveRows
    BY InitTypes
  <1>2. TypeOK /\ JobsHaveRows /\ [Next]_vars => TypeOK' /\ JobsHaveRows'
    BY NextTypes
  <1> QED BY <1>1, <1>2, PTL DEF Spec

-----------------------------------------------------------------------------
(* One transfer at a time                                                  *)

(* What payout workers rely on between their transactions.  FAILED means   *)
(* that no money is out, so that retry() may clear the transfer id and a   *)
(* new key may be used; only PROCESSING hides a transfer nobody knows of.  *)
OneTransfer ==
    /\ \A v, w \in PayWorkers : payJob[v].pc # "idle" /\ payJob[w].pc # "idle" => v = w
    /\ \A j, k \in Live : j = k
    /\ payout.state \in {"NONE", "PENDING", "FAILED"} => Live = {}
    /\ payout.state \in {"NONE", "PENDING"} => payout.transfer = 0
    /\ payout.transfer # 0 => Live \subseteq {payout.transfer}
    /\ \A w \in PayWorkers :
          /\ payJob[w].pc \in {"loaded", "stripe", "store"} => payJob[w].attempt \in Attempts
          /\ payJob[w].pc = "loaded" => payout.state \in {"PENDING", "CANCELLED"}
          /\ payJob[w].pc \in {"stripe", "fail", "store"} =>
                payout.state = "PROCESSING" /\ payout.transfer = 0
          /\ payJob[w].pc \in {"stripe", "fail"} => Live = {}
          /\ payJob[w].pc = "store" => Live \subseteq {payJob[w].attempt}

(* No payout before the release, and none without a charge.                *)
ChargedFirst ==
    /\ order = "PENDING" => hold = "none"
    /\ hold # "released" => payout.state = "NONE"
    /\ order \notin {"PENDING", "FAILED", "CANCELLED"} => intent = "succeeded"
    /\ payout.state # "NONE" => intent = "succeeded"

(* A refund call that is about to ask Stripe has a row of its own, which   *)
(* Stripe has not seen.                                                    *)
OwnRefunds ==
    /\ \A c \in Refunders : refundJob[c].pc = "stripe" =>
          refundJob[c].row \notin AtStripe /\ refunds[refundJob[c].row].state # "NONE"
    /\ \A c, d \in Refunders :
          refundJob[c].pc = "stripe" /\ refundJob[d].pc = "stripe"
              /\ refundJob[c].row = refundJob[d].row => c = d

LEMMA MoneyKept ==
  ASSUME UNCHANGED transfers PROVE Live' = Live
PROOF BY DEF Live

(* Steps that leave the payout to itself.                                  *)
LEMMA OneTransferStutter ==
  ASSUME OneTransfer, UNCHANGED <<payJob, payout, transfers>>
  PROVE  OneTransfer'
PROOF BY MoneyKept DEF OneTransfer

(* Steps that change the row of the payout and nothing a worker holds.     *)
LEMMA OneTransferRow ==
  ASSUME TypeOK, OneTransfer, ChargedFirst,
         \/ Release \/ RetryFailed
         \/ \E k \in Attempts : TransferCreated(k) \/ TransferPaid(k) \/ TransferFailed(k)
         \/ \E c \in Refunders, r \in RefundRows : RefundCreate(c, r)
  PROVE  OneTransfer'
PROOF
  <1> USE DEF OneTransfer
  <1>0. payout = [state |-> payout.state, transfer |-> payout.transfer,
                  retries |-> payout.retries]
    BY DEF TypeOK, PayoutRow
  <1>1. CASE Release
    <2>1. Live' = Live /\ payJob' = payJob /\ payout' = [payout EXCEPT !.state = "PENDING"]
      BY <1>1, MoneyKept DEF Release, jobs, stripe
    <2>2. payout.state = "NONE"
      BY <1>1 DEF Release, ChargedFirst
    <2> QED BY <1>0, <2>1, <2>2
  <1>2. CASE RetryFailed
    <2>1. /\ Live' = Live /\ payJob' = payJob /\ payout.state = "FAILED"
          /\ payout'.state = "PENDING" /\ payout'.transfer = 0
      BY <1>2, MoneyKept DEF RetryFailed, MayRetry, stripe
    <2> QED BY <2>1
  <1>3. ASSUME NEW k \in Attempts, TransferCreated(k) PROVE OneTransfer'
    <2>1. /\ Live' = Live /\ payJob' = payJob /\ payout.transfer = k /\ k # 0
          /\ payout'.state = "SCHEDULED" /\ payout'.transfer = k
          /\ payout.state = "PROCESSING"
      BY <1>0, <1>3, MoneyKept, EscrowAssumption DEF TransferCreated, jobs, stripe
    <2> QED BY <2>1
  <1>4. ASSUME NEW k \in Attempts, TransferPaid(k) PROVE OneTransfer'
    <2>1. /\ Live' = Live /\ payJob' = payJob /\ payout.transfer = k /\ k # 0
          /\ payout'.state = "PAID" /\ payout'.transfer = k
          /\ payout.state \in {"PROCESSING", "SCHEDULED"}
      BY <1>0, <1>4, MoneyKept, EscrowAssumption DEF TransferPaid, MayPay, jobs, stripe
    <2> QED BY <2>1
  <1>5. ASSUME NEW k \in Attempts, TransferFailed(k) PROVE OneTransfer'
    <2>1. /\ Live' = Live /\ payJob' = payJob /\ payout.transfer = k /\ k # 0
          /\ payout'.state = "FAILED" /\ payout'.transfer = k
          /\ payout.state \in {"PROCESSING", "SCHEDULED"}
      BY <1>0, <1>5, MoneyKept, EscrowAssumption DEF TransferFailed, jobs, stripe
    <2>2. k \notin Live
      BY <1>5 DEF TransferFailed, Live
    <2>3. Live = {}
      BY <2>1, <2>2
    <2> QED BY <2>1, <2>3
  <1>6. ASSUME NEW c \in Refunders, NEW r \in RefundRows, RefundCreate(c, r)
        PROVE  OneTransfer'
    <2>1. Live' = Live /\ payJob' = payJob
      BY <1>6, MoneyKept DEF RefundCreate, RefundJob, stripe
    <2>2. \/ payout' = payout
          \/ /\ payout.state \in {"PENDING", "SCHEDULED"} /\ payout'.state = "CANCELLED"
             /\ payout'.transfer = payout.transfer
      BY <1>0, <1>6 DEF RefundCreate, CancelsPayout
    <2> QED BY <2>1, <2>2
  <1> QED BY <1>1, <1>2, <1>3, <1>4, <1>5, <1>6

(* The steps of a worker, when no other worker can be under way.           *)
LEMMA OneTransferWorker ==
  ASSUME LeasesHold, TypeOK, OneTransfer, NEW w \in PayWorkers, PayoutStep(w)
  PROVE  OneTransfer'
PROOF
  <1> USE DEF OneTransfer
  <1> DEFINE k == payJob[w].attempt
  <1>0. /\ payout = [state |-> payout.state, transfer |-> payout.transfer,
                     retries |-> payout.retries]
        /\ k \in Attempts \cup {0}
    BY DEF TypeOK, PayoutRow, PayJobs
  <1>1. ASSUME NEW j \in Attempts, PayoutLoad(w, j) PROVE OneTransfer'
    <2>1. /\ payJob'[w].pc = "loaded" /\ payJob'[w].attempt = j
          /\ \A v \in PayWorkers \ {w} : payJob'[v] = payJob[v] /\ payJob[v].pc = "idle"
      BY <1>1, PayJobEdits DEF PayoutLoad
    <2>2. Live' = Live /\ payout' = payout /\ payout.state = "PENDING"
      BY <1>1, MoneyKept DEF PayoutLoad, MayLoad, rows, stripe
    <2> QED BY <2>1, <2>2
  <1>a. ASSUME payJob[w].pc # "idle"
        PROVE  \A v \in PayWorkers \ {w} : payJob[v].pc = "idle"
    BY <1>a
  <1>b. ASSUME PayJob(w, "idle", 0), payJob[w].pc # "idle"
        PROVE  \A v \in PayWorkers : payJob'[v].pc = "idle"
    BY <1>a, <1>b, PayJobEdits
  <1>2. CASE PayoutStart(w)
    <2>1. payJob[w].pc = "loaded" /\ Live' = Live
      BY <1>2, MoneyKept DEF PayoutStart, stripe
    <2>2. CASE payout.state = "PENDING"
      <3>1. /\ payout'.state = "PROCESSING" /\ payout'.transfer = 0 /\ Live = {}
            /\ PayJob(w, "stripe", k)
        BY <1>0, <1>2, <2>2 DEF PayoutStart
      <3>2. /\ payJob'[w].pc = "stripe" /\ payJob'[w].attempt = k
            /\ \A v \in PayWorkers \ {w} : payJob'[v] = payJob[v]
        BY <1>0, <3>1, PayJobEdits
      <3> QED BY <1>a, <2>1, <3>1, <3>2
    <2>3. CASE payout.state # "PENDING"
      <3>1. payout' = payout /\ PayJob(w, "idle", 0)
        BY <1>2, <2>1, <2>3 DEF PayoutStart
      <3> QED BY <1>b, <2>1, <3>1
    <2> QED BY <2>2, <2>3
  <1>3. CASE PayoutAtStripe(w)
    <2>1. payJob[w].pc = "stripe" /\ payout' = payout
      BY <1>3 DEF PayoutAtStripe, rows
    <2>2. Live = {} /\ payout.state = "PROCESSING" /\ payout.transfer = 0 /\ k \in Attempts
      BY <2>1
    <2>3. CASE MakeTransfer(k) /\ (PayJob(w, "store", k) \/ PayJob(w, "idle", 0))
      <3>1. Live' \subseteq {k}
        BY <2>2, <2>3 DEF MakeTransfer, Live, TypeOK
      <3>2. CASE PayJob(w, "store", k)
        <4>1. /\ payJob'[w].pc = "store" /\ payJob'[w].attempt = k
              /\ \A v \in PayWorkers \ {w} : payJob'[v] = payJob[v]
          BY <1>0, <3>2, PayJobEdits
        <4> QED BY <1>a, <2>1, <2>2, <3>1, <4>1
      <3>3. CASE PayJob(w, "idle", 0)
        BY <1>b, <2>1, <2>2, <3>1, <3>3
      <3> QED BY <2>3, <3>2, <3>3
    <2>4. CASE RefuseTransfer(k) /\ PayJob(w, "fail", k)
      <3>1. Live' = {}
        BY <2>2, <2>4 DEF RefuseTransfer, Live, TypeOK
      <3>2. /\ payJob'[w].pc = "fail" /\ payJob'[w].attempt = k
            /\ \A v \in PayWorkers \ {w} : payJob'[v] = payJob[v]
        BY <1>0, <2>4, PayJobEdits
      <3> QED BY <1>a, <2>1, <2>2, <3>1, <3>2
    <2> QED BY <1>3, <2>3, <2>4 DEF PayoutAtStripe, AfterLostAnswer
  <1>4. CASE PayoutFail(w)
    <2>1. /\ payJob[w].pc = "fail" /\ Live' = Live /\ PayJob(w, "idle", 0)
      BY <1>4, MoneyKept DEF PayoutFail, stripe
    <2>2. /\ Live = {} /\ payout.transfer = 0 /\ payout'.transfer = 0
          /\ payout'.state = "FAILED"
      BY <1>0, <1>4, <2>1 DEF PayoutFail
    <2> QED BY <1>b, <2>1, <2>2
  <1>5. CASE PayoutStore(w)
    <2>1. /\ payJob[w].pc = "store" /\ Live' = Live /\ PayJob(w, "idle", 0)
      BY <1>5, MoneyKept DEF PayoutStore, stripe
    <2>2. /\ Live \subseteq {k} /\ payout'.transfer = k /\ payout'.state = "PROCESSING"
      BY <1>0, <1>5, <2>1 DEF PayoutStore
    <2> QED BY <1>b, <2>1, <2>2
  <1>6. CASE PayoutStops(w)
    <2>1. /\ payJob[w].pc # "idle" /\ Live' = Live /\ PayJob(w, "idle", 0)
          /\ payout' = payout
      BY <1>6, MoneyKept DEF PayoutStops, rows, stripe
    <2> QED BY <1>b, <2>1
  <1> QED BY <1>1, <1>2, <1>3, <1>4, <1>5, <1>6 DEF PayoutStep

LEMMA OneTransferEnds ==
  ASSUME TypeOK, OneTransfer, NEW k \in Attempts, TransferEnds(k)
  PROVE  OneTransfer' /\ Live' \subseteq Live
PROOF
  <1>1. Live' \subseteq Live
    BY DEF TransferEnds, Live, TypeOK
  <1>2. UNCHANGED <<payJob, payout>>
    BY DEF TransferEnds, rows, jobs
  <1> QED BY <1>1, <1>2 DEF OneTransfer

LEMMA OneTransferNext ==
  ASSUME LeasesHold, TypeOK, OneTransfer, ChargedFirst, [Next]_vars
  PROVE  OneTransfer'
PROOF
  <1>1. CASE StripeStep
    <2>1. (\E k \in Attempts : TransferEnds(k)) \/ UNCHANGED <<payJob, payout, transfers>>
      BY <1>1 DEF StripeStep, Pay, Decline, CancelIntent, DashboardRefund, rows, jobs
    <2> QED BY <2>1, OneTransferEnds, OneTransferStutter
  <1>2. CASE IntentSucceeded \/ IntentFailed \/ IntentCanceled \/ QueuePending
    <2>1. UNCHANGED <<payJob, payout, transfers>>
      BY <1>2 DEF IntentSucceeded, IntentFailed, IntentCanceled, QueuePending, rows, jobs,
         stripe
    <2> QED BY <2>1, OneTransferStutter
  <1>3. CASE \/ Release \/ RetryFailed
             \/ \E k \in Attempts : TransferCreated(k) \/ TransferPaid(k) \/ TransferFailed(k)
    BY <1>3, OneTransferRow
  <1>4. ASSUME NEW list, ChargeRefunded(list) PROVE OneTransfer'
    BY <1>4, OneTransferStutter DEF ChargeRefunded, jobs, stripe
  <1>5. ASSUME NEW w \in PayWorkers, PayoutStep(w) PROVE OneTransfer'
    BY <1>5, OneTransferWorker
  <1>6. ASSUME NEW c \in Refunders, RefundStep(c) PROVE OneTransfer'
    <2>1. (\E r \in RefundRows : RefundCreate(c, r)) \/ UNCHANGED <<payJob, payout, transfers>>
      BY <1>6 DEF RefundStep, RefundLoad, RefundAtStripe, RefundFail, RefundFinish,
         RefundStops, RefundJob, rows, stripe
    <2> QED BY <2>1, OneTransferRow, OneTransferStutter
  <1>7. CASE UNCHANGED vars
    BY <1>7, OneTransferStutter DEF vars, rows, jobs, stripe
  <1> QED BY <1>1, <1>2, <1>3, <1>4, <1>5, <1>6, <1>7 DEF Next, Webhook

LEMMA ChargedFirstNext ==
  ASSUME TypeOK, ChargedFirst, [Next]_vars
  PROVE  ChargedFirst' /\ (intent = "succeeded" => intent' = "succeeded")
PROOF
  <1>0. payout = [state |-> payout.state, transfer |-> payout.transfer,
                  retries |-> payout.retries]
    BY DEF TypeOK, PayoutRow
  <1> USE DEF ChargedFirst
  <1>1. CASE StripeStep
    BY <1>1 DEF StripeStep, Pay, Decline, CancelIntent, TransferEnds, DashboardRefund,
       StripeTakes, rows
  <1>2. CASE IntentSucceeded \/ IntentFailed \/ IntentCanceled \/ QueuePending
    BY <1>2 DEF IntentSucceeded, IntentFailed, IntentCanceled, QueuePending, rows, stripe
  <1>3. CASE Release
    BY <1>3, <1>0 DEF Release, stripe
  <1>4. CASE RetryFailed
    BY <1>4 DEF RetryFailed, MayRetry, stripe
  <1>5. ASSUME NEW k \in Attempts, TransferCreated(k) \/ TransferPaid(k) \/ TransferFailed(k)
        PROVE  ChargedFirst' /\ (intent = "succeeded" => intent' = "succeeded")
    BY <1>5 DEF TransferCreated, TransferPaid, TransferFailed, MayPay, Settled, stripe
  <1>6. ASSUME NEW list, ChargeRefunded(list)
        PROVE  ChargedFirst' /\ (intent = "succeeded" => intent' = "succeeded")
    BY <1>6 DEF ChargeRefunded, Refunding, stripe
  <1>7. ASSUME NEW w \in PayWorkers, PayoutStep(w)
        PROVE  ChargedFirst' /\ (intent = "succeeded" => intent' = "succeeded")
    <2>1. UNCHANGED <<order, hold, intent>>
      BY <1>7 DEF PayoutStep, PayoutLoad, PayoutStart, PayoutAtStripe, PayoutFail,
         PayoutStore, PayoutStops, MakeTransfer, RefuseTransfer, rows, stripe
    <2>2. payout'.state = "NONE" <=> payout.state = "NONE"
      BY <1>0, <1>7 DEF PayoutStep, PayoutLoad, PayoutStart, PayoutAtStripe, PayoutFail,
         PayoutStore, PayoutStops, rows
    <2> QED BY <2>1, <2>2
  <1>8. ASSUME NEW c \in Refunders, RefundStep(c)
        PROVE  ChargedFirst' /\ (intent = "succeeded" => intent' = "succeeded")
    <2>1. UNCHANGED <<hold, intent>>
      BY <1>8 DEF RefundStep, RefundLoad, RefundCreate, RefundAtStripe, RefundFail,
         RefundFinish, RefundStops, rows, stripe
    <2>2. order' = order \/ (order \in Refunding /\ order' \in Refunding \cup {"REFUNDED"})
      BY <1>8 DEF RefundStep, RefundLoad, RefundCreate, RefundAtStripe, RefundFail,
         RefundFinish, RefundStops, Refunding, rows
    <2>3. payout'.state = "NONE" <=> payout.state = "NONE"
      BY <1>0, <1>8 DEF RefundStep, RefundLoad, RefundCreate, RefundAtStripe, RefundFail,
         RefundFinish, RefundStops, CancelsPayout, rows
    <2> QED BY <2>1, <2>2, <2>3 DEF Refunding
  <1>9. CASE UNCHANGED vars
    BY <1>9 DEF vars, rows, stripe
  <1> QED BY <1>1, <1>2, <1>3, <1>4, <1>5, <1>6, <1>7, <1>8, <1>9 DEF Next, Webhook

-----------------------------------------------------------------------------
(* Refunds of one's own                                                    *)

LEMMA OneMoreAtStripe ==
  ASSUME TypeOK, NEW r \in RefundRows, NEW n \in 1..Amount, StripeTakes(r, n)
  PROVE  AtStripe' = AtStripe \cup {r}
PROOF
  <1> DEFINE new == [row |-> r, amount |-> n]
  <1>1. refunded' = Append(refunded, new) /\ refunded \in Seq(StripeRefund)
    BY DEF StripeTakes, TypeOK
  <1>2. /\ DOMAIN refunded' = DOMAIN refunded \cup {Len(refunded) + 1}
        /\ refunded'[Len(refunded) + 1] = new
        /\ \A i \in DOMAIN refunded : refunded'[i] = refunded[i]
    <2> HIDE DEF new
    <2>1. new \in StripeRefund
      BY DEF new, StripeRefund
    <2> QED BY <1>1, <2>1
  <1> QED BY <1>2 DEF AtStripe

(* No row is ever taken back.                                              *)
LEMMA RowsStay ==
  ASSUME TypeOK, JobsHaveRows, [Next]_vars, NEW r \in RefundRows, refunds[r].state # "NONE"
  PROVE  refunds'[r].state # "NONE"
PROOF
  <1>1. ASSUME NEW c \in Refunders, RefundStep(c) PROVE refunds'[r].state # "NONE"
    <2> DEFINE job == refundJob[c]
    <2>0. refunds \in [RefundRows -> RefundRow]
      BY DEF TypeOK
    <2>1. ASSUME NEW s \in RefundRows, RefundCreate(c, s) PROVE refunds'[r].state # "NONE"
      <3>1. s # r
        BY <2>1 DEF RefundCreate, FreshRows
      <3> QED BY <2>0, <2>1, <3>1 DEF RefundCreate
    <2>2. CASE RefundFail(c)
      <3>1. \/ refunds' = refunds
            \/ refunds' = [refunds EXCEPT ![job.row].state = "FAILED"]
        BY <2>2 DEF RefundFail
      <3> QED BY <2>0, <3>1 DEF RefundRow
    <2>3. CASE RefundFinish(c)
      <3>1. refunds' = [refunds EXCEPT ![job.row] = [@ EXCEPT !.state = "COMPLETED",
                                                              !.stripe = job.row]]
        BY <2>3 DEF RefundFinish
      <3> QED BY <2>0, <3>1 DEF RefundRow
    <2>4. CASE \/ \E n \in RefundAmounts : RefundLoad(c, n)
               \/ RefundAtStripe(c) \/ RefundStops(c)
      BY <2>4 DEF RefundLoad, RefundAtStripe, RefundStops, rows
    <2> QED BY <1>1, <2>1, <2>2, <2>3, <2>4 DEF RefundStep
  <1>2. ASSUME NEW list, ChargeRefunded(list) PROVE refunds'[r].state # "NONE"
    <2>1. PICK new \in [Unknown(list) -> FreshRows] :
             refunds' = [q \in RefundRows |->
                IF \E s \in Unknown(list) : new[s] = q
                THEN LET s == CHOOSE s \in Unknown(list) : new[s] = q
                     IN [state |-> "COMPLETED", amount |-> AmountIn(list, s), stripe |-> s]
                ELSE refunds[q]]
      BY <1>2 DEF ChargeRefunded
    <2>2. ~ \E s \in Unknown(list) : new[s] = r
      BY DEF FreshRows
    <2> QED BY <2>1, <2>2
  <1>3. ASSUME NEW w \in PayWorkers, PayoutStep(w) PROVE refunds'[r].state # "NONE"
    BY <1>3 DEF PayoutStep, PayoutLoad, PayoutStart, PayoutAtStripe, PayoutFail,
       PayoutStore, PayoutStops, rows
  <1>4. CASE StripeStep
    BY <1>4 DEF StripeStep, Pay, Decline, CancelIntent, TransferEnds, DashboardRefund, rows
  <1>5. ASSUME NEW k \in Attempts, TransferCreated(k) \/ TransferPaid(k) \/ TransferFailed(k)
        PROVE  refunds'[r].state # "NONE"
    BY <1>5 DEF TransferCreated, TransferPaid, TransferFailed
  <1>6. CASE \/ IntentSucceeded \/ IntentFailed \/ IntentCanceled \/ QueuePending
             \/ Release \/ RetryFailed \/ UNCHANGED vars
    BY <1>6 DEF IntentSucceeded, IntentFailed, IntentCanceled, QueuePending, Release,
       RetryFailed, vars, rows
  <1> QED BY <1>1, <1>2, <1>3, <1>4, <1>5, <1>6 DEF Next, Webhook

LEMMA OwnRefundsNext ==
  ASSUME TypeOK, JobsHaveRows, OwnRefunds, [Next]_vars
  PROVE  OwnRefunds'
PROOF
  <1>0. \A c \in Refunders : refundJob[c].pc = "stripe" =>
          /\ refundJob[c].row \in RefundRows
          /\ refunds'[refundJob[c].row].state # "NONE"
    BY RowsStay DEF JobsHaveRows, OwnRefunds
  <1>1. ASSUME UNCHANGED <<refundJob, refunded>> PROVE OwnRefunds'
    BY <1>0, <1>1 DEF OwnRefunds, AtStripe
  <1>2. CASE StripeStep
    <2>1. ASSUME NEW r \in RefundRows, NEW n \in RefundAmounts, DashboardRefund(r, n)
          PROVE  OwnRefunds'
      <3>1. AtStripe' = AtStripe \cup {r} /\ refundJob' = refundJob
        BY <2>1, OneMoreAtStripe, EscrowAssumption DEF DashboardRefund, jobs
      <3>2. \A c \in Refunders : refundJob[c].row # r
        BY <2>1 DEF DashboardRefund
      <3> QED BY <1>0, <3>1, <3>2 DEF OwnRefunds
    <2> QED BY <1>1, <1>2, <2>1 DEF StripeStep, Pay, Decline, CancelIntent, TransferEnds, jobs
  <1>3. CASE \/ IntentSucceeded \/ IntentFailed \/ IntentCanceled \/ QueuePending
             \/ Release \/ RetryFailed \/ UNCHANGED vars
    BY <1>1, <1>3 DEF IntentSucceeded, IntentFailed, IntentCanceled, QueuePending, Release,
       RetryFailed, vars, jobs, stripe
  <1>4. ASSUME NEW k \in Attempts, TransferCreated(k) \/ TransferPaid(k) \/ TransferFailed(k)
        PROVE  OwnRefunds'
    BY <1>1, <1>4 DEF TransferCreated, TransferPaid, TransferFailed, jobs, stripe
  <1>5. ASSUME NEW list, ChargeRefunded(list) PROVE OwnRefunds'
    BY <1>1, <1>5 DEF ChargeRefunded, jobs, stripe
  <1>6. ASSUME NEW w \in PayWorkers, PayoutStep(w) PROVE OwnRefunds'
    BY <1>1, <1>6 DEF PayoutStep, PayoutLoad, PayoutStart, PayoutAtStripe, PayoutFail,
       PayoutStore, PayoutStops, PayJob, MakeTransfer, RefuseTransfer, stripe
  <1>7. ASSUME NEW c \in Refunders, RefundStep(c) PROVE OwnRefunds'
    <2> DEFINE job == refundJob[c]
    <2>0. job \in RefundJobs
      BY DEF TypeOK
    <2>a. ASSUME NEW new, new.pc # "stripe", refundJob' = [refundJob EXCEPT ![c] = new],
                 AtStripe' \subseteq AtStripe \cup {job.row},
                 AtStripe' = AtStripe \/ job.pc = "stripe"
          PROVE  OwnRefunds'
      <3>1. refundJob'[c].pc # "stripe" /\ \A d \in Refunders \ {c} : refundJob'[d] = refundJob[d]
        BY <2>a DEF TypeOK
      <3>2. ASSUME NEW d \in Refunders, refundJob'[d].pc = "stripe"
            PROVE  refundJob'[d].row \notin AtStripe' /\ refunds'[refundJob'[d].row].state # "NONE"
        <4>1. d # c /\ refundJob'[d] = refundJob[d]
          BY <3>1, <3>2
        <4> QED BY <1>0, <2>a, <3>2, <4>1 DEF OwnRefunds
      <3>3. ASSUME NEW d \in Refunders, NEW e \in Refunders, refundJob'[d].pc = "stripe",
                   refundJob'[e].pc = "stripe", refundJob'[d].row = refundJob'[e].row
            PROVE  d = e
        BY <3>1, <3>3 DEF OwnRefunds
      <3> QED BY <3>2, <3>3 DEF OwnRefunds
    <2>b. IdleRefundJob.pc = "idle"
      BY DEF IdleRefundJob
    <2>c. ASSUME UNCHANGED refunded PROVE AtStripe' = AtStripe
      BY <2>c DEF AtStripe
    <2>1. ASSUME NEW n \in RefundAmounts, RefundLoad(c, n) PROVE OwnRefunds'
      <3>1. [IdleRefundJob EXCEPT !.pc = "create", !.amount = n,
                                  !.full = (n = Refundable)].pc = "create"
        BY DEF IdleRefundJob
      <3> QED BY <2>1, <2>a, <2>c, <3>1 DEF RefundLoad, RefundJob, stripe
    <2>2. ASSUME NEW r \in RefundRows, RefundCreate(c, r) PROVE OwnRefunds'
      <3> DEFINE new == [job EXCEPT !.pc = "stripe", !.row = r, !.cancels = CancelsPayout]
      <3>1. new.row = r
        BY <2>0 DEF RefundJobs
      <3>2. refundJob'[c] = new /\ \A d \in Refunders \ {c} : refundJob'[d] = refundJob[d]
        BY <2>2 DEF RefundCreate, RefundJob, TypeOK
      <3>3. AtStripe' = AtStripe /\ r \notin AtStripe /\ refunds[r].state = "NONE"
        BY <2>2, <2>c DEF RefundCreate, FreshRows, stripe
      <3>4. refunds'[r].state # "NONE"
        BY <2>2 DEF RefundCreate, TypeOK
      <3> HIDE DEF new
      <3> QED BY <1>0, <3>1, <3>2, <3>3, <3>4 DEF OwnRefunds
    <2>3. CASE RefundAtStripe(c)
      <3>0. job.pc = "stripe" /\ job.row \in RefundRows /\ job.amount \in 1..Amount
        BY <2>3 DEF RefundAtStripe, JobsHaveRows
      <3>1. AtStripe' \subseteq AtStripe \cup {job.row}
        <4>1. CASE StripeTakes(job.row, job.amount)
          BY <3>0, <4>1, OneMoreAtStripe
        <4>2. CASE UNCHANGED stripe
          BY <2>c, <4>2 DEF stripe
        <4> QED BY <2>3, <4>1, <4>2 DEF RefundAtStripe
      <3>2. PICK new \in {[job EXCEPT !.pc = "finish"], IdleRefundJob, [job EXCEPT !.pc = "fail"]} :
               RefundJob(c, new)
        BY <2>3 DEF RefundAtStripe
      <3>3. new.pc # "stripe"
        BY <2>0, <2>b, <3>2 DEF RefundJobs
      <3> QED BY <2>a, <3>0, <3>1, <3>2, <3>3 DEF RefundJob
    <2>4. CASE RefundFail(c) \/ RefundFinish(c) \/ RefundStops(c)
      <3>1. RefundJob(c, IdleRefundJob) /\ AtStripe' = AtStripe
        BY <2>4, <2>c DEF RefundFail, RefundFinish, RefundStops, stripe
      <3> QED BY <2>a, <2>b, <3>1 DEF RefundJob
    <2> QED BY <1>7, <2>1, <2>2, <2>3, <2>4 DEF RefundStep
  <1> QED BY <1>2, <1>3, <1>4, <1>5, <1>6, <1>7 DEF Next, Webhook

-----------------------------------------------------------------------------
(* Refunds that are real                                                   *)

UnderWay(c) == refundJob[c].pc \in {"stripe", "fail", "finish"}
Taken == {refunded[i] : i \in DOMAIN refunded}

(* What a refund call may rely on past Phase 1: its row is PROCESSING with *)
(* its amount, it is the only call that has the row, Stripe has not taken  *)
(* the refund before it says so, and what is not completed has no id.      *)
RefundCalls ==
    /\ \A c \in Refunders : UnderWay(c) =>
          /\ refunds[refundJob[c].row].state = "PROCESSING"
          /\ refunds[refundJob[c].row].amount = refundJob[c].amount
    /\ \A c, d \in Refunders :
          UnderWay(c) /\ UnderWay(d) /\ refundJob[c].row = refundJob[d].row => c = d
    /\ \A c \in Refunders :
          /\ refundJob[c].pc \in {"stripe", "fail"} => refundJob[c].row \notin AtStripe
          /\ refundJob[c].pc = "finish" =>
                [row |-> refundJob[c].row, amount |-> refundJob[c].amount] \in Taken
    /\ \A r \in RefundRows : refunds[r].state # "COMPLETED" => refunds[r].stripe = NoRow

(* RefundsAreReal, with the refunds of Stripe as a set.                    *)
RealRefunds ==
    /\ \A r \in Completed :
          [row |-> refunds[r].stripe, amount |-> refunds[r].amount] \in Taken
    /\ \A r, s \in Completed : refunds[r].stripe = refunds[s].stripe => r = s
    /\ \A r \in RefundRows : refunds[r].state = "FAILED" => r \notin AtStripe
    /\ \A r \in PostedFor("reversal") : r \in Completed /\ refunds[r].stripe = r

LEMMA OneMoreTaken ==
  ASSUME TypeOK, NEW r \in RefundRows, NEW n \in 1..Amount, StripeTakes(r, n)
  PROVE  /\ Taken' = Taken \cup {[row |-> r, amount |-> n]}
         /\ AtStripe' = AtStripe \cup {r}
PROOF
  <1> DEFINE new == [row |-> r, amount |-> n]
  <1>1. refunded' = Append(refunded, new) /\ refunded \in Seq(StripeRefund)
    BY DEF StripeTakes, TypeOK
  <1>2. /\ DOMAIN refunded' = DOMAIN refunded \cup {Len(refunded) + 1}
        /\ refunded'[Len(refunded) + 1] = new
        /\ \A i \in DOMAIN refunded : refunded'[i] = refunded[i]
    <2> HIDE DEF new
    <2>1. new \in StripeRefund
      BY DEF new, StripeRefund
    <2> QED BY <1>1, <2>1
  <1>3. Taken' = Taken \cup {new}
    <2> HIDE DEF new
    <2> QED BY <1>2 DEF Taken
  <1> QED BY <1>3, OneMoreAtStripe

(* The steps that leave refunds alone.                                     *)
LEMMA RealKept ==
  ASSUME RefundCalls, RealRefunds, UNCHANGED <<refunds, refundJob, refunded>>,
         PostedFor("reversal")' = PostedFor("reversal")
  PROVE  RefundCalls' /\ RealRefunds'
PROOF
  <1>1. /\ AtStripe' = AtStripe /\ Taken' = Taken /\ Completed' = Completed
        /\ \A c \in Refunders : UnderWay(c)' = UnderWay(c)
    BY DEF AtStripe, Taken, Completed, UnderWay
  <1> QED BY <1>1 DEF RefundCalls, RealRefunds

LEMMA RealDashboard ==
  ASSUME TypeOK, RefundCalls, RealRefunds, NEW r \in RefundRows, NEW n \in RefundAmounts,
         DashboardRefund(r, n)
  PROVE  RefundCalls' /\ RealRefunds'
PROOF
  <1>1. /\ UNCHANGED <<refunds, refundJob, ledger>>
        /\ r \in FreshRows /\ StripeTakes(r, n) /\ \A c \in Refunders : refundJob[c].row # r
    BY DEF DashboardRefund, rows, jobs
  <1>2. /\ Taken' = Taken \cup {[row |-> r, amount |-> n]} /\ AtStripe' = AtStripe \cup {r}
    BY <1>1, OneMoreTaken, EscrowAssumption
  <1>3. refunds[r].state = "NONE"
    BY <1>1 DEF FreshRows
  <1>4. /\ Completed' = Completed /\ PostedFor("reversal")' = PostedFor("reversal")
        /\ \A c \in Refunders : UnderWay(c)' = UnderWay(c)
    BY <1>1 DEF Completed, PostedFor, UnderWay
  <1>5. RefundCalls'
    BY <1>1, <1>2, <1>4 DEF RefundCalls
  <1>6. RealRefunds'
    BY <1>1, <1>2, <1>3, <1>4 DEF RealRefunds
  <1> QED BY <1>5, <1>6

(* The refunds a charge.refunded webhook names are completed in fresh rows,*)
(* each with the amount Stripe took.                                       *)
LEMMA WebhookRows ==
  ASSUME TypeOK, NEW n \in DOMAIN refunded, ChargeRefunded(SubSeq(refunded, 1, n))
  PROVE  \E some \in SUBSET FreshRows :
            /\ \A r \in RefundRows \ some : refunds'[r] = refunds[r]
            /\ \A r \in some : /\ refunds'[r].state = "COMPLETED"
                               /\ refunds'[r].stripe \notin Known
                               /\ [row |-> refunds'[r].stripe,
                                   amount |-> refunds'[r].amount] \in Taken
            /\ \A r, s \in some : refunds'[r].stripe = refunds'[s].stripe => r = s
PROOF
  <1> DEFINE list == SubSeq(refunded, 1, n)
  <1>1. \A i \in DOMAIN list : list[i] \in StripeRefund /\ list[i] \in Taken
    BY DEF TypeOK, Taken
  <1>2. ASSUME NEW s \in Unknown(list)
        PROVE  s \notin Known /\ [row |-> s, amount |-> AmountIn(list, s)] \in Taken
    <2>1. PICK i \in DOMAIN list : s = list[i].row
      BY <1>2 DEF Unknown
    <2>2. list[i] = [row |-> s, amount |-> list[i].amount] /\ list[i].amount \in 0..Amount
      <3> HIDE DEF list
      <3> QED BY <1>1, <2>1, EscrowAssumption DEF StripeRefund
    <2>3. \E j \in DOMAIN list : list[j] = [row |-> s, amount |-> AmountIn(list, s)]
      BY <2>2 DEF AmountIn
    <2> QED BY <1>1, <1>2, <2>3 DEF Unknown
  <1> HIDE DEF list
  <1>3. PICK new \in [Unknown(list) -> FreshRows] :
           /\ \A s, t \in Unknown(list) : new[s] = new[t] => s = t
           /\ refunds' = [r \in RefundRows |->
                IF \E s \in Unknown(list) : new[s] = r
                THEN LET s == CHOOSE s \in Unknown(list) : new[s] = r
                     IN [state |-> "COMPLETED", amount |-> AmountIn(list, s), stripe |-> s]
                ELSE refunds[r]]
    BY DEF ChargeRefunded, list
  <1> DEFINE some == {new[s] : s \in Unknown(list)}
  <1>4. some \subseteq FreshRows /\ FreshRows \subseteq RefundRows
    BY <1>3 DEF FreshRows
  <1>5. ASSUME NEW s \in Unknown(list)
        PROVE  refunds'[new[s]] = [state |-> "COMPLETED", amount |-> AmountIn(list, s),
                                   stripe |-> s]
    <2>1. (CHOOSE t \in Unknown(list) : new[t] = new[s]) = s
      BY <1>3, <1>5
    <2>2. new[s] \in RefundRows
      BY <1>3, <1>4, <1>5
    <2> QED BY <1>3, <1>5, <2>1, <2>2
  <1>6. \A r \in RefundRows \ some : refunds'[r] = refunds[r]
    BY <1>3
  <1>7. \A r \in some : \E s \in Unknown(list) :
           /\ r = new[s] /\ refunds'[r].state = "COMPLETED" /\ refunds'[r].stripe = s
           /\ refunds'[r].amount = AmountIn(list, s)
    <2> SUFFICES ASSUME NEW s \in Unknown(list)
                 PROVE  /\ refunds'[new[s]].state = "COMPLETED"
                        /\ refunds'[new[s]].stripe = s
                        /\ refunds'[new[s]].amount = AmountIn(list, s)
      OBVIOUS
    <2> DEFINE row == [state |-> "COMPLETED", amount |-> AmountIn(list, s), stripe |-> s]
    <2>1. row.state = "COMPLETED" /\ row.stripe = s /\ row.amount = AmountIn(list, s)
      OBVIOUS
    <2>2. refunds'[new[s]] = row
      BY <1>5
    <2> HIDE DEF row
    <2> QED BY <2>1, <2>2
  <1>8. \A r \in some : /\ refunds'[r].state = "COMPLETED"
                         /\ refunds'[r].stripe \notin Known
                         /\ [row |-> refunds'[r].stripe,
                             amount |-> refunds'[r].amount] \in Taken
    BY <1>2, <1>7
  <1>9. \A r, s \in some : refunds'[r].stripe = refunds'[s].stripe => r = s
    <2> HIDE DEF some
    <2> QED BY <1>7
  <1> HIDE DEF some
  <1> QED BY <1>4, <1>6, <1>8, <1>9

LEMMA RealWebhook ==
  ASSUME TypeOK, JobsHaveRows, RefundCalls, RealRefunds, NEW n \in DOMAIN refunded,
         ChargeRefunded(SubSeq(refunded, 1, n))
  PROVE  RefundCalls' /\ RealRefunds'
PROOF
  <1>1. PICK some \in SUBSET FreshRows :
            /\ \A r \in RefundRows \ some : refunds'[r] = refunds[r]
            /\ \A r \in some : /\ refunds'[r].state = "COMPLETED"
                               /\ refunds'[r].stripe \notin Known
                               /\ [row |-> refunds'[r].stripe,
                                   amount |-> refunds'[r].amount] \in Taken
            /\ \A r, s \in some : refunds'[r].stripe = refunds'[s].stripe => r = s
    BY WebhookRows
  <1>2. UNCHANGED <<refundJob, refunded, ledger>>
    BY DEF ChargeRefunded, jobs, stripe
  <1>3. /\ AtStripe' = AtStripe /\ Taken' = Taken
        /\ PostedFor("reversal")' = PostedFor("reversal")
        /\ \A c \in Refunders : UnderWay(c)' = UnderWay(c)
    BY <1>2 DEF AtStripe, Taken, PostedFor, UnderWay
  <1>4. \A r \in some : r \in RefundRows /\ refunds[r].state = "NONE"
    BY DEF FreshRows
  <1>5. Completed' = Completed \cup some /\ Completed \cap some = {}
    BY <1>1, <1>4 DEF Completed
  <1>6. \A r \in Completed : refunds'[r] = refunds[r] /\ refunds[r].stripe \in Known
    BY <1>1, <1>5 DEF Completed, Known
  <1>7. \A c \in Refunders : UnderWay(c) =>
           refundJob[c].row \in RefundRows /\ refundJob[c].row \notin some
    BY <1>4 DEF RefundCalls, JobsHaveRows, UnderWay
  <1>8. RefundCalls'
    BY <1>1, <1>2, <1>3, <1>7 DEF RefundCalls
  <1>9. RealRefunds'
    <2>1. \A r \in Completed' :
             [row |-> refunds'[r].stripe, amount |-> refunds'[r].amount] \in Taken'
      BY <1>1, <1>3, <1>5, <1>6 DEF RealRefunds
    <2>2. \A r, s \in Completed' : refunds'[r].stripe = refunds'[s].stripe => r = s
      <3> SUFFICES ASSUME NEW r \in Completed', NEW s \in Completed',
                          refunds'[r].stripe = refunds'[s].stripe
                   PROVE  r = s
        OBVIOUS
      <3>1. CASE r \in some /\ s \in some
        BY <1>1, <3>1
      <3>2. CASE r \notin some /\ s \notin some
        BY <1>5, <1>6, <3>2 DEF RealRefunds
      <3>3. ASSUME NEW t \in some, NEW u \in Completed
            PROVE  refunds'[t].stripe # refunds'[u].stripe
        BY <1>1, <1>6, <3>3
      <3> QED BY <1>5, <3>1, <3>2, <3>3
    <2>3. \A r \in RefundRows : refunds'[r].state = "FAILED" => r \notin AtStripe'
      BY <1>1, <1>3 DEF RealRefunds
    <2>4. \A r \in PostedFor("reversal")' : r \in Completed' /\ refunds'[r].stripe = r
      BY <1>3, <1>5, <1>6 DEF RealRefunds
    <2> QED BY <2>1, <2>2, <2>3, <2>4 DEF RealRefunds
  <1> QED BY <1>8, <1>9

LEMMA RealRefundStep ==
  ASSUME TypeOK, JobsHaveRows, RefundCalls, RealRefunds, NEW c \in Refunders, RefundStep(c)
  PROVE  RefundCalls' /\ RealRefunds'
PROOF
  <1> DEFINE job == refundJob[c]
  <1>0. job \in RefundJobs /\ refunds \in [RefundRows -> RefundRow]
    BY DEF TypeOK
  <1>a. IdleRefundJob.pc = "idle"
    BY DEF IdleRefundJob
  <1>b. ASSUME NEW new, refundJob' = [refundJob EXCEPT ![c] = new]
        PROVE  /\ refundJob'[c] = new
               /\ \A d \in Refunders \ {c} : refundJob'[d] = refundJob[d]
               /\ \A d \in Refunders \ {c} : UnderWay(d)' <=> UnderWay(d)
               /\ UnderWay(c)' <=> new.pc \in {"stripe", "fail", "finish"}
    <2>1. /\ refundJob'[c] = new
          /\ \A d \in Refunders \ {c} : refundJob'[d] = refundJob[d]
      BY <1>b DEF TypeOK
    <2> QED BY <2>1 DEF UnderWay
  <1>1. ASSUME NEW new, refundJob' = [refundJob EXCEPT ![c] = new],
               new.pc \notin {"stripe", "fail", "finish"},
               UNCHANGED <<refunds, refunded, ledger>>
        PROVE  RefundCalls' /\ RealRefunds'
    <2>1. /\ AtStripe' = AtStripe /\ Taken' = Taken /\ Completed' = Completed
          /\ PostedFor("reversal")' = PostedFor("reversal")
      BY <1>1 DEF AtStripe, Taken, Completed, PostedFor
    <2>2. RealRefunds'
      BY <1>1, <2>1 DEF RealRefunds
    <2>3. /\ ~ UnderWay(c)' /\ \A d \in Refunders : UnderWay(d)' => d # c /\ UnderWay(d)
          /\ \A d \in Refunders : d # c => refundJob'[d] = refundJob[d]
      BY <1>1, <1>b
    <2>4. \A d \in Refunders : refundJob'[d].pc \in {"stripe", "fail", "finish"} => d # c
      BY <2>3 DEF UnderWay
    <2> QED BY <1>1, <2>1, <2>2, <2>3, <2>4 DEF RefundCalls
  <1>2. ASSUME NEW n \in RefundAmounts, RefundLoad(c, n) PROVE RefundCalls' /\ RealRefunds'
    <2> DEFINE new == [IdleRefundJob EXCEPT !.pc = "create", !.amount = n,
                                            !.full = (n = Refundable)]
    <2>1. new.pc = "create"
      BY DEF IdleRefundJob
    <2>2. refundJob' = [refundJob EXCEPT ![c] = new] /\ UNCHANGED <<refunds, refunded, ledger>>
      BY <1>2 DEF RefundLoad, RefundJob, rows, stripe
    <2> HIDE DEF new
    <2> QED BY <1>1, <2>1, <2>2
  <1>3. CASE RefundStops(c)
    <2>1. refundJob' = [refundJob EXCEPT ![c] = IdleRefundJob]
            /\ UNCHANGED <<refunds, refunded, ledger>>
      BY <1>3 DEF RefundStops, RefundJob, rows, stripe
    <2> QED BY <1>1, <1>a, <2>1
  <1>4. ASSUME NEW r \in RefundRows, RefundCreate(c, r) PROVE RefundCalls' /\ RealRefunds'
    <2> DEFINE new == [job EXCEPT !.pc = "stripe", !.row = r, !.cancels = CancelsPayout]
    <2>1. new.row = r /\ new.pc = "stripe" /\ new.amount = job.amount
      BY <1>0 DEF RefundJobs
    <2>2. refundJob' = [refundJob EXCEPT ![c] = new] /\ UNCHANGED <<refunded, ledger>>
      BY <1>4 DEF RefundCreate, RefundJob, stripe
    <2>3. refunds[r].state = "NONE" /\ r \notin AtStripe
      BY <1>4 DEF RefundCreate, FreshRows
    <2>4. /\ refunds'[r].state = "PROCESSING" /\ refunds'[r].amount = job.amount
          /\ refunds'[r].stripe = NoRow
          /\ \A s \in RefundRows \ {r} : refunds'[s] = refunds[s]
      BY <1>0, <1>4 DEF RefundCreate
    <2>5. /\ AtStripe' = AtStripe /\ Taken' = Taken
          /\ PostedFor("reversal")' = PostedFor("reversal")
      BY <2>2 DEF AtStripe, Taken, PostedFor
    <2>6. Completed' = Completed /\ r \notin Completed
      BY <2>3, <2>4 DEF Completed
    <2> HIDE DEF new
    <2>7. /\ refundJob'[c] = new /\ UnderWay(c)'
          /\ \A d \in Refunders \ {c} : refundJob'[d] = refundJob[d]
          /\ \A d \in Refunders \ {c} : UnderWay(d)' <=> UnderWay(d)
      BY <1>b, <2>1, <2>2
    <2>8. \A d \in Refunders : UnderWay(d) =>
             refundJob[d].row \in RefundRows /\ refundJob[d].row # r
      BY <2>3 DEF RefundCalls, JobsHaveRows, UnderWay
    <2>9. RefundCalls'
      <3>1. \A d \in Refunders : UnderWay(d)' =>
               /\ refunds'[refundJob'[d].row].state = "PROCESSING"
               /\ refunds'[refundJob'[d].row].amount = refundJob'[d].amount
        BY <2>1, <2>4, <2>7, <2>8 DEF RefundCalls
      <3>2. \A d, e \in Refunders :
               UnderWay(d)' /\ UnderWay(e)' /\ refundJob'[d].row = refundJob'[e].row => d = e
        BY <2>1, <2>7, <2>8 DEF RefundCalls
      <3>3. \A d \in Refunders :
               /\ refundJob'[d].pc \in {"stripe", "fail"} => refundJob'[d].row \notin AtStripe'
               /\ refundJob'[d].pc = "finish" =>
                     [row |-> refundJob'[d].row, amount |-> refundJob'[d].amount] \in Taken'
        BY <2>1, <2>3, <2>5, <2>7 DEF RefundCalls
      <3>4. \A s \in RefundRows : refunds'[s].state # "COMPLETED" => refunds'[s].stripe = NoRow
        BY <2>4 DEF RefundCalls
      <3> QED BY <3>1, <3>2, <3>3, <3>4 DEF RefundCalls
    <2>10. RealRefunds'
      <3>1. \A s \in Completed : refunds'[s] = refunds[s]
        BY <2>4, <2>6 DEF Completed
      <3>2. \A s \in RefundRows : refunds'[s].state = "FAILED" => refunds[s].state = "FAILED"
        BY <2>4
      <3> QED BY <2>5, <2>6, <3>1, <3>2 DEF RealRefunds
    <2> QED BY <2>9, <2>10
  <1>5. CASE RefundAtStripe(c)
    <2>0. /\ job.pc = "stripe" /\ job.row \in RefundRows /\ job.amount \in 1..Amount
          /\ UnderWay(c) /\ UNCHANGED <<refunds, ledger>> /\ job.row \notin AtStripe
      BY <1>5 DEF RefundAtStripe, JobsHaveRows, UnderWay, RefundCalls, rows
    <2>1. /\ Completed' = Completed /\ PostedFor("reversal")' = PostedFor("reversal")
      BY <2>0 DEF Completed, PostedFor
    <2>2. CASE RefundJob(c, [job EXCEPT !.pc = "fail"]) /\ UNCHANGED stripe
      <3> DEFINE new == [job EXCEPT !.pc = "fail"]
      <3>1. new.row = job.row /\ new.pc = "fail" /\ new.amount = job.amount
        BY <1>0 DEF RefundJobs
      <3>2. refundJob' = [refundJob EXCEPT ![c] = new] /\ AtStripe' = AtStripe /\ Taken' = Taken
        BY <2>2 DEF RefundJob, stripe, AtStripe, Taken
      <3> HIDE DEF new
      <3>3. /\ refundJob'[c] = new /\ UnderWay(c)'
            /\ \A d \in Refunders \ {c} : refundJob'[d] = refundJob[d]
            /\ \A d \in Refunders \ {c} : UnderWay(d)' <=> UnderWay(d)
        BY <1>b, <3>1, <3>2
      <3>4. RefundCalls'
        BY <2>0, <3>1, <3>2, <3>3 DEF RefundCalls
      <3>5. RealRefunds'
        BY <2>0, <2>1, <3>2 DEF RealRefunds
      <3> QED BY <3>4, <3>5
    <2>3. ASSUME StripeTakes(job.row, job.amount),
                 NEW new \in {[job EXCEPT !.pc = "finish"], IdleRefundJob}, RefundJob(c, new)
          PROVE  RefundCalls' /\ RealRefunds'
      <3>1. /\ Taken' = Taken \cup {[row |-> job.row, amount |-> job.amount]}
            /\ AtStripe' = AtStripe \cup {job.row}
        BY <2>0, <2>3, OneMoreTaken
      <3>2. \/ new.pc = "finish" /\ new.row = job.row /\ new.amount = job.amount
            \/ new.pc = "idle"
        BY <1>0, <1>a, <2>3 DEF RefundJobs
      <3>3. /\ refundJob'[c] = new
            /\ \A d \in Refunders \ {c} : refundJob'[d] = refundJob[d]
            /\ \A d \in Refunders \ {c} : UnderWay(d)' <=> UnderWay(d)
            /\ UnderWay(c)' <=> new.pc \in {"stripe", "fail", "finish"}
        BY <1>b, <2>3 DEF RefundJob
      <3>4. \A d \in Refunders \ {c} : UnderWay(d) => refundJob[d].row # job.row
        BY <2>0 DEF RefundCalls
      <3>5. RefundCalls'
        <4>1. \A d \in Refunders : UnderWay(d)' =>
               /\ refunds'[refundJob'[d].row].state = "PROCESSING"
               /\ refunds'[refundJob'[d].row].amount = refundJob'[d].amount
          BY <2>0, <3>2, <3>3 DEF RefundCalls
        <4>2. \A d, e \in Refunders :
               UnderWay(d)' /\ UnderWay(e)' /\ refundJob'[d].row = refundJob'[e].row => d = e
          BY <3>2, <3>3, <3>4 DEF RefundCalls
        <4>3. \A d \in Refunders :
               refundJob'[d].pc \in {"stripe", "fail"} => refundJob'[d].row \notin AtStripe'
          BY <3>1, <3>2, <3>3, <3>4 DEF RefundCalls, UnderWay
        <4>4. \A d \in Refunders : refundJob'[d].pc = "finish" =>
                     [row |-> refundJob'[d].row, amount |-> refundJob'[d].amount] \in Taken'
          BY <3>1, <3>2, <3>3 DEF RefundCalls
        <4> QED BY <2>0, <4>1, <4>2, <4>3, <4>4 DEF RefundCalls
      <3>6. RealRefunds'
        <4>1. refunds[job.row].state = "PROCESSING"
          BY <2>0 DEF RefundCalls
        <4> QED BY <2>0, <2>1, <3>1, <4>1 DEF RealRefunds
      <3> QED BY <3>5, <3>6
    <2> QED BY <1>5, <2>2, <2>3 DEF RefundAtStripe
  <1>6. CASE RefundFail(c) \/ RefundFinish(c)
    <2>0. /\ UnderWay(c) /\ job.row \in RefundRows /\ refundJob' = [refundJob EXCEPT ![c] = IdleRefundJob]
          /\ AtStripe' = AtStripe /\ Taken' = Taken
          /\ refunds[job.row].state = "PROCESSING" /\ refunds[job.row].stripe = NoRow
      BY <1>6 DEF RefundFail, RefundFinish, JobsHaveRows, UnderWay, RefundJob, RefundCalls,
         stripe, AtStripe, Taken
    <2>1. /\ ~ UnderWay(c)' /\ \A d \in Refunders : UnderWay(d)' => d # c /\ UnderWay(d)
          /\ \A d \in Refunders : d # c => refundJob'[d] = refundJob[d]
      BY <1>a, <1>b, <2>0
    <2>2. \A s \in RefundRows \ {job.row} : refunds'[s] = refunds[s]
      BY <1>0, <1>6 DEF RefundFail, RefundFinish
    <2>3. \A d \in Refunders : UnderWay(d)' =>
             refundJob'[d].row \in RefundRows /\ refundJob'[d].row # job.row
      BY <2>0, <2>1 DEF RefundCalls, JobsHaveRows, UnderWay
    <2>4. \/ refunds'[job.row].state = "COMPLETED" \/ refunds'[job.row].stripe = NoRow
      <3>1. refunds[job.row] \in RefundRow
        BY <1>0, <2>0
      <3>2. CASE RefundFail(c)
        <4>1. refunds'[job.row] = [refunds[job.row] EXCEPT !.state = "FAILED"]
          BY <1>0, <2>0, <3>2 DEF RefundFail
        <4> QED BY <2>0, <3>1, <4>1 DEF RefundRow
      <3>3. CASE RefundFinish(c)
        <4>1. refunds'[job.row] = [refunds[job.row] EXCEPT !.state = "COMPLETED",
                                                          !.stripe = job.row]
          BY <1>0, <2>0, <3>3 DEF RefundFinish
        <4> QED BY <2>0, <3>1, <4>1 DEF RefundRow
      <3> QED BY <1>6, <3>2, <3>3
    <2>5. RefundCalls'
      <3>1. \A d \in Refunders : UnderWay(d)' =>
               /\ refunds'[refundJob'[d].row].state = "PROCESSING"
               /\ refunds'[refundJob'[d].row].amount = refundJob'[d].amount
        BY <2>1, <2>2, <2>3 DEF RefundCalls
      <3>2. \A d, e \in Refunders :
               UnderWay(d)' /\ UnderWay(e)' /\ refundJob'[d].row = refundJob'[e].row => d = e
        BY <2>1 DEF RefundCalls
      <3>3. \A d \in Refunders : refundJob'[d].pc \in {"stripe", "fail", "finish"} => d # c
        BY <2>1 DEF UnderWay
      <3>4. \A d \in Refunders :
               /\ refundJob'[d].pc \in {"stripe", "fail"} => refundJob'[d].row \notin AtStripe'
               /\ refundJob'[d].pc = "finish" =>
                     [row |-> refundJob'[d].row, amount |-> refundJob'[d].amount] \in Taken'
        BY <2>0, <2>1, <3>3 DEF RefundCalls
      <3>5. \A s \in RefundRows : refunds'[s].state # "COMPLETED" => refunds'[s].stripe = NoRow
        BY <2>2, <2>4 DEF RefundCalls
      <3> QED BY <3>1, <3>2, <3>4, <3>5 DEF RefundCalls
    <2>6. CASE RefundFail(c)
      <3>1. /\ refunds'[job.row].state = "FAILED" /\ job.row \notin AtStripe
            /\ ledger' = ledger
        BY <1>0, <2>0, <2>6 DEF RefundFail, RefundCalls, RefundRow
      <3>2. Completed' = Completed /\ job.row \notin Completed
        BY <2>0, <2>2, <3>1 DEF Completed
      <3>3. PostedFor("reversal")' = PostedFor("reversal")
        BY <3>1 DEF PostedFor
      <3>4. \A s \in Completed : refunds'[s] = refunds[s]
        BY <2>2, <3>2 DEF Completed
      <3>5. RealRefunds'
        BY <2>0, <2>2, <3>1, <3>2, <3>3, <3>4 DEF RealRefunds
      <3> QED BY <2>5, <3>5
    <2>7. CASE RefundFinish(c)
      <3>1. /\ refunds'[job.row].state = "COMPLETED" /\ refunds'[job.row].stripe = job.row
            /\ refunds'[job.row].amount = job.amount
        BY <1>0, <2>0, <2>7 DEF RefundFinish, RefundRow, RefundCalls
      <3>2. job.row \notin Known /\ [row |-> job.row, amount |-> job.amount] \in Taken
        BY <2>7 DEF RefundFinish, IdIsFree, RefundCalls
      <3>3. Completed' = Completed \cup {job.row} /\ job.row \notin Completed
        BY <2>0, <2>2, <3>1 DEF Completed
      <3>4. PostedFor("reversal")' = PostedFor("reversal") \cup {job.row}
        BY <2>0, <2>7 DEF RefundFinish, RefundEntries, PostedFor
      <3>5. \A s \in Completed : refunds'[s] = refunds[s] /\ refunds[s].stripe # job.row
        BY <2>2, <3>2, <3>3 DEF Completed, Known
      <3>6. RealRefunds'
        <4>1. \A r \in Completed' :
                 [row |-> refunds'[r].stripe, amount |-> refunds'[r].amount] \in Taken'
          BY <2>0, <3>1, <3>2, <3>3, <3>5 DEF RealRefunds
        <4>2. \A r, s \in Completed' : refunds'[r].stripe = refunds'[s].stripe => r = s
          BY <3>1, <3>3, <3>5 DEF RealRefunds
        <4>3. \A r \in RefundRows : refunds'[r].state = "FAILED" => r \notin AtStripe'
          BY <2>0, <2>2, <3>1 DEF RealRefunds
        <4>4. \A r \in PostedFor("reversal")' : r \in Completed' /\ refunds'[r].stripe = r
          BY <3>1, <3>3, <3>4, <3>5 DEF RealRefunds
        <4> QED BY <4>1, <4>2, <4>3, <4>4 DEF RealRefunds
      <3> QED BY <2>5, <3>6
    <2> QED BY <1>6, <2>6, <2>7
  <1> QED BY <1>2, <1>3, <1>4, <1>5, <1>6 DEF RefundStep

LEMMA RealNext ==
  ASSUME TypeOK, JobsHaveRows, RefundCalls, RealRefunds, [Next]_vars
  PROVE  RefundCalls' /\ RealRefunds'
PROOF
  <1>1. CASE StripeStep
    <2>1. ASSUME NEW r \in RefundRows, NEW n \in RefundAmounts, DashboardRefund(r, n)
          PROVE  RefundCalls' /\ RealRefunds'
      BY <2>1, RealDashboard
    <2>2. CASE Pay \/ Decline \/ CancelIntent \/ \E k \in Attempts : TransferEnds(k)
      <3>1. UNCHANGED <<refunds, refundJob, refunded, ledger>>
        BY <2>2 DEF Pay, Decline, CancelIntent, TransferEnds, rows, jobs
      <3> QED BY <3>1, RealKept DEF PostedFor
    <2> QED BY <1>1, <2>1, <2>2 DEF StripeStep
  <1>2. CASE \/ IntentSucceeded \/ IntentFailed \/ IntentCanceled \/ QueuePending
             \/ Release \/ RetryFailed \/ UNCHANGED vars
    <2>1. UNCHANGED <<refunds, refundJob, refunded>>
      BY <1>2 DEF IntentSucceeded, IntentFailed, IntentCanceled, QueuePending, Release,
         RetryFailed, vars, rows, jobs, stripe
    <2>2. ledger' \subseteq ledger \cup {<<"capture", NoRow>>, <<"release", NoRow>>}
             /\ ledger \subseteq ledger'
      BY <1>2 DEF IntentSucceeded, IntentFailed, IntentCanceled, QueuePending, Release,
         RetryFailed, vars, rows
    <2>3. PostedFor("reversal")' = PostedFor("reversal")
      BY <2>2 DEF PostedFor
    <2> QED BY <2>1, <2>3, RealKept
  <1>3. ASSUME NEW k \in Attempts, TransferCreated(k) \/ TransferPaid(k) \/ TransferFailed(k)
        PROVE  RefundCalls' /\ RealRefunds'
    <2>1. UNCHANGED <<refunds, refundJob, refunded>>
      BY <1>3 DEF TransferCreated, TransferPaid, TransferFailed, jobs, stripe
    <2>2. ledger' \subseteq ledger \cup {<<"payout", NoRow>>} /\ ledger \subseteq ledger'
      BY <1>3 DEF TransferCreated, TransferPaid, TransferFailed, PayoutEntry
    <2>3. PostedFor("reversal")' = PostedFor("reversal")
      BY <2>2 DEF PostedFor
    <2> QED BY <2>1, <2>3, RealKept
  <1>4. ASSUME NEW n \in DOMAIN refunded, ChargeRefunded(SubSeq(refunded, 1, n))
        PROVE  RefundCalls' /\ RealRefunds'
    BY <1>4, RealWebhook
  <1>5. ASSUME NEW w \in PayWorkers, PayoutStep(w) PROVE RefundCalls' /\ RealRefunds'
    <2>1. UNCHANGED <<refunds, refundJob, refunded, ledger>>
      BY <1>5 DEF PayoutStep, PayoutLoad, PayoutStart, PayoutAtStripe, PayoutFail,
         PayoutStore, PayoutStops, PayJob, MakeTransfer, RefuseTransfer, rows, stripe
    <2> QED BY <2>1, RealKept DEF PostedFor
  <1>6. ASSUME NEW c \in Refunders, RefundStep(c) PROVE RefundCalls' /\ RealRefunds'
    BY <1>6, RealRefundStep
  <1> QED BY <1>1, <1>2, <1>3, <1>4, <1>5, <1>6 DEF Next, Webhook

-----------------------------------------------------------------------------
(* The books                                                               *)

(* BooksFollowOrder is inductive with what the entries say of the payout:  *)
(* it is booked when it is paid, taken back only when it was cancelled and *)
(* then once, by a refund that cancelled it; and a reversal is booked only *)
(* in a step that leaves the order refunded.                               *)
CancelledBooks ==
    /\ payout.state = "PAID" <=> <<"payout", NoRow>> \in ledger
    /\ payout.state # "CANCELLED" => PostedFor("payout_cancel") = {}
    /\ \E r \in RefundRows \cup {NoRow} : PostedFor("payout_cancel") \subseteq {r}
    /\ \A c \in Refunders : UnderWay(c) /\ refundJob[c].cancels => payout.state = "CANCELLED"

Books ==
    /\ BooksFollowOrder
    /\ order \in {"HELD", "RELEASED", "SETTLED"} => PostedFor("reversal") = {}
    /\ CancelledBooks

LEMMA NetIsPositive == Net \in Nat /\ Net >= 1
PROOF BY EscrowAssumption DEF Net

LEMMA Times ==
  ASSUME NEW n \in Nat
  PROVE  n * 0 = 0 /\ n * 1 = n
PROOF OBVIOUS

(* The steps that leave the books alone.                                   *)
LEMMA BooksKept ==
  ASSUME Books, UNCHANGED <<order, hold, payout, ledger>>,
         \A c \in Refunders : UnderWay(c)' /\ refundJob'[c].cancels =>
                                 UnderWay(c) /\ refundJob[c].cancels
  PROVE  Books'
PROOF
  <1>1. \A kind : PostedFor(kind)' = PostedFor(kind)
    BY DEF PostedFor
  <1>2. BooksFollowOrder'
    BY <1>1 DEF Books, BooksFollowOrder
  <1>3. CancelledBooks'
    BY <1>1 DEF Books, CancelledBooks
  <1> QED BY <1>1, <1>2, <1>3 DEF Books

(* The steps of a payout that is due.                                      *)
LEMMA BooksPayoutEdit ==
  ASSUME Books, UNCHANGED <<order, hold, ledger, refundJob>>,
         payout.state \in {"PENDING", "PROCESSING", "SCHEDULED", "FAILED"},
         payout'.state \in {"PENDING", "PROCESSING", "SCHEDULED", "FAILED"}
  PROVE  Books'
PROOF
  <1>1. /\ \A kind : PostedFor(kind)' = PostedFor(kind)
        /\ \A c \in Refunders : UnderWay(c)' <=> UnderWay(c)
    BY DEF PostedFor, UnderWay
  <1>2. BooksFollowOrder'
    BY <1>1 DEF Books, BooksFollowOrder
  <1>3. CancelledBooks'
    BY <1>1 DEF Books, CancelledBooks
  <1> QED BY <1>1, <1>2, <1>3 DEF Books

LEMMA BooksPayments ==
  ASSUME TypeOK, Books, IntentSucceeded \/ IntentFailed \/ IntentCanceled \/ Release
  PROVE  Books'
PROOF
  <1>0. refundJob' = refundJob /\ payout \in PayoutRow
    BY DEF IntentSucceeded, IntentFailed, IntentCanceled, Release, jobs, TypeOK
  <1>1. \A c \in Refunders : UnderWay(c)' <=> UnderWay(c)
    BY <1>0 DEF UnderWay
  <1>2. CASE IntentFailed \/ IntentCanceled
    <2>1. /\ order = "PENDING" /\ order' \in {"FAILED", "CANCELLED"}
          /\ UNCHANGED <<hold, payout, ledger>>
      BY <1>2 DEF IntentFailed, IntentCanceled
    <2>2. \A kind : PostedFor(kind)' = PostedFor(kind)
      BY <2>1 DEF PostedFor
    <2> QED BY <1>0, <1>1, <2>1, <2>2 DEF Books, BooksFollowOrder, CancelledBooks
  <1>3. CASE IntentSucceeded
    <2>1. /\ order = "PENDING" /\ order' = "HELD" /\ hold' = "active" /\ payout' = payout
          /\ ledger = {} /\ hold = "none" /\ ledger' = {<<"capture", NoRow>>}
      BY <1>3 DEF IntentSucceeded, Books, BooksFollowOrder
    <2>2. PostedFor("reversal")' = {} /\ PostedFor("payout_cancel")' = {}
      BY <2>1 DEF PostedFor
    <2>3. payout.state = "NONE"
      BY <2>1 DEF Books, BooksFollowOrder
    <2>4. BooksFollowOrder'
      BY <2>1, <2>2, <2>3 DEF BooksFollowOrder
    <2>5. CancelledBooks'
      BY <1>0, <1>1, <2>1, <2>2, <2>3 DEF Books, CancelledBooks
    <2> QED BY <2>2, <2>4, <2>5 DEF Books
  <1>4. CASE Release
    <2>1. /\ order = "HELD" /\ order' = "RELEASED" /\ hold' = "released"
          /\ hold = "active" /\ ledger = {<<"capture", NoRow>>}
          /\ ledger' = {<<"capture", NoRow>>, <<"release", NoRow>>}
      BY <1>4 DEF Release, Books, BooksFollowOrder
    <2>2. PostedFor("reversal")' = {} /\ PostedFor("payout_cancel")' = {}
      BY <2>1 DEF PostedFor
    <2>3. payout.state = "NONE" /\ payout'.state = "PENDING"
      <3>1. payout' = [payout EXCEPT !.state = "PENDING"]
        BY <1>4 DEF Release
      <3> QED BY <1>0, <2>1, <3>1 DEF Books, BooksFollowOrder, PayoutRow
    <2>4. BooksFollowOrder'
      BY <2>1, <2>2, <2>3 DEF BooksFollowOrder
    <2>5. CancelledBooks'
      BY <1>0, <1>1, <2>1, <2>2, <2>3 DEF Books, CancelledBooks
    <2> QED BY <2>2, <2>4, <2>5 DEF Books
  <1> QED BY <1>2, <1>3, <1>4

(* The recipient's balance covers the payout that is due.                  *)
LEMMA DueIsCovered ==
  ASSUME Books, payout.state \in {"PENDING", "PROCESSING", "SCHEDULED", "FAILED"}
  PROVE  UserIn = Net /\ UserOut = 0
PROOF
  <1>1. <<"release", NoRow>> \in ledger /\ <<"payout", NoRow>> \notin ledger
    BY DEF Books, BooksFollowOrder, CancelledBooks
  <1>2. PostedFor("payout_cancel") = {}
    BY DEF Books, CancelledBooks
  <1> QED BY <1>1, <1>2, FS_EmptySet, NetIsPositive, Times DEF UserIn, UserOut, Posted

LEMMA BooksTransfer ==
  ASSUME TypeOK, Books, NEW k \in Attempts,
         TransferCreated(k) \/ TransferPaid(k) \/ TransferFailed(k)
  PROVE  Books'
PROOF
  <1>0. payout \in PayoutRow
    BY DEF TypeOK
  <1>1. CASE TransferCreated(k) \/ TransferFailed(k)
    <2>1. /\ UNCHANGED <<order, hold, ledger, refundJob>>
          /\ payout.state \in {"PROCESSING", "SCHEDULED"}
          /\ payout' \in {[payout EXCEPT !.state = "SCHEDULED"], [payout EXCEPT !.state = "FAILED"]}
      BY <1>1 DEF TransferCreated, TransferFailed, jobs
    <2>2. payout'.state \in {"SCHEDULED", "FAILED"}
      BY <1>0, <2>1 DEF PayoutRow
    <2> QED BY <2>1, <2>2, BooksPayoutEdit
  <1>2. CASE TransferPaid(k)
    <2>1. /\ UNCHANGED <<hold, refundJob>> /\ payout.state \in {"PROCESSING", "SCHEDULED"}
          /\ payout' = [payout EXCEPT !.state = "PAID"] /\ order' = Settled
          /\ ledger' = ledger \cup PayoutEntry
      BY <1>2 DEF TransferPaid, MayPay, jobs
    <2>2. payout'.state = "PAID"
      BY <1>0, <2>1 DEF PayoutRow
    <2>3. ledger' = ledger \cup {<<"payout", NoRow>>}
      BY <2>1, DueIsCovered, NetIsPositive DEF PayoutEntry, UserCovers
    <2>4. /\ PostedFor("reversal")' = PostedFor("reversal")
          /\ PostedFor("payout_cancel")' = PostedFor("payout_cancel")
          /\ \A c \in Refunders : UnderWay(c)' <=> UnderWay(c)
      BY <2>1, <2>3 DEF PostedFor, UnderWay
    <2>5. hold = "released" /\ order \notin {"PENDING", "FAILED", "CANCELLED", "HELD", "SETTLED"}
      BY <2>1 DEF Books, BooksFollowOrder
    <2>6. order' \notin {"PENDING", "FAILED", "CANCELLED", "HELD", "RELEASED"}
             /\ (order' = "SETTLED" => order = "RELEASED")
      BY <2>1, <2>5 DEF Settled
    <2>7. BooksFollowOrder'
      BY <2>1, <2>2, <2>3, <2>4, <2>5, <2>6 DEF Books, BooksFollowOrder
    <2>8. CancelledBooks'
      BY <2>1, <2>2, <2>3, <2>4 DEF Books, CancelledBooks
    <2> QED BY <2>4, <2>6, <2>7, <2>8 DEF Books
  <1> QED BY <1>1, <1>2

LEMMA BooksPayoutStep ==
  ASSUME TypeOK, Books, NEW w \in PayWorkers, PayoutStep(w)
  PROVE  Books'
PROOF
  <1>0. payout \in PayoutRow
    BY DEF TypeOK
  <1>1. UNCHANGED <<order, hold, ledger, refundJob>>
    BY DEF PayoutStep, PayoutLoad, PayoutStart, PayoutAtStripe, PayoutFail, PayoutStore,
       PayoutStops, PayJob, rows
  <1>2. CASE payout' = payout
    BY <1>1, <1>2, BooksKept DEF UnderWay
  <1>3. CASE payout' # payout
    <2>1. /\ payout.state \in {"PENDING", "PROCESSING", "SCHEDULED"}
          /\ \/ payout' \in {[payout EXCEPT !.state = "PROCESSING"],
                             [payout EXCEPT !.state = "FAILED"]}
             \/ payout' = [payout EXCEPT !.transfer = payJob[w].attempt]
      BY <1>3 DEF PayoutStep, PayoutLoad, PayoutStart, PayoutAtStripe, PayoutFail,
         PayoutStore, PayoutStops, rows
    <2>2. payout'.state \in {"PENDING", "PROCESSING", "SCHEDULED", "FAILED"}
      BY <1>0, <2>1 DEF PayoutRow
    <2> QED BY <1>1, <2>1, <2>2, BooksPayoutEdit
  <1> QED BY <1>2, <1>3

LEMMA BooksRefundStep ==
  ASSUME TypeOK, JobsHaveRows, Books, NEW c \in Refunders, RefundStep(c)
  PROVE  Books'
PROOF
  <1> DEFINE job == refundJob[c]
  <1>0. job \in RefundJobs /\ payout \in PayoutRow
    BY DEF TypeOK
  <1>a. IdleRefundJob.pc = "idle"
    BY DEF IdleRefundJob
  <1>b. ASSUME NEW new, refundJob' = [refundJob EXCEPT ![c] = new]
        PROVE  /\ refundJob'[c] = new
               /\ \A d \in Refunders \ {c} : refundJob'[d] = refundJob[d]
               /\ \A d \in Refunders \ {c} : UnderWay(d)' <=> UnderWay(d)
               /\ UnderWay(c)' <=> new.pc \in {"stripe", "fail", "finish"}
    <2>1. /\ refundJob'[c] = new
          /\ \A d \in Refunders \ {c} : refundJob'[d] = refundJob[d]
      BY <1>b DEF TypeOK
    <2> QED BY <2>1 DEF UnderWay
  <1>1. ASSUME NEW n \in RefundAmounts, RefundLoad(c, n) PROVE Books'
    <2> DEFINE new == [IdleRefundJob EXCEPT !.pc = "create", !.amount = n,
                                            !.full = (n = Refundable)]
    <2>1. new.pc = "create"
      BY DEF IdleRefundJob
    <2>2. refundJob' = [refundJob EXCEPT ![c] = new] /\ UNCHANGED <<order, hold, payout, ledger>>
      BY <1>1 DEF RefundLoad, RefundJob, rows
    <2> HIDE DEF new
    <2>3. \A d \in Refunders : UnderWay(d)' => d # c /\ UnderWay(d)
      BY <1>b, <2>1, <2>2
    <2>4. \A d \in Refunders : d # c => refundJob'[d] = refundJob[d]
      BY <1>b, <2>2
    <2> QED BY <2>2, <2>3, <2>4, BooksKept
  <1>2. ASSUME NEW r \in RefundRows, RefundCreate(c, r) PROVE Books'
    <2> DEFINE new == [job EXCEPT !.pc = "stripe", !.row = r, !.cancels = CancelsPayout]
    <2>1. new.cancels = CancelsPayout
      BY <1>0 DEF RefundJobs
    <2>2. refundJob' = [refundJob EXCEPT ![c] = new] /\ UNCHANGED <<order, hold, ledger>>
      BY <1>2 DEF RefundCreate, RefundJob
    <2> HIDE DEF new
    <2>3. /\ refundJob'[c] = new
          /\ \A d \in Refunders \ {c} : refundJob'[d] = refundJob[d]
          /\ \A d \in Refunders \ {c} : UnderWay(d)' <=> UnderWay(d)
      BY <1>b, <2>2
    <2>4. CASE ~ CancelsPayout
      <3>1. payout' = payout
        BY <1>2, <2>4 DEF RefundCreate
      <3> QED BY <2>1, <2>2, <2>3, <2>4, <3>1, BooksKept
    <2>5. CASE CancelsPayout
      <3>1. /\ order \in {"RELEASED", "SETTLED"} /\ payout.state \in {"PENDING", "SCHEDULED"}
            /\ payout' = [payout EXCEPT !.state = "CANCELLED"]
        BY <1>2, <2>5 DEF RefundCreate, CancelsPayout
      <3>2. payout'.state = "CANCELLED"
        BY <1>0, <3>1 DEF PayoutRow
      <3>3. \A kind : PostedFor(kind)' = PostedFor(kind)
        BY <2>2 DEF PostedFor
      <3>4. order = "RELEASED"
        BY <3>1 DEF Books, BooksFollowOrder
      <3>5. BooksFollowOrder'
        BY <2>2, <3>1, <3>2, <3>3, <3>4 DEF Books, BooksFollowOrder
      <3>6. CancelledBooks'
        BY <2>2, <3>1, <3>2, <3>3 DEF Books, CancelledBooks
      <3> QED BY <2>2, <3>3, <3>5, <3>6 DEF Books
    <2> QED BY <2>4, <2>5
  <1>3. CASE RefundAtStripe(c)
    <2>1. PICK new \in {[job EXCEPT !.pc = "finish"], IdleRefundJob, [job EXCEPT !.pc = "fail"]} :
             RefundJob(c, new)
      BY <1>3 DEF RefundAtStripe
    <2>2. UnderWay(c) /\ UNCHANGED <<order, hold, payout, ledger>>
      BY <1>3 DEF RefundAtStripe, UnderWay, rows
    <2>3. new.pc = "idle" \/ new.cancels = job.cancels
      BY <1>0, <1>a, <2>1 DEF RefundJobs
    <2>4. \A d \in Refunders : UnderWay(d)' /\ refundJob'[d].cancels =>
                                  UnderWay(d) /\ refundJob[d].cancels
      BY <1>b, <2>1, <2>2, <2>3 DEF RefundJob
    <2> QED BY <2>2, <2>4, BooksKept
  <1>4. CASE RefundFail(c) \/ RefundStops(c)
    <2>1. refundJob' = [refundJob EXCEPT ![c] = IdleRefundJob]
             /\ UNCHANGED <<order, hold, payout, ledger>>
      BY <1>4 DEF RefundFail, RefundStops, RefundJob, rows
    <2>2. \A d \in Refunders : UnderWay(d)' => d # c /\ UnderWay(d)
      BY <1>a, <1>b, <2>1
    <2>3. \A d \in Refunders : d # c => refundJob'[d] = refundJob[d]
      BY <1>b, <2>1
    <2> QED BY <2>1, <2>2, <2>3, BooksKept
  <1>5. CASE RefundFinish(c)
    <2>1. /\ refundJob' = [refundJob EXCEPT ![c] = IdleRefundJob] /\ UNCHANGED <<hold, payout>>
          /\ job.row \in RefundRows /\ UnderWay(c) /\ order \in Refunding
          /\ order' \in {"REFUNDED", "PARTIALLY_REFUNDED"} /\ RefundCovered(job)
          /\ ledger' = ledger \cup RefundEntries(job)
      BY <1>5 DEF RefundFinish, RefundJob, JobsHaveRows, UnderWay
    <2>2. /\ \A d \in Refunders : UnderWay(d)' => d # c /\ UnderWay(d)
          /\ \A d \in Refunders : d # c => refundJob'[d] = refundJob[d]
      BY <1>a, <1>b, <2>1
    <2>3. /\ <<"release", NoRow>> \in ledger' <=> <<"release", NoRow>> \in ledger
          /\ <<"payout", NoRow>> \in ledger' <=> <<"payout", NoRow>> \in ledger
          /\ PostedFor("payout_cancel")' = PostedFor("payout_cancel")
                \cup (IF job.cancels THEN {job.row} ELSE {})
      BY <2>1 DEF RefundEntries, PostedFor
    <2>4. BooksFollowOrder'
      BY <2>1, <2>3 DEF Books, BooksFollowOrder
    <2>5. job.cancels => payout.state = "CANCELLED" /\ PostedFor("payout_cancel") = {}
      <3> SUFFICES ASSUME job.cancels
                   PROVE  payout.state = "CANCELLED" /\ PostedFor("payout_cancel") = {}
        OBVIOUS
      <3>1. payout.state = "CANCELLED"
        BY <2>1 DEF Books, CancelledBooks
      <3>2. <<"payout", NoRow>> \notin ledger
        BY <3>1 DEF Books, CancelledBooks
      <3>3. UserIn >= UserOut + Net
        BY <2>1 DEF RefundCovered, UserCovers
      <3>4. PICK r : PostedFor("payout_cancel") \subseteq {r}
        BY DEF Books, CancelledBooks
      <3>5. CASE PostedFor("payout_cancel") = {r}
        <4>1. Cardinality(PostedFor("payout_cancel")) = 1
          BY <3>5, FS_Singleton
        <4>2. UserOut = Net
          BY <3>2, <4>1, NetIsPositive, Times DEF UserOut, Posted
        <4>3. UserIn \in {0, Net}
          BY NetIsPositive, Times DEF UserIn, Posted
        <4> QED BY <3>3, <4>2, <4>3, NetIsPositive
      <3> QED BY <3>1, <3>4, <3>5
    <2>6. CancelledBooks'
      <3>1. \E r \in RefundRows \cup {NoRow} : PostedFor("payout_cancel")' \subseteq {r}
        <4>1. CASE job.cancels
          BY <2>1, <2>3, <2>5, <4>1
        <4>2. CASE ~ job.cancels
          BY <2>3, <4>2 DEF Books, CancelledBooks
        <4> QED BY <4>1, <4>2
      <3>2. payout'.state # "CANCELLED" => PostedFor("payout_cancel")' = {}
        BY <2>1, <2>3, <2>5 DEF Books, CancelledBooks
      <3> QED BY <2>1, <2>2, <2>3, <3>1, <3>2 DEF Books, CancelledBooks
    <2> QED BY <2>1, <2>4, <2>6 DEF Books
  <1> QED BY <1>1, <1>2, <1>3, <1>4, <1>5 DEF RefundStep

LEMMA BooksNext ==
  ASSUME TypeOK, JobsHaveRows, Books, [Next]_vars
  PROVE  Books'
PROOF
  <1>1. CASE StripeStep \/ QueuePending \/ UNCHANGED vars
    <2>1. UNCHANGED <<order, hold, payout, ledger, refundJob>>
      BY <1>1 DEF StripeStep, Pay, Decline, CancelIntent, TransferEnds, DashboardRefund,
         QueuePending, vars, rows, jobs
    <2> QED BY <2>1, BooksKept DEF UnderWay
  <1>2. CASE IntentSucceeded \/ IntentFailed \/ IntentCanceled \/ Release
    BY <1>2, BooksPayments
  <1>3. CASE RetryFailed
    <2>1. /\ payout.state = "FAILED" /\ UNCHANGED <<order, hold, ledger, refundJob>>
          /\ payout'.state = "PENDING"
      BY <1>3 DEF RetryFailed, MayRetry
    <2> QED BY <2>1, BooksPayoutEdit
  <1>4. ASSUME NEW k \in Attempts, TransferCreated(k) \/ TransferPaid(k) \/ TransferFailed(k)
        PROVE  Books'
    BY <1>4, BooksTransfer
  <1>5. ASSUME NEW list, ChargeRefunded(list) PROVE Books'
    <2>1. /\ UNCHANGED <<hold, payout, ledger, refundJob>>
          /\ \/ order' = order
             \/ order \in Refunding /\ order' \in {"REFUNDED", "PARTIALLY_REFUNDED"}
      BY <1>5 DEF ChargeRefunded, jobs
    <2>2. /\ \A kind : PostedFor(kind)' = PostedFor(kind)
          /\ \A c \in Refunders : UnderWay(c)' <=> UnderWay(c)
      BY <2>1 DEF PostedFor, UnderWay
    <2>3. BooksFollowOrder' /\ CancelledBooks'
      BY <2>1, <2>2 DEF Books, BooksFollowOrder, CancelledBooks
    <2> QED BY <2>1, <2>2, <2>3 DEF Books
  <1>6. ASSUME NEW w \in PayWorkers, PayoutStep(w) PROVE Books'
    BY <1>6, BooksPayoutStep
  <1>7. ASSUME NEW c \in Refunders, RefundStep(c) PROVE Books'
    BY <1>7, BooksRefundStep
  <1> QED BY <1>1, <1>2, <1>3, <1>4, <1>5, <1>6, <1>7 DEF Next, Webhook

-----------------------------------------------------------------------------
(* The theorems                                                            *)

(* The inductive invariant.                                                *)
Base == TypeOK /\ JobsHaveRows /\ ChargedFirst /\ OwnRefunds

LEMMA BaseHolds == Spec => []Base
PROOF
  <1>1. Init => Base
    <2> SUFFICES ASSUME Init PROVE Base
      OBVIOUS
    <2>1. ChargedFirst
      BY DEF Init, ChargedFirst
    <2>2. OwnRefunds
      BY DEF Init, OwnRefunds, IdleRefundJob
    <2> QED BY <2>1, <2>2, InitTypes DEF Base
  <1>2. Base /\ [Next]_vars => Base'
    BY NextTypes, ChargedFirstNext, OwnRefundsNext DEF Base
  <1> QED BY <1>1, <1>2, PTL DEF Spec

LEMMA OneTransferHolds ==
  ASSUME LeasesHold
  PROVE  Spec => []OneTransfer
PROOF
  <1>1. Init => OneTransfer
    <2> SUFFICES ASSUME Init PROVE OneTransfer
      OBVIOUS
    <2>1. Live = {}
      BY DEF Init, Live
    <2> QED BY <2>1 DEF Init, OneTransfer, IdlePayJob
  <1>2. Base /\ OneTransfer /\ [Next]_vars => OneTransfer'
    BY LeasesHold, OneTransferNext DEF Base
  <1> QED BY <1>1, <1>2, BaseHolds, PTL DEF Spec

(* As long as no payout worker outlives the lease of its lock, at most one *)
(* transfer is on its way or has arrived (payout_service.py, the phases of *)
(* execute_payout): any number of workers, retries and refunds.            *)
THEOREM RecipientIsSentOnce ==
  ASSUME LeasesHold
  PROVE  Spec => []NoDoubleTransfer
PROOF
  <1>1. OneTransfer => NoDoubleTransfer
    <2> SUFFICES ASSUME OneTransfer PROVE Cardinality(Live) <= 1
      BY DEF NoDoubleTransfer
    <2>1. CASE Live = {}
      BY <2>1, FS_EmptySet
    <2>2. CASE Live # {}
      <3>1. PICK k : Live = {k}
        BY <2>2 DEF OneTransfer
      <3> QED BY <3>1, FS_Singleton
    <2> QED BY <2>1, <2>2
  <1> QED BY <1>1, OneTransferHolds, PTL

LEMMA MoneyStutter ==
  ASSUME UNCHANGED <<intent, transfers, refunded>>
  PROVE  UNCHANGED EM!vars
PROOF BY MoneyKept DEF EM!vars

LEMMA MoneyReturns ==
  ASSUME TypeOK, NEW r \in RefundRows, NEW n \in 1..Amount, r \notin AtStripe,
         StripeTakes(r, n), UNCHANGED <<intent, transfers>>
  PROVE  EM!Next
PROOF
  <1>1. \A i \in DOMAIN refunded : refunded[i].row # r
    BY DEF AtStripe
  <1>2. EM!Return(r, n)
    BY <1>1, MoneyKept DEF EM!Return, StripeTakes, Total
  <1> QED BY <1>2 DEF EM!Next

LEMMA MoneyMoves ==
  ASSUME Base, OneTransfer, [Next]_vars
  PROVE  [EM!Next]_(EM!vars)
PROOF
  <1> USE DEF Base
  <1>1. CASE StripeStep
    <2>1. CASE Pay
      <3>1. EM!Charge
        BY <2>1, MoneyKept DEF Pay, EM!Charge
      <3> QED BY <3>1 DEF EM!Next
    <2>2. CASE Decline \/ CancelIntent
      <3>1. UNCHANGED <<(intent = "succeeded"), transfers, refunded>>
        BY <2>2 DEF Decline, CancelIntent
      <3> QED BY <3>1, MoneyKept DEF EM!vars
    <2>3. ASSUME NEW k \in Attempts, TransferEnds(k) PROVE [EM!Next]_(EM!vars)
      <3>1. Live' = Live \/ (Live # {} /\ Live' = {})
        <4>1. Live' \in {Live, Live \ {k}} /\ k \in Live
          BY <2>3 DEF TransferEnds, Live, TypeOK
        <4> QED BY <4>1 DEF OneTransfer
      <3>2. UNCHANGED <<intent, refunded>>
        BY <2>3 DEF TransferEnds
      <3> QED BY <3>1, <3>2 DEF EM!Next, EM!ComeBack, EM!vars
    <2>4. ASSUME NEW r \in RefundRows, NEW n \in RefundAmounts, DashboardRefund(r, n)
          PROVE  [EM!Next]_(EM!vars)
      BY <2>4, MoneyReturns, EscrowAssumption DEF DashboardRefund, FreshRows
    <2> QED BY <1>1, <2>1, <2>2, <2>3, <2>4 DEF StripeStep
  <1>2. CASE \/ IntentSucceeded \/ IntentFailed \/ IntentCanceled \/ QueuePending
             \/ Release \/ RetryFailed \/ UNCHANGED vars
    BY <1>2, MoneyStutter DEF IntentSucceeded, IntentFailed, IntentCanceled, QueuePending,
       Release, RetryFailed, vars, stripe
  <1>3. ASSUME NEW k \in Attempts, TransferCreated(k) \/ TransferPaid(k) \/ TransferFailed(k)
        PROVE  [EM!Next]_(EM!vars)
    BY <1>3, MoneyStutter DEF TransferCreated, TransferPaid, TransferFailed, stripe
  <1>4. ASSUME NEW list, ChargeRefunded(list) PROVE [EM!Next]_(EM!vars)
    BY <1>4, MoneyStutter DEF ChargeRefunded, stripe
  <1>5. ASSUME NEW w \in PayWorkers, PayoutStep(w) PROVE [EM!Next]_(EM!vars)
    <2> DEFINE k == payJob[w].attempt
    <2>1. CASE PayoutAtStripe(w)
      <3>1. payJob[w].pc = "stripe" /\ (MakeTransfer(k) \/ RefuseTransfer(k))
        BY <2>1 DEF PayoutAtStripe
      <3>2. k \in Attempts /\ Live = {} /\ intent = "succeeded"
        BY <3>1 DEF OneTransfer, ChargedFirst
      <3>3. UNCHANGED <<intent, refunded>>
        BY <3>1 DEF MakeTransfer, RefuseTransfer
      <3>4. Live' \in {{}, {k}}
        BY <3>1, <3>2 DEF MakeTransfer, RefuseTransfer, Live, TypeOK
      <3>5. EM!Send(k) \/ UNCHANGED EM!vars
        BY <3>2, <3>3, <3>4 DEF EM!Send, EM!vars
      <3> QED BY <3>2, <3>5 DEF EM!Next
    <2>2. CASE ~ PayoutAtStripe(w)
      BY <1>5, <2>2, MoneyStutter DEF PayoutStep, PayoutLoad, PayoutStart, PayoutFail,
         PayoutStore, PayoutStops, stripe
    <2> QED BY <2>1, <2>2
  <1>6. ASSUME NEW c \in Refunders, RefundStep(c) PROVE [EM!Next]_(EM!vars)
    <2>1. CASE RefundAtStripe(c)
      <3>1. CASE UNCHANGED stripe
        BY <3>1, MoneyStutter DEF stripe
      <3>2. CASE /\ StripeTakes(refundJob[c].row, refundJob[c].amount)
                 /\ UNCHANGED <<intent, declined, transfers>>
        <4>1. refundJob[c].pc = "stripe"
          BY <2>1 DEF RefundAtStripe
        <4>2. /\ refundJob[c].row \in RefundRows /\ refundJob[c].row \notin AtStripe
              /\ refundJob[c].amount \in 1..Amount
          BY <4>1 DEF JobsHaveRows, OwnRefunds
        <4> QED BY <3>2, <4>2, MoneyReturns
      <3> QED BY <2>1, <3>1, <3>2 DEF RefundAtStripe
    <2>2. CASE ~ RefundAtStripe(c)
      BY <1>6, <2>2, MoneyStutter DEF RefundStep, RefundLoad, RefundCreate, RefundFail,
         RefundFinish, RefundStops, stripe
    <2> QED BY <2>1, <2>2
  <1> QED BY <1>1, <1>2, <1>3, <1>4, <1>5, <1>6 DEF Next, Webhook

(* Under the same assumption the detailed system implements EscrowMoney:   *)
(* the payer is charged once, the recipient is sent the money again only   *)
(* after it came back, and each refund is taken once and within the charge.*)
THEOREM EscrowImplementsMoney ==
  ASSUME LeasesHold
  PROVE  Spec => MovesMoneyLikeEscrow
PROOF
  <1>1. Init => EM!Init
    BY DEF Init, EM!Init, Live
  <1>2. Base /\ OneTransfer /\ [Next]_vars => [EM!Next]_(EM!vars)
    BY MoneyMoves
  <1> QED BY <1>1, <1>2, BaseHolds, OneTransferHolds, PTL
          DEF Spec, MovesMoneyLikeEscrow, EM!Spec

LEMMA Final ==
  ASSUME Base, [Next]_vars
  PROVE  /\ order \in {"REFUNDED", "CANCELLED"} => order' = order
         /\ payout.state \in {"PAID", "CANCELLED"} => payout' = payout
         /\ \A r \in RefundRows :
               refunds[r].state \in {"COMPLETED", "FAILED"} => refunds'[r] = refunds[r]
         /\ ledger \subseteq ledger'
PROOF
  <1> DEFINE Goal == /\ order \in {"REFUNDED", "CANCELLED"} => order' = order
                     /\ payout.state \in {"PAID", "CANCELLED"} => payout' = payout
                     /\ \A r \in RefundRows :
                           refunds[r].state \in {"COMPLETED", "FAILED"} =>
                               refunds'[r] = refunds[r]
                     /\ ledger \subseteq ledger'
  <1>0. refunds \in [RefundRows -> RefundRow]
    BY DEF Base, TypeOK
  <1>1. CASE StripeStep
    BY <1>1 DEF StripeStep, Pay, Decline, CancelIntent, TransferEnds, DashboardRefund, rows
  <1>2. CASE \/ IntentSucceeded \/ IntentFailed \/ IntentCanceled \/ QueuePending
             \/ RetryFailed \/ UNCHANGED vars
    BY <1>2 DEF IntentSucceeded, IntentFailed, IntentCanceled, QueuePending, RetryFailed,
       MayRetry, vars, rows
  <1>3. CASE Release
    <2>1. payout.state = "NONE"
      BY <1>3 DEF Release, Base, ChargedFirst
    <2> QED BY <1>3, <2>1 DEF Release
  <1>4. ASSUME NEW k \in Attempts, TransferCreated(k) \/ TransferPaid(k) \/ TransferFailed(k)
        PROVE  Goal
    BY <1>4 DEF TransferCreated, TransferPaid, TransferFailed, MayPay, Settled
  <1>5. ASSUME NEW list, ChargeRefunded(list) PROVE Goal
    <2>1. PICK new \in [Unknown(list) -> FreshRows] :
             refunds' = [q \in RefundRows |->
                IF \E s \in Unknown(list) : new[s] = q
                THEN LET s == CHOOSE s \in Unknown(list) : new[s] = q
                     IN [state |-> "COMPLETED", amount |-> AmountIn(list, s), stripe |-> s]
                ELSE refunds[q]]
      BY <1>5 DEF ChargeRefunded
    <2>2. ASSUME NEW r \in RefundRows, refunds[r].state \in {"COMPLETED", "FAILED"}
          PROVE  refunds'[r] = refunds[r]
      <3>1. ~ \E s \in Unknown(list) : new[s] = r
        BY <2>2 DEF FreshRows
      <3> QED BY <2>1, <3>1
    <2> QED BY <1>5, <2>2 DEF ChargeRefunded, Refunding
  <1>6. ASSUME NEW w \in PayWorkers, PayoutStep(w) PROVE Goal
    BY <1>6 DEF PayoutStep, PayoutLoad, PayoutStart, PayoutAtStripe, PayoutFail,
       PayoutStore, PayoutStops, rows
  <1>7. ASSUME NEW c \in Refunders, RefundStep(c) PROVE Goal
    <2>1. ASSUME NEW s \in RefundRows, RefundCreate(c, s) PROVE Goal
      BY <1>0, <2>1 DEF RefundCreate, FreshRows, CancelsPayout
    <2>2. CASE RefundFail(c) \/ RefundFinish(c)
      <3>1. \A r \in RefundRows : refunds[r].state # "PROCESSING" => refunds'[r] = refunds[r]
        BY <1>0, <2>2 DEF RefundFail, RefundFinish
      <3> QED BY <2>2, <3>1 DEF RefundFail, RefundFinish, Refunding
    <2>3. CASE \/ \E n \in RefundAmounts : RefundLoad(c, n)
               \/ RefundAtStripe(c) \/ RefundStops(c)
      BY <2>3 DEF RefundLoad, RefundAtStripe, RefundStops, rows
    <2> QED BY <1>7, <2>1, <2>2, <2>3 DEF RefundStep
  <1> QED BY <1>1, <1>2, <1>3, <1>4, <1>5, <1>6, <1>7 DEF Next, Webhook

(* What is over stays over (the sources of the transitions in              *)
(* payments/models), whatever leases were outlived: for every number of    *)
(* workers, refund calls and late or repeated webhooks.                    *)
THEOREM WhatIsOverStaysOver == Spec => NothingComesBack
PROOF
  <1>1. Base /\ [Next]_vars =>
          [/\ order \in {"REFUNDED", "CANCELLED"} => order' = order
           /\ payout.state \in {"PAID", "CANCELLED"} => payout' = payout
           /\ \A r \in RefundRows :
                 refunds[r].state \in {"COMPLETED", "FAILED"} => refunds'[r] = refunds[r]
           /\ ledger \subseteq ledger']_vars
    BY Final
  <1> QED BY <1>1, BaseHolds, PTL DEF Spec, NothingComesBack

(* No refund is booked that Stripe did not make, none twice, and none is   *)
(* called failed that it made (EscrowPayment.RefundsAreReal): for every    *)
(* number of overlapping refund calls, lost answers, refunds made in the   *)
(* dashboard, and late or repeated webhooks.                               *)
THEOREM BookedRefundsAreReal == Spec => []RefundsAreReal
PROOF
  <1>1. Init => RefundCalls /\ RealRefunds
    <2> SUFFICES ASSUME Init PROVE RefundCalls /\ RealRefunds
      OBVIOUS
    <2>1. /\ \A c \in Refunders : refundJob[c].pc = "idle"
          /\ \A r \in RefundRows : refunds[r].state = "NONE" /\ refunds[r].stripe = NoRow
          /\ PostedFor("reversal") = {}
      BY DEF Init, IdleRefundJob, PostedFor
    <2>2. RefundCalls
      BY <2>1 DEF RefundCalls, UnderWay
    <2>3. RealRefunds
      BY <2>1 DEF RealRefunds, Completed
    <2> QED BY <2>2, <2>3
  <1>2. Base /\ RefundCalls /\ RealRefunds /\ [Next]_vars => RefundCalls' /\ RealRefunds'
    BY RealNext DEF Base
  <1>3. RealRefunds => RefundsAreReal
    BY DEF RealRefunds, RefundsAreReal, Taken
  <1> QED BY <1>1, <1>2, <1>3, BaseHolds, PTL DEF Spec

LEMMA BooksHold == Spec => []Books
PROOF
  <1>1. Init => Books
    <2> SUFFICES ASSUME Init PROVE Books
      OBVIOUS
    <2>1. \A kind : PostedFor(kind) = {}
      BY DEF Init, PostedFor
    <2>2. BooksFollowOrder
      BY <2>1 DEF Init, BooksFollowOrder
    <2>3. CancelledBooks
      BY <2>1 DEF Init, CancelledBooks, UnderWay, IdleRefundJob
    <2> QED BY <2>1, <2>2, <2>3 DEF Books
  <1>2. Base /\ Books /\ [Next]_vars => Books'
    BY BooksNext DEF Base
  <1> QED BY <1>1, <1>2, BaseHolds, PTL DEF Spec

(* The books follow the order in every state (escrow.py, one transaction   *)
(* per transition), whatever leases were outlived and whatever came late.  *)
THEOREM BooksFollowTheOrder == Spec => []BooksFollowOrder
PROOF
  <1>1. Books => BooksFollowOrder
    BY DEF Books
  <1> QED BY <1>1, BooksHold, PTL

(* The recipient's balance is what the platform owes, for every amount and *)
(* fee (handlers.py:521-585, refund_service.py:866-893): a payout that is  *)
(* due is covered, a paid one is booked once, and a cancelled one is taken *)
(* back at most once.                                                      *)
THEOREM TheRecipientIsOwed == Spec => []RecipientIsOwed
PROOF
  <1>1. Books => RecipientIsOwed
    <2> SUFFICES ASSUME Books PROVE RecipientIsOwed
      OBVIOUS
    <2> DEFINE balance == UserIn - UserOut
    <2>1. payout.state = "NONE" => balance = 0
      <3> SUFFICES ASSUME payout.state = "NONE" PROVE balance = 0
        OBVIOUS
      <3>1. /\ <<"release", NoRow>> \notin ledger /\ <<"payout", NoRow>> \notin ledger
            /\ PostedFor("payout_cancel") = {}
        BY DEF Books, BooksFollowOrder, CancelledBooks
      <3>2. UserIn = 0 /\ UserOut = 0
        BY <3>1, FS_EmptySet, NetIsPositive, Times DEF UserIn, UserOut, Posted
      <3> QED BY <3>2
    <2>2. payout.state = "PAID" => balance = 0
      <3> SUFFICES ASSUME payout.state = "PAID" PROVE balance = 0
        OBVIOUS
      <3>1. /\ <<"release", NoRow>> \in ledger /\ <<"payout", NoRow>> \in ledger
            /\ PostedFor("payout_cancel") = {}
        BY DEF Books, BooksFollowOrder, CancelledBooks
      <3>2. UserIn = Net /\ UserOut = Net
        BY <3>1, FS_EmptySet, NetIsPositive, Times DEF UserIn, UserOut, Posted
      <3> QED BY <3>2, NetIsPositive
    <2>3. payout.state \in {"PENDING", "PROCESSING", "SCHEDULED", "FAILED"} => balance = Net
      BY DueIsCovered, NetIsPositive
    <2>4. payout.state = "CANCELLED" => balance \in {0, Net}
      <3> SUFFICES ASSUME payout.state = "CANCELLED" PROVE balance \in {0, Net}
        OBVIOUS
      <3>1. <<"release", NoRow>> \in ledger /\ <<"payout", NoRow>> \notin ledger
        BY DEF Books, BooksFollowOrder, CancelledBooks
      <3>2. Cardinality(PostedFor("payout_cancel")) \in {0, 1}
        <4>1. PICK r : PostedFor("payout_cancel") \subseteq {r}
          BY DEF Books, CancelledBooks
        <4>2. PostedFor("payout_cancel") \in {{}, {r}}
          BY <4>1
        <4> QED BY <4>2, FS_EmptySet, FS_Singleton
      <3>3. UserIn = Net /\ UserOut \in {0, Net}
        BY <3>1, <3>2, NetIsPositive, Times DEF UserIn, UserOut, Posted
      <3> QED BY <3>3, NetIsPositive
    <2> QED BY <2>1, <2>2, <2>3, <2>4 DEF RecipientIsOwed
  <1> QED BY <1>1, BooksHold, PTL
=============================================================================
