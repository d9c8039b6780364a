------------------------- MODULE Reconciliation_proofs -------------------------
(***************************************************************************)
(* Subscriptions, direct payments and payouts never say what Stripe does   *)
(* not, for any number of invoices, orders and months.  Each of the three  *)
(* has an invariant of its own, which the steps of the others leave alone. *)
(***************************************************************************)
EXTENDS Reconciliation, FiniteSetTheorems, TLAPS

(* What cancel_subscription has in its hands is as true as it was when it  *)
(* was read: Stripe's cancellation, a payment made and an attempt failed   *)
(* are never undone.                                                       *)
CallIsTrue ==
    /\ canceller.mode = "none" => canceller.copy = "NONE"
    /\ canceller.mode = "now" => stripeSub = "canceled"
    /\ canceller.copy = "CANCELLED" => stripeSub = "canceled"
    /\ canceller.copy \in {"ACTIVE", "PAST_DUE"} => credited # {}
    /\ canceller.copy = "PAST_DUE" => \E i \in Invoices : invoice[i].failed

CheckedArePaid == \A i \in checked : invoice[i].status = "paid"

SubInv ==
    /\ SubscriptionTypes
    /\ CallIsTrue /\ CheckedArePaid
    /\ InvoiceBookedOnce
    /\ SubscriptionFollowsStripe

DirectInv == DirectTypes /\ DirectFollowsStripe

RowStates == {"NONE", "PENDING", "PROCESSING", "SCHEDULED", "PAID", "FAILED"}

(* Settling an aggregated payout raises, so no entry ever books one: the   *)
(* sum that Balance takes has at most one summand.                         *)
OnlyOwnIsBooked == paidOut \subseteq {Own}

PayoutInv == PayoutTypes /\ OnlyOwnIsBooked /\ BooksOnlySentMoney

(* Each booking adds one invoice, so that what was earned is a number even *)
(* if Stripe issues invoices without end.                                  *)
CreditsAreCounted == IsFiniteSet(credited)

IInv == SubInv /\ CreditsAreCounted /\ DirectInv /\ PayoutInv

-----------------------------------------------------------------------------
LEMMA Initially == BillingInit => IInv
<1> SUFFICES ASSUME BillingInit PROVE IInv
    OBVIOUS
<1>1. SubInv
    BY DEF BillingInit, SubscriptionInit, SubInv, SubscriptionTypes, CallIsTrue,
       CheckedArePaid, InvoiceBookedOnce, SubscriptionFollowsStripe, NoCall, CancelCall,
       States
<1>2. DirectInv
    BY DEF BillingInit, DirectInit, DirectInv, DirectTypes, DirectFollowsStripe
<1>3. PayoutInv
    <2>1. Own \in Payouts
        BY BillingAssumption DEF Own, Payouts
    <2>2. \A p \in Payouts : payouts[p].state # "PAID"
        BY DEF BillingInit, PayoutInit, NewPayout, NoPayout
    <2>3. PayoutTypes
        BY BillingAssumption
        DEF BillingInit, PayoutInit, PayoutTypes, PayoutRow, NewPayout, NoPayout, Idle
    <2> QED BY <2>1, <2>2, <2>3
            DEF BillingInit, PayoutInit, PayoutInv, OnlyOwnIsBooked, BooksOnlySentMoney
<1>4. CreditsAreCounted
    BY FS_EmptySet DEF BillingInit, SubscriptionInit, CreditsAreCounted
<1> QED BY <1>1, <1>2, <1>3, <1>4 DEF IInv

-----------------------------------------------------------------------------
(* The subscription.                                                       *)

LEMMA StripeKeepsSub ==
    ASSUME SubInv,
           StripeCancels \/ \E i \in Invoices : IssueInvoice(i) \/ AttemptFails(i) \/ InvoicePaid(i)
    PROVE  SubInv'
<1> USE DEF SubInv, subRows
<1>1. CASE StripeCancels
    BY <1>1 DEF StripeCancels, SubscriptionTypes, CallIsTrue, CheckedArePaid,
       InvoiceBookedOnce, SubscriptionFollowsStripe
<1>2. ASSUME NEW i \in Invoices, IssueInvoice(i) \/ AttemptFails(i) \/ InvoicePaid(i)
      PROVE  SubInv'
    <2>1. /\ UNCHANGED <<subscription, orders, credited, checked, canceller, stripeSub>>
          /\ invoice' \in [Invoices -> [status : {"none", "open", "paid"}, failed : BOOLEAN]]
          /\ \A j \in Invoices : /\ invoice[j].status = "paid" => invoice'[j].status = "paid"
                                 /\ invoice[j].failed => invoice'[j].failed
        <3>1. UNCHANGED <<subscription, orders, credited, checked, canceller, stripeSub>>
            BY <1>2 DEF IssueInvoice, AttemptFails, InvoicePaid
        <3>2. PICK row \in [status : {"none", "open", "paid"}, failed : BOOLEAN] :
                 /\ invoice' = [invoice EXCEPT ![i] = row]
                 /\ invoice[i].status = "paid" => row.status = "paid"
                 /\ invoice[i].failed => row.failed
            <4> DEFINE Row == [status : {"none", "open", "paid"}, failed : BOOLEAN]
            <4>1. invoice[i] \in Row
                BY DEF SubscriptionTypes
            <4>2. CASE IssueInvoice(i)
                <5> DEFINE row == [invoice[i] EXCEPT !.status = "open"]
                <5>1. row \in Row /\ row.failed = invoice[i].failed
                    BY <4>1
                <5>2. invoice' = [invoice EXCEPT ![i] = row] /\ invoice[i].status # "paid"
                    BY <4>2 DEF IssueInvoice
                <5> QED BY <5>1, <5>2
            <4>3. CASE AttemptFails(i)
                <5> DEFINE row == [invoice[i] EXCEPT !.failed = TRUE]
                <5>1. row \in Row /\ row.status = invoice[i].status /\ row.failed
                    BY <4>1
                <5>2. invoice' = [invoice EXCEPT ![i] = row]
                    BY <4>3 DEF AttemptFails
                <5> QED BY <5>1, <5>2
            <4>4. CASE InvoicePaid(i)
                <5> DEFINE row == [invoice[i] EXCEPT !.status = "paid"]
                <5>1. row \in Row /\ row.failed = invoice[i].failed /\ row.status = "paid"
                    BY <4>1
                <5>2. invoice' = [invoice EXCEPT ![i] = row]
                    BY <4>4 DEF InvoicePaid
                <5> QED BY <5>1, <5>2
            <4> QED BY <1>2, <4>2, <4>3, <4>4
        <3> QED BY <3>1, <3>2 DEF SubscriptionTypes
    <2>2. SubscriptionTypes' /\ CheckedArePaid' /\ InvoiceBookedOnce'
        BY <2>1 DEF SubscriptionTypes, CheckedArePaid, InvoiceBookedOnce
    <2>3. CallIsTrue' /\ SubscriptionFollowsStripe'
        BY <2>1 DEF CallIsTrue, SubscriptionFollowsStripe
    <2> QED BY <2>2, <2>3
<1> QED BY <1>1, <1>2

LEMMA CallerKeepsSub ==
    ASSUME SubInv,
           CreateSubscription \/ SaveCancel
              \/ \E mode \in {"now", "period_end"} : CancelAtStripe(mode)
    PROVE  SubInv'
<1> USE DEF SubInv, subRows, subStripe
<1>1. CASE CreateSubscription
    BY <1>1 DEF CreateSubscription, SubscribedAtStripe, SubscriptionTypes, CallIsTrue,
       CheckedArePaid, InvoiceBookedOnce, SubscriptionFollowsStripe, States
<1>2. ASSUME NEW mode \in {"now", "period_end"}, CancelAtStripe(mode) PROVE SubInv'
    <2>1. /\ UNCHANGED <<subscription, orders, credited, checked, invoice>>
          /\ canceller' = [mode |-> mode, copy |-> subscription]
          /\ stripeSub = "open" /\ stripeSub' = IF mode = "now" THEN "canceled" ELSE stripeSub
        BY <1>2 DEF CancelAtStripe, CanceledAtStripe
    <2>2. SubscriptionTypes' /\ CheckedArePaid' /\ InvoiceBookedOnce'
        BY <2>1 DEF SubscriptionTypes, CheckedArePaid, InvoiceBookedOnce, CancelCall
    <2>3. CallIsTrue' /\ SubscriptionFollowsStripe'
        BY <2>1 DEF CallIsTrue, SubscriptionFollowsStripe
    <2> QED BY <2>2, <2>3
<1>3. CASE SaveCancel
    <2>1. /\ UNCHANGED <<orders, credited, checked, stripeSub, invoice>>
          /\ canceller' = NoCall /\ canceller \in CancelCall /\ subscription \in States
          /\ \/ subscription' = canceller.copy
             \/ subscription' = "CANCELLED" /\ canceller.mode = "now"
             \/ subscription' = subscription
        <3>1. /\ UNCHANGED <<orders, credited, checked, stripeSub, invoice>>
              /\ canceller' = NoCall /\ canceller # NoCall
              /\ canceller \in CancelCall /\ subscription \in States
            BY <1>3 DEF SaveCancel, SubscriptionTypes
        <3>2. canceller.mode # "period_end" /\ MayCancel(canceller.copy)
                 => canceller.mode = "now"
            BY <3>1 DEF CallIsTrue, CancelCall, NoCall, MayCancel
        <3> QED BY <1>3, <3>1, <3>2 DEF SaveCancel
    <2>2. SubscriptionTypes' /\ CheckedArePaid' /\ InvoiceBookedOnce'
        BY <2>1 DEF SubscriptionTypes, CheckedArePaid, InvoiceBookedOnce, CancelCall,
           NoCall, States
    <2>3. CallIsTrue' /\ SubscriptionFollowsStripe'
        BY <2>1 DEF CallIsTrue, SubscriptionFollowsStripe, NoCall
    <2> QED BY <2>2, <2>3
<1> QED BY <1>1, <1>2, <1>3

LEMMA HandlersKeepSub ==
    ASSUME SubInv,
           \/ \E i \in Invoices : \/ FindNoOrder(i) \/ HandleInvoicePaid(i)
                                  \/ HandleInvoicePaymentFailed(i)
           \/ HandleSubscriptionDeleted
    PROVE  SubInv'
<1> USE DEF SubInv, subRows, subStripe
<1>1. ASSUME NEW i \in Invoices, FindNoOrder(i) PROVE SubInv'
    BY <1>1 DEF FindNoOrder, SubscriptionTypes, CallIsTrue, CheckedArePaid,
       InvoiceBookedOnce, SubscriptionFollowsStripe
<1>2. ASSUME NEW i \in Invoices, HandleInvoicePaid(i) PROVE SubInv'
    <2>1. /\ UNCHANGED <<checked, canceller, stripeSub, invoice>>
          /\ i \in checked /\ invoice[i].status = "paid"
          /\ orders[i] = 0 /\ orders' = [orders EXCEPT ![i] = 1]
          /\ subscription \in States \ {"NONE"}
          /\ \/ credited' = credited \cup {i} /\ subscription' = AfterPayment(subscription)
             \/ UNCHANGED <<credited, subscription>>
        BY <1>2 DEF HandleInvoicePaid, UniqueInvoice, SettleInvoice, CreditEntries,
           CheckedArePaid, SubscriptionTypes
    <2>2. subscription' \in {subscription, "ACTIVE"}
        BY <2>1 DEF AfterPayment
    <2>3. SubscriptionTypes' /\ CheckedArePaid'
        BY <2>1, <2>2 DEF SubscriptionTypes, CheckedArePaid, States
    <2>4. InvoiceBookedOnce'
        BY <2>1 DEF SubscriptionTypes, InvoiceBookedOnce
    <2>5. CallIsTrue'
        BY <2>1 DEF CallIsTrue
    <2>6. SubscriptionFollowsStripe'
        BY <2>1, <2>2 DEF SubscriptionFollowsStripe
    <2> QED BY <2>3, <2>4, <2>5, <2>6
<1>3. ASSUME NEW i \in Invoices, HandleInvoicePaymentFailed(i) PROVE SubInv'
    BY <1>3 DEF HandleInvoicePaymentFailed, MayFallDue, SubscriptionTypes, CallIsTrue,
       CheckedArePaid, InvoiceBookedOnce, SubscriptionFollowsStripe, States
<1>4. CASE HandleSubscriptionDeleted
    BY <1>4 DEF HandleSubscriptionDeleted, SubscriptionTypes, CallIsTrue, CheckedArePaid,
       InvoiceBookedOnce, SubscriptionFollowsStripe, States
<1> QED BY <1>1, <1>2, <1>3, <1>4

LEMMA HealKeepsSub == ASSUME SubInv, ReconcileSubscription PROVE SubInv'
BY DEF ReconcileSubscription, CancelledUnseen, EndedAtStripe, HealSubscriptionCancelled,
   SubInv, SubscriptionTypes, CallIsTrue, CheckedArePaid, InvoiceBookedOnce,
   SubscriptionFollowsStripe, States, subStripe

LEMMA SubIsLeftAlone == ASSUME SubInv, UNCHANGED subVars PROVE SubInv'
BY DEF subVars, subRows, subStripe, SubInv, SubscriptionTypes, CallIsTrue, CheckedArePaid,
   InvoiceBookedOnce, SubscriptionFollowsStripe

-----------------------------------------------------------------------------
(* Direct orders.                                                          *)

LEMMA DirectKeeps == ASSUME DirectInv, DirectNext PROVE DirectInv'
<1> USE DEF DirectInv, DirectTypes, DirectFollowsStripe
<1> PICK o \in DirectOrders :
       \/ InitiatePayment(o)
       \/ \E end \in {"succeeded", "canceled"} : IntentEnds(o, end)
       \/ AttemptDeclined(o)
       \/ DirectSucceeded(o) \/ DirectFailed(o) \/ DirectCanceled(o)
    BY DEF DirectNext
<1>1. CASE InitiatePayment(o)
    BY <1>1 DEF InitiatePayment, CreatePayment, CreateIntent
<1>2. ASSUME NEW end \in {"succeeded", "canceled"}, IntentEnds(o, end) PROVE DirectInv'
    BY <1>2 DEF IntentEnds
<1>3. CASE AttemptDeclined(o)
    BY <1>3 DEF AttemptDeclined
<1>4. CASE DirectSucceeded(o)
    BY <1>4 DEF DirectSucceeded, Succeeded, SettleDirect, BecomeDirect, RecordEntries
<1>5. CASE DirectFailed(o)
    BY <1>5 DEF DirectFailed, FailDirect, BecomeDirect
<1>6. CASE DirectCanceled(o)
    BY <1>6 DEF DirectCanceled, BecomeDirect
<1> QED BY <1>1, <1>2, <1>3, <1>4, <1>5, <1>6

LEMMA DirectIsLeftAlone == ASSUME DirectInv, UNCHANGED directVars PROVE DirectInv'
BY DEF directVars, DirectInv, DirectTypes, DirectFollowsStripe

-----------------------------------------------------------------------------
(* Payouts.  No step takes a row out of PAID, and no transfer that has     *)
(* arrived is undone.                                                      *)

LEMMA EditedRow ==
    ASSUME NEW row \in PayoutRow, NEW state \in RowStates, NEW known \in Nat
    PROVE  /\ row.state \in RowStates
           /\ [row EXCEPT !.state = state] \in PayoutRow
           /\ [row EXCEPT !.state = state].state = state
           /\ [row EXCEPT !.known = known] \in PayoutRow
           /\ [row EXCEPT !.known = known].state = row.state
           /\ [row EXCEPT !.known = known, !.state = state] \in PayoutRow
           /\ [row EXCEPT !.known = known, !.state = state].state = state
BY DEF PayoutRow, RowStates

LEMMA OneRowChanges ==
    ASSUME PayoutTypes, NEW p \in Payouts, NEW row \in PayoutRow,
           payouts' = [payouts EXCEPT ![p] = row]
    PROVE  /\ payouts' \in [Payouts -> PayoutRow]
           /\ payouts'[p] = row
           /\ \A q \in Payouts : q # p => payouts'[q] = payouts[q]
BY DEF PayoutTypes

LEMMA BecomeWrites ==
    ASSUME PayoutTypes, NEW p \in Payouts,
           NEW state \in {"PROCESSING", "SCHEDULED", "PAID", "FAILED"},
           Become(p, state)
    PROVE  /\ payouts' \in [Payouts -> PayoutRow]
           /\ payouts'[p].state = state
           /\ \A q \in Payouts : q # p => payouts'[q] = payouts[q]
<1> DEFINE row == [payouts[p] EXCEPT !.state = state]
<1>1. row \in PayoutRow /\ row.state = state
    <2>1. payouts[p] \in PayoutRow /\ state \in RowStates
        BY DEF PayoutTypes, RowStates
    <2> QED BY <2>1, EditedRow
<1>2. payouts' = [payouts EXCEPT ![p] = row]
    BY DEF Become
<1> HIDE DEF row
<1> QED BY <1>1, <1>2, OneRowChanges

(* One row is written, and PAID only if a transfer has arrived.            *)
LEMMA RowWritten ==
    ASSUME PayoutInv, NEW p \in Payouts,
           payouts' \in [Payouts -> PayoutRow],
           \A q \in Payouts : q # p => payouts'[q] = payouts[q],
           UNCHANGED transfer,
           worker' \in [Payouts -> [step : {"idle", "call", "store"}, made : Nat]],
           payouts[p].state = "PAID" => payouts'[p].state = "PAID",
           payouts'[p].state = "PAID" => payouts[p].state = "PAID" \/ SomeArrived(p),
           \/ paidOut' = paidOut
           \/ p = Own /\ paidOut' = paidOut \cup {p} /\ payouts'[p].state = "PAID",
           \/ ownOrder' = ownOrder
           \/ p = Own /\ ownOrder' = "SETTLED" /\ payouts'[p].state = "PAID"
    PROVE  PayoutInv'
<1>1. Own \in Payouts
    BY BillingAssumption DEF Own, Payouts
<1>2. PayoutTypes' /\ OnlyOwnIsBooked'
    BY DEF PayoutInv, PayoutTypes, OnlyOwnIsBooked
<1>3. \A q \in Payouts : SomeArrived(q)' = SomeArrived(q)
    BY DEF SomeArrived
<1>4. BooksOnlySentMoney'
    <2>1. \A q \in Payouts : payouts'[q].state = "PAID" => SomeArrived(q)'
        BY <1>3 DEF PayoutInv, BooksOnlySentMoney
    <2>2. \A q \in paidOut' : payouts'[q].state = "PAID"
        BY DEF PayoutInv, PayoutTypes, BooksOnlySentMoney
    <2>3. ownOrder' = "SETTLED" => payouts'[Own].state = "PAID"
        BY <1>1 DEF PayoutInv, BooksOnlySentMoney
    <2> QED BY <2>1, <2>2, <2>3 DEF BooksOnlySentMoney
<1> QED BY <1>2, <1>4 DEF PayoutInv

(* Stripe's transfers and the workers move on, and no row is written.      *)
LEMMA RowsStay ==
    ASSUME PayoutInv, UNCHANGED <<payouts, paidOut, ownOrder>>,
           transfer' \in [Payouts -> Seq({"made", "paid", "failed"})],
           \A q \in Payouts : SomeArrived(q) => SomeArrived(q)',
           worker' \in [Payouts -> [step : {"idle", "call", "store"}, made : Nat]]
    PROVE  PayoutInv'
BY DEF PayoutInv, PayoutTypes, OnlyOwnIsBooked, BooksOnlySentMoney

(* The row of a new payout, whose amount is a number of cents.             *)
LEMMA NewRowIsPayout ==
    \A amount \in Nat : NewPayout(amount) \in PayoutRow /\ NewPayout(amount).state = "PENDING"
BY DEF NewPayout, PayoutRow

(* The sum over the payouts that are booked: nothing, or the amount of the *)
(* escrow order's.                                                         *)
LEMMA SumOfBooked ==
    ASSUME PayoutTypes, OnlyOwnIsBooked
    PROVE  Amounts(paidOut) = IF paidOut = {} THEN 0 ELSE payouts[Own].amount
<1> DEFINE First(s) == CHOOSE p \in s : TRUE
           IsSums(f) == f = [s \in SUBSET paidOut |->
                                IF s = {} THEN 0
                                ELSE payouts[First(s)].amount + f[s \ {First(s)}]]
           Sums == CHOOSE f : IsSums(f)
           known == [s \in SUBSET paidOut |-> IF s = {} THEN 0 ELSE payouts[Own].amount]
<1>1. Amounts(paidOut) = Sums[paidOut]
    BY DEF Amounts, MapThenSumSet, MapThenFoldSet
<1>2. payouts[Own].amount \in Nat
    BY BillingAssumption DEF PayoutTypes, PayoutRow, Own, Payouts
<1>3. \A s \in SUBSET paidOut : s # {} => First(s) = Own /\ s \ {First(s)} = {}
    BY DEF OnlyOwnIsBooked
<1> HIDE DEF First
<1>4. IsSums(known)
    BY <1>2, <1>3
<1>5. IsSums(Sums)
    <2> HIDE DEF IsSums
    <2> QED BY <1>4
<1> HIDE DEF Sums
<1>6. Sums[{}] = 0
    BY <1>5
<1>7. ASSUME paidOut # {} PROVE Sums[paidOut] = payouts[Own].amount
    <2>1. Sums[paidOut] = payouts[First(paidOut)].amount + Sums[paidOut \ {First(paidOut)}]
        BY <1>5, <1>7
    <2>2. First(paidOut) = Own /\ paidOut \ {First(paidOut)} = {}
        BY <1>3, <1>7
    <2>3. Sums[paidOut] = payouts[Own].amount + 0
        BY <1>6, <2>1, <2>2
    <2> HIDE DEF IsSums, known
    <2> QED BY <1>2, <2>3
<1> QED BY <1>1, <1>6, <1>7

LEMMA BalanceType ==
    ASSUME PayoutTypes, OnlyOwnIsBooked, CreditsAreCounted
    PROVE  Balance \in Int
<1>1. payouts[Own].amount \in Nat
    BY BillingAssumption DEF PayoutTypes, PayoutRow, Own, Payouts
<1>2. Amounts(paidOut) \in Nat
    BY <1>1, SumOfBooked
<1>3. Cardinality(credited) \in Nat
    BY FS_CardinalityType DEF CreditsAreCounted
<1>4. Net * Cardinality(credited) \in Nat
    BY <1>3, BillingAssumption
<1> QED BY <1>2, <1>4, BillingAssumption DEF Balance, Earned

LEMMA WorkerRange ==
    ASSUME PayoutTypes, NEW p \in Payouts,
           NEW step \in {"idle", "call", "store"}, NEW i \in Nat,
           worker' = [worker EXCEPT ![p] = [step |-> step, made |-> i]]
    PROVE  worker' \in [Payouts -> [step : {"idle", "call", "store"}, made : Nat]]
BY DEF PayoutTypes

LEMMA TransferMade ==
    ASSUME PayoutTypes, NEW p \in Payouts,
           transfer' = [transfer EXCEPT ![p] = Append(@, "made")]
    PROVE  /\ transfer' \in [Payouts -> Seq({"made", "paid", "failed"})]
           /\ \A q \in Payouts : SomeArrived(q) => SomeArrived(q)'
<1>1. /\ transfer[p] \in Seq({"made", "paid", "failed"})
      /\ transfer'[p] = Append(transfer[p], "made")
      /\ \A q \in Payouts : q # p => transfer'[q] = transfer[q]
    BY DEF PayoutTypes
<1>2. /\ transfer'[p] \in Seq({"made", "paid", "failed"})
      /\ \A i \in DOMAIN transfer[p] :
            i \in DOMAIN transfer'[p] /\ transfer'[p][i] = transfer[p][i]
    BY <1>1
<1> QED BY <1>1, <1>2 DEF PayoutTypes, SomeArrived

LEMMA TransferEnded ==
    ASSUME PayoutTypes, NEW p \in Payouts, NEW i \in DOMAIN transfer[p],
           NEW end \in {"paid", "failed"}, transfer[p][i] = "made",
           transfer' = [transfer EXCEPT ![p][i] = end]
    PROVE  /\ transfer' \in [Payouts -> Seq({"made", "paid", "failed"})]
           /\ \A q \in Payouts : SomeArrived(q) => SomeArrived(q)'
<1>1. /\ transfer[p] \in Seq({"made", "paid", "failed"})
      /\ transfer'[p] = [transfer[p] EXCEPT ![i] = end]
      /\ \A q \in Payouts : q # p => transfer'[q] = transfer[q]
    BY DEF PayoutTypes
<1>2. /\ transfer'[p] \in Seq({"made", "paid", "failed"})
      /\ \A j \in DOMAIN transfer[p] :
            /\ j \in DOMAIN transfer'[p]
            /\ transfer[p][j] = "paid" => transfer'[p][j] = "paid"
    BY <1>1
<1> QED BY <1>1, <1>2 DEF PayoutTypes, SomeArrived

-----------------------------------------------------------------------------
LEMMA TasksKeepPayouts ==
    ASSUME PayoutInv, CreditsAreCounted, NEW p \in Payouts,
           CreateMonthlyPayout(p) \/ RetryFailedPayout(p)
    PROVE  PayoutInv'
<1>1. PayoutTypes /\ UNCHANGED <<transfer, worker, paidOut, ownOrder>>
    BY DEF PayoutInv, CreateMonthlyPayout, RetryFailedPayout, bookVars
<1>2. CASE CreateMonthlyPayout(p)
    <2>1. /\ payouts[p].state # "PAID"
          /\ payouts' = [payouts EXCEPT ![p] = NewPayout(Balance)]
          /\ Balance >= Threshold
        BY <1>2 DEF CreateMonthlyPayout
    <2>2. Balance \in Nat
        BY <1>1, <2>1, BalanceType, BillingAssumption DEF PayoutInv
    <2>3. NewPayout(Balance) \in PayoutRow /\ NewPayout(Balance).state = "PENDING"
        BY <2>2, NewRowIsPayout
    <2> HIDE DEF NewPayout, PayoutRow
    <2>4. /\ payouts' \in [Payouts -> PayoutRow]
          /\ payouts'[p] = NewPayout(Balance)
          /\ \A q \in Payouts : q # p => payouts'[q] = payouts[q]
        BY <1>1, <2>1, <2>3, OneRowChanges
    <2> QED BY <1>1, <2>1, <2>3, <2>4, RowWritten DEF PayoutTypes
<1>3. CASE RetryFailedPayout(p)
    <2> DEFINE amount == payouts[p].amount
    <2>1. /\ payouts[p].state # "PAID"
          /\ payouts' = [payouts EXCEPT ![p] = NewPayout(amount)]
        BY <1>3 DEF RetryFailedPayout
    <2>2. NewPayout(amount) \in PayoutRow /\ NewPayout(amount).state = "PENDING"
        BY <1>1, NewRowIsPayout DEF PayoutTypes, PayoutRow
    <2> HIDE DEF amount
    <2>3. /\ payouts' \in [Payouts -> PayoutRow]
          /\ payouts'[p] = NewPayout(amount)
          /\ \A q \in Payouts : q # p => payouts'[q] = payouts[q]
        BY <1>1, <2>1, <2>2, OneRowChanges
    <2> QED BY <1>1, <2>1, <2>2, <2>3, RowWritten DEF PayoutTypes
<1> QED BY <1>2, <1>3

LEMMA WorkersKeepPayouts ==
    ASSUME PayoutInv, NEW p \in Payouts, ExecutePayout(p) \/ WorkerStops(p)
    PROVE  PayoutInv'
<1>1. PayoutTypes /\ UNCHANGED <<paidOut, ownOrder>>
    BY DEF PayoutInv, ExecutePayout, BeginPayout, CallStripe, CallRaises, CallRefused,
       StoreTransferId, WorkerStops, bookVars
<1>2. worker' = [worker EXCEPT ![p] = Idle]
         => worker' \in [Payouts -> [step : {"idle", "call", "store"}, made : Nat]]
    BY <1>1, WorkerRange DEF Idle
<1>3. CASE BeginPayout(p)
    <2>1. /\ payouts[p].state # "PAID" /\ Become(p, "PROCESSING") /\ UNCHANGED transfer
          /\ worker' = [worker EXCEPT ![p] = [step |-> "call", made |-> 0]]
        BY <1>3 DEF BeginPayout, Payable
    <2> QED BY <1>1, <2>1, WorkerRange, BecomeWrites, RowWritten
<1>4. ASSUME NEW i \in 1..Transfers, CallStripe(p, i) PROVE PayoutInv'
    <2>1. /\ UNCHANGED payouts /\ MakesTransfer(p, i)
          /\ worker' = [worker EXCEPT ![p] = [step |-> "store", made |-> i]]
        BY <1>4 DEF CallStripe
    <2>0. i \in Nat
        BY BillingAssumption
    <2>2. worker' \in [Payouts -> [step : {"idle", "call", "store"}, made : Nat]]
        BY <1>1, <2>0, <2>1, WorkerRange
    <2>3. CASE transfer' = [transfer EXCEPT ![p] = Append(@, "made")]
        BY <1>1, <2>1, <2>2, <2>3, TransferMade, RowsStay
    <2>4. CASE UNCHANGED transfer
        BY <1>1, <2>1, <2>2, <2>4, RowsStay DEF PayoutTypes, SomeArrived
    <2> QED BY <2>1, <2>3, <2>4 DEF MakesTransfer
<1>5. CASE CallRaises(p) \/ WorkerStops(p)
    BY <1>1, <1>2, <1>5, RowsStay DEF CallRaises, WorkerStops, PayoutTypes, SomeArrived
<1>6. CASE CallRefused(p)
    <2>1. UNCHANGED transfer /\ worker' = [worker EXCEPT ![p] = Idle]
        BY <1>6 DEF CallRefused
    <2>2. CASE payouts[p].state \in UnderWay
        <3>1. Become(p, "FAILED") /\ payouts[p].state # "PAID"
            BY <1>6, <2>2 DEF CallRefused, UnderWay
        <3> QED BY <1>1, <1>2, <2>1, <3>1, BecomeWrites, RowWritten
    <2>3. CASE UNCHANGED payouts
        BY <1>1, <1>2, <2>1, <2>3, RowsStay DEF PayoutTypes, SomeArrived
    <2> QED BY <1>6, <2>2, <2>3 DEF CallRefused
<1>7. CASE StoreTransferId(p)
    <2>1. UNCHANGED transfer /\ worker' = [worker EXCEPT ![p] = Idle]
        BY <1>7 DEF StoreTransferId
    <2>2. CASE payouts[p].state = "PROCESSING"
        <3> DEFINE known == worker[p].made
                   row == [payouts[p] EXCEPT !.known = known]
        <3>1. payouts' = [payouts EXCEPT ![p] = row]
            BY <1>7, <2>2 DEF StoreTransferId
        <3>2. known \in Nat /\ payouts[p] \in PayoutRow /\ "PROCESSING" \in RowStates
            BY <1>1 DEF PayoutTypes, RowStates
        <3> HIDE DEF known
        <3>3. row \in PayoutRow /\ row.state = "PROCESSING"
            BY <2>2, <3>2, EditedRow
        <3> HIDE DEF row
        <3>4. /\ payouts' \in [Payouts -> PayoutRow] /\ payouts'[p] = row
              /\ \A q \in Payouts : q # p => payouts'[q] = payouts[q]
            BY <1>1, <3>1, <3>3, OneRowChanges
        <3> QED BY <1>1, <1>2, <2>1, <2>2, <3>3, <3>4, RowWritten
    <2>3. CASE UNCHANGED payouts
        BY <1>1, <1>2, <2>1, <2>3, RowsStay DEF PayoutTypes, SomeArrived
    <2> QED BY <1>7, <2>2, <2>3 DEF StoreTransferId
<1> QED BY <1>3, <1>4, <1>5, <1>6, <1>7 DEF ExecutePayout

LEMMA EventsKeepPayouts ==
    ASSUME PayoutInv, NEW p \in Payouts,
           \/ \E i \in DOMAIN transfer[p] : TransferEnds(p, i)
           \/ HandleTransferCreated(p) \/ HandleTransferPaid(p) \/ HandleTransferFailed(p)
    PROVE  PayoutInv'
<1>1. PayoutTypes /\ UNCHANGED worker
    BY DEF PayoutInv, TransferEnds, HandleTransferCreated, HandleTransferPaid,
       HandleTransferFailed, bookVars
<1>2. ASSUME NEW i \in DOMAIN transfer[p], TransferEnds(p, i) PROVE PayoutInv'
    <2>1. UNCHANGED <<payouts, paidOut, ownOrder>> /\ transfer[p][i] = "made"
        BY <1>2 DEF TransferEnds, bookVars
    <2>2. PICK end \in {"paid", "failed"} : transfer' = [transfer EXCEPT ![p][i] = end]
        BY <1>2 DEF TransferEnds
    <2> QED BY <1>1, <2>1, <2>2, TransferEnded, RowsStay DEF PayoutTypes
<1>3. ASSUME NEW state \in {"SCHEDULED", "FAILED"}, Become(p, state),
             payouts[p].state # "PAID", UNCHANGED <<transfer, worker, bookVars>>
      PROVE  PayoutInv'
    BY <1>1, <1>3, BecomeWrites, RowWritten DEF PayoutTypes, bookVars
<1>4. CASE HandleTransferCreated(p)
    BY <1>3, <1>4 DEF HandleTransferCreated
<1>5. CASE HandleTransferFailed(p)
    BY <1>3, <1>5 DEF HandleTransferFailed, UnderWay
<1>6. CASE HandleTransferPaid(p)
    <2>1. /\ SomeArrived(p) /\ UNCHANGED transfer
          /\ p = Own /\ ownOrder' = "SETTLED" /\ Become(p, "PAID")
          /\ paidOut' = paidOut \/ paidOut' = paidOut \cup {p}
        BY <1>6 DEF HandleTransferPaid, KnownIs, SomeArrived, RecordCompletion, SettleOrderOf
    <2> QED BY <1>1, <2>1, BecomeWrites, RowWritten DEF PayoutTypes
<1> QED BY <1>2, <1>4, <1>5, <1>6

LEMMA HealKeepsPayouts ==
    ASSUME PayoutInv, NEW p \in Payouts, ReconcilePayout(p)
    PROVE  PayoutInv'
<1>1. PayoutTypes /\ UNCHANGED <<transfer, worker, paidOut, ownOrder>>
    BY DEF PayoutInv, ReconcilePayout, BackfillTransferId, HealPayoutComplete, bookVars
<1>2. CASE HealPayoutComplete(p)
    <2>1. Become(p, "PAID") /\ SomeArrived(p)
        BY <1>2 DEF HealPayoutComplete, TransferPaidUnseen, PaidAtStripe, SomeArrived
    <2> QED BY <1>1, <2>1, BecomeWrites, RowWritten DEF PayoutTypes
<1>3. CASE BackfillTransferId(p)
    <2> DEFINE newest == Len(transfer[p])
               state == IF PaidAtStripe(p, newest) THEN "PAID" ELSE payouts[p].state
               row == [payouts[p] EXCEPT !.known = newest, !.state = state]
    <2>1. payouts[p].state = "PROCESSING"
        BY <1>3 DEF BackfillTransferId, FoundByMetadata
    <2>2. /\ state \in RowStates /\ newest \in Nat /\ payouts[p] \in PayoutRow
          /\ state = "PAID" => SomeArrived(p)
        BY <1>1, <2>1 DEF PayoutTypes, RowStates, PaidAtStripe, SomeArrived
    <2>3. payouts' = [payouts EXCEPT ![p] = row]
        BY <1>1, <1>3 DEF BackfillTransferId, PayoutTypes
    <2> HIDE DEF state, newest
    <2>4. row \in PayoutRow /\ row.state = state
        BY <2>2, EditedRow
    <2> HIDE DEF row
    <2>5. /\ payouts' \in [Payouts -> PayoutRow] /\ payouts'[p] = row
          /\ \A q \in Payouts : q # p => payouts'[q] = payouts[q]
        BY <1>1, <2>3, <2>4, OneRowChanges
    <2> QED BY <1>1, <2>1, <2>2, <2>4, <2>5, RowWritten DEF PayoutTypes
<1> QED BY <1>2, <1>3 DEF ReconcilePayout

LEMMA PayoutsAreLeftAlone == ASSUME PayoutInv, UNCHANGED payoutVars PROVE PayoutInv'
BY DEF payoutVars, bookVars, PayoutInv, PayoutTypes, OnlyOwnIsBooked, BooksOnlySentMoney,
   SomeArrived

-----------------------------------------------------------------------------
LEMMA CreditsStayCounted ==
    ASSUME CreditsAreCounted, [BillingNext]_billingVars
    PROVE  CreditsAreCounted'
<1>1. credited' = credited \/ \E i \in Invoices : credited' = credited \cup {i}
    BY DEF BillingNext, billingVars, subVars, subRows, subStripe, SubscriptionNext,
       IssueInvoice, AttemptFails, InvoicePaid, StripeCancels, CreateSubscription,
       CancelAtStripe, SaveCancel, FindNoOrder, HandleInvoicePaid, SettleInvoice,
       CreditEntries, HandleInvoicePaymentFailed, HandleSubscriptionDeleted,
       RunReconciliation, RunWithLock, ReconcileSingle, ReconcileOrder,
       HealPaymentSucceeded, ReconcilePayout, ReconcileSubscription,
       HealSubscriptionCancelled
<1> QED BY <1>1, FS_AddElement DEF CreditsAreCounted

LEMMA StepKeeps == IInv /\ [BillingNext]_billingVars => IInv'
<1> SUFFICES ASSUME IInv, [BillingNext]_billingVars PROVE IInv'
    OBVIOUS
<1>0. CreditsAreCounted'
    BY CreditsStayCounted DEF IInv
<1> USE <1>0 DEF IInv
<1>1. CASE SubscriptionNext /\ UNCHANGED <<directVars, payoutVars>>
    <2>1. SubInv'
        BY <1>1, StripeKeepsSub, CallerKeepsSub, HandlersKeepSub DEF SubscriptionNext
    <2> QED BY <1>1, <2>1, DirectIsLeftAlone, PayoutsAreLeftAlone
<1>2. CASE DirectNext /\ UNCHANGED <<subVars, payoutVars>>
    BY <1>2, DirectKeeps, SubIsLeftAlone, PayoutsAreLeftAlone
<1>3. CASE PayoutNext /\ UNCHANGED <<subVars, directVars>>
    <2>1. PayoutInv'
        BY <1>3, TasksKeepPayouts, WorkersKeepPayouts, EventsKeepPayouts
        DEF PayoutNext, PayoutSteps
    <2> QED BY <1>3, <2>1, SubIsLeftAlone, DirectIsLeftAlone
<1>4. ASSUME NEW o \in DirectOrders, ReconcileOrder(o) PROVE IInv'
    BY <1>4, SubIsLeftAlone, DirectIsLeftAlone, PayoutsAreLeftAlone
    DEF ReconcileOrder, HealPaymentSucceeded
<1>5. ASSUME NEW p \in Payouts, ReconcilePayout(p) PROVE IInv'
    BY <1>5, HealKeepsPayouts, SubIsLeftAlone, DirectIsLeftAlone DEF ReconcilePayout
<1>6. CASE ReconcileSubscription
    BY <1>6, HealKeepsSub, DirectIsLeftAlone, PayoutsAreLeftAlone DEF ReconcileSubscription
<1>7. CASE UNCHANGED billingVars
    BY <1>7, SubIsLeftAlone, DirectIsLeftAlone, PayoutsAreLeftAlone DEF billingVars
<1> QED BY <1>1, <1>2, <1>3, <1>4, <1>5, <1>6, <1>7
        DEF BillingNext, RunReconciliation, RunWithLock, ReconcileSingle

THEOREM Invariance == BillingSpec => []IInv
BY Initially, StepKeeps, PTL DEF BillingSpec

-----------------------------------------------------------------------------
(* The whole of BillingSafe: the rows keep their types, where the amount   *)
(* of an aggregated payout is a balance that is never below the threshold, *)
(* and an invoice is booked once.                                          *)
THEOREM BillingIsSafe == BillingSpec => []BillingSafe
<1>1. IInv => BillingSafe
    BY DEF IInv, SubInv, DirectInv, PayoutInv, BillingSafe, BillingTypes
<1> QED BY <1>1, Invariance, PTL

(* A subscription or a direct order never says what Stripe does not, in    *)
(* whatever order webhooks, the saves of stale copies and reconciliation   *)
(* come.                                                                   *)
THEOREM RowsAreStripes == BillingSpec => []RowsFollowStripe
<1>1. IInv => RowsFollowStripe
    BY DEF IInv, SubInv, DirectInv, RowsFollowStripe
<1> QED BY <1>1, Invariance, PTL

(* A payout is booked, and its order settled, only when it is PAID, and    *)
(* PAID only when the transfer has arrived.                                *)
THEOREM OnlySentMoneyIsBooked == BillingSpec => []BooksOnlySentMoney
<1>1. IInv => BooksOnlySentMoney
    BY DEF IInv, PayoutInv
<1> QED BY <1>1, Invariance, PTL

(* Whatever number of tasks handle invoice.paid at once, an invoice has    *)
(* one order, and entries only with it and with Stripe's payment.          *)
THEOREM InvoicesAreBookedOnce == BillingSpec => []InvoiceBookedOnce
<1>1. IInv => InvoiceBookedOnce
    BY DEF IInv, SubInv
<1> QED BY <1>1, Invariance, PTL
=============================================================================
