------------------------------ MODULE EscrowMoney ------------------------------
(***************************************************************************)
(* What an escrow order may do to real money, seen from Stripe: the payer  *)
(* is charged once, the recipient gets one transfer (another one only      *)
(* after the last came back), and every refund is one of its own, together *)
(* no more than the charge.                                                *)
(***************************************************************************)
EXTENDS Naturals, Sequences, FiniteSetsExt

CONSTANTS Amount,       \* the charge
          Attempts,     \* transfer attempts
          RefundRows    \* what refunds are made for

VARIABLES charged,      \* the payment intent has succeeded
          sent,         \* transfers on their way or arrived
          returned      \* the refunds of the charge, in order

vars == <<charged, sent, returned>>

Total(refunds) == MapThenSumSet(LAMBDA i : refunds[i].amount, DOMAIN refunds)

Init == charged = FALSE /\ sent = {} /\ returned = <<>>

Charge == ~charged /\ charged' = TRUE /\ UNCHANGED <<sent, returned>>

Send(k) == charged /\ sent = {} /\ sent' = {k} /\ UNCHANGED <<charged, returned>>

ComeBack == sent # {} /\ sent' = {} /\ UNCHANGED <<charged, returned>>

Return(r, n) ==
    /\ charged
    /\ \A i \in DOMAIN returned : returned[i].row # r
    /\ Total(returned) + n <= Amount
    /\ returned' = Append(returned, [row |-> r, amount |-> n])
    /\ UNCHANGED <<charged, sent>>

Next ==
    \/ Charge
    \/ \E k \in Attempts : Send(k)
    \/ ComeBack
    \/ \E r \in RefundRows, n \in 1..Amount : Return(r, n)

Spec == Init /\ [][Next]_vars
=============================================================================
