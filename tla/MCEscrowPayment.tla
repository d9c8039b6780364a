--------------------------- MODULE MCEscrowPayment ---------------------------
(* Small instances of EscrowPayment for TLC.  The rows of refunds, the     *)
(* payout workers and the refund calls are interchangeable.                *)
EXTENDS EscrowPayment, TLC

MCAttempts == 1..(MaxRetries + 1)
MCAmounts == 1..Amount
Symmetry == Permutations(RefundRows) \cup Permutations(PayWorkers)
                \cup Permutations(Refunders)
=============================================================================
