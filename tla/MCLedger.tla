------------------------------- MODULE MCLedger -------------------------------
(* Two captures, a release with a fee, a refund of it in two calls of      *)
(* record_entries, and a transaction that shares a key with a capture.     *)
(* Accounts: 1 external, 2 escrow, 3 the recipient, 4 revenue.             *)
EXTENDS Ledger

E(k, d, c, n) == [key |-> k, debit |-> d, credit |-> c, amount |-> n]

MCScript ==
    [capture1 |-> << <<E("o1:capture", 1, 2, 1)>> >>,
     capture2 |-> << <<E("o2:capture", 1, 2, 2)>> >>,
     release  |-> << <<E("o2:release", 2, 3, 1), E("o2:fee", 2, 4, 1)>> >>,
     refund   |-> << <<E("o2:payout_cancel", 3, 2, 1)>>,
                     <<E("o2:reversal", 2, 1, 1)>> >>,
     clash    |-> << <<E("o1:capture", 4, 3, 1)>> >>]
=============================================================================
