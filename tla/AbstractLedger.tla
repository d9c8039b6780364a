---------------------------- MODULE AbstractLedger ----------------------------
(***************************************************************************)
(* What payments/ledger promises its callers: a request, which is a list   *)
(* of entries, is posted as a whole or not at all, an entry whose          *)
(* idempotency key is posted already is not posted again, no balance goes  *)
(* below zero unless the account allows it, and an inactive account takes  *)
(* part in nothing.  One step per request: no locks, no transactions, no   *)
(* failures.                                                               *)
(***************************************************************************)
EXTENDS Integers, FiniteSetsExt

CONSTANTS Accounts,
          AllowNegative,
          Closable,      \* accounts that get deactivated and reactivated
          Requests       \* what callers may ask for, as sets of entries

VARIABLES posted,        \* the entries of the ledger
          balance,       \* get_balance() of every account
          active         \* is_active of every account

vars == <<posted, balance, active>>

Credits(entries, a) ==
    MapThenSumSet(LAMBDA e : e.amount, {e \in entries : e.credit = a})
Debits(entries, a) ==
    MapThenSumSet(LAMBDA e : e.amount, {e \in entries : e.debit = a})

(* LedgerAccount.get_balance() over a set of entries.                      *)
Aggregate(entries) ==
    [a \in Accounts |-> Credits(entries, a) - Debits(entries, a)]

Unposted(request) == {e \in request : \A p \in posted : p.key # e.key}

Init ==
    /\ posted = {}
    /\ balance = [a \in Accounts |-> 0]
    /\ active = [a \in Accounts |-> TRUE]

Post(request) ==
    /\ Unposted(request) # {}
    /\ \A e \in Unposted(request) : active[e.debit] /\ active[e.credit]
    /\ posted' = posted \cup Unposted(request)
    /\ balance' = Aggregate(posted')
    /\ \A a \in Accounts \ AllowNegative : balance'[a] >= 0
    /\ UNCHANGED active

SetActive(a) ==
    /\ active' = [active EXCEPT ![a] = ~active[a]]
    /\ UNCHANGED <<posted, balance>>

Next ==
    \/ \E request \in Requests : Post(request)
    \/ \E a \in Closable : SetActive(a)

Spec == Init /\ [][Next]_vars
=============================================================================
