-------------------------------- MODULE Ledger --------------------------------
(***************************************************************************)
(* payments/ledger/services.py over PostgreSQL: record_entries run by      *)
(* concurrent transactions.                                                *)
(*                                                                         *)
(* A transaction makes one call of record_entries after another (its       *)
(* batches), commits after the last, and rolls back on any exception.  A   *)
(* batch locks the rows of its accounts one by one in the order of their   *)
(* ids (SELECT ... FOR UPDATE ORDER BY id), then handles its entries one   *)
(* by one: look for the idempotency key, check both accounts, insert.  The *)
(* database keeps the row locks to the end of the transaction, shows a     *)
(* transaction its own entries and the committed ones, makes an INSERT     *)
(* wait for another's uncommitted entry of the same key, and breaks a      *)
(* deadlock by aborting a member of it.                                    *)
(***************************************************************************)
EXTENDS Integers, Sequences, FiniteSetsExt

CONSTANTS Accounts,       \* ids of LedgerAccount rows
          AllowNegative,  \* the accounts with allow_negative
          Closable,       \* accounts that get deactivated and reactivated
          Txns,           \* the transactions; each may run again and again
          Script,         \* Script[t]: the batches of t, sequences of entries
          Nobody          \* the owner of a row that is not locked

(* The entries of a batch, or of a whole transaction.                      *)
Entries(b) == {b[i] : i \in DOMAIN b}
Request(t) == UNION {Entries(Script[t][i]) : i \in DOMAIN Script[t]}
AllEntries == UNION {Request(t) : t \in Txns}

ASSUME LedgerAssumption ==
    /\ Accounts \subseteq Nat
    /\ AllowNegative \subseteq Accounts
    /\ Closable \subseteq Accounts
    /\ Nobody \notin Txns
    \* a call with no entries returns at once and is left out
    /\ \A t \in Txns :
          /\ Script[t] \in Seq(Seq([key : STRING, debit : Accounts,
                                    credit : Accounts, amount : Nat \ {0}]))
          /\ Script[t] # <<>>
          /\ \A i \in DOMAIN Script[t] : Script[t][i] # <<>>

(* Callers give each entry of a transaction a key of its own               *)
(* (escrow.py:833 and 849, refund_service.py:882 and 902).                 *)
ASSUME KeysAreDistinct ==
    \A t \in Txns : \A e, f \in Request(t) : e.key = f.key => e = f

VARIABLES posted,    \* committed LedgerEntry rows
          balance,   \* committed get_balance() of every account
          active,    \* is_active of every account
          owner,     \* the transaction that holds each account's row lock
          pc,        \* "idle", "lock", "check", "insert" or "commit"
          at,        \* at[t]: batch and entry that t is working on
          pending,   \* uncommitted entries of each transaction
          delta      \* what they add to get_balance() of each account

rows == <<posted, balance, active>>
work == <<owner, pc, at, pending, delta>>
vars == <<rows, work>>

Batch(t) == Script[t][at[t].batch]
Entry(t) == Batch(t)[at[t].entry]

TypeOK ==
    /\ posted \subseteq AllEntries
    /\ balance \in [Accounts -> Int]
    /\ active \in [Accounts -> BOOLEAN]
    /\ owner \in [Accounts -> Txns \cup {Nobody}]
    /\ pc \in [Txns -> {"idle", "lock", "check", "insert", "commit"}]
    /\ at \in [Txns -> [batch : Nat, entry : Nat]]
    /\ \A t \in Txns : /\ at[t].batch \in DOMAIN Script[t]
                       /\ at[t].entry \in DOMAIN Batch(t)
    /\ pending \in [Txns -> SUBSET AllEntries]
    /\ delta \in [Txns -> [Accounts -> Int]]

Start == [batch |-> 1, entry |-> 1]
Nothing == [a \in Accounts |-> 0]

Init ==
    /\ posted = {}
    /\ balance = Nothing
    /\ active = [a \in Accounts |-> TRUE]
    /\ owner = [a \in Accounts |-> Nobody]
    /\ pc = [t \in Txns |-> "idle"]
    /\ at = [t \in Txns |-> Start]
    /\ pending = [t \in Txns |-> {}]
    /\ delta = [t \in Txns |-> Nothing]

-----------------------------------------------------------------------------
(* Row locks                                                               *)

(* account_ids of every call of record_entries.                            *)
AccountIds ==
    [t \in Txns |-> [i \in DOMAIN Script[t] |->
        UNION {{e.debit, e.credit} : e \in Entries(Script[t][i])}]]

Unlocked(t) == {a \in AccountIds[t][at[t].batch] : owner[a] # t}

LocksAnyRow(t, a) == a \in Unlocked(t)    \* bug: no ORDER BY
LocksNext(t, a) == a \in Unlocked(t) /\ \A c \in Unlocked(t) : a <= c

Keys(entries) == {e.key : e \in entries}

(* The transactions t waits for: the holder of the next row, or the one    *)
(* whose uncommitted entry has the key that t inserts.                     *)
KeyHolders(t) == {u \in Txns \ {t} : Entry(t).key \in Keys(pending[u])}
WaitsFor(t) ==
    CASE pc[t] = "lock"   -> {owner[a] : a \in {c \in Accounts : LocksNext(t, c)}}
                                 \ {Nobody}
      [] pc[t] = "insert" -> KeyHolders(t)
      [] OTHER            -> {}

(* Every member of a circular wait waits for one other member.             *)
CircularWait(ts) ==
    /\ ts # {}
    /\ \A t \in ts : WaitsFor(t) \cap ts # {}
    /\ ts \subseteq UNION {WaitsFor(t) : t \in ts}

Blocked == {t \in Txns : WaitsFor(t) # {}}

-----------------------------------------------------------------------------
(* The steps of a transaction                                              *)

Goto(t, place) == pc' = [pc EXCEPT ![t] = place]

(* Both ways out of a transaction release its row locks; the caller may    *)
(* run it again later: a retried task, a webhook delivered twice.          *)
EndLocked(t) ==                           \* bug: locks outlive the transaction
    /\ UNCHANGED owner
    /\ Goto(t, "idle")
    /\ at' = [at EXCEPT ![t] = Start]
    /\ pending' = [pending EXCEPT ![t] = {}]
    /\ delta' = [delta EXCEPT ![t] = Nothing]
End(t) ==
    /\ owner' = [a \in Accounts |-> IF owner[a] = t THEN Nobody ELSE owner[a]]
    /\ Goto(t, "idle")
    /\ at' = [at EXCEPT ![t] = Start]
    /\ pending' = [pending EXCEPT ![t] = {}]
    /\ delta' = [delta EXCEPT ![t] = Nothing]

KeepPart(t) ==                            \* bug: no transaction around the batch
    /\ posted' = posted \cup pending[t]
    /\ balance' = [a \in Accounts |-> balance[a] + delta[t][a]]
    /\ UNCHANGED active
    /\ End(t)
Rollback(t) == End(t) /\ UNCHANGED rows

Begin(t) ==
    /\ pc[t] = "idle"
    /\ Goto(t, "lock")
    /\ UNCHANGED <<rows, owner, at, pending, delta>>

LockRow(t) ==
    /\ pc[t] = "lock"
    /\ \E a \in Accounts :
          /\ LocksNext(t, a)
          /\ owner[a] = Nobody
          /\ owner' = [owner EXCEPT ![a] = t]
    /\ UNCHANGED <<rows, pc, at, pending, delta>>

AllLocked(t) ==
    /\ pc[t] = "lock"
    /\ Unlocked(t) = {}
    /\ Goto(t, "check")
    /\ UNCHANGED <<rows, owner, at, pending, delta>>

LastOfAll(t) == FALSE                     \* bug: runs past the last entry
LastEntry(t) == at[t].entry = Len(Batch(t))

(* On to the next entry, the next call of record_entries or the commit.    *)
Advance(t) ==
    IF ~LastEntry(t)
    THEN /\ at' = [at EXCEPT ![t].entry = @ + 1]
         /\ Goto(t, "check")
    ELSE IF at[t].batch < Len(Script[t])
    THEN /\ at' = [at EXCEPT ![t] = [batch |-> @.batch + 1, entry |-> 1]]
         /\ Goto(t, "lock")
    ELSE /\ UNCHANGED at
         /\ Goto(t, "commit")

(* _validate_account_for_debit and _validate_account_for_credit.           *)
CoveredBefore(t, e) ==                    \* bug: overlooks its own entries
    e.debit \in AllowNegative \/ balance[e.debit] >= e.amount
Covered(t, e) ==
    e.debit \in AllowNegative \/ balance[e.debit] + delta[t][e.debit] >= e.amount

DebitOnly(e) == active[e.debit]           \* bug: credits are not validated
BothActive(e) == active[e.debit] /\ active[e.credit]

KeyIsNew(t, e) == e.key \notin Keys(posted \cup pending[t])

(* Idempotency first, then the two accounts.                               *)
Check(t) ==
    /\ pc[t] = "check"
    /\ \/ /\ ~KeyIsNew(t, Entry(t))
          /\ Advance(t)
          /\ UNCHANGED <<rows, owner, pending, delta>>
       \/ /\ KeyIsNew(t, Entry(t))
          /\ BothActive(Entry(t)) /\ Covered(t, Entry(t))
          /\ Goto(t, "insert")
          /\ UNCHANGED <<rows, owner, at, pending, delta>>
       \/ /\ KeyIsNew(t, Entry(t))
          /\ ~(BothActive(Entry(t)) /\ Covered(t, Entry(t)))
          /\ Rollback(t)

Moved(d, e) ==
    [a \in Accounts |-> d[a] + (IF a = e.credit THEN e.amount ELSE 0)
                             - (IF a = e.debit THEN e.amount ELSE 0)]

(* The INSERT.  When another transaction committed the key since Check,    *)
(* it fails, and the lookup in the handler fails with it: the error has    *)
(* left the transaction unusable, and the caller's block rolls back.       *)
Insert(t) ==
    /\ pc[t] = "insert"
    /\ KeyHolders(t) = {}
    /\ \/ /\ Entry(t).key \in Keys(posted)
          /\ Rollback(t)
       \/ /\ Entry(t).key \notin Keys(posted)
          /\ pending' = [pending EXCEPT ![t] = @ \cup {Entry(t)}]
          /\ delta' = [delta EXCEPT ![t] = Moved(@, Entry(t))]
          /\ Advance(t)
          /\ UNCHANGED <<rows, owner>>

Commit(t) ==
    /\ pc[t] = "commit"
    /\ posted' = posted \cup pending[t]
    /\ balance' = [a \in Accounts |-> balance[a] + delta[t][a]]
    /\ UNCHANGED active
    /\ End(t)

(* The database aborts a member of a circular wait.                        *)
DeadlockVictim(t) ==
    /\ WaitsFor(t) # {}
    /\ \E ts \in SUBSET Blocked : t \in ts /\ CircularWait(ts)
    /\ Rollback(t)

(* An exception elsewhere in the caller's block, or its process dies.      *)
CallerFails(t) == pc[t] # "idle" /\ Rollback(t)

(* deactivate_account and reactivate_account: an UPDATE, which waits for   *)
(* the row lock.                                                           *)
SetActive(a) ==
    /\ owner[a] = Nobody
    /\ active' = [active EXCEPT ![a] = ~active[a]]
    /\ UNCHANGED <<posted, balance, work>>

-----------------------------------------------------------------------------
Step(t) == LockRow(t) \/ AllLocked(t) \/ Check(t) \/ Insert(t) \/ Commit(t)

Next ==
    \/ \E t \in Txns : Begin(t) \/ Step(t) \/ DeadlockVictim(t) \/ CallerFails(t)
    \/ \E a \in Closable : SetActive(a)

Spec == Init /\ [][Next]_vars

(* A transaction that can go on does; the database's queue for a row lock  *)
(* is first come, first served, so a waiter is not passed over for ever,   *)
(* and its deadlock detector works.  Nobody is obliged to begin or to fail.*)
Fairness ==
    /\ \A t \in Txns : SF_vars(Step(t))
    /\ WF_vars(\E t \in Txns : DeadlockVictim(t))

FairSpec == Spec /\ Fairness

-----------------------------------------------------------------------------
(* An account that may not go negative never does, however the entries of  *)
(* concurrent transactions and of one batch fall together (services.py,    *)
(* _validate_account_for_debit).                                           *)
NoOverdraft == \A a \in Accounts \ AllowNegative : balance[a] >= 0

(* An account does not move while it is inactive (services.py, "Inactive   *)
(* accounts cannot be used in new transactions"), although is_active is    *)
(* read long before the entries become visible.                            *)
InactiveAccountsFrozen ==
    [][\A a \in Accounts : ~active[a] => balance'[a] = balance[a]]_vars

(* Transactions that call record_entries once never wait in a circle       *)
(* (services.py, "preventing circular wait conditions").  Those that call  *)
(* it several times do: refund_service.py:876 and 896.                     *)
SeveralCalls == {t \in Txns : Len(Script[t]) > 1}
SingleCallsNeverDeadlock ==
    \A ts \in SUBSET (Blocked \ SeveralCalls) : ~CircularWait(ts)

(* A transaction that comes back for more rows while it holds some ends    *)
(* all the same, whoever has what it needs.                                *)
SeveralCallsEnd ==
    \A t \in SeveralCalls : (pc[t] # "idle") ~> (pc[t] = "idle")

(* The ledger is the abstract one: committing is its one step.             *)
AL == INSTANCE AbstractLedger WITH Requests <- {Request(t) : t \in Txns}
ActsAsOneStep == AL!Spec
=============================================================================
