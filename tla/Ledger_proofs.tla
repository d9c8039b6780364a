---------------------------- MODULE Ledger_proofs ----------------------------
(***************************************************************************)
(* The ledger's safety for every set of accounts and transactions and      *)
(* every script: no overdraft, inactive accounts stand still, single calls *)
(* of record_entries do not deadlock, and the ledger, with its locks, its  *)
(* waiting and its failures, is the abstract one.                          *)
(***************************************************************************)
EXTENDS Ledger, FiniteSetTheorems, WellFoundedInduction, TLAPS

(* What a transaction knows of its rows and of its current entry.  Any     *)
(* change it has made is to a row it holds, a balance including its own    *)
(* changes is covered, and the outcome of Check still holds at Insert.     *)
ChangesOnlyHeldRows ==
    \A t \in Txns, a \in Accounts : delta[t][a] # 0 => owner[a] = t /\ active[a]

HoldsWhatItWorksOn ==
    \A t \in Txns : pc[t] \in {"check", "insert"} =>
        \A a \in Accounts : a \in AccountIds[t][at[t].batch] => owner[a] = t

IdleHoldsNothing ==
    \A t \in Txns : pc[t] = "idle" => /\ delta[t] = Nothing
                                      /\ \A a \in Accounts : owner[a] # t

HeldRowsCovered ==
    \A t \in Txns, a \in Accounts \ AllowNegative :
        owner[a] = t => balance[a] + delta[t][a] >= 0

CheckStillHolds ==
    \A t \in Txns : pc[t] = "insert" => BothActive(Entry(t)) /\ Covered(t, Entry(t))

IInv ==
    /\ TypeOK
    /\ NoOverdraft
    /\ ChangesOnlyHeldRows
    /\ HoldsWhatItWorksOn
    /\ IdleHoldsNothing
    /\ HeldRowsCovered
    /\ CheckStillHolds

(* The place a transaction is at names an entry of its script.             *)
LEMMA EntryType ==
  ASSUME NEW t \in Txns, at[t].batch \in DOMAIN Script[t],
         at[t].entry \in DOMAIN Batch(t)
  PROVE  /\ Entry(t).debit \in Accounts
         /\ Entry(t).credit \in Accounts
         /\ Entry(t).amount \in Nat \ {0}
         /\ Entry(t).debit \in AccountIds[t][at[t].batch]
         /\ Entry(t).credit \in AccountIds[t][at[t].batch]
         /\ Entry(t) \in AllEntries
  <1> DEFINE b == at[t].batch
  <1> DEFINE B == [key : STRING, debit : Accounts, credit : Accounts,
                   amount : Nat \ {0}]
  <1>1. Script[t] \in Seq(Seq(B))
    BY LedgerAssumption
  <1>2. Script[t][b] \in Seq(B)
    BY <1>1
  <1>3. Entry(t) \in B
    <2>1. \A q \in Seq(B) : \A i \in DOMAIN q : q[i] \in B
      <3> HIDE DEF B
      <3> QED OBVIOUS
    <2>2. at[t].entry \in DOMAIN Script[t][b]
      BY DEF Batch
    <2> QED BY <1>2, <2>1, <2>2 DEF Entry, Batch
  <1>4. Entry(t) \in Entries(Script[t][b])
    BY DEF Entry, Batch, Entries
  <1>5. AccountIds[t][b] = UNION {{e.debit, e.credit} : e \in Entries(Script[t][b])}
    BY DEF AccountIds
  <1>6. Entry(t).debit \in AccountIds[t][b] /\ Entry(t).credit \in AccountIds[t][b]
    BY <1>4, <1>5
  <1>7. Entry(t) \in AllEntries
    BY <1>4 DEF Request, AllEntries
  <1> QED BY <1>3, <1>6, <1>7

LEMMA StartType ==
  ASSUME NEW t \in Txns
  PROVE  /\ 1 \in DOMAIN Script[t]
         /\ 1 \in DOMAIN Script[t][1]
  <1> DEFINE B == [key : STRING, debit : Accounts, credit : Accounts,
                   amount : Nat \ {0}]
  <1>1. Script[t] \in Seq(Seq(B)) /\ Script[t] # <<>>
    BY LedgerAssumption
  <1>2. 1 \in DOMAIN Script[t]
    BY <1>1
  <1>3. Script[t][1] \in Seq(B) /\ Script[t][1] # <<>>
    BY <1>1, <1>2, LedgerAssumption
  <1> QED BY <1>2, <1>3

LEMMA InitIInv == Init => IInv
  <1> SUFFICES ASSUME Init PROVE IInv
    OBVIOUS
  <1>1. TypeOK
    <2>1. \A t \in Txns : /\ at[t].batch \in DOMAIN Script[t]
                          /\ at[t].entry \in DOMAIN Batch(t)
      BY StartType DEF Init, Start, Batch
    <2> QED BY <2>1 DEF Init, TypeOK, Nothing, Start
  <1>2. NoOverdraft /\ ChangesOnlyHeldRows /\ HeldRowsCovered
    BY LedgerAssumption
       DEF Init, Nothing, NoOverdraft, ChangesOnlyHeldRows, HeldRowsCovered
  <1>3. HoldsWhatItWorksOn /\ IdleHoldsNothing /\ CheckStillHolds
    BY LedgerAssumption
       DEF Init, HoldsWhatItWorksOn, IdleHoldsNothing, CheckStillHolds
  <1> QED BY <1>1, <1>2, <1>3 DEF IInv
(* Only Begin, LockRow, AllLocked and Advance move a transaction; where it *)
(* goes is an entry of its script, and it goes back to locking only from   *)
(* one call of record_entries to the next.                                 *)
LEMMA AdvanceGoes ==
  ASSUME TypeOK, NEW t \in Txns, Advance(t)
  PROVE  /\ pc' \in [Txns -> {"idle", "lock", "check", "insert", "commit"}]
         /\ pc'[t] \in {"check", "lock", "commit"}
         /\ pc'[t] = "check" => at'[t].batch = at[t].batch
         /\ \A u \in Txns \ {t} : pc'[u] = pc[u] /\ at'[u] = at[u]
         /\ at' \in [Txns -> [batch : Nat, entry : Nat]]
         /\ \A u \in Txns : /\ at'[u].batch \in DOMAIN Script[u]
                            /\ at'[u].entry \in DOMAIN Batch(u)'
  <1> DEFINE B == [key : STRING, debit : Accounts, credit : Accounts,
                   amount : Nat \ {0}]
  <1>1. Script[t] \in Seq(Seq(B)) /\ \A i \in DOMAIN Script[t] : Script[t][i] # <<>>
    BY LedgerAssumption
  <1> HIDE DEF B
  <1>2. Batch(t) \in Seq(B)
    BY <1>1 DEF TypeOK, Batch
  <1>3. CASE ~LastEntry(t)
    <2>1. at' = [at EXCEPT ![t].entry = @ + 1] /\ Goto(t, "check")
      BY <1>3 DEF Advance
    <2>2. at[t].entry + 1 \in DOMAIN Batch(t)
      BY <1>2, <1>3 DEF TypeOK, LastEntry
    <2>3. at'[t].batch = at[t].batch /\ at'[t].entry = at[t].entry + 1
      BY <2>1 DEF TypeOK
    <2> QED BY <2>1, <2>2, <2>3 DEF TypeOK, Goto, Batch
  <1>4. CASE LastEntry(t) /\ at[t].batch < Len(Script[t])
    <2>1. /\ at' = [at EXCEPT ![t] = [batch |-> @.batch + 1, entry |-> 1]]
          /\ Goto(t, "lock")
      BY <1>4 DEF Advance
    <2>2. at[t].batch + 1 \in DOMAIN Script[t]
      BY <1>1, <1>4 DEF TypeOK
    <2>3. 1 \in DOMAIN Script[t][at[t].batch + 1]
      BY <1>1, <2>2
    <2> QED BY <2>1, <2>2, <2>3 DEF TypeOK, Goto, Batch
  <1>5. CASE LastEntry(t) /\ ~(at[t].batch < Len(Script[t]))
    <2>1. UNCHANGED at /\ Goto(t, "commit")
      BY <1>5 DEF Advance
    <2> QED BY <2>1 DEF TypeOK, Goto, Batch
  <1> QED BY <1>3, <1>4, <1>5

(* Ending a transaction keeps the invariant, whether its changes go into   *)
(* the balances or are dropped.                                            *)
LEMMA RollbackInv ==
  ASSUME IInv, NEW t \in Txns, Rollback(t)
  PROVE  IInv'
  <1> USE DEF IInv, TypeOK, Rollback, End, Goto, rows
  <1>1. TypeOK'
    <2>1. /\ 1 \in DOMAIN Script[t]
          /\ 1 \in DOMAIN Script[t][1]
      BY StartType
    <2> QED BY <2>1 DEF Start, Nothing, Batch
  <1>2. NoOverdraft'
    BY DEF NoOverdraft
  <1>3. ChangesOnlyHeldRows' /\ IdleHoldsNothing'
    <2>1. ChangesOnlyHeldRows'
      BY LedgerAssumption DEF ChangesOnlyHeldRows, Nothing
    <2>2. IdleHoldsNothing'
      BY LedgerAssumption DEF IdleHoldsNothing, Nothing
    <2> QED BY <2>1, <2>2
  <1>4. HoldsWhatItWorksOn'
    BY DEF HoldsWhatItWorksOn
  <1>5. CheckStillHolds'
    <2> SUFFICES ASSUME NEW u \in Txns, pc'[u] = "insert"
                 PROVE  BothActive(Entry(u))' /\ Covered(u, Entry(u))'
      BY DEF CheckStillHolds
    <2>1. u # t /\ pc[u] = "insert" /\ Entry(u)' = Entry(u)
      BY DEF Entry, Batch
    <2> QED BY <2>1 DEF CheckStillHolds, BothActive, Covered
  <1>6. HeldRowsCovered'
    BY LedgerAssumption DEF HeldRowsCovered
  <1> QED BY <1>1, <1>2, <1>3, <1>4, <1>5, <1>6

LEMMA CommitInv ==
  ASSUME IInv, NEW t \in Txns, Commit(t)
  PROVE  IInv'
  <1> USE DEF IInv, TypeOK, Commit, End, Goto
  <1>1. TypeOK'
    <2>1. /\ 1 \in DOMAIN Script[t]
          /\ 1 \in DOMAIN Script[t][1]
      BY StartType
    <2> QED BY <2>1 DEF Start, Nothing, Batch
  <1>2. \A a \in Accounts : owner[a] # t => balance'[a] = balance[a]
    BY DEF ChangesOnlyHeldRows
  <1>3. NoOverdraft'
    BY <1>2 DEF NoOverdraft, HeldRowsCovered
  <1>4. ChangesOnlyHeldRows' /\ IdleHoldsNothing'
    <2>1. ChangesOnlyHeldRows'
      BY LedgerAssumption DEF ChangesOnlyHeldRows, Nothing
    <2>2. IdleHoldsNothing'
      BY LedgerAssumption DEF IdleHoldsNothing, Nothing
    <2> QED BY <2>1, <2>2
  <1>5. HoldsWhatItWorksOn'
    BY DEF HoldsWhatItWorksOn
  <1>6. CheckStillHolds'
    <2> SUFFICES ASSUME NEW u \in Txns, pc'[u] = "insert"
                 PROVE  BothActive(Entry(u))' /\ Covered(u, Entry(u))'
      BY DEF CheckStillHolds
    <2>1. u # t /\ pc[u] = "insert" /\ Entry(u)' = Entry(u)
      BY DEF Entry, Batch
    <2>2. Entry(u).debit \in Accounts /\ owner[Entry(u).debit] = u
      BY <2>1, EntryType DEF HoldsWhatItWorksOn
    <2> QED BY <1>2, <2>1, <2>2 DEF CheckStillHolds, BothActive, Covered
  <1>7. HeldRowsCovered'
    BY <1>2, LedgerAssumption DEF HeldRowsCovered
  <1> QED BY <1>1, <1>3, <1>4, <1>5, <1>6, <1>7

(* Taking a row: its holder's change to it is zero, so its balance, which  *)
(* is not negative, is covered.                                            *)
LEMMA LockRowInv ==
  ASSUME IInv, NEW t \in Txns, LockRow(t)
  PROVE  IInv'
  <1> USE DEF IInv, TypeOK, LockRow, rows
  <1>1. PICK a \in Accounts : owner[a] = Nobody /\ owner' = [owner EXCEPT ![a] = t]
    OBVIOUS
  <1>2. TypeOK' /\ NoOverdraft'
    BY <1>1 DEF NoOverdraft, Batch
  <1>3. ChangesOnlyHeldRows' /\ IdleHoldsNothing'
    BY <1>1, LedgerAssumption DEF ChangesOnlyHeldRows, IdleHoldsNothing
  <1>4. \A u \in Txns, c \in Accounts : owner[c] = u => owner'[c] = u
    BY <1>1, LedgerAssumption
  <1>5. HoldsWhatItWorksOn'
    BY <1>4 DEF HoldsWhatItWorksOn
  <1>6. CheckStillHolds'
    BY DEF CheckStillHolds, BothActive, Covered, Entry, Batch
  <1>7. HeldRowsCovered'
    <2> SUFFICES ASSUME NEW u \in Txns, NEW c \in Accounts \ AllowNegative,
                        owner'[c] = u
                 PROVE  balance[c] + delta[u][c] >= 0
      BY DEF HeldRowsCovered
    <2>1. CASE owner[c] = u
      BY <2>1 DEF HeldRowsCovered
    <2>2. CASE owner[c] # u
      <3>1. delta[u][c] = 0 /\ balance[c] \in Int /\ balance[c] >= 0
        BY <2>2 DEF ChangesOnlyHeldRows, NoOverdraft
      <3> QED BY <3>1
    <2> QED BY <2>1, <2>2
  <1> QED BY <1>2, <1>3, <1>5, <1>6, <1>7

LEMMA BeginInv ==
  ASSUME IInv, NEW t \in Txns, Begin(t) \/ AllLocked(t)
  PROVE  IInv'
  <1> USE DEF IInv, TypeOK, Begin, AllLocked, Goto, rows
  <1>1. TypeOK' /\ NoOverdraft' /\ ChangesOnlyHeldRows' /\ HeldRowsCovered'
    BY DEF NoOverdraft, ChangesOnlyHeldRows, HeldRowsCovered, Batch
  <1>2. IdleHoldsNothing'
    BY DEF IdleHoldsNothing
  <1>3. CheckStillHolds'
    <2> SUFFICES ASSUME NEW u \in Txns, pc'[u] = "insert"
                 PROVE  BothActive(Entry(u))' /\ Covered(u, Entry(u))'
      BY DEF CheckStillHolds
    <2>1. pc[u] = "insert" /\ Entry(u)' = Entry(u)
      BY DEF Entry, Batch
    <2> QED BY <2>1 DEF CheckStillHolds, BothActive, Covered
  <1>4. HoldsWhatItWorksOn'
    BY DEF HoldsWhatItWorksOn, Unlocked
  <1> QED BY <1>1, <1>2, <1>3, <1>4

LEMMA CheckInv ==
  ASSUME IInv, NEW t \in Txns, Check(t)
  PROVE  IInv'
  <1>1. CASE /\ ~KeyIsNew(t, Entry(t))
             /\ Advance(t)
             /\ UNCHANGED <<rows, owner, pending, delta>>
    <2> USE <1>1 DEF IInv, TypeOK, rows, Check
    <2>0. /\ pc'[t] \in {"check", "lock", "commit"}
          /\ pc'[t] = "check" => at'[t].batch = at[t].batch
          /\ \A u \in Txns \ {t} : pc'[u] = pc[u] /\ at'[u] = at[u]
      BY AdvanceGoes
    <2>1. TypeOK'
      BY AdvanceGoes
    <2>2. NoOverdraft' /\ ChangesOnlyHeldRows' /\ HeldRowsCovered'
      BY DEF NoOverdraft, ChangesOnlyHeldRows, HeldRowsCovered
    <2>3. IdleHoldsNothing'
      BY <2>0 DEF IdleHoldsNothing
    <2>4. HoldsWhatItWorksOn'
      BY <2>0 DEF HoldsWhatItWorksOn
    <2>5. CheckStillHolds'
      <3> SUFFICES ASSUME NEW u \in Txns, pc'[u] = "insert"
                   PROVE  BothActive(Entry(u))' /\ Covered(u, Entry(u))'
        BY DEF CheckStillHolds
      <3>1. pc[u] = "insert" /\ Entry(u)' = Entry(u)
        BY <2>0 DEF Entry, Batch
      <3> QED BY <3>1 DEF CheckStillHolds, BothActive, Covered
    <2> QED BY <2>1, <2>2, <2>3, <2>4, <2>5
  <1>2. CASE /\ BothActive(Entry(t)) /\ Covered(t, Entry(t))
             /\ Goto(t, "insert")
             /\ UNCHANGED <<rows, owner, at, pending, delta>>
    <2> USE <1>2 DEF IInv, TypeOK, rows, Goto, Check
    <2>1. TypeOK' /\ NoOverdraft' /\ ChangesOnlyHeldRows' /\ HeldRowsCovered'
      BY DEF NoOverdraft, ChangesOnlyHeldRows, HeldRowsCovered, Batch
    <2>2. IdleHoldsNothing'
      BY DEF IdleHoldsNothing
    <2>3. HoldsWhatItWorksOn'
      BY DEF HoldsWhatItWorksOn
    <2>4. CheckStillHolds'
      <3> SUFFICES ASSUME NEW u \in Txns, pc'[u] = "insert"
                   PROVE  BothActive(Entry(u))' /\ Covered(u, Entry(u))'
        BY DEF CheckStillHolds
      <3>1. Entry(u)' = Entry(u) /\ (u = t \/ pc[u] = "insert")
        BY DEF Entry, Batch
      <3> QED BY <3>1 DEF CheckStillHolds, BothActive, Covered
    <2> QED BY <2>1, <2>2, <2>3, <2>4
  <1>3. CASE Rollback(t)
    BY <1>3, RollbackInv
  <1> QED BY <1>1, <1>2, <1>3 DEF Check

(* The entry moves money between two rows t holds; its debit is covered,   *)
(* also on top of the changes t made before.                               *)
LEMMA InsertInv ==
  ASSUME IInv, NEW t \in Txns, Insert(t)
  PROVE  IInv'
  <1>1. CASE Rollback(t)
    BY <1>1, RollbackInv
  <1>2. CASE /\ pending' = [pending EXCEPT ![t] = @ \cup {Entry(t)}]
             /\ delta' = [delta EXCEPT ![t] = Moved(@, Entry(t))]
             /\ Advance(t)
             /\ UNCHANGED <<rows, owner>>
    <2> USE <1>2 DEF IInv, TypeOK, rows, Insert
    <2>0. /\ pc'[t] \in {"check", "lock", "commit"}
          /\ pc'[t] = "check" => at'[t].batch = at[t].batch
          /\ \A u \in Txns \ {t} : pc'[u] = pc[u] /\ at'[u] = at[u]
      BY AdvanceGoes
    <2> DEFINE e == Entry(t)
    <2>1. /\ e.debit \in Accounts /\ e.credit \in Accounts /\ e.amount \in Nat \ {0}
          /\ owner[e.debit] = t /\ owner[e.credit] = t
          /\ e \in AllEntries
      BY EntryType DEF HoldsWhatItWorksOn
    <2>2. active[e.debit] /\ active[e.credit] /\ Covered(t, e)
      BY DEF CheckStillHolds, BothActive
    <2> HIDE DEF e
    <2>3. \A a \in Accounts :
             /\ delta'[t][a] \in Int
             /\ delta'[t][a] >= delta[t][a]
                   - (IF a = e.debit THEN e.amount ELSE 0)
             /\ a # e.debit /\ a # e.credit => delta'[t][a] = delta[t][a]
      <3>1. delta'[t] = Moved(delta[t], e)
        BY DEF e
      <3> QED BY <2>1, <3>1 DEF Moved
    <2>4. \A u \in Txns \ {t} : delta'[u] = delta[u]
      OBVIOUS
    <2>5. TypeOK'
      <3>1. delta' \in [Txns -> [Accounts -> Int]]
        BY <2>1 DEF Moved, e
      <3>2. pending' \in [Txns -> SUBSET AllEntries]
        BY <2>1 DEF e
      <3> QED BY <3>1, <3>2, AdvanceGoes
    <2>6. NoOverdraft'
      BY DEF NoOverdraft
    <2>7. ChangesOnlyHeldRows'
      BY <2>1, <2>2, <2>3, <2>4 DEF ChangesOnlyHeldRows
    <2>8. HeldRowsCovered'
      <3> SUFFICES ASSUME NEW u \in Txns, NEW a \in Accounts \ AllowNegative,
                          owner[a] = u
                   PROVE  balance[a] + delta'[u][a] >= 0
        BY DEF HeldRowsCovered
      <3>1. CASE u = t /\ a = e.debit
        <4>1. balance[a] + delta[t][a] >= e.amount
          BY <2>2, <3>1 DEF Covered
        <4>2. balance[a] \in Int /\ delta[t][a] \in Int /\ delta'[t][a] \in Int
          BY <2>3
        <4> QED BY <2>1, <2>3, <3>1, <4>1, <4>2
      <3>2. CASE u = t /\ a # e.debit
        <4>1. balance[a] + delta[t][a] >= 0
          BY <3>2 DEF HeldRowsCovered
        <4>2. balance[a] \in Int /\ delta[t][a] \in Int /\ delta'[t][a] \in Int
          BY <2>3
        <4>3. delta'[t][a] >= delta[t][a] - 0
          BY <2>3, <3>2
        <4> QED BY <3>2, <4>1, <4>2, <4>3
      <3>3. CASE u # t
        BY <2>4, <3>3 DEF HeldRowsCovered
      <3> QED BY <3>1, <3>2, <3>3
    <2>9. IdleHoldsNothing' /\ HoldsWhatItWorksOn'
      <3>1. IdleHoldsNothing'
        BY <2>0, <2>4 DEF IdleHoldsNothing
      <3>2. HoldsWhatItWorksOn'
        BY <2>0 DEF HoldsWhatItWorksOn
      <3> QED BY <3>1, <3>2
    <2>10. CheckStillHolds'
      <3> SUFFICES ASSUME NEW u \in Txns, pc'[u] = "insert"
                   PROVE  BothActive(Entry(u))' /\ Covered(u, Entry(u))'
        BY DEF CheckStillHolds
      <3>1. u # t /\ pc[u] = "insert" /\ Entry(u)' = Entry(u) /\ delta'[u] = delta[u]
        BY <2>0, <2>4 DEF Entry, Batch
      <3> QED BY <3>1 DEF CheckStillHolds, BothActive, Covered
    <2> QED BY <2>5, <2>6, <2>7, <2>8, <2>9, <2>10
  <1> QED BY <1>1, <1>2 DEF Insert

(* An account changes its status only while nobody holds its row, and then *)
(* nobody has changed it or checked it.                                    *)
LEMMA SetActiveInv ==
  ASSUME IInv, NEW c \in Closable, SetActive(c)
  PROVE  IInv'
  <1> USE LedgerAssumption DEF IInv, TypeOK, SetActive, work
  <1>1. TypeOK' /\ NoOverdraft' /\ HeldRowsCovered'
    BY DEF NoOverdraft, HeldRowsCovered, Batch
  <1>2. \A a \in Accounts : a # c => active'[a] = active[a]
    OBVIOUS
  <1>3. ChangesOnlyHeldRows'
    BY <1>2 DEF ChangesOnlyHeldRows
  <1>4. IdleHoldsNothing'
    BY DEF IdleHoldsNothing
  <1>5. HoldsWhatItWorksOn'
    BY DEF HoldsWhatItWorksOn
  <1>6. CheckStillHolds'
    <2> SUFFICES ASSUME NEW u \in Txns, pc[u] = "insert"
                 PROVE  BothActive(Entry(u))' /\ Covered(u, Entry(u))'
      BY DEF CheckStillHolds
    <2>1. Entry(u)' = Entry(u) /\ BothActive(Entry(u)) /\ Covered(u, Entry(u))
      BY DEF Entry, Batch, CheckStillHolds
    <2>2. /\ Entry(u).debit \in Accounts /\ owner[Entry(u).debit] = u
          /\ Entry(u).credit \in Accounts /\ owner[Entry(u).credit] = u
      BY EntryType DEF HoldsWhatItWorksOn
    <2> QED BY <1>2, <2>1, <2>2 DEF BothActive, Covered
  <1> QED BY <1>1, <1>3, <1>4, <1>5, <1>6

LEMMA StepKeepsIInv == IInv /\ [Next]_vars => IInv'
  <1> SUFFICES ASSUME IInv, [Next]_vars PROVE IInv'
    OBVIOUS
  <1>1. ASSUME NEW t \in Txns,
               Begin(t) \/ Step(t) \/ DeadlockVictim(t) \/ CallerFails(t)
        PROVE  IInv'
    BY <1>1, BeginInv, LockRowInv, CheckInv, InsertInv, CommitInv, RollbackInv
       DEF Step, DeadlockVictim, CallerFails
  <1>2. ASSUME NEW c \in Closable, SetActive(c)
        PROVE  IInv'
    BY <1>2, SetActiveInv
  <1>3. CASE UNCHANGED vars
    BY <1>3 DEF vars, rows, work, IInv, TypeOK, Batch, NoOverdraft,
                ChangesOnlyHeldRows, HoldsWhatItWorksOn, IdleHoldsNothing,
                HeldRowsCovered, CheckStillHolds, BothActive, Covered, Entry
  <1> QED BY <1>1, <1>2, <1>3 DEF Next

LEMMA LedgerInductive == Spec => []IInv
  BY InitIInv, StepKeepsIInv, PTL DEF Spec

THEOREM LedgerTypes == Spec => []TypeOK
  <1>1. IInv => TypeOK
    BY DEF IInv
  <1> QED BY <1>1, LedgerInductive, PTL

(* Concurrent transactions never overdraw an account: get_balance() is     *)
(* read under the row lock and every change to an account holds it.        *)
THEOREM NoAccountIsOverdrawn == Spec => []NoOverdraft
  <1>1. IInv => NoOverdraft
    BY DEF IInv
  <1> QED BY <1>1, LedgerInductive, PTL

(* deactivate_account waits for the row, so what Check read of is_active   *)
(* still holds when the entries become visible.                            *)
THEOREM InactiveAccountsStandStill == Spec => InactiveAccountsFrozen
  <1>1. IInv /\ [Next]_vars =>
          [\A a \in Accounts : ~active[a] => balance'[a] = balance[a]]_vars
    <2> SUFFICES ASSUME IInv, Next, NEW a \in Accounts, ~active[a]
                 PROVE  balance'[a] = balance[a]
      OBVIOUS
    <2> USE DEF IInv, TypeOK
    <2>1. ASSUME NEW t \in Txns, Commit(t)
          PROVE  balance'[a] = balance[a]
      <3>1. delta[t][a] = 0
        BY DEF ChangesOnlyHeldRows
      <3> QED BY <2>1, <3>1 DEF Commit
    <2>2. ASSUME NEW t \in Txns, ~Commit(t),
                 Begin(t) \/ Step(t) \/ DeadlockVictim(t) \/ CallerFails(t)
          PROVE  balance' = balance
      BY <2>2 DEF Begin, Step, DeadlockVictim, CallerFails, LockRow, AllLocked,
                  Check, Insert, Rollback, rows
    <2>3. ASSUME NEW c \in Closable, SetActive(c)
          PROVE  balance' = balance
      BY <2>3 DEF SetActive
    <2> QED BY <2>1, <2>2, <2>3 DEF Next
  <1> QED BY <1>1, LedgerInductive, PTL DEF Spec, InactiveAccountsFrozen

(* A transaction that calls record_entries once only ever waits for a row  *)
(* above every row it holds (services.py:256-258): a circle of such waits  *)
(* would climb for ever.                                                   *)
RowsClimb ==
    \A t \in Txns \ SeveralCalls : pc[t] = "lock" =>
        \A a \in Accounts, c \in Unlocked(t) : owner[a] = t => a < c

LEMMA AccountIdsType ==
  ASSUME IInv, NEW t \in Txns
  PROVE  AccountIds[t][at[t].batch] \subseteq Accounts
  <1> DEFINE b == at[t].batch
             B == [key : STRING, debit : Accounts, credit : Accounts,
                   amount : Nat \ {0}]
  <1>1. Script[t] \in Seq(Seq(B)) /\ b \in DOMAIN Script[t]
    BY LedgerAssumption DEF IInv, TypeOK
  <1>2. Script[t][b] \in Seq(B)
    BY <1>1
  <1>3. \A q \in Seq(B) : \A i \in DOMAIN q : q[i] \in B
    <2> HIDE DEF B
    <2> QED OBVIOUS
  <1>4. Entries(Script[t][b]) \subseteq B
    BY <1>2, <1>3 DEF Entries
  <1>5. AccountIds[t][b] = UNION {{e.debit, e.credit} : e \in Entries(Script[t][b])}
    BY <1>1 DEF AccountIds
  <1> QED BY <1>4, <1>5

LEMMA EndKeepsWaiting ==
  ASSUME IInv, NEW u \in Txns, End(u), NEW t \in Txns, pc'[t] = "lock",
         NEW a \in Accounts, owner'[a] = t, NEW c \in Unlocked(t)'
  PROVE  pc[t] = "lock" /\ owner[a] = t /\ c \in Unlocked(t)
  <1> USE LedgerAssumption DEF IInv, TypeOK, End, Goto
  <1>1. u # t /\ pc[t] = "lock" /\ at'[t] = at[t] /\ owner[a] = t
    OBVIOUS
  <1>2. c \in AccountIds[t][at[t].batch] /\ owner'[c] # t
    BY <1>1 DEF Unlocked
  <1>3. c \in Accounts
    BY <1>2, AccountIdsType
  <1>4. owner[c] # t
    BY <1>1, <1>2, <1>3
  <1> QED BY <1>1, <1>2, <1>4 DEF Unlocked

LEMMA StepKeepsClimbing == IInv /\ RowsClimb /\ [Next]_vars => RowsClimb'
  <1> SUFFICES ASSUME IInv, RowsClimb, [Next]_vars,
                      NEW t \in Txns \ SeveralCalls, pc'[t] = "lock",
                      NEW a \in Accounts, NEW c \in Unlocked(t)', owner'[a] = t
               PROVE  a < c
    BY DEF RowsClimb, SeveralCalls
  <1> USE LedgerAssumption DEF IInv, TypeOK
  <1>1. CASE \E u \in Txns : LockRow(u)
    <2>1. PICK u \in Txns, r \in Accounts :
             /\ LocksNext(u, r) /\ owner[r] = Nobody
             /\ owner' = [owner EXCEPT ![r] = u]
             /\ pc' = pc /\ at' = at
      BY <1>1 DEF LockRow
    <2>2. c \in AccountIds[t][at[t].batch] /\ c \in Accounts
      BY <2>1, AccountIdsType DEF Unlocked
    <2>3. c \in Unlocked(t)
      BY <2>1, <2>2 DEF Unlocked
    <2>4. CASE owner[a] = t
      BY <2>1, <2>3, <2>4 DEF RowsClimb
    <2>5. CASE owner[a] # t
      <3>1. u = t /\ r = a
        BY <2>1, <2>5
      <3>2. owner'[c] # t /\ owner'[a] = t
        BY <2>1, <3>1 DEF Unlocked
      <3> QED BY <2>1, <2>2, <2>3, <3>1, <3>2 DEF LocksNext
    <2> QED BY <2>4, <2>5
  <1>2. CASE \E u \in Txns : Begin(u)
    <2>1. PICK u \in Txns : Begin(u)
      BY <1>2
    <2>2. CASE u = t
      BY <2>1, <2>2 DEF Begin, IdleHoldsNothing
    <2>3. CASE u # t
      <3>1. pc[t] = "lock" /\ owner' = owner /\ at' = at
        BY <2>1, <2>3 DEF Begin, Goto
      <3>2. c \in Unlocked(t)
        BY <3>1 DEF Unlocked
      <3> QED BY <3>1, <3>2 DEF RowsClimb
    <2> QED BY <2>2, <2>3
  <1>3. CASE \/ \E u \in Txns : AllLocked(u) \/ Check(u) \/ Insert(u)
             \/ \E r \in Closable : SetActive(r)
             \/ UNCHANGED vars
    <2>1. owner' = owner \/ \E u \in Txns : Rollback(u)
      BY <1>3 DEF AllLocked, Check, Insert, SetActive, work, vars, rows
    <2>2. ASSUME NEW u \in Txns, Rollback(u)
          PROVE  pc[t] = "lock" /\ owner[a] = t /\ c \in Unlocked(t)
      BY <2>2, EndKeepsWaiting DEF Rollback, SeveralCalls
    <2>3. ASSUME owner' = owner
          PROVE  pc[t] = "lock" /\ at'[t] = at[t]
      <3>1. Script[t] \in Seq(Seq([key : STRING, debit : Accounts,
                                   credit : Accounts, amount : Nat \ {0}]))
        OBVIOUS
      <3>2. Len(Script[t]) <= 1
        BY <3>1 DEF SeveralCalls
      <3>3. ~(at[t].batch < Len(Script[t]))
        BY <3>1, <3>2
      <3>4. ASSUME NEW u \in Txns, Advance(u)
            PROVE  pc[t] = "lock" /\ at'[t] = at[t]
        <4>1. u # t
          BY <3>3, <3>4 DEF Advance, Goto
        <4> QED BY <3>4, <4>1, AdvanceGoes
      <3>5. ASSUME NEW u \in Txns, Rollback(u)
            PROVE  pc[t] = "lock" /\ at'[t] = at[t]
        BY <3>5 DEF Rollback, End, Goto
      <3> QED BY <1>3, <3>4, <3>5
              DEF AllLocked, Check, Insert, SetActive, work, vars, Goto
    <2> QED BY <2>1, <2>2, <2>3 DEF RowsClimb, Unlocked
  <1>4. CASE \E u \in Txns : Commit(u) \/ DeadlockVictim(u) \/ CallerFails(u)
    <2>1. pc[t] = "lock" /\ owner[a] = t /\ c \in Unlocked(t)
      BY <1>4, EndKeepsWaiting
         DEF Commit, DeadlockVictim, CallerFails, Rollback, SeveralCalls
    <2> QED BY <2>1 DEF RowsClimb
  <1> QED BY <1>1, <1>2, <1>3, <1>4 DEF Next, Step

(* One call of record_entries locks its rows in one order for everybody.   *)
THEOREM SingleCallsClimb == Spec => []RowsClimb
  <1>1. Init => RowsClimb
    BY DEF Init, RowsClimb
  <1> QED BY <1>1, LedgerInductive, StepKeepsClimbing, PTL DEF Spec

-----------------------------------------------------------------------------
(* Sums of amounts do not depend on the order in which they are taken.    *)

(* The sums that Aggregate takes, over any set of entries.                 *)
Total(S) == MapThenSumSet(LAMBDA e : e.amount, S)
First(S) == CHOOSE e \in S : TRUE
IsTotals(f, S) ==
    f = [s \in SUBSET S |-> IF s = {} THEN 0
                            ELSE First(s).amount + f[s \ {First(s)}]]
Totals(S) == CHOOSE f : IsTotals(f, S)

LEMMA TotalIsLast == ASSUME NEW S PROVE Total(S) = Totals(S)[S]
  BY DEF Total, Totals, IsTotals, First, MapThenSumSet, MapThenFoldSet

(* Among subsets of a finite set there is a smallest.                      *)
LEMMA SmallestSet ==
  ASSUME NEW S, IsFiniteSet(S), NEW Bad, Bad \subseteq SUBSET S, Bad # {}
  PROVE  \E s \in Bad : \A u \in Bad : u \subseteq s => u = s
  <1>1. IsWellFoundedOn(StrictSubsetOrdering(S), SUBSET S)
    BY FS_FiniteSubsetsOfFinite, FS_StrictSubsetOrderingWellFounded
  <1>2. PICK s \in Bad : \A u \in Bad : ~ (<<u, s>> \in StrictSubsetOrdering(S))
    BY <1>1, WFMin
  <1>3. ASSUME NEW u \in Bad, u \subseteq s PROVE u = s
    BY <1>2, <1>3 DEF StrictSubsetOrdering
  <1> QED BY <1>3

LEMMA FirstIsOne == ASSUME NEW S, S # {} PROVE First(S) \in S
  BY DEF First

LEMMA TotalsAgree ==
  ASSUME NEW S, IsFiniteSet(S), NEW f, IsTotals(f, S),
         NEW T \in SUBSET S, NEW g, IsTotals(g, T)
  PROVE  \A s \in SUBSET T : f[s] = g[s]
  <1> DEFINE Bad == {s \in SUBSET T : f[s] # g[s]}
  <1> SUFFICES ASSUME Bad # {} PROVE FALSE
    OBVIOUS
  <1>1. IsFiniteSet(T)
    BY FS_Subset
  <1>2. PICK s \in Bad : \A u \in Bad : u \subseteq s => u = s
    <2>1. Bad \subseteq SUBSET T
      OBVIOUS
    <2> HIDE DEF Bad
    <2> QED BY <1>1, <2>1, SmallestSet
  <1>3. s # {}
    BY <1>2 DEF IsTotals
  <1>4. First(s) \in s /\ s \ {First(s)} \in SUBSET T
    BY <1>3, FirstIsOne
  <1>5. f[s \ {First(s)}] = g[s \ {First(s)}]
    BY <1>2, <1>4
  <1>6. /\ f[s] = First(s).amount + f[s \ {First(s)}]
        /\ g[s] = First(s).amount + g[s \ {First(s)}]
    BY <1>3 DEF IsTotals
  <1> QED BY <1>2, <1>5, <1>6

LEMMA TotalsExist ==
  ASSUME NEW S, IsFiniteSet(S)
  PROVE  IsTotals(Totals(S), S)
  <1> DEFINE Bad == {s \in SUBSET S : ~IsTotals(Totals(s), s)}
  <1> SUFFICES ASSUME Bad # {} PROVE FALSE
    OBVIOUS
  <1>0. Bad \subseteq SUBSET S
    OBVIOUS
  <1> HIDE DEF Bad
  <1>1. PICK T \in Bad : \A u \in Bad : u \subseteq T => u = T
    BY <1>0, SmallestSet
  <1>2. \A u \in SUBSET T : u # T => IsTotals(Totals(u), u)
    BY <1>1 DEF Bad
  <1>3. IsFiniteSet(T) /\ \A u \in SUBSET T : IsFiniteSet(u)
    BY <1>1, FS_Subset DEF Bad
  <1> DEFINE h == [u \in SUBSET T |->
                     IF u = {} THEN 0
                     ELSE First(u).amount
                            + Totals(u \ {First(u)})[u \ {First(u)}]]
  <1>4. ASSUME NEW v \in SUBSET T, v # T
        PROVE  h[v] = Totals(v)[v]
    <2>1. IsTotals(Totals(v), v)
      BY <1>2, <1>4
    <2>2. CASE v = {}
      BY <2>1, <2>2 DEF IsTotals
    <2>3. CASE v # {}
      <3> DEFINE w == v \ {First(v)}
      <3>1. w \in SUBSET v /\ w \in SUBSET T /\ w # T
        BY <1>4
      <3>2. IsTotals(Totals(w), w)
        BY <1>2, <3>1
      <3>3. Totals(v)[w] = Totals(w)[w]
        <4> HIDE DEF w, h
        <4>1. w \in SUBSET w /\ IsFiniteSet(v)
          BY <1>3
        <4> QED BY <2>1, <3>1, <3>2, <4>1, TotalsAgree
      <3>4. Totals(v)[v] = First(v).amount + Totals(v)[w]
        BY <2>1, <2>3 DEF IsTotals
      <3> QED BY <2>3, <3>3, <3>4
    <2> QED BY <2>2, <2>3
  <1>5. ASSUME NEW u \in SUBSET T, u # {}
        PROVE  h[u] = First(u).amount + h[u \ {First(u)}]
    <2> DEFINE v == u \ {First(u)}
    <2>1. v \in SUBSET T /\ v # T
      BY <1>5, FirstIsOne
    <2>2. h[v] = Totals(v)[v]
      BY <1>4, <2>1
    <2>3. h[u] = First(u).amount + Totals(v)[v]
      BY <1>5
    <2> HIDE DEF h
    <2> QED BY <2>2, <2>3
  <1>6. IsTotals(h, T)
    <2>1. h[{}] = 0
      OBVIOUS
    <2>2. h = [u \in SUBSET T |-> h[u]]
      OBVIOUS
    <2> HIDE DEF h
    <2>3. \A u \in SUBSET T :
             h[u] = IF u = {} THEN 0 ELSE First(u).amount + h[u \ {First(u)}]
      BY <1>5, <2>1
    <2> QED BY <2>2, <2>3 DEF IsTotals
  <1> HIDE DEF h
  <1>7. IsTotals(Totals(T), T)
    BY <1>6 DEF Totals
  <1> QED BY <1>1, <1>7 DEF Bad

LEMMA TotalStep ==
  ASSUME NEW S, IsFiniteSet(S)
  PROVE  /\ S = {} => Total(S) = 0
         /\ S # {} => Total(S) = First(S).amount + Total(S \ {First(S)})
  <1>1. IsTotals(Totals(S), S)
    BY TotalsExist
  <1>2. CASE S = {}
    <2>1. Totals(S)[S] = 0
      BY <1>1, <1>2 DEF IsTotals
    <2> QED BY <1>2, <2>1, TotalIsLast
  <1>3. CASE S # {}
    <2> DEFINE T == S \ {First(S)}
    <2>1. Totals(S)[S] = First(S).amount + Totals(S)[T]
      BY <1>1, <1>3 DEF IsTotals
    <2>2. T \in SUBSET S /\ IsFiniteSet(T)
      BY FS_Subset
    <2>3. Totals(S)[T] = Totals(T)[T]
      BY <1>1, <2>2, TotalsExist, TotalsAgree
    <2> QED BY <1>3, <2>1, <2>3, TotalIsLast
  <1> QED BY <1>2, <1>3

LEMMA TotalType ==
  ASSUME NEW S, IsFiniteSet(S), \A e \in S : e.amount \in Int
  PROVE  Total(S) \in Int
  <1> DEFINE Bad == {s \in SUBSET S : Total(s) \notin Int}
  <1> SUFFICES ASSUME Bad # {} PROVE FALSE
    OBVIOUS
  <1>0. Bad \subseteq SUBSET S
    OBVIOUS
  <1> HIDE DEF Bad
  <1>1. PICK s \in Bad : \A u \in Bad : u \subseteq s => u = s
    BY <1>0, SmallestSet
  <1>2. IsFiniteSet(s) /\ Total(s) \notin Int /\ s \in SUBSET S
    BY FS_Subset DEF Bad
  <1>3. s # {} /\ Total(s) = First(s).amount + Total(s \ {First(s)})
    BY <1>2, TotalStep
  <1>4. First(s) \in s /\ First(s).amount \in Int
    BY <1>2, <1>3, FirstIsOne
  <1>5. s \ {First(s)} \in SUBSET S /\ s \ {First(s)} # s
    BY <1>2, <1>4
  <1>6. Total(s \ {First(s)}) \in Int
    BY <1>1, <1>5 DEF Bad
  <1> QED BY <1>2, <1>3, <1>4, <1>6

(* The order in which entries are taken makes no difference.               *)
LEMMA TotalAdds ==
  ASSUME NEW E, IsFiniteSet(E), \A e \in E : e.amount \in Int,
         NEW S \in SUBSET E, NEW x \in E \ S
  PROVE  Total(S \cup {x}) = Total(S) + x.amount
  <1> DEFINE Adds(s, e) == Total(s \cup {e}) = Total(s) + e.amount
             Bad == {s \in SUBSET E : \E e \in E \ s : ~Adds(s, e)}
  <1> SUFFICES ASSUME Bad # {} PROVE FALSE
    OBVIOUS
  <1>0. Bad \subseteq SUBSET E
    OBVIOUS
  <1> HIDE DEF Bad
  <1>1. PICK s \in Bad : \A u \in Bad : u \subseteq s => u = s
    BY <1>0, SmallestSet
  <1>2. PICK e \in E \ s : ~Adds(s, e)
    BY <1>1 DEF Bad
  <1>3. s \in SUBSET E
    BY <1>1 DEF Bad
  <1> DEFINE t == s \cup {e}
             y == First(t)
             u == s \ {y}
  <1>4. y \in t /\ t \in SUBSET E /\ t # {}
    BY <1>3, FirstIsOne
  <1>5. IsFiniteSet(t) /\ IsFiniteSet(s) /\ IsFiniteSet(u)
    BY <1>3, <1>4, FS_Subset
  <1>6. /\ Total(u) \in Int /\ Total(s) \in Int
        /\ e.amount \in Int /\ y.amount \in Int
    BY <1>3, <1>4, <1>5, TotalType
  <1>7. Total(t) = y.amount + Total(t \ {y})
    BY <1>4, <1>5, TotalStep
  <1>8. CASE y = e
    <2>1. t \ {y} = s
      BY <1>8
    <2>2. Total(t) = e.amount + Total(s)
      BY <1>7, <1>8, <2>1
    <2> HIDE DEF t
    <2>3. Total(t) = Total(s) + e.amount
      BY <1>6, <2>2
    <2> QED BY <1>2, <2>3 DEF t
  <1>9. CASE y # e
    <2>1. y \in s /\ t \ {y} = u \cup {e} /\ s = u \cup {y} /\ u # s
      BY <1>4, <1>9
    <2>2. \A d \in E \ u : Adds(u, d)
      BY <1>1, <1>3, <2>1 DEF Bad
    <2>3. Total(u \cup {e}) = Total(u) + e.amount
      BY <1>2, <2>1, <2>2
    <2>4. Total(s) = Total(u) + y.amount
      <3>1. y \in E \ u
        BY <1>3, <2>1
      <3> QED BY <2>1, <2>2, <3>1
    <2> HIDE DEF y
    <2>5. Total(t) = y.amount + (Total(u) + e.amount)
      BY <1>7, <2>1, <2>3
    <2> HIDE DEF t, u
    <2>6. Total(t) = Total(s) + e.amount
      BY <1>6, <2>4, <2>5
    <2> QED BY <1>2, <2>6 DEF t
  <1> QED BY <1>8, <1>9

LEMMA TotalOfUnion ==
  ASSUME NEW E, IsFiniteSet(E), \A e \in E : e.amount \in Int,
         NEW S \in SUBSET E, NEW T \in SUBSET E, S \cap T = {}
  PROVE  Total(S \cup T) = Total(S) + Total(T)
  <1> DEFINE Bad == {u \in SUBSET T : Total(S \cup u) # Total(S) + Total(u)}
  <1>0. /\ IsFiniteSet(T)
        /\ \A u \in SUBSET E : Total(u) \in Int /\ IsFiniteSet(u)
    BY TotalType, FS_Subset
  <1> SUFFICES ASSUME Bad # {} PROVE FALSE
    OBVIOUS
  <1>10. Bad \subseteq SUBSET T
    OBVIOUS
  <1> HIDE DEF Bad
  <1>1. PICK u \in Bad : \A v \in Bad : v \subseteq u => v = u
    BY <1>0, <1>10, SmallestSet
  <1>2. u \in SUBSET T /\ Total(S \cup u) # Total(S) + Total(u)
    BY <1>1 DEF Bad
  <1>3. CASE u = {}
    <2>1. Total(u) = 0 /\ S \cup u = S
      BY <1>0, <1>3, TotalStep
    <2> QED BY <1>0, <1>2, <2>1
  <1>4. CASE u # {}
    <2> DEFINE v == u \ {First(u)}
    <2>1. First(u) \in u
      BY <1>4, FirstIsOne
    <2>2. v \in SUBSET T /\ v # u /\ v \subseteq u
      BY <1>2, <2>1
    <2>3. Total(S \cup v) = Total(S) + Total(v)
      BY <1>1, <2>2 DEF Bad
    <2>4. Total((S \cup v) \cup {First(u)}) = Total(S \cup v) + First(u).amount
      <3>1. S \cup v \in SUBSET E /\ First(u) \in E \ (S \cup v)
        BY <1>2, <2>1, <2>2
      <3> QED BY <3>1, TotalAdds
    <2>5. Total(v \cup {First(u)}) = Total(v) + First(u).amount
      <3>1. v \in SUBSET E /\ First(u) \in E \ v
        BY <1>2, <2>1, <2>2
      <3> QED BY <3>1, TotalAdds
    <2>6. (S \cup v) \cup {First(u)} = S \cup u /\ v \cup {First(u)} = u
      BY <2>1
    <2>7. /\ Total(S) \in Int /\ Total(v) \in Int
          /\ First(u).amount \in Int
      BY <1>0, <1>2, <2>1, <2>2
    <2> HIDE DEF v
    <2>8. /\ Total(S \cup u) = (Total(S) + Total(v)) + First(u).amount
          /\ Total(u) = Total(v) + First(u).amount
      BY <2>3, <2>4, <2>5, <2>6
    <2>9. Total(S \cup u) = Total(S) + Total(u)
      BY <2>7, <2>8
    <2> QED BY <1>2, <2>9
  <1> QED BY <1>3, <1>4

-----------------------------------------------------------------------------
(* What is on its way into the ledger.  A transaction in place p and at w  *)
(* of its script is past entry j of its call i.                            *)
Past(p, w, i, j) ==
    \/ p = "commit"
    \/ i < w.batch
    \/ i = w.batch /\ j < w.entry

StartsBatch ==
    \A t \in Txns : pc[t] \in {"idle", "lock"} => at[t].entry = 1

(* A transaction's entries are those it is past, and the key of every      *)
(* entry it is past is booked, by itself or by an earlier transaction.     *)
PendingIsDone ==
    \A t \in Txns : \A e \in pending[t] :
        \E i \in DOMAIN Script[t] : \E j \in DOMAIN Script[t][i] :
            Past(pc[t], at[t], i, j) /\ e = Script[t][i][j]

DoneIsBooked ==
    \A t \in Txns : \A i \in DOMAIN Script[t] : \A j \in DOMAIN Script[t][i] :
        Past(pc[t], at[t], i, j) => Script[t][i][j].key \in Keys(posted \cup pending[t])

(* Nothing is booked twice, though all may have looked at the same time.   *)
KeysApart ==
    /\ \A t \in Txns : Keys(pending[t]) \cap Keys(posted) = {}
    /\ \A t, u \in Txns : t # u => Keys(pending[t]) \cap Keys(pending[u]) = {}

InsertIsNew ==
    \A t \in Txns : pc[t] = "insert" => Entry(t).key \notin Keys(pending[t])

PendingRowsHeld ==
    \A t \in Txns : \A e \in pending[t] :
        BothActive(e) /\ owner[e.debit] = t /\ owner[e.credit] = t

(* The columns agree with the entries.                                     *)
Booked ==
    /\ IsFiniteSet(posted) /\ \A t \in Txns : IsFiniteSet(pending[t])
    /\ balance = AL!Aggregate(posted)
    /\ \A t \in Txns : delta[t] = AL!Aggregate(pending[t])

EntriesInv ==
    /\ StartsBatch
    /\ PendingIsDone
    /\ DoneIsBooked
    /\ KeysApart
    /\ InsertIsNew
    /\ PendingRowsHeld
    /\ Booked

-----------------------------------------------------------------------------
(* Entries and the balances they add up to.                                *)
LEMMA ScriptEntry ==
  ASSUME NEW t \in Txns, NEW i \in DOMAIN Script[t], NEW j \in DOMAIN Script[t][i]
  PROVE  /\ i \in Nat \ {0} /\ j \in Nat \ {0}
         /\ i <= Len(Script[t]) /\ j <= Len(Script[t][i])
         /\ Script[t][i][j] \in Request(t)
         /\ Script[t][i][j] \in AllEntries
         /\ Script[t][i][j].debit \in Accounts
         /\ Script[t][i][j].credit \in Accounts
         /\ Script[t][i][j].amount \in Nat \ {0}
  <1> DEFINE B == [key : STRING, debit : Accounts, credit : Accounts,
                   amount : Nat \ {0}]
  <1>1. Script[t] \in Seq(Seq(B))
    BY LedgerAssumption
  <1> HIDE DEF B
  <1>2. Script[t][i] \in Seq(B)
    BY <1>1
  <1>3. /\ i \in Nat \ {0} /\ i <= Len(Script[t])
        /\ j \in Nat \ {0} /\ j <= Len(Script[t][i])
    BY <1>1, <1>2
  <1>4. Script[t][i][j] \in B
    BY <1>2
  <1>5. Script[t][i][j] \in Request(t)
    BY DEF Request, Entries
  <1>6. Script[t][i][j] \in AllEntries
    BY <1>5 DEF AllEntries
  <1> QED BY <1>3, <1>4, <1>5, <1>6 DEF B

LEMMA EntriesAreTyped ==
  ASSUME NEW e \in AllEntries
  PROVE  e.debit \in Accounts /\ e.credit \in Accounts /\ e.amount \in Int
  <1>1. PICK t \in Txns : e \in Request(t)
    BY DEF AllEntries
  <1>2. PICK i \in DOMAIN Script[t] : e \in Entries(Script[t][i])
    BY <1>1 DEF Request
  <1>3. PICK j \in DOMAIN Script[t][i] : e = Script[t][i][j]
    BY <1>2 DEF Entries
  <1> QED BY <1>3, ScriptEntry

(* Aggregate in terms of Total.                                            *)
Into(S, a) == {e \in S : e.credit = a}
Outof(S, a) == {e \in S : e.debit = a}

LEMMA AggregateIs ==
  ASSUME NEW S
  PROVE  AL!Aggregate(S) = [a \in Accounts |-> Total(Into(S, a)) - Total(Outof(S, a))]
  BY DEF AL!Aggregate, AL!Credits, AL!Debits, AL!MapThenSumSet, AL!MapThenFoldSet,
         Total, Into, Outof, MapThenSumSet, MapThenFoldSet

LEMMA PartsOf ==
  ASSUME NEW S \in SUBSET AllEntries, IsFiniteSet(S), NEW a
  PROVE  /\ Into(S, a) \in SUBSET S /\ Outof(S, a) \in SUBSET S
         /\ Total(Into(S, a)) \in Int /\ Total(Outof(S, a)) \in Int
  <1>1. Into(S, a) \in SUBSET S /\ Outof(S, a) \in SUBSET S
    BY DEF Into, Outof
  <1>2. IsFiniteSet(Into(S, a)) /\ IsFiniteSet(Outof(S, a))
    BY <1>1, FS_Subset
  <1>3. \A e \in S : e.amount \in Int
    BY EntriesAreTyped
  <1> QED BY <1>1, <1>2, <1>3, TotalType

LEMMA AggregateOfUnion ==
  ASSUME NEW S \in SUBSET AllEntries, NEW T \in SUBSET AllEntries,
         IsFiniteSet(S), IsFiniteSet(T), S \cap T = {}
  PROVE  AL!Aggregate(S \cup T)
           = [a \in Accounts |-> AL!Aggregate(S)[a] + AL!Aggregate(T)[a]]
  <1>1. IsFiniteSet(S \cup T) /\ \A e \in S \cup T : e.amount \in Int
    BY FS_Union, EntriesAreTyped
  <1>2. ASSUME NEW a \in Accounts
        PROVE  Total(Into(S \cup T, a)) - Total(Outof(S \cup T, a))
                 = (Total(Into(S, a)) - Total(Outof(S, a)))
                     + (Total(Into(T, a)) - Total(Outof(T, a)))
    <2>1. Into(S \cup T, a) = Into(S, a) \cup Into(T, a)
      BY DEF Into
    <2>2. Outof(S \cup T, a) = Outof(S, a) \cup Outof(T, a)
      BY DEF Outof
    <2>3. /\ Into(S, a) \in SUBSET (S \cup T) /\ Into(T, a) \in SUBSET (S \cup T)
          /\ Outof(S, a) \in SUBSET (S \cup T) /\ Outof(T, a) \in SUBSET (S \cup T)
          /\ Into(S, a) \cap Into(T, a) = {} /\ Outof(S, a) \cap Outof(T, a) = {}
      BY DEF Into, Outof
    <2>4. Total(Into(S \cup T, a)) = Total(Into(S, a)) + Total(Into(T, a))
      <3> DEFINE E == S \cup T
      <3> HIDE DEF E
      <3>1. \A A, B \in SUBSET E :
               A \cap B = {} => Total(A \cup B) = Total(A) + Total(B)
        BY <1>1, TotalOfUnion DEF E
      <3> QED BY <2>1, <2>3, <3>1 DEF E
    <2>5. Total(Outof(S \cup T, a)) = Total(Outof(S, a)) + Total(Outof(T, a))
      <3> DEFINE E == S \cup T
      <3> HIDE DEF E
      <3>1. \A A, B \in SUBSET E :
               A \cap B = {} => Total(A \cup B) = Total(A) + Total(B)
        BY <1>1, TotalOfUnion DEF E
      <3> QED BY <2>2, <2>3, <3>1 DEF E
    <2>6. /\ Total(Into(S, a)) \in Int /\ Total(Outof(S, a)) \in Int
          /\ Total(Into(T, a)) \in Int /\ Total(Outof(T, a)) \in Int
      BY PartsOf
    <2> QED BY <2>4, <2>5, <2>6
  <1> QED BY <1>2, AggregateIs

LEMMA AggregateAdds ==
  ASSUME NEW S \in SUBSET AllEntries, IsFiniteSet(S), NEW e \in AllEntries \ S
  PROVE  AL!Aggregate(S \cup {e}) = Moved(AL!Aggregate(S), e)
  <1> DEFINE E == S \cup {e}
  <1>1. IsFiniteSet(E) /\ \A d \in E : d.amount \in Int
    BY FS_AddElement, EntriesAreTyped
  <1>2. e.amount \in Int
    BY EntriesAreTyped
  <1>3. ASSUME NEW a \in Accounts
        PROVE  Total(Into(E, a)) - Total(Outof(E, a))
                 = Total(Into(S, a)) - Total(Outof(S, a))
                     + (IF a = e.credit THEN e.amount ELSE 0)
                     - (IF a = e.debit THEN e.amount ELSE 0)
    <2>1. /\ Total(Into(S, a)) \in Int /\ Total(Outof(S, a)) \in Int
          /\ Into(S, a) \in SUBSET E /\ Outof(S, a) \in SUBSET E
          /\ e \in E \ Into(S, a) /\ e \in E \ Outof(S, a)
      BY PartsOf DEF Into, Outof
    <2>2. Total(Into(E, a))
            = Total(Into(S, a)) + (IF a = e.credit THEN e.amount ELSE 0)
      <3>1. CASE a = e.credit
        <4>1. Into(E, a) = Into(S, a) \cup {e}
          BY <3>1 DEF Into
        <4> HIDE DEF E
        <4> QED BY <1>1, <2>1, <3>1, <4>1, TotalAdds
      <3>2. CASE a # e.credit
        <4>1. Into(E, a) = Into(S, a)
          BY <3>2 DEF Into
        <4> QED BY <2>1, <3>2, <4>1
      <3> QED BY <3>1, <3>2
    <2>3. Total(Outof(E, a))
            = Total(Outof(S, a)) + (IF a = e.debit THEN e.amount ELSE 0)
      <3>1. CASE a = e.debit
        <4>1. Outof(E, a) = Outof(S, a) \cup {e}
          BY <3>1 DEF Outof
        <4> HIDE DEF E
        <4> QED BY <1>1, <2>1, <3>1, <4>1, TotalAdds
      <3>2. CASE a # e.debit
        <4>1. Outof(E, a) = Outof(S, a)
          BY <3>2 DEF Outof
        <4> QED BY <2>1, <3>2, <4>1
      <3> QED BY <3>1, <3>2
    <2> HIDE DEF E
    <2> QED BY <1>2, <2>1, <2>2, <2>3
  <1> QED BY <1>3, AggregateIs DEF Moved

LEMMA AggregateOfNone == AL!Aggregate({}) = Nothing
  <1>1. \A a : Into({}, a) = {} /\ Outof({}, a) = {}
    BY DEF Into, Outof
  <1>2. Total({}) = 0
    BY TotalStep, FS_EmptySet
  <1> QED BY <1>1, <1>2, AggregateIs DEF Nothing

-----------------------------------------------------------------------------
(* Going on makes t past its entry, and past no other.                     *)
LEMMA AdvanceDone ==
  ASSUME TypeOK, NEW t \in Txns, Advance(t), pc[t] # "commit"
  PROVE  /\ \A i \in DOMAIN Script[t] : \A j \in DOMAIN Script[t][i] :
               Past(pc'[t], at'[t], i, j)
                 <=> Past(pc[t], at[t], i, j) \/ (i = at[t].batch /\ j = at[t].entry)
         /\ pc'[t] \in {"lock", "check", "commit"}
         /\ pc'[t] = "lock" => at'[t].entry = 1
         /\ \A u \in Txns \ {t} : pc'[u] = pc[u] /\ at'[u] = at[u]
  <1> DEFINE b == at[t].batch
             n == at[t].entry
  <1>1. b \in DOMAIN Script[t] /\ n \in DOMAIN Script[t][b] /\ b \in Nat /\ n \in Nat
    BY DEF TypeOK, Batch
  <1>2. \A u \in Txns \ {t} : pc'[u] = pc[u] /\ at'[u] = at[u]
    BY AdvanceGoes
  <1>4. \A i \in DOMAIN Script[t] : \A j \in DOMAIN Script[t][i] :
          /\ i \in Nat /\ i >= 1 /\ i <= Len(Script[t])
          /\ j \in Nat /\ j >= 1 /\ j <= Len(Script[t][i])
    BY ScriptEntry
  <1>5. CASE ~LastEntry(t)
    <2>1. pc'[t] = "check" /\ at'[t].batch = b /\ at'[t].entry = n + 1
      BY <1>5 DEF Advance, Goto, TypeOK
    <2> QED BY <1>1, <1>2, <1>4, <2>1 DEF Past
  <1>6. CASE LastEntry(t) /\ b < Len(Script[t])
    <2>1. pc'[t] = "lock" /\ at'[t].batch = b + 1 /\ at'[t].entry = 1
      BY <1>6 DEF Advance, Goto, TypeOK
    <2>2. n = Len(Script[t][b])
      BY <1>6 DEF LastEntry, Batch
    <2> HIDE DEF b, n
    <2>3. ASSUME NEW i \in DOMAIN Script[t], NEW j \in DOMAIN Script[t][i]
          PROVE  Past(pc'[t], at'[t], i, j) <=> Past(pc[t], at[t], i, j) \/ (i = b /\ j = n)
      <3>1. Past(pc'[t], at'[t], i, j) <=> i < b + 1
        BY <1>1, <1>4, <2>1 DEF Past
      <3>2. Past(pc[t], at[t], i, j) <=> i < b \/ (i = b /\ j < n)
        BY DEF Past, b, n
      <3> QED BY <1>1, <1>4, <2>2, <3>1, <3>2
    <2> QED BY <1>2, <2>1, <2>3 DEF b, n
  <1>7. CASE LastEntry(t) /\ ~(b < Len(Script[t]))
    <2>1. pc'[t] = "commit"
      BY <1>7 DEF Advance, Goto, TypeOK
    <2>2. n = Len(Script[t][b])
      BY <1>7 DEF LastEntry, Batch
    <2>3. Len(Script[t]) \in Nat
      BY LedgerAssumption
    <2> HIDE DEF b, n
    <2>4. ASSUME NEW i \in DOMAIN Script[t], NEW j \in DOMAIN Script[t][i]
          PROVE  Past(pc[t], at[t], i, j) \/ (i = b /\ j = n)
      <3>1. Past(pc[t], at[t], i, j) <=> i < b \/ (i = b /\ j < n)
        BY DEF Past, b, n
      <3> QED BY <1>1, <1>4, <1>7, <2>2, <2>3, <3>1
    <2>5. \A i \in DOMAIN Script[t] : \A j \in DOMAIN Script[t][i] : Past(pc'[t], at'[t], i, j)
      BY <2>1 DEF Past
    <2> QED BY <1>2, <2>1, <2>4, <2>5 DEF b, n
  <1> QED BY <1>5, <1>6, <1>7

(* Steps that leave the entries, and every held row, as they are.          *)
LEMMA EntriesStay ==
  ASSUME IInv, EntriesInv,
         UNCHANGED <<posted, balance, at, pending, delta>>,
         \A u \in Txns : /\ pc'[u] = "commit" <=> pc[u] = "commit"
                         /\ pc'[u] \in {"idle", "lock"} => pc[u] \in {"idle", "lock"},
         \A u \in Txns, a \in Accounts :
            owner[a] = u => owner'[a] = u /\ (active[a] => active'[a]),
         InsertIsNew'
  PROVE  EntriesInv'
  <1>1. \A u \in Txns : \A i \in DOMAIN Script[u] : \A j \in DOMAIN Script[u][i] :
           Past(pc'[u], at'[u], i, j) <=> Past(pc[u], at[u], i, j)
    BY DEF Past
  <1>2. StartsBatch' /\ PendingIsDone' /\ DoneIsBooked'
    BY <1>1 DEF EntriesInv, StartsBatch, PendingIsDone, DoneIsBooked, Keys
  <1>3. KeysApart' /\ Booked'
    <2>1. KeysApart'
      BY DEF EntriesInv, KeysApart, Keys
    <2>2. Booked'
      BY DEF EntriesInv, Booked
    <2> QED BY <2>1, <2>2
  <1>4. PendingRowsHeld'
    <2> SUFFICES ASSUME NEW t \in Txns, NEW e \in pending[t]
                 PROVE  BothActive(e)' /\ owner'[e.debit] = t /\ owner'[e.credit] = t
      BY DEF PendingRowsHeld
    <2>1. e.debit \in Accounts /\ e.credit \in Accounts
      BY EntriesAreTyped DEF IInv, TypeOK
    <2> QED BY <2>1 DEF EntriesInv, PendingRowsHeld, BothActive
  <1> QED BY <1>2, <1>3, <1>4 DEF EntriesInv

LEMMA QuietKeepsEntries ==
  ASSUME IInv, EntriesInv,
         \/ \E t \in Txns : Begin(t) \/ LockRow(t) \/ AllLocked(t)
         \/ \E c \in Closable : SetActive(c)
         \/ UNCHANGED vars
  PROVE  EntriesInv'
  <1>1. UNCHANGED <<posted, balance, at, pending, delta>>
    BY DEF Begin, LockRow, AllLocked, SetActive, work, rows, vars
  <1>2. \A u \in Txns : /\ pc'[u] = "commit" <=> pc[u] = "commit"
                        /\ pc'[u] = "insert" <=> pc[u] = "insert"
                        /\ pc'[u] \in {"idle", "lock"} => pc[u] \in {"idle", "lock"}
    BY DEF Begin, LockRow, AllLocked, SetActive, work, rows, vars, Goto, IInv, TypeOK
  <1>3. \A u \in Txns, a \in Accounts :
           owner[a] = u => owner'[a] = u /\ (active[a] => active'[a])
    BY LedgerAssumption
       DEF Begin, LockRow, AllLocked, SetActive, work, rows, vars, IInv, TypeOK
  <1>4. InsertIsNew'
    BY <1>1, <1>2 DEF EntriesInv, InsertIsNew, Entry, Batch, Keys
  <1> QED BY <1>1, <1>2, <1>3, <1>4, EntriesStay

(* The end of a transaction, whether its entries are dropped or not.       *)
LEMMA EndLeaves ==
  ASSUME IInv, EntriesInv, NEW t \in Txns, End(t)
  PROVE  /\ pending'[t] = {} /\ delta'[t] = Nothing /\ pc'[t] = "idle"
         /\ at'[t].entry = 1 /\ at'[t].batch = 1
         /\ \A i \in DOMAIN Script[t] : \A j \in DOMAIN Script[t][i] : ~Past(pc'[t], at'[t], i, j)
         /\ \A u \in Txns \ {t} :
               /\ pending'[u] = pending[u] /\ delta'[u] = delta[u]
               /\ pc'[u] = pc[u] /\ at'[u] = at[u]
               /\ \A i, j : Past(pc'[u], at'[u], i, j) <=> Past(pc[u], at[u], i, j)
               /\ \A a \in Accounts : owner[a] = u => owner'[a] = u
         /\ \A u \in Txns : pending'[u] \subseteq pending[u]
  <1>1. /\ pending'[t] = {} /\ delta'[t] = Nothing /\ pc'[t] = "idle"
        /\ at'[t].entry = 1 /\ at'[t].batch = 1
    BY DEF End, Goto, Start, IInv, TypeOK
  <1>2. \A u \in Txns \ {t} : /\ pending'[u] = pending[u] /\ delta'[u] = delta[u]
                             /\ pc'[u] = pc[u] /\ at'[u] = at[u]
                             /\ \A a \in Accounts : owner[a] = u => owner'[a] = u
    BY DEF End, Goto, IInv, TypeOK
  <1>3. \A i \in DOMAIN Script[t] : \A j \in DOMAIN Script[t][i] : ~Past(pc'[t], at'[t], i, j)
    BY <1>1, ScriptEntry DEF Past
  <1>4. \A u \in Txns \ {t} : \A i, j : Past(pc'[u], at'[u], i, j) <=> Past(pc[u], at[u], i, j)
    BY <1>2 DEF Past
  <1> QED BY <1>1, <1>2, <1>3, <1>4

LEMMA EndKeepsRest ==
  ASSUME IInv, EntriesInv, NEW t \in Txns, End(t), UNCHANGED active
  PROVE  StartsBatch' /\ PendingIsDone' /\ InsertIsNew' /\ PendingRowsHeld'
  <1>1. StartsBatch'
    BY EndLeaves DEF EntriesInv, StartsBatch
  <1>2. PendingIsDone'
    BY EndLeaves DEF EntriesInv, PendingIsDone
  <1>3. InsertIsNew'
    BY EndLeaves DEF EntriesInv, InsertIsNew, Entry, Batch, Keys
  <1>4. PendingRowsHeld'
    <2> SUFFICES ASSUME NEW u \in Txns, NEW e \in pending'[u]
                 PROVE  BothActive(e)' /\ owner'[e.debit] = u /\ owner'[e.credit] = u
      BY DEF PendingRowsHeld
    <2>1. u # t /\ e \in pending[u]
      BY EndLeaves
    <2>2. e.debit \in Accounts /\ e.credit \in Accounts
      BY <2>1, EntriesAreTyped DEF IInv, TypeOK
    <2> QED BY <2>1, <2>2, EndLeaves DEF EntriesInv, PendingRowsHeld, BothActive
  <1> QED BY <1>1, <1>2, <1>3, <1>4

LEMMA RollbackKeepsEntries ==
  ASSUME IInv, EntriesInv, NEW t \in Txns, Rollback(t)
  PROVE  EntriesInv'
  <1>1. End(t) /\ posted' = posted /\ balance' = balance /\ active' = active
    BY DEF Rollback, rows
  <1>2. DoneIsBooked'
    <2> SUFFICES ASSUME NEW u \in Txns, NEW i \in DOMAIN Script[u],
                        NEW j \in DOMAIN Script[u][i], Past(pc'[u], at'[u], i, j)
                 PROVE  Script[u][i][j].key \in Keys(posted' \cup pending'[u])
      BY DEF DoneIsBooked, Keys
    <2>1. u # t /\ Past(pc[u], at[u], i, j) /\ pending'[u] = pending[u]
      BY <1>1, EndLeaves
    <2> QED BY <1>1, <2>1 DEF EntriesInv, DoneIsBooked
  <1>3. KeysApart'
    <2>1. \A u \in Txns : Keys(pending'[u]) \subseteq Keys(pending[u])
      BY <1>1, EndLeaves DEF Keys
    <2>2. Keys(posted') = Keys(posted) /\ \A u \in Txns : Keys(pending[u])' = Keys(pending'[u])
      BY <1>1 DEF Keys
    <2> QED BY <2>1, <2>2 DEF EntriesInv, KeysApart
  <1>4. Booked'
    <2>1. \A u \in Txns : IsFiniteSet(pending'[u])
      BY <1>1, EndLeaves, FS_EmptySet DEF EntriesInv, Booked
    <2>2. \A u \in Txns : delta'[u] = AL!Aggregate(pending'[u])
      BY <1>1, EndLeaves, AggregateOfNone DEF EntriesInv, Booked
    <2> QED BY <1>1, <2>1, <2>2 DEF EntriesInv, Booked
  <1> QED BY <1>1, <1>2, <1>3, <1>4, EndKeepsRest DEF EntriesInv

LEMMA CommitBooks ==
  ASSUME IInv, EntriesInv, NEW t \in Txns, Commit(t)
  PROVE  balance' = AL!Aggregate(posted') /\ IsFiniteSet(posted')
  <1>1. /\ posted \in SUBSET AllEntries /\ pending[t] \in SUBSET AllEntries
        /\ IsFiniteSet(posted) /\ IsFiniteSet(pending[t])
    BY DEF IInv, TypeOK, EntriesInv, Booked
  <1>2. posted \cap pending[t] = {}
    BY DEF EntriesInv, KeysApart, Keys
  <1>3. balance = AL!Aggregate(posted) /\ delta[t] = AL!Aggregate(pending[t])
    BY DEF EntriesInv, Booked
  <1>4. /\ posted' = posted \cup pending[t]
        /\ balance' = [a \in Accounts |-> balance[a] + delta[t][a]]
    BY DEF Commit
  <1>5. AL!Aggregate(posted \cup pending[t]) = balance'
    BY <1>1, <1>2, <1>3, <1>4, AggregateOfUnion
  <1> QED BY <1>1, <1>4, <1>5, FS_Union

LEMMA CommitKeepsEntries ==
  ASSUME IInv, EntriesInv, NEW t \in Txns, Commit(t)
  PROVE  EntriesInv'
  <1>1. End(t) /\ posted' = posted \cup pending[t] /\ active' = active
    BY DEF Commit
  <1>2. DoneIsBooked'
    <2> SUFFICES ASSUME NEW u \in Txns, NEW i \in DOMAIN Script[u],
                        NEW j \in DOMAIN Script[u][i], Past(pc'[u], at'[u], i, j)
                 PROVE  Script[u][i][j].key \in Keys(posted' \cup pending'[u])
      BY DEF DoneIsBooked, Keys
    <2>1. u # t /\ Past(pc[u], at[u], i, j) /\ pending'[u] = pending[u]
      BY <1>1, EndLeaves
    <2>2. Script[u][i][j].key \in Keys(posted \cup pending[u])
      BY <2>1 DEF EntriesInv, DoneIsBooked
    <2> QED BY <1>1, <2>1, <2>2 DEF Keys
  <1>3. KeysApart'
    <2>1. \A u \in Txns \ {t} : pending'[u] = pending[u]
      BY <1>1, EndLeaves
    <2>2. pending'[t] = {}
      BY <1>1, EndLeaves
    <2>3. Keys(posted') = Keys(posted) \cup Keys(pending[t])
      BY <1>1 DEF Keys
    <2>4. Keys(pending'[t]) = {}
      BY <2>2 DEF Keys
    <2>5. \A u \in Txns : Keys(pending'[u]) \cap Keys(posted') = {}
      BY <2>1, <2>3, <2>4 DEF EntriesInv, KeysApart
    <2>6. \A u, v \in Txns : u # v => Keys(pending'[u]) \cap Keys(pending'[v]) = {}
      BY <2>1, <2>4 DEF EntriesInv, KeysApart
    <2> QED BY <2>5, <2>6 DEF KeysApart, Keys
  <1>4. Booked'
    <2>1. \A u \in Txns : IsFiniteSet(pending'[u])
      BY <1>1, EndLeaves, FS_EmptySet DEF EntriesInv, Booked
    <2>2. \A u \in Txns : delta'[u] = AL!Aggregate(pending'[u])
      BY <1>1, EndLeaves, AggregateOfNone DEF EntriesInv, Booked
    <2> QED BY <2>1, <2>2, CommitBooks DEF Booked
  <1> QED BY <1>1, <1>2, <1>3, <1>4, EndKeepsRest DEF EntriesInv

LEMMA CheckKeepsEntries ==
  ASSUME IInv, EntriesInv, NEW t \in Txns, Check(t)
  PROVE  EntriesInv'
  <1>0. pc[t] = "check" /\ TypeOK
    BY DEF Check, IInv
  <1>1. CASE /\ ~KeyIsNew(t, Entry(t))
             /\ Advance(t)
             /\ UNCHANGED <<rows, owner, pending, delta>>
    <2>1. UNCHANGED <<posted, balance, active, owner, pending, delta>>
      BY <1>1 DEF rows
    <2>2. \A u \in Txns \ {t} : \A i, j : Past(pc'[u], at'[u], i, j) <=> Past(pc[u], at[u], i, j)
      BY <1>0, <1>1, AdvanceDone
    <2>3. StartsBatch'
      BY <1>0, <1>1, AdvanceDone DEF EntriesInv, StartsBatch
    <2>4. PendingIsDone'
      <3> SUFFICES ASSUME NEW u \in Txns, NEW e \in pending[u]
                   PROVE  \E i \in DOMAIN Script[u] : \E j \in DOMAIN Script[u][i] :
                            Past(pc'[u], at'[u], i, j) /\ e = Script[u][i][j]
        BY <2>1 DEF PendingIsDone
      <3>0. PICK i \in DOMAIN Script[u] : \E j \in DOMAIN Script[u][i] :
               Past(pc[u], at[u], i, j) /\ e = Script[u][i][j]
        BY DEF EntriesInv, PendingIsDone
      <3>1. PICK j \in DOMAIN Script[u][i] : Past(pc[u], at[u], i, j) /\ e = Script[u][i][j]
        BY <3>0
      <3>2. Past(pc'[u], at'[u], i, j)
        BY <1>0, <1>1, <2>2, <3>1, AdvanceDone
      <3> QED BY <3>1, <3>2
    <2>5. DoneIsBooked'
      <3> SUFFICES ASSUME NEW u \in Txns, NEW i \in DOMAIN Script[u],
                          NEW j \in DOMAIN Script[u][i], Past(pc'[u], at'[u], i, j)
                   PROVE  Script[u][i][j].key \in Keys(posted \cup pending[u])
        BY <2>1 DEF DoneIsBooked, Keys
      <3>1. CASE Past(pc[u], at[u], i, j)
        BY <3>1 DEF EntriesInv, DoneIsBooked
      <3>2. CASE ~Past(pc[u], at[u], i, j)
        <4>1. u = t /\ i = at[t].batch /\ j = at[t].entry
          BY <1>0, <1>1, <2>2, <3>2, AdvanceDone
        <4> QED BY <1>1, <4>1 DEF KeyIsNew, Entry, Batch
      <3> QED BY <3>1, <3>2
    <2>6. InsertIsNew'
      <3> SUFFICES ASSUME NEW u \in Txns, pc'[u] = "insert"
                   PROVE  Entry(u)'.key \notin Keys(pending[u])
        BY <2>1 DEF InsertIsNew, Keys
      <3>1. u # t /\ pc[u] = "insert" /\ at'[u] = at[u]
        BY <1>0, <1>1, AdvanceDone
      <3> QED BY <3>1 DEF EntriesInv, InsertIsNew, Entry, Batch
    <2>7. KeysApart' /\ PendingRowsHeld' /\ Booked'
      <3>1. KeysApart' /\ PendingRowsHeld'
        BY <2>1 DEF EntriesInv, KeysApart, PendingRowsHeld, Keys, BothActive
      <3>2. Booked'
        BY <2>1 DEF EntriesInv, Booked
      <3> QED BY <3>1, <3>2
    <2> QED BY <2>3, <2>4, <2>5, <2>6, <2>7 DEF EntriesInv
  <1>2. CASE /\ KeyIsNew(t, Entry(t))
             /\ Goto(t, "insert")
             /\ UNCHANGED <<rows, owner, at, pending, delta>>
    <2>1. UNCHANGED <<posted, balance, active, owner, at, pending, delta>>
      BY <1>2 DEF rows
    <2>2. pc'[t] = "insert" /\ \A u \in Txns \ {t} : pc'[u] = pc[u]
      BY <1>0, <1>2 DEF Goto, TypeOK
    <2>3. Entry(t).key \notin Keys(pending[t])
      BY <1>2 DEF KeyIsNew, Keys
    <2>4. InsertIsNew'
      <3> SUFFICES ASSUME NEW u \in Txns, pc'[u] = "insert"
                   PROVE  Entry(u).key \notin Keys(pending[u])
        BY <2>1 DEF InsertIsNew, Keys, Entry, Batch
      <3> QED BY <2>2, <2>3 DEF EntriesInv, InsertIsNew
    <2> QED BY <1>0, <2>1, <2>2, <2>4, EntriesStay
  <1>3. CASE Rollback(t)
    BY <1>3, RollbackKeepsEntries
  <1> QED BY <1>1, <1>2, <1>3 DEF Check

LEMMA InsertKeepsEntries ==
  ASSUME IInv, EntriesInv, NEW t \in Txns, Insert(t)
  PROVE  EntriesInv'
  <1>0. pc[t] = "insert" /\ TypeOK
    BY DEF Insert, IInv
  <1>1. CASE Rollback(t)
    BY <1>1, RollbackKeepsEntries
  <1>2. CASE /\ Entry(t).key \notin Keys(posted)
             /\ pending' = [pending EXCEPT ![t] = @ \cup {Entry(t)}]
             /\ delta' = [delta EXCEPT ![t] = Moved(@, Entry(t))]
             /\ Advance(t)
             /\ UNCHANGED <<rows, owner>>
    <2> DEFINE e == Entry(t)
               b == at[t].batch
               n == at[t].entry
    <2>1. UNCHANGED <<posted, balance, active, owner>>
      BY <1>2 DEF rows
    <2>2. /\ pending'[t] = pending[t] \cup {e} /\ delta'[t] = Moved(delta[t], e)
          /\ \A u \in Txns \ {t} : pending'[u] = pending[u] /\ delta'[u] = delta[u]
      BY <1>0, <1>2 DEF TypeOK
    <2>3. /\ b \in DOMAIN Script[t] /\ n \in DOMAIN Script[t][b]
          /\ e = Script[t][b][n] /\ e \in AllEntries
          /\ owner[e.debit] = t /\ owner[e.credit] = t /\ BothActive(e)
          /\ e.debit \in Accounts /\ e.credit \in Accounts
      BY <1>0, EntryType
         DEF TypeOK, Entry, Batch, IInv, HoldsWhatItWorksOn, CheckStillHolds
    <2>4. /\ e.key \notin Keys(posted) /\ e.key \notin Keys(pending[t])
          /\ \A u \in Txns \ {t} : e.key \notin Keys(pending[u])
      BY <1>0, <1>2 DEF Insert, KeyHolders, EntriesInv, InsertIsNew
    <2>5. /\ \A i \in DOMAIN Script[t] : \A j \in DOMAIN Script[t][i] :
                Past(pc'[t], at'[t], i, j) <=> Past(pc[t], at[t], i, j) \/ (i = b /\ j = n)
          /\ \A u \in Txns \ {t} : \A i, j : Past(pc'[u], at'[u], i, j) <=> Past(pc[u], at[u], i, j)
          /\ pc'[t] \in {"lock", "check", "commit"}
          /\ pc'[t] = "lock" => at'[t].entry = 1
          /\ \A u \in Txns \ {t} : pc'[u] = pc[u] /\ at'[u] = at[u]
      BY <1>0, <1>2, AdvanceDone
    <2> HIDE DEF e, b, n
    <2>6. StartsBatch'
      BY <2>5 DEF EntriesInv, StartsBatch
    <2>7. PendingIsDone'
      <3> SUFFICES ASSUME NEW u \in Txns, NEW d \in pending'[u]
                   PROVE  \E i \in DOMAIN Script[u] : \E j \in DOMAIN Script[u][i] :
                            Past(pc'[u], at'[u], i, j) /\ d = Script[u][i][j]
        BY DEF PendingIsDone
      <3>1. CASE d \in pending[u]
        <4>0. PICK i \in DOMAIN Script[u] : \E j \in DOMAIN Script[u][i] :
                 Past(pc[u], at[u], i, j) /\ d = Script[u][i][j]
          BY <3>1 DEF EntriesInv, PendingIsDone
        <4>1. PICK j \in DOMAIN Script[u][i] : Past(pc[u], at[u], i, j) /\ d = Script[u][i][j]
          BY <4>0
        <4>2. Past(pc'[u], at'[u], i, j)
          BY <2>5, <4>1
        <4> QED BY <4>1, <4>2
      <3>2. CASE d \notin pending[u]
        <4>1. u = t /\ d = e
          BY <2>2, <3>2
        <4>2. Past(pc'[t], at'[t], b, n)
          BY <2>3, <2>5
        <4> QED BY <2>3, <4>1, <4>2
      <3> QED BY <3>1, <3>2
    <2>8. DoneIsBooked'
      <3> SUFFICES ASSUME NEW u \in Txns, NEW i \in DOMAIN Script[u],
                          NEW j \in DOMAIN Script[u][i], Past(pc'[u], at'[u], i, j)
                   PROVE  Script[u][i][j].key \in Keys(posted \cup pending'[u])
        BY <2>1 DEF DoneIsBooked, Keys
      <3>1. pending[u] \subseteq pending'[u]
        BY <2>2
      <3>2. CASE Past(pc[u], at[u], i, j)
        <4>1. Script[u][i][j].key \in Keys(posted \cup pending[u])
          BY <3>2 DEF EntriesInv, DoneIsBooked
        <4> QED BY <3>1, <4>1 DEF Keys
      <3>3. CASE ~Past(pc[u], at[u], i, j)
        <4>1. u = t /\ Script[u][i][j] = e
          BY <2>3, <2>5, <3>3
        <4> QED BY <2>2, <4>1 DEF Keys
      <3> QED BY <3>2, <3>3
    <2>9. KeysApart'
      <3>1. Keys(pending'[t]) = Keys(pending[t]) \cup {e.key}
        BY <2>2 DEF Keys
      <3>2. \A u \in Txns : Keys(pending'[u]) \cap Keys(posted) = {}
        BY <2>2, <2>4, <3>1 DEF EntriesInv, KeysApart
      <3>3. \A u, v \in Txns : u # v => Keys(pending'[u]) \cap Keys(pending'[v]) = {}
        <4> SUFFICES ASSUME NEW u \in Txns, NEW v \in Txns, u # v
                     PROVE  Keys(pending'[u]) \cap Keys(pending'[v]) = {}
          OBVIOUS
        <4>1. Keys(pending[u]) \cap Keys(pending[v]) = {}
          BY DEF EntriesInv, KeysApart
        <4>2. CASE u = t
          BY <2>2, <2>4, <3>1, <4>1, <4>2
        <4>3. CASE v = t
          BY <2>2, <2>4, <3>1, <4>1, <4>3
        <4>4. CASE u # t /\ v # t
          BY <2>2, <4>1, <4>4
        <4> QED BY <4>2, <4>3, <4>4
      <3> QED BY <2>1, <3>2, <3>3 DEF KeysApart, Keys
    <2>10. InsertIsNew'
      <3> SUFFICES ASSUME NEW u \in Txns, pc'[u] = "insert"
                   PROVE  Entry(u)'.key \notin Keys(pending'[u])
        BY DEF InsertIsNew, Keys
      <3>1. u # t /\ pc[u] = "insert" /\ at'[u] = at[u] /\ pending'[u] = pending[u]
        BY <2>2, <2>5
      <3> QED BY <3>1 DEF EntriesInv, InsertIsNew, Entry, Batch
    <2>11. PendingRowsHeld'
      <3> SUFFICES ASSUME NEW u \in Txns, NEW d \in pending'[u]
                   PROVE  BothActive(d) /\ owner[d.debit] = u /\ owner[d.credit] = u
        BY <2>1 DEF PendingRowsHeld, BothActive
      <3>1. d \in pending[u] \/ (u = t /\ d = e)
        BY <2>2
      <3> QED BY <2>3, <3>1 DEF EntriesInv, PendingRowsHeld
    <2>12. Booked'
      <3>1. /\ pending[t] \in SUBSET AllEntries /\ IsFiniteSet(pending[t])
            /\ delta[t] = AL!Aggregate(pending[t])
        BY <1>0 DEF TypeOK, EntriesInv, Booked
      <3>2. e \in AllEntries \ pending[t]
        BY <2>3, <2>4 DEF Keys
      <3>3. delta'[t] = AL!Aggregate(pending'[t])
        BY <2>2, <3>1, <3>2, AggregateAdds
      <3>4. IsFiniteSet(pending'[t])
        BY <2>2, <3>1, FS_AddElement
      <3> QED BY <2>1, <2>2, <3>3, <3>4 DEF EntriesInv, Booked
    <2> QED BY <2>6, <2>7, <2>8, <2>9, <2>10, <2>11, <2>12 DEF EntriesInv
  <1> QED BY <1>1, <1>2 DEF Insert

LEMMA InitEntries == Init => EntriesInv
  <1> SUFFICES ASSUME Init PROVE EntriesInv
    OBVIOUS
  <1> USE DEF Init, Start
  <1>1. StartsBatch /\ PendingIsDone /\ InsertIsNew /\ PendingRowsHeld
    BY DEF StartsBatch, PendingIsDone, InsertIsNew, PendingRowsHeld
  <1>2. DoneIsBooked
    BY ScriptEntry DEF DoneIsBooked, Past
  <1>3. KeysApart
    BY DEF KeysApart, Keys
  <1>4. Booked
    BY AggregateOfNone, FS_EmptySet DEF Booked
  <1> QED BY <1>1, <1>2, <1>3, <1>4 DEF EntriesInv

LEMMA StepKeepsEntries == IInv /\ EntriesInv /\ [Next]_vars => EntriesInv'
  <1> SUFFICES ASSUME IInv, EntriesInv, [Next]_vars PROVE EntriesInv'
    OBVIOUS
  <1>1. ASSUME NEW t \in Txns,
               Begin(t) \/ Step(t) \/ DeadlockVictim(t) \/ CallerFails(t)
        PROVE  EntriesInv'
    BY <1>1, QuietKeepsEntries, CheckKeepsEntries, InsertKeepsEntries,
       CommitKeepsEntries, RollbackKeepsEntries
       DEF Step, DeadlockVictim, CallerFails
  <1>2. ASSUME NEW c \in Closable, SetActive(c)
        PROVE  EntriesInv'
    BY <1>2, QuietKeepsEntries
  <1>3. CASE UNCHANGED vars
    BY <1>3, QuietKeepsEntries
  <1> QED BY <1>1, <1>2, <1>3 DEF Next

(* At its commit a transaction's entries are its whole request, except     *)
(* those whose key was posted already.                                     *)
LEMMA CommitsItsRequest ==
  ASSUME IInv, EntriesInv, NEW t \in Txns, pc[t] = "commit"
  PROVE  pending[t] = AL!Unposted(Request(t))
  <1>1. ASSUME NEW e \in pending[t]
        PROVE  e \in Request(t)
    <2>1. PICK i \in DOMAIN Script[t] : \E j \in DOMAIN Script[t][i] : e = Script[t][i][j]
      BY DEF EntriesInv, PendingIsDone
    <2>2. PICK j \in DOMAIN Script[t][i] : e = Script[t][i][j]
      BY <2>1
    <2> QED BY <2>2, ScriptEntry
  <1>2. ASSUME NEW e \in pending[t], NEW p \in posted
        PROVE  p.key # e.key
    BY DEF EntriesInv, KeysApart, Keys
  <1>3. ASSUME NEW e \in Request(t), \A p \in posted : p.key # e.key
        PROVE  e \in pending[t]
    <2>1. PICK i \in DOMAIN Script[t] : e \in Entries(Script[t][i])
      BY DEF Request
    <2>2. PICK j \in DOMAIN Script[t][i] : e = Script[t][i][j]
      BY <2>1 DEF Entries
    <2>3. e.key \in Keys(posted \cup pending[t])
      BY <2>2 DEF Past, EntriesInv, DoneIsBooked
    <2>4. PICK d \in pending[t] : d.key = e.key
      BY <1>3, <2>3 DEF Keys
    <2> QED BY <1>1, <2>4, KeysAreDistinct
  <1> QED BY <1>1, <1>2, <1>3 DEF AL!Unposted

LEMMA CommitIsAStep ==
  ASSUME IInv, EntriesInv, NEW t \in Txns, Commit(t), IInv'
  PROVE  [AL!Next]_(AL!vars)
  <1>1. pc[t] = "commit" /\ posted' = posted \cup pending[t] /\ active' = active
    BY DEF Commit
  <1>2. pending[t] = AL!Unposted(Request(t))
    BY <1>1, CommitsItsRequest
  <1>3. CASE pending[t] = {}
    <2>1. balance' = balance
      <3>1. balance' = AL!Aggregate(posted')
        BY CommitBooks
      <3> QED BY <1>1, <1>3, <3>1 DEF EntriesInv, Booked
    <2> QED BY <1>1, <1>3, <2>1 DEF AL!vars
  <1>4. CASE pending[t] # {}
    <2>1. \A e \in pending[t] : active[e.debit] /\ active[e.credit]
      BY DEF EntriesInv, PendingRowsHeld, BothActive
    <2>2. balance' = AL!Aggregate(posted')
      BY CommitBooks
    <2>3. \A a \in Accounts \ AllowNegative : balance'[a] >= 0
      BY DEF IInv, NoOverdraft
    <2>4. AL!Post(Request(t))
      BY <1>1, <1>2, <1>4, <2>1, <2>2, <2>3 DEF AL!Post
    <2> QED BY <2>4 DEF AL!Next
  <1> QED BY <1>3, <1>4

LEMMA StepIsAStep ==
  IInv /\ EntriesInv /\ IInv' /\ [Next]_vars => [AL!Next]_(AL!vars)
  <1> SUFFICES ASSUME IInv, EntriesInv, IInv', [Next]_vars
               PROVE  [AL!Next]_(AL!vars)
    OBVIOUS
  <1>1. ASSUME NEW t \in Txns, Commit(t)
        PROVE  [AL!Next]_(AL!vars)
    BY <1>1, CommitIsAStep
  <1>2. ASSUME NEW t \in Txns, ~Commit(t),
               Begin(t) \/ Step(t) \/ DeadlockVictim(t) \/ CallerFails(t)
        PROVE  UNCHANGED rows
    BY <1>2 DEF Begin, Step, DeadlockVictim, CallerFails, LockRow, AllLocked,
                Check, Insert, Rollback
  <1>3. ASSUME NEW c \in Closable, SetActive(c)
        PROVE  AL!Next
    BY <1>3 DEF SetActive, AL!SetActive, AL!Next
  <1>4. UNCHANGED rows => UNCHANGED AL!vars
    BY DEF rows, AL!vars
  <1> QED BY <1>1, <1>2, <1>3, <1>4 DEF Next, vars, rows

(* The transactions, with their locks, their waiting and their failures,   *)
(* do what the abstract ledger does in one step: a request is posted as a  *)
(* whole when its transaction commits, or not at all.                      *)
THEOREM LedgerActsAsOneStep == Spec => ActsAsOneStep
  <1>1. Init => AL!Init
    BY DEF Init, Nothing, AL!Init
  <1>2. IInv /\ EntriesInv /\ IInv' /\ [Next]_vars => [AL!Next]_(AL!vars)
    BY StepIsAStep
  <1> QED BY <1>1, <1>2, LedgerInductive, InitEntries, StepKeepsEntries, PTL
          DEF Spec, ActsAsOneStep, AL!Spec

-----------------------------------------------------------------------------
(* Waiting in a circle.                                                    *)
LEMMA LeastNumber ==
  ASSUME NEW S \in SUBSET Nat, S # {}
  PROVE  \E m \in S : \A n \in S : m <= n
  <1>1. PICK m \in S : \A n \in S : <<n, m>> \notin OpToRel(<, Nat)
    BY NatLessThanWellFounded, WFMin
  <1>2. \A n \in S : ~(n < m)
    BY <1>1 DEF OpToRel
  <1> QED BY <1>2

(* Calls of record_entries book the keys they share in one order.          *)
RanksKeys(rank) ==
    \A t \in Txns \ SeveralCalls : \A i, j \in DOMAIN Script[t][1] :
        i < j => rank[Script[t][1][i].key] < rank[Script[t][1][j].key]
KeysInOrder == \E rank \in [STRING -> Nat] : RanksKeys(rank)

LEMMA SingleCall ==
  ASSUME NEW t \in Txns \ SeveralCalls
  PROVE  DOMAIN Script[t] = {1} /\ 1 \in DOMAIN Script[t][1]
  <1> DEFINE B == [key : STRING, debit : Accounts, credit : Accounts,
                   amount : Nat \ {0}]
  <1>1. Script[t] \in Seq(Seq(B)) /\ 1 \in DOMAIN Script[t] /\ 1 \in DOMAIN Script[t][1]
    BY StartType, LedgerAssumption
  <1> HIDE DEF B
  <1>2. Len(Script[t]) \in Nat /\ DOMAIN Script[t] = 1..Len(Script[t])
    BY <1>1
  <1>3. Len(Script[t]) <= 1
    BY <1>2 DEF SeveralCalls
  <1>4. Len(Script[t]) = 1
    <2>1. Len(Script[t]) >= 1
      BY <1>1, <1>2
    <2>2. \A l \in Nat : l <= 1 /\ l >= 1 => l = 1
      OBVIOUS
    <2> QED BY <1>2, <1>3, <2>1, <2>2
  <1>5. DOMAIN Script[t] = 1..1
    BY <1>2, <1>4
  <1> QED BY <1>1, <1>5

LEMMA EntryKey ==
  ASSUME NEW t \in Txns, NEW i \in DOMAIN Script[t], NEW j \in DOMAIN Script[t][i]
  PROVE  Script[t][i][j].key \in STRING
  <1> DEFINE B == [key : STRING, debit : Accounts, credit : Accounts,
                   amount : Nat \ {0}]
  <1>1. Script[t] \in Seq(Seq(B))
    BY LedgerAssumption
  <1>2. Script[t][i][j] \in B
    <2> HIDE DEF B
    <2>1. Script[t][i] \in Seq(B)
      BY <1>1
    <2> QED BY <2>1
  <1> QED BY <1>2

(* A single call that has booked something holds all its rows, and what it *)
(* booked ranks below what it is about to.                                 *)
LEMMA BookedRanksBelow ==
  ASSUME IInv, EntriesInv, NEW t \in Txns \ SeveralCalls, NEW e \in pending[t],
         NEW rank, RanksKeys(rank)
  PROVE  /\ pc[t] \notin {"idle", "lock"}
         /\ pc[t] = "insert" => rank[e.key] < rank[Entry(t).key]
  <1>1. PICK i \in DOMAIN Script[t] : \E j \in DOMAIN Script[t][i] :
           Past(pc[t], at[t], i, j) /\ e = Script[t][i][j]
    BY DEF EntriesInv, PendingIsDone
  <1>2. PICK j \in DOMAIN Script[t][i] : Past(pc[t], at[t], i, j) /\ e = Script[t][i][j]
    BY <1>1
  <1>3. i = 1 /\ j \in Nat /\ j >= 1
    BY SingleCall, ScriptEntry
  <1>4. at[t].batch = 1 /\ at[t].entry \in DOMAIN Script[t][1]
    BY SingleCall DEF IInv, TypeOK, Batch
  <1>5. pc[t] \notin {"idle", "lock"}
    BY <1>2, <1>3, <1>4 DEF Past, EntriesInv, StartsBatch
  <1>6. ASSUME pc[t] = "insert" PROVE rank[e.key] < rank[Entry(t).key]
    <2>1. j < at[t].entry
      BY <1>2, <1>3, <1>4, <1>6 DEF Past
    <2> QED BY <1>2, <1>3, <1>4, <2>1 DEF RanksKeys, Entry, Batch
  <1> QED BY <1>5, <1>6

(* The row t waits for.                                                    *)
NextRow(t) == CHOOSE c \in Accounts : LocksNext(t, c)

LEMMA WaitsForNextRow ==
  ASSUME NEW t \in Txns, pc[t] = "lock", NEW u \in WaitsFor(t)
  PROVE  /\ NextRow(t) \in Accounts /\ NextRow(t) \in Unlocked(t)
         /\ owner[NextRow(t)] = u
  <1>1. PICK c \in Accounts : LocksNext(t, c) /\ u = owner[c]
    BY DEF WaitsFor
  <1>2. NextRow(t) \in Accounts /\ LocksNext(t, NextRow(t))
    BY <1>1 DEF NextRow
  <1>3. c = NextRow(t)
    <2>1. c <= NextRow(t) /\ NextRow(t) <= c
      BY <1>1, <1>2 DEF LocksNext
    <2>2. c \in Nat /\ NextRow(t) \in Nat
      BY <1>2, LedgerAssumption
    <2> QED BY <2>1, <2>2
  <1> QED BY <1>1, <1>2, <1>3 DEF LocksNext

LEMMA NoCircle ==
  IInv /\ EntriesInv /\ RowsClimb /\ KeysInOrder => SingleCallsNeverDeadlock
  <1> SUFFICES ASSUME IInv, EntriesInv, RowsClimb, KeysInOrder,
                      NEW ts \in SUBSET (Blocked \ SeveralCalls), CircularWait(ts)
               PROVE  FALSE
    BY DEF SingleCallsNeverDeadlock
  <1>1. PICK rank \in [STRING -> Nat] : RanksKeys(rank)
    BY DEF KeysInOrder
  <1>2. \A t \in ts : t \in Txns \ SeveralCalls /\ pc[t] \in {"lock", "insert"}
    BY DEF Blocked, WaitsFor
  <1>3. \A u \in ts : \E t \in ts : u \in WaitsFor(t)
    BY DEF CircularWait
  <1>4. \A t \in ts : Entry(t).key \in STRING
    BY <1>2, EntryKey DEF IInv, TypeOK, Entry, Batch
  \* who inserts waits for who inserts, at a higher rank
  <1>5. ASSUME NEW t \in ts, NEW u \in ts, pc[t] = "insert", u \in WaitsFor(t)
        PROVE  pc[u] = "insert" /\ rank[Entry(t).key] < rank[Entry(u).key]
    <2>1. PICK e \in pending[u] : e.key = Entry(t).key
      BY <1>5 DEF WaitsFor, KeyHolders, Keys
    <2> QED BY <1>1, <1>2, <2>1, BookedRanksBelow
  \* who locks waits for a row below those its holder waits for
  <1>6. ASSUME NEW t \in ts, NEW u \in ts, pc[t] = "lock", pc[u] = "lock",
               u \in WaitsFor(t)
        PROVE  NextRow(t) < NextRow(u)
    <2>1. NextRow(t) \in Accounts /\ owner[NextRow(t)] = u
      BY <1>2, <1>6, WaitsForNextRow
    <2>2. PICK v \in WaitsFor(u) : TRUE
      BY DEF Blocked
    <2>3. NextRow(u) \in Unlocked(u)
      BY <1>2, <1>6, <2>2, WaitsForNextRow
    <2> QED BY <1>2, <1>6, <2>1, <2>3 DEF RowsClimb
  <1>7. \A t \in ts : pc[t] = "insert"
    <2> DEFINE Locking == {t \in ts : pc[t] = "lock"}
               NextRows == {NextRow(t) : t \in Locking}
    <2> SUFFICES ASSUME Locking # {} PROVE FALSE
      BY <1>2
    <2>1. \A t \in Locking : NextRow(t) \in Nat
      <3> SUFFICES ASSUME NEW t \in Locking PROVE NextRow(t) \in Nat
        OBVIOUS
      <3>1. PICK v \in WaitsFor(t) : TRUE
        BY DEF Blocked
      <3> QED BY <1>2, <3>1, WaitsForNextRow, LedgerAssumption
    <2>2. PICK u \in Locking : \A t \in Locking : NextRow(u) <= NextRow(t)
      <3>1. NextRows \in SUBSET Nat /\ NextRows # {}
        BY <2>1
      <3>2. PICK m \in NextRows : \A n \in NextRows : m <= n
        <4> HIDE DEF NextRows
        <4> QED BY <3>1, LeastNumber
      <3> QED BY <3>2
    <2>3. PICK t \in ts : u \in WaitsFor(t)
      BY <1>3
    <2>4. pc[t] = "lock"
      BY <1>2, <1>5, <2>3
    <2> QED BY <1>6, <2>1, <2>2, <2>3, <2>4
  <1>8. ts # {}
    BY DEF CircularWait
  <1>9. PICK u \in ts : \A t \in ts : rank[Entry(u).key] <= rank[Entry(t).key]
    <2> DEFINE ranks == {rank[Entry(t).key] : t \in ts}
    <2>1. ranks \in SUBSET Nat /\ ranks # {}
      BY <1>4, <1>8
    <2>2. PICK m \in ranks : \A n \in ranks : m <= n
      <3> HIDE DEF ranks
      <3> QED BY <2>1, LeastNumber
    <2> QED BY <2>2
  <1>10. PICK t \in ts : u \in WaitsFor(t)
    BY <1>3
  <1>11. rank[Entry(t).key] \in Nat /\ rank[Entry(u).key] \in Nat
    BY <1>4
  <1> QED BY <1>5, <1>7, <1>9, <1>10, <1>11

(* Transactions of one call each never wait in a circle, when the calls    *)
(* that share keys book them in one order (escrow.py:833 and 849): a       *)
(* waiter for a row holds only rows below it, a waiter for a key has       *)
(* booked only keys below it, and it has all its rows.                     *)
THEOREM SingleCallsDoNotDeadlock ==
    KeysInOrder /\ Spec => []SingleCallsNeverDeadlock
  <1> DEFINE Inv == IInv /\ EntriesInv /\ RowsClimb /\ KeysInOrder
  <1>1. KeysInOrder /\ Init => Inv
    BY InitIInv, InitEntries DEF Init, RowsClimb
  <1>2. Inv /\ [Next]_vars => Inv'
    <2>1. KeysInOrder => KeysInOrder'
      BY DEF KeysInOrder, RanksKeys, SeveralCalls
    <2> QED BY <2>1, StepKeepsIInv, StepKeepsEntries, StepKeepsClimbing
  <1>3. Inv => SingleCallsNeverDeadlock
    BY NoCircle
  <1> HIDE DEF Inv
  <1> QED BY <1>1, <1>2, <1>3, PTL DEF Spec
=============================================================================
