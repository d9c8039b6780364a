----------------------------- MODULE HoldRelease -----------------------------
(***************************************************************************)
(* The release of one escrow hold, from the order being HELD and the hold  *)
(* past its expires_at: the beat task process_expired_holds, the worker    *)
(* task release_single_hold (payments/workers/hold_manager.py) and the     *)
(* strategy's release_hold (payments/strategies/escrow.py), which callers  *)
(* also reach directly.  Worker and strategy take the lock of the same key *)
(* "escrow:release:<order>", each with a DistributedLock object of its     *)
(* own.  The database transaction of _execute_release holds the row locks  *)
(* of order and hold and is one step.                                      *)
(***************************************************************************)
EXTENDS DistributedLock

CONSTANTS Workers,   \* runs of the task release_single_hold
          Callers,   \* direct calls of release_hold
          Outer,     \* Outer[w]: the lock object made by the worker
          Inner,     \* Inner[p]: the lock object made by release_hold
          Others,    \* lock objects of any other user of the key
          MaxCrashes \* bound: process deaths a behaviour may have

ASSUME HoldReleaseAssumption ==
    /\ Workers \cap Callers = {}
    /\ Outer \in [Workers -> Locks]
    /\ Inner \in [Workers \cup Callers -> Locks]
    /\ Others \subseteq Locks
    \* every `with` block makes a lock object of its own
    /\ \A v, w \in Workers : Outer[v] = Outer[w] => v = w
    /\ \A w \in Workers, p \in Workers \cup Callers : Outer[w] # Inner[p]
    /\ \A w \in Workers : Outer[w] \notin Others
    /\ MaxCrashes \in Nat
    /\ TTL > Timeout        \* 60 s and 10 s in both places

VARIABLES order,     \* PaymentOrder.state
          released,  \* FundHold.released
          payouts,   \* number of Payout rows made for the order
          ready,     \* ConnectedAccount.is_ready_for_payouts
          pc,        \* what each process does next
          crashes    \* process deaths so far

releaseVars == <<order, released, payouts>>
businessVars == <<releaseVars, ready>>
vars == <<lockVars, businessVars, pc, crashes>>

Processes == Workers \cup Callers

TypeOK ==
    /\ LockTypeOK
    /\ order \in {"HELD", "RELEASED", "REFUNDED"}
    /\ released \in BOOLEAN
    /\ payouts \in Nat
    /\ ready \in BOOLEAN
    /\ pc \in [Processes -> {"idle", "queued", "outer", "recheck", "inner",
                             "execute", "leave", "unlock"}]
    /\ crashes \in 0..MaxCrashes

Init ==
    /\ LockInit
    /\ order = "HELD"
    /\ released = FALSE
    /\ payouts = 0
    /\ ready \in BOOLEAN
    /\ pc = [p \in Processes |-> "idle"]
    /\ crashes = 0

Goto(p, place) == pc' = [pc EXCEPT ![p] = place] /\ UNCHANGED crashes

Die(p, locks, place) ==
    /\ crashes < MaxCrashes
    /\ crashes' = crashes + 1
    /\ Crash(locks)
    /\ pc' = [pc EXCEPT ![p] = place]

(* Where a process goes when its call of release_hold returns.             *)
AfterStrategy(p) == IF p \in Workers THEN "unlock" ELSE "idle"

-----------------------------------------------------------------------------
(* release_single_hold                                                     *)

(* process_expired_holds finds the hold and queues the task.               *)
Queue(w) ==
    /\ pc[w] = "idle"
    /\ ~released /\ order = "HELD"
    /\ Goto(w, "queued")
    /\ UNCHANGED <<lockVars, businessVars>>

(* The task starts: it looks at hold and order, and goes for the lock.     *)
Load(w) ==
    /\ pc[w] = "queued"
    /\ IF released \/ order # "HELD"
       THEN Goto(w, "idle") /\ UNCHANGED lockVars
       ELSE Goto(w, "outer") /\ Acquire(Outer[w])
    /\ UNCHANGED businessVars

EnterOuter(w) ==
    /\ pc[w] = "outer"
    /\ TryAcquire(Outer[w])
    /\ Goto(w, "recheck")
    /\ UNCHANGED businessVars

OuterTimesOut(w) ==
    /\ pc[w] = "outer"
    /\ GiveUp(Outer[w])
    /\ Goto(w, "idle")
    /\ UNCHANGED businessVars

(* Under the lock the order is read again; if it is still HELD the worker  *)
(* calls release_hold, which takes a second lock object for the same key.  *)
Recheck(w) ==
    /\ pc[w] = "recheck"
    /\ IF order = "HELD"
       THEN Goto(w, "inner") /\ Acquire(Inner[w])
       ELSE Goto(w, "unlock") /\ UNCHANGED lockVars
    /\ UNCHANGED businessVars

Unlock(w) ==
    /\ pc[w] = "unlock"
    /\ Release(Outer[w])
    /\ Goto(w, "idle")
    /\ UNCHANGED businessVars

(* acks_late: the broker delivers the task of a dead worker again.         *)
CrashWorker(w) ==
    /\ pc[w] \notin {"idle", "queued"}
    /\ Die(w, {Outer[w], Inner[w]}, "queued")
    /\ UNCHANGED businessVars

-----------------------------------------------------------------------------
(* release_hold and _execute_release                                       *)

(* A direct call, with an order object read as HELD.                       *)
Call(c) ==
    /\ pc[c] = "idle"
    /\ order = "HELD"
    /\ Acquire(Inner[c])
    /\ Goto(c, "inner")
    /\ UNCHANGED businessVars

EnterInner(p) ==
    /\ pc[p] = "inner"
    /\ TryAcquire(Inner[p])
    /\ Goto(p, "execute")
    /\ UNCHANGED businessVars

(* LOCK_CONTENTION: "Another process is releasing this payment".           *)
InnerTimesOut(p) ==
    /\ pc[p] = "inner"
    /\ GiveUp(Inner[p])
    /\ Goto(p, AfterStrategy(p))
    /\ UNCHANGED businessVars

(* The state and hold checks made again on the locked rows.                *)
MayReleaseStale == ready                  \* bug: trusts the checks made before
MayRelease == order = "HELD" /\ ~released /\ ready

Execute(p) ==
    /\ pc[p] = "execute"
    /\ IF MayRelease
       THEN /\ order' = "RELEASED"
            /\ released' = TRUE
            /\ payouts' = payouts + 1
       ELSE UNCHANGED releaseVars
    /\ Goto(p, "leave")
    /\ UNCHANGED <<lockVars, ready>>

Leave(p) ==
    /\ pc[p] = "leave"
    /\ Release(Inner[p])
    /\ Goto(p, AfterStrategy(p))
    /\ UNCHANGED businessVars

CrashCaller(c) ==
    /\ pc[c] # "idle"
    /\ Die(c, {Inner[c]}, "idle")
    /\ UNCHANGED businessVars

-----------------------------------------------------------------------------
(* The rest of the system: time, a refund of the order, account.updated    *)
(* webhooks, other users of the lock.                                      *)

TimePasses == Tick /\ UNCHANGED <<businessVars, pc, crashes>>

RefundCompletes ==
    /\ order = "HELD"
    /\ order' = "REFUNDED"
    /\ UNCHANGED <<lockVars, released, payouts, ready, pc, crashes>>

AccountUpdated ==
    /\ ready' = ~ready
    /\ UNCHANGED <<lockVars, releaseVars, pc, crashes>>

OtherUser(l) == LockStep(l) /\ UNCHANGED <<businessVars, pc, crashes>>

-----------------------------------------------------------------------------
WorkerStep(w) ==
    Load(w) \/ EnterOuter(w) \/ OuterTimesOut(w) \/ Recheck(w) \/ Unlock(w)

StrategyStep(p) == EnterInner(p) \/ InnerTimesOut(p) \/ Execute(p) \/ Leave(p)

Next ==
    \/ \E w \in Workers : Queue(w) \/ WorkerStep(w) \/ CrashWorker(w)
    \/ \E p \in Processes : StrategyStep(p)
    \/ \E c \in Callers : Call(c) \/ CrashCaller(c)
    \/ \E l \in Others : OtherUser(l)
    \/ TimePasses
    \/ RefundCompletes
    \/ AccountUpdated

Spec == Init /\ [][Next]_vars

(* The beat schedule of migration 0003 queues the task every 15 minutes,   *)
(* a started task or call runs to its end, and time passes.  Crashes,      *)
(* refunds, account updates and other users owe nothing.                   *)
Fairness ==
    /\ WF_vars(TimePasses)
    /\ \A w \in Workers : WF_vars(Queue(w)) /\ WF_vars(WorkerStep(w))
    /\ \A p \in Processes : WF_vars(StrategyStep(p))

FairSpec == Spec /\ Fairness

-----------------------------------------------------------------------------
(* The hold is paid over once: one Payout row exactly when the hold is     *)
(* released, and only for an order that left HELD by this release, however *)
(* many workers and callers run and however many locks expired under them  *)
(* (hold_manager.py, "Running it multiple times will not double-process    *)
(* holds").                                                                *)
HoldPaidOverOnce ==
    /\ payouts = IF released THEN 1 ELSE 0
    /\ released <=> order = "RELEASED"

ReleaseSafe == TypeOK /\ HoldPaidOverOnce

(* A worker only gets through release_hold once the lock it took itself    *)
(* has run out: its inner lock object never holds the key on a live outer  *)
(* lease (hold_manager.py:242 and escrow.py:634 name the same key).        *)
WorkerWaitsForItself ==
    \A w \in Workers : pc[w] \in {"execute", "leave"} => lease[Outer[w]] = 0

(* Every process that waits for the key comes back, also when the holder   *)
(* died (locks.py, "Automatic TTL prevents deadlocks from crashed          *)
(* processes").                                                            *)
ReleaseReturns ==
    \A p \in Processes :
        (pc[p] \in {"outer", "inner"}) ~> (pc[p] \in {"idle", "queued"})
=============================================================================
