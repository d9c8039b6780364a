-------------------------- MODULE HoldRelease_proofs --------------------------
(***************************************************************************)
(* A lock object that still counts on its lease owns the Redis key         *)
(* (DistributedLock), for every set of lock objects and every TTL and      *)
(* timeout.  Of the code that takes the lock (HoldRelease):                *)
(* a hold is paid over once, and a worker never gets through the second    *)
(* acquisition of its own lock while the first one lives: for every set of *)
(* workers, callers and other users of the key, every TTL and timeout.     *)
(***************************************************************************)
EXTENDS HoldRelease, TLAPS

-----------------------------------------------------------------------------
(* The lock alone (DistributedLock).  The lemmas are about its single      *)
(* actions, so that the steps HoldRelease builds from them can cite them.  *)

LockInv == LockTypeOK /\ LeaseIsExclusive

(* The key is free and nobody counts on it at the start.                   *)
LEMMA LockInitInv == LockInit => LockInv
  BY LockAssumption DEF LockInit, LockInv, LockTypeOK, LeaseIsExclusive

(* SET NX EX starts a lease on a key that was free, so no other lease was  *)
(* live.                                                                   *)
LEMMA SetIfAbsentInv ==
  ASSUME LockInv, NEW l \in Locks, SetIfAbsent(l), UNCHANGED waited
  PROVE  LockInv'
  <1> USE LockAssumption DEF LockInv, LockTypeOK, LeaseIsExclusive, SetIfAbsent
  <1>1. \A k \in Locks : lease[k] = 0
    OBVIOUS
  <1>2. LockTypeOK'
    OBVIOUS
  <1>3. LeaseIsExclusive'
    BY <1>1
  <1> QED BY <1>2, <1>3

(* Every operation of a lock object keeps the leases exclusive; release()  *)
(* and extend() because their scripts compare the token.                   *)
LEMMA LockStepInv ==
  ASSUME LockInv, NEW l \in Locks,
         Acquire(l) \/ TryAcquire(l) \/ GiveUp(l) \/ AcquireNow(l)
           \/ Extend(l) \/ Release(l)
  PROVE  LockInv'
  <1> USE LockAssumption DEF LockInv, LockTypeOK, LeaseIsExclusive
  <1>1. CASE Acquire(l)
    BY <1>1 DEF Acquire
  <1>2. CASE TryAcquire(l)
    BY <1>2, SetIfAbsentInv DEF TryAcquire
  <1>3. CASE GiveUp(l)
    BY <1>3 DEF GiveUp
  <1>4. CASE AcquireNow(l)
    BY <1>4, SetIfAbsentInv DEF AcquireNow
  <1>5. CASE Extend(l)
    BY <1>5 DEF Extend, KeyIsOurs
  <1>6. CASE Release(l)
    BY <1>6 DEF Release, KeyIsOurs
  <1> QED BY <1>1, <1>2, <1>3, <1>4, <1>5, <1>6

(* Objects that die together end their leases; the key keeps its age.      *)
LEMMA CrashInv ==
  ASSUME LockInv, NEW ls \in SUBSET Locks, Crash(ls)
  PROVE  LockInv'
  BY LockAssumption DEF LockInv, LockTypeOK, LeaseIsExclusive, Crash

(* A tick ages the key and the lease on it alike.                          *)
LEMMA TickInv ==
  ASSUME LockInv, Tick
  PROVE  LockInv'
  <1> USE LockAssumption DEF LockInv, LockTypeOK, LeaseIsExclusive, Tick, Expires, Aged
  <1>1. LockTypeOK'
    OBVIOUS
  <1>2. ASSUME NEW l \in Locks, lease'[l] > 0
        PROVE  token' = l /\ left' = lease'[l]
    <2>1. lease[l] > 1 /\ lease'[l] = lease[l] - 1
      BY <1>2
    <2>2. token = l /\ left = lease[l]
      BY <2>1
    <2> QED BY <2>1, <2>2
  <1> QED BY <1>1, <1>2

(* A step that is none of the lock's leaves its invariant alone.           *)
LEMMA LockStutterInv ==
  ASSUME LockInv, UNCHANGED lockVars
  PROVE  LockInv'
  BY DEF LockInv, LockTypeOK, LeaseIsExclusive, lockVars

(* Locks.py's promise of mutual exclusion: whatever expires, crashes, is   *)
(* extended or is released late, an object with a live lease owns the key. *)
THEOREM LeaseExclusion == LockSpec => [](LockTypeOK /\ LeaseIsExclusive)
  <1>1. LockInv /\ [LockNext]_lockVars => LockInv'
    <2> SUFFICES ASSUME LockInv, [LockNext]_lockVars PROVE LockInv'
      OBVIOUS
    <2>1. CASE Tick
      BY <2>1, TickInv
    <2>2. CASE \E l \in Locks : LockStep(l)
      <3>1. PICK l \in Locks : LockStep(l)
        BY <2>2
      <3>2. CASE mode[l] # "idle" /\ Crash({l})
        BY <3>2, CrashInv
      <3> QED BY <3>1, <3>2, LockStepInv DEF LockStep
    <2>3. CASE UNCHANGED lockVars
      BY <2>3, LockStutterInv
    <2> QED BY <2>1, <2>2, <2>3 DEF LockNext
  <1>2. LockInv => LockTypeOK /\ LeaseIsExclusive
    BY DEF LockInv
  <1> QED BY <1>1, <1>2, LockInitInv, PTL DEF LockSpec

-----------------------------------------------------------------------------
(* The release of a hold under the lock.                                   *)

(* Types without the lock's, which LockInv carries.                        *)
ReleaseTypeOK ==
    /\ order \in {"HELD", "RELEASED", "REFUNDED"}
    /\ released \in BOOLEAN
    /\ payouts \in Nat
    /\ pc \in [Processes -> {"idle", "queued", "outer", "recheck", "inner",
                             "execute", "leave", "unlock"}]
    /\ crashes \in 0..MaxCrashes

(* The inductive invariant.  LockInv makes a successful inner acquisition  *)
(* imply that no other lease is live, the worker's own outer lease         *)
(* included.                                                               *)
IInv ==
    /\ LockInv
    /\ ReleaseTypeOK
    /\ HoldPaidOverOnce
    /\ WorkerWaitsForItself

(* What a step of this module is for the lock: an operation of one object, *)
(* a crash of some objects, a tick or nothing.                             *)
LockMove ==
    \/ \E l \in Locks : \/ Acquire(l) \/ TryAcquire(l) \/ GiveUp(l)
                         \/ AcquireNow(l) \/ Extend(l) \/ Release(l)
    \/ \E ls \in SUBSET Locks : Crash(ls)
    \/ Tick
    \/ UNCHANGED lockVars

LEMMA WorkerLockMove ==
  ASSUME NEW w \in Workers, Queue(w) \/ WorkerStep(w) \/ CrashWorker(w)
  PROVE  LockMove
  <1>0. Outer[w] \in Locks /\ Inner[w] \in Locks
    BY HoldReleaseAssumption
  <1>1. CASE Queue(w)
    BY <1>1 DEF Queue, LockMove, lockVars
  <1>2. CASE Load(w)
    BY <1>0, <1>2 DEF Load, LockMove, lockVars
  <1>3. CASE EnterOuter(w) \/ OuterTimesOut(w) \/ Recheck(w) \/ Unlock(w)
    BY <1>0, <1>3
       DEF EnterOuter, OuterTimesOut, Recheck, Unlock, LockMove, lockVars
  <1>4. CASE CrashWorker(w)
    BY <1>0, <1>4 DEF CrashWorker, Die, LockMove
  <1> QED BY <1>1, <1>2, <1>3, <1>4 DEF WorkerStep

LEMMA NextLockMove ==
  ASSUME Next
  PROVE  LockMove
  <1>1. ASSUME NEW p \in Processes, StrategyStep(p)
        PROVE  LockMove
    <2>0. Inner[p] \in Locks
      BY HoldReleaseAssumption DEF Processes
    <2> QED
      BY <2>0, <1>1 DEF StrategyStep, EnterInner, InnerTimesOut, Execute, Leave,
                        LockMove, lockVars
  <1>2. ASSUME NEW c \in Callers, Call(c) \/ CrashCaller(c)
        PROVE  LockMove
    <2>0. Inner[c] \in Locks
      BY HoldReleaseAssumption
    <2> QED
      BY <2>0, <1>2 DEF Call, CrashCaller, Die, LockMove
  <1>3. ASSUME NEW l \in Others, OtherUser(l)
        PROVE  LockMove
    <2>0. l \in Locks
      BY HoldReleaseAssumption
    <2> QED
      BY <2>0, <1>3 DEF OtherUser, LockStep, LockMove
  <1>4. CASE TimePasses \/ RefundCompletes \/ AccountUpdated
    BY <1>4 DEF TimePasses, RefundCompletes, AccountUpdated, LockMove, lockVars
  <1> QED BY <1>1, <1>2, <1>3, <1>4, WorkerLockMove DEF Next

(* The lock's invariant survives every step of this module.                *)
LEMMA NextKeepsLockInv ==
  ASSUME LockInv, [Next]_vars
  PROVE  LockInv'
  <1>1. CASE UNCHANGED vars
    BY <1>1, LockStutterInv DEF vars
  <1>2. CASE Next
    <2>1. LockMove
      BY <1>2, NextLockMove
    <2> QED BY <2>1, LockStepInv, CrashInv, TickInv, LockStutterInv DEF LockMove
  <1> QED BY <1>1, <1>2

(* Types and the once-only hand-over: only Execute touches order, hold and *)
(* payouts, and it looks at the locked rows first.                         *)
LEMMA NextKeepsHandOver ==
  ASSUME ReleaseTypeOK, HoldPaidOverOnce, [Next]_vars
  PROVE  ReleaseTypeOK' /\ HoldPaidOverOnce'
  <1> USE HoldReleaseAssumption
      DEF ReleaseTypeOK, HoldPaidOverOnce, Processes, businessVars, releaseVars,
          Goto, Die, AfterStrategy
  <1>1. ASSUME NEW w \in Workers, Queue(w) \/ WorkerStep(w) \/ CrashWorker(w)
        PROVE  ReleaseTypeOK' /\ HoldPaidOverOnce'
    BY <1>1 DEF WorkerStep, Queue, Load, EnterOuter, OuterTimesOut, Recheck,
                Unlock, CrashWorker
  <1>2. ASSUME NEW p \in Processes, StrategyStep(p)
        PROVE  ReleaseTypeOK' /\ HoldPaidOverOnce'
    <2>1. CASE EnterInner(p) \/ InnerTimesOut(p) \/ Leave(p)
      BY <2>1 DEF EnterInner, InnerTimesOut, Leave
    <2>2. CASE Execute(p)
      <3>1. CASE MayRelease
        BY <2>2, <3>1 DEF Execute, MayRelease
      <3>2. CASE ~MayRelease
        BY <2>2, <3>2 DEF Execute
      <3> QED BY <3>1, <3>2
    <2> QED BY <1>2, <2>1, <2>2 DEF StrategyStep
  <1>3. ASSUME NEW c \in Callers, Call(c) \/ CrashCaller(c)
        PROVE  ReleaseTypeOK' /\ HoldPaidOverOnce'
    BY <1>3 DEF Call, CrashCaller
  <1>4. CASE \/ \E l \in Others : OtherUser(l)
             \/ TimePasses \/ RefundCompletes \/ AccountUpdated
             \/ UNCHANGED vars
    BY <1>4 DEF OtherUser, TimePasses, RefundCompletes, AccountUpdated, vars
  <1> QED BY <1>1, <1>2, <1>3, <1>4 DEF Next

(* Nobody but the worker itself, at "outer", starts or renews its outer    *)
(* lease.                                                                  *)
LEMMA OuterLeaseOnlyShrinks ==
  ASSUME LockInv, ReleaseTypeOK, [Next]_vars,
         NEW v \in Workers, pc[v] # "outer", lease[Outer[v]] = 0
  PROVE  lease'[Outer[v]] = 0
  <1> USE HoldReleaseAssumption, LockAssumption
      DEF LockInv, LockTypeOK, ReleaseTypeOK, Processes
  <1>0. Outer[v] \in Locks
    OBVIOUS
  <1>1. ASSUME NEW w \in Workers, Queue(w) \/ WorkerStep(w) \/ CrashWorker(w)
        PROVE  lease'[Outer[v]] = 0
    <2>1. CASE EnterOuter(w)
      <3>1. w # v /\ Outer[w] # Outer[v] /\ Outer[w] \in Locks
        BY <2>1 DEF EnterOuter
      <3> QED BY <2>1, <3>1 DEF EnterOuter, TryAcquire, SetIfAbsent
    <2>2. CASE Queue(w) \/ Load(w) \/ OuterTimesOut(w) \/ Recheck(w)
      BY <2>2 DEF Queue, Load, OuterTimesOut, Recheck, Acquire, GiveUp, lockVars
    <2>3. CASE Unlock(w)
      BY <2>3, <1>0 DEF Unlock, Release
    <2>4. CASE CrashWorker(w)
      BY <2>4, <1>0 DEF CrashWorker, Die, Crash
    <2> QED BY <1>1, <2>1, <2>2, <2>3, <2>4 DEF WorkerStep
  <1>2. ASSUME NEW p \in Processes, StrategyStep(p)
        PROVE  lease'[Outer[v]] = 0
    <2>0. Outer[v] # Inner[p] /\ Inner[p] \in Locks
      OBVIOUS
    <2> QED
      BY <1>0, <1>2, <2>0
         DEF StrategyStep, EnterInner, InnerTimesOut, Execute, Leave, TryAcquire,
             SetIfAbsent, GiveUp, Release, lockVars
  <1>3. ASSUME NEW c \in Callers, Call(c) \/ CrashCaller(c)
        PROVE  lease'[Outer[v]] = 0
    BY <1>0, <1>3 DEF Call, CrashCaller, Die, Acquire, Crash
  <1>4. ASSUME NEW l \in Others, OtherUser(l)
        PROVE  lease'[Outer[v]] = 0
    <2>0. Outer[v] # l /\ l \in Locks
      OBVIOUS
    <2> QED
      BY <1>0, <1>4, <2>0
         DEF OtherUser, LockStep, Acquire, TryAcquire, GiveUp, AcquireNow,
             SetIfAbsent, Extend, Release, Crash
  <1>5. CASE TimePasses
    BY <1>0, <1>5 DEF TimePasses, Tick, Aged
  <1>6. CASE RefundCompletes \/ AccountUpdated \/ UNCHANGED vars
    BY <1>6 DEF RefundCompletes, AccountUpdated, vars, lockVars
  <1> QED BY <1>1, <1>2, <1>3, <1>4, <1>5, <1>6 DEF Next

(* A worker reaches "execute" only by EnterInner, and then the key holds   *)
(* its inner token, so its outer lease has run out.                        *)
LEMMA NextKeepsWaiting ==
  ASSUME IInv, [Next]_vars
  PROVE  WorkerWaitsForItself'
  <1> SUFFICES ASSUME NEW v \in Workers, pc'[v] \in {"execute", "leave"}
               PROVE  lease'[Outer[v]] = 0
    BY DEF WorkerWaitsForItself
  <1> USE HoldReleaseAssumption DEF IInv
  <1>0. LockInv'
    BY NextKeepsLockInv
  <1>1. CASE pc[v] \in {"execute", "leave"}
    <2>1. lease[Outer[v]] = 0 /\ pc[v] # "outer"
      BY <1>1 DEF WorkerWaitsForItself
    <2> QED BY <2>1, OuterLeaseOnlyShrinks
  <1>2. CASE pc[v] \notin {"execute", "leave"}
    <2>1. EnterInner(v)
      <3> USE DEF ReleaseTypeOK, Processes, Goto, Die
      <3>1. ASSUME NEW w \in Workers, Queue(w) \/ WorkerStep(w) \/ CrashWorker(w)
            PROVE  pc'[v] \notin {"execute", "leave"}
        BY <1>2, <3>1 DEF WorkerStep, Queue, Load, EnterOuter, OuterTimesOut,
                          Recheck, Unlock, CrashWorker
      <3>2. ASSUME NEW p \in Processes, StrategyStep(p)
            PROVE  EnterInner(v)
        <4>1. CASE p = v
          BY <1>2, <3>2, <4>1 DEF StrategyStep, EnterInner, InnerTimesOut, Execute,
                                  Leave, AfterStrategy
        <4>2. CASE p # v
          BY <1>2, <3>2, <4>2 DEF StrategyStep, EnterInner, InnerTimesOut, Execute,
                                  Leave
        <4> QED BY <4>1, <4>2
      <3>3. ASSUME NEW c \in Callers, Call(c) \/ CrashCaller(c)
            PROVE  FALSE
        BY <1>2, <3>3 DEF Call, CrashCaller
      <3>4. CASE \/ \E l \in Others : OtherUser(l)
                 \/ TimePasses \/ RefundCompletes \/ AccountUpdated
                 \/ UNCHANGED vars
        BY <1>2, <3>4 DEF OtherUser, TimePasses, RefundCompletes, AccountUpdated,
                          vars
      <3> QED BY <3>1, <3>2, <3>3, <3>4 DEF Next
    <2>2. token' = Inner[v] /\ Inner[v] # Outer[v] /\ Outer[v] \in Locks
      BY <2>1 DEF EnterInner, TryAcquire, SetIfAbsent
    <2> QED BY <1>0, <2>2 DEF LockInv, LockTypeOK, LeaseIsExclusive
  <1> QED BY <1>1, <1>2

LEMMA InitIInv == Init => IInv
  <1> SUFFICES ASSUME Init PROVE IInv
    OBVIOUS
  <1>1. LockInv
    BY LockInitInv DEF Init
  <1>2. ReleaseTypeOK
    <2>1. crashes \in 0..MaxCrashes
      BY HoldReleaseAssumption DEF Init
    <2>2. pc \in [Processes -> {"idle", "queued", "outer", "recheck", "inner",
                               "execute", "leave", "unlock"}]
      BY DEF Init
    <2>3. /\ order \in {"HELD", "RELEASED", "REFUNDED"}
          /\ released \in BOOLEAN
          /\ payouts \in Nat
      BY DEF Init
    <2> QED BY <2>1, <2>2, <2>3 DEF ReleaseTypeOK
  <1>4. HoldPaidOverOnce
    BY DEF Init, HoldPaidOverOnce
  <1>3. WorkerWaitsForItself
    BY DEF Init, WorkerWaitsForItself, Processes
  <1> QED BY <1>1, <1>2, <1>3, <1>4 DEF IInv

LEMMA Inductive == Spec => []IInv
  <1>1. IInv /\ [Next]_vars => IInv'
    BY NextKeepsLockInv, NextKeepsHandOver, NextKeepsWaiting DEF IInv
  <1> QED BY <1>1, InitIInv, PTL DEF Spec

(* TypeOK has one part that ReleaseTypeOK leaves out.                       *)
LEMMA ReadyIsBoolean == Spec => [](ready \in BOOLEAN)
  <1>1. Init => ready \in BOOLEAN
    BY DEF Init
  <1>2. ready \in BOOLEAN /\ [Next]_vars => (ready \in BOOLEAN)'
    <2> SUFFICES ASSUME ready \in BOOLEAN, [Next]_vars PROVE (ready \in BOOLEAN)'
      OBVIOUS
    <2>1. UNCHANGED ready \/ ready' = ~ready
      BY DEF Next, vars, businessVars, Queue, WorkerStep, Load, EnterOuter, OuterTimesOut,
             Recheck, Unlock, CrashWorker, StrategyStep, EnterInner, InnerTimesOut, Leave,
             Execute, Call, CrashCaller, OtherUser, TimePasses, RefundCompletes,
             AccountUpdated
    <2> QED BY <2>1
  <1> QED BY <1>1, <1>2, PTL DEF Spec

(* However many workers and callers release the hold, and however many of  *)
(* their locks expire, the recipient gets one payout for it.               *)
THEOREM HoldIsPaidOverOnce == Spec => []ReleaseSafe
  <1>1. IInv /\ ready \in BOOLEAN => ReleaseSafe
    BY DEF IInv, LockInv, ReleaseTypeOK, ReleaseSafe, TypeOK
  <1> QED BY <1>1, Inductive, ReadyIsBoolean, PTL

(* The lock stays exclusive under the release protocol.                    *)
THEOREM ReleaseLockIsExclusive == Spec => []LeaseIsExclusive
  <1>1. IInv => LeaseIsExclusive
    BY DEF IInv, LockInv
  <1> QED BY <1>1, Inductive, PTL

(* The worker of hold_manager.py can execute a release only after the lock *)
(* it took itself has expired.                                             *)
THEOREM WorkerNeedsItsLockToExpire == Spec => []WorkerWaitsForItself
  <1>1. IInv => WorkerWaitsForItself
    BY DEF IInv
  <1> QED BY <1>1, Inductive, PTL
===============================================================================
