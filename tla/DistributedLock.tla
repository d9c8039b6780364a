--------------------------- MODULE DistributedLock ---------------------------
(***************************************************************************)
(* The Redis lock of payments/locks.py, for one lock key.                  *)
(*                                                                         *)
(* An element of Locks is one DistributedLock object: every `with` block   *)
(* of the code makes its own, with its own uuid token, so the token a key  *)
(* holds in Redis is modelled by the object that wrote it.  A process that *)
(* dies leaves its token in Redis; nobody can present that token again,    *)
(* and it is modelled by the value Orphan.  Time is counted in ticks.      *)
(***************************************************************************)
EXTENDS Naturals

CONSTANTS Locks,     \* the DistributedLock objects made for this key
          Free,      \* the key does not exist in Redis
          Orphan,    \* the token of an object whose process died
          TTL,       \* lifetime given to SET ... EX, in ticks
          Timeout    \* longest wait of a blocking acquire(), in ticks

ASSUME LockAssumption ==
    /\ TTL \in Nat \ {0}
    /\ Timeout \in Nat
    /\ Free \notin Locks
    /\ Orphan \notin Locks
    /\ Free # Orphan

VARIABLES token,     \* GET lock:<key>
          left,      \* remaining time to live of the key, 0 when it is free
          mode,      \* where each object is: "idle", "trying" or "inside"
          waited,    \* ticks spent in the retry loop of acquire()
          lease      \* the time its caller may count on: TTL ticks from the
                     \* last SET or EXPIRE of this object (history variable)

lockVars == <<token, left, mode, waited, lease>>

LockTypeOK ==
    /\ token \in Locks \cup {Free, Orphan}
    /\ left \in 0..TTL
    /\ mode \in [Locks -> {"idle", "trying", "inside"}]
    /\ waited \in [Locks -> 0..Timeout]
    /\ lease \in [Locks -> 0..TTL]

LockInit ==
    /\ token = Free
    /\ left = 0
    /\ mode = [l \in Locks |-> "idle"]
    /\ waited = [l \in Locks |-> 0]
    /\ lease = [l \in Locks |-> 0]

-----------------------------------------------------------------------------
(* RELEASE_SCRIPT and EXTEND_SCRIPT compare the key with our token first.  *)
KeyIsAnybodys(l) == token # Free          \* bug: no comparison of the token
KeyIsOurs(l) == token = l

(* EX ttl: Redis drops the key at the end of its life.                     *)
NeverExpires == FALSE                     \* bug: SET without EX
Expires == left <= 1

(* The retry loop of acquire() runs until end_time.                        *)
NoDeadline(l) == TRUE                     \* bug: a loop without end_time
BeforeDeadline(l) == waited[l] < Timeout

(* acquire() with blocking=True enters the retry loop.                     *)
Acquire(l) ==
    /\ mode[l] = "idle"
    /\ mode' = [mode EXCEPT ![l] = "trying"]
    /\ waited' = [waited EXCEPT ![l] = 0]
    /\ UNCHANGED <<token, left, lease>>

(* SET key token NX EX ttl, when it succeeds.                              *)
SetIfAbsent(l) ==
    /\ token = Free
    /\ token' = l
    /\ left' = TTL
    /\ lease' = [lease EXCEPT ![l] = TTL]
    /\ mode' = [mode EXCEPT ![l] = "inside"]

(* One turn of the retry loop that finds the key free before the deadline. *)
TryAcquire(l) ==
    /\ mode[l] = "trying"
    /\ BeforeDeadline(l)
    /\ SetIfAbsent(l)
    /\ UNCHANGED waited

(* The deadline passes: LockAcquisitionError.                              *)
GiveUp(l) ==
    /\ mode[l] = "trying"
    /\ ~BeforeDeadline(l)
    /\ mode' = [mode EXCEPT ![l] = "idle"]
    /\ UNCHANGED <<token, left, waited, lease>>

(* acquire() with blocking=False: one attempt (a failed one raises and     *)
(* leaves every state as it was).                                          *)
AcquireNow(l) ==
    /\ mode[l] = "idle"
    /\ SetIfAbsent(l)
    /\ UNCHANGED waited

(* extend(), when the key is ours; otherwise it returns False and changes  *)
(* nothing.                                                                *)
Extend(l) ==
    /\ mode[l] = "inside"
    /\ KeyIsOurs(l)
    /\ left' = TTL
    /\ lease' = [lease EXCEPT ![l] = TTL]
    /\ UNCHANGED <<token, mode, waited>>

(* release(), run by __exit__ on every way out of the block.               *)
Release(l) ==
    /\ mode[l] = "inside"
    /\ token' = IF KeyIsOurs(l) THEN Free ELSE token
    /\ left' = IF KeyIsOurs(l) THEN 0 ELSE left
    /\ mode' = [mode EXCEPT ![l] = "idle"]
    /\ lease' = [lease EXCEPT ![l] = 0]
    /\ UNCHANGED waited

(* The processes of a set of objects die together, waiting or inside; the  *)
(* next process makes new objects with new tokens.                         *)
Crash(ls) ==
    /\ token' = IF token \in ls THEN Orphan ELSE token
    /\ mode' = [l \in Locks |-> IF l \in ls THEN "idle" ELSE mode[l]]
    /\ lease' = [l \in Locks |-> IF l \in ls THEN 0 ELSE lease[l]]
    /\ UNCHANGED <<left, waited>>

(* A lifetime one tick later.                                              *)
Aged(n) == IF n = 0 THEN 0 ELSE n - 1

(* A tick of time: Redis ages the key, waiting objects come closer to      *)
(* their deadline and leases run down.                                     *)
Tick ==
    /\ left' = Aged(left)
    /\ token' = IF Expires THEN Free ELSE token
    /\ waited' = [l \in Locks |->
                    IF mode[l] = "trying" /\ waited[l] < Timeout
                    THEN waited[l] + 1 ELSE waited[l]]
    /\ lease' = [l \in Locks |-> Aged(lease[l])]
    /\ UNCHANGED mode

LockStep(l) ==
    \/ Acquire(l)
    \/ TryAcquire(l)
    \/ GiveUp(l)
    \/ AcquireNow(l)
    \/ Extend(l)
    \/ Release(l)
    \/ mode[l] # "idle" /\ Crash({l})

LockNext == Tick \/ \E l \in Locks : LockStep(l)

LockSpec == LockInit /\ [][LockNext]_lockVars

(* Time passes, and a process in the retry loop keeps retrying: the loop   *)
(* of acquire() has no other exit.  Nobody is obliged to leave its block.  *)
LockFairness ==
    /\ WF_lockVars(Tick)
    /\ \A l \in Locks : WF_lockVars(TryAcquire(l)) /\ WF_lockVars(GiveUp(l))

FairLockSpec == LockSpec /\ LockFairness

-----------------------------------------------------------------------------
(* While the time a caller was granted lasts, the key is its own: no other *)
(* object can be inside on a live lease, whatever expired, was released    *)
(* late, was extended or crashed before (locks.py, "Token-based ownership  *)
(* prevents accidental release by other processes").                       *)
LeaseIsExclusive ==
    \A l \in Locks : lease[l] > 0 => token = l /\ left = lease[l]

(* A crashed holder cannot keep the lock: its key is gone in the end       *)
(* (locks.py, "Automatic TTL prevents deadlocks from crashed processes").  *)
CrashedHolderExpires == (token = Orphan) ~> (token # Orphan)

(* A blocking acquire() comes back, with the lock or with an error.        *)
AcquireReturns == \A l \in Locks : (mode[l] = "trying") ~> (mode[l] # "trying")
=============================================================================
