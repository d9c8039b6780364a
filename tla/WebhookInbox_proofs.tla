------------------------- MODULE WebhookInbox_proofs -------------------------
(***************************************************************************)
(* Theorems about WebhookInbox, for any number of messages, deliveries,    *)
(* deaths and any limits.                                                  *)
(***************************************************************************)
EXTENDS WebhookInbox, TLAPS

(* Attempts: no copy of retry_count is ahead of the attempts made.         *)
CopiesLag ==
    /\ \A t \in Tasks : task[t].copy <= attempts
    /\ \A n \in cleanup : n <= attempts

(* A success waits to be saved only after the handler committed.           *)
SuccessIsHandled ==
    \A t \in Tasks : task[t].pc = "saving" /\ task[t].result = "success" => handled

(* updated_at is not older than the start of a task that wrote the row.    *)
WritersAreRecent ==
    \A t \in Tasks : task[t].pc \in {"marked", "saving"} => unchanged <= task[t].age

IInv ==
    /\ TypeOK
    /\ CopiesLag
    /\ NotGivenUpEarly
    /\ SuccessIsHandled
    /\ ProcessedIsHandled
    /\ WritersAreRecent

-----------------------------------------------------------------------------
(* A saturating counter stays in its range and does not run ahead.         *)
LEMMA UpToRange ==
    ASSUME NEW limit \in Nat, NEW n \in Nat
    PROVE  /\ UpTo(limit, n) \in 0..limit
           /\ UpTo(limit, n) <= n
           /\ UpTo(limit, n + 1) <= UpTo(limit, n) + 1
BY DEF UpTo

LEMMA UpToMonotone ==
    ASSUME NEW limit \in Nat, NEW m \in 0..limit, NEW n \in 0..limit, m <= n
    PROVE  /\ UpTo(limit, m + 1) <= UpTo(limit, n + 1)
           /\ n <= UpTo(limit, n + 1)
BY DEF UpTo

(* What the actions put into the place of a task is a task.                *)
LEMMA IdleIsTask ==
    /\ Idle \in Task
    /\ Idle.pc = "none" /\ Idle.copy = 0
    /\ 0 \in Counts
BY InboxAssumption DEF Task, Idle, Counts, Running

LEMMA QueuedIsTask ==
    ASSUME NEW n \in Counts
    PROVE  Queued(n) \in Task /\ Queued(n).pc = "queued" /\ Queued(n).copy = 0
BY IdleIsTask DEF Queued, Task, Idle

LEMMA CountedTask ==
    ASSUME NEW job \in Task, NEW n \in Counts, NEW pc \in {"loaded", "marked"}
    PROVE  /\ [job EXCEPT !.pc = pc, !.copy = n] \in Task
           /\ [job EXCEPT !.pc = pc, !.copy = n].pc = pc
           /\ [job EXCEPT !.pc = pc, !.copy = n].copy = n
           /\ [job EXCEPT !.pc = pc, !.copy = n].age = job.age
BY DEF Task, Running

LEMMA AnsweredTask ==
    ASSUME NEW job \in Task, NEW result \in {"success", "failure", "exception"}
    PROVE  /\ [job EXCEPT !.pc = "saving", !.result = result] \in Task
           /\ [job EXCEPT !.pc = "saving", !.result = result].pc = "saving"
           /\ [job EXCEPT !.pc = "saving", !.result = result].result = result
           /\ [job EXCEPT !.pc = "saving", !.result = result].copy = job.copy
           /\ [job EXCEPT !.pc = "saving", !.result = result].age = job.age
BY DEF Task, Running

LEMMA OlderTask ==
    ASSUME NEW job \in Task, job.age < TaskLimit
    PROVE  [job EXCEPT !.age = @ + 1] \in Task
<1>1. job.age + 1 \in 0..TaskLimit
    BY InboxAssumption DEF Task
<1> QED BY <1>1 DEF Task

(* One task changes, the others stay.                                      *)
LEMMA OneTaskChanges ==
    ASSUME task \in [Tasks -> Task], NEW t \in Tasks, NEW job \in Task,
           task' = [task EXCEPT ![t] = job]
    PROVE  /\ task' \in [Tasks -> Task]
           /\ task'[t] = job
           /\ \A u \in Tasks : u # t => task'[u] = task[u]
OBVIOUS

(* A task that stops or waits owes nothing to the invariant.               *)
LEMMA QuietTask ==
    ASSUME task \in [Tasks -> Task], NEW t \in Tasks, NEW job \in Task,
           job.pc \notin {"marked", "saving"}, job.copy = 0, attempts \in Nat,
           CopiesLag, SuccessIsHandled, WritersAreRecent,
           task' = [task EXCEPT ![t] = job],
           UNCHANGED <<cleanup, handled, attempts>>, unchanged' \in {unchanged, 0}
    PROVE  /\ task' \in [Tasks -> Task]
           /\ CopiesLag'
           /\ SuccessIsHandled'
           /\ WritersAreRecent'
<1>1. /\ task' \in [Tasks -> Task]
      /\ task'[t] = job
      /\ \A u \in Tasks : u # t => task'[u] = task[u]
    BY OneTaskChanges
<1>2. CopiesLag' /\ SuccessIsHandled'
    BY <1>1 DEF CopiesLag, SuccessIsHandled
<1>3. \A u \in Tasks : 0 <= task[u].age
    BY InboxAssumption DEF Task
<1>4. WritersAreRecent'
    BY <1>1, <1>3 DEF WritersAreRecent
<1> QED BY <1>1, <1>2, <1>4

LEMMA Initially == Init => IInv
<1> SUFFICES ASSUME Init PROVE IInv
    OBVIOUS
<1>1. event \in Event /\ attempts \in Counts
    BY IdleIsTask DEF Init, Event
<1>2. task \in [Tasks -> Task]
    BY IdleIsTask DEF Init
<1>3. handled \in BOOLEAN
    BY Zenon DEF Init
<1>4. cleanup \subseteq Counts
    BY DEF Init
<1>5. unchanged \in 0..(Threshold + 1) /\ posts \in 0..MaxPosts /\ deaths \in 0..MaxDeaths
    BY InboxAssumption DEF Init
<1>6. TypeOK
    BY <1>1, <1>2, <1>3, <1>4, <1>5 DEF TypeOK
<1> QED BY <1>6 DEF Init, IInv, CopiesLag, NotGivenUpEarly, SuccessIsHandled,
               ProcessedIsHandled, WritersAreRecent, Idle

-----------------------------------------------------------------------------
LEMMA Preserved == IInv /\ [Next]_vars => IInv'
<1> SUFFICES ASSUME IInv, [Next]_vars PROVE IInv'
    OBVIOUS
<1> USE InboxAssumption
<1> USE DEF IInv
<1>types. /\ event \in Event /\ event.retries \in Counts /\ attempts \in Counts
          /\ \A t \in Tasks : /\ task[t] \in Task
                              /\ task[t].copy \in Counts
                              /\ task[t].tries \in Counts
                              /\ task[t].age \in 0..TaskLimit
          /\ cleanup \subseteq Counts
          /\ task \in [Tasks -> Task]
          /\ attempts \in Nat
          /\ CopiesLag /\ SuccessIsHandled /\ WritersAreRecent
    BY DEF TypeOK, Event, Task, Counts
<1>1. CASE Receive
    <2>1. \/ UNCHANGED inbox
          \/ event.status = "none" /\ SaveEvent("pending", 0)
        BY <1>1 DEF Receive
    <2>2. \/ UNCHANGED task
          \/ \E t \in Tasks : task' = [task EXCEPT ![t] = Queued(0)]
        BY <1>1 DEF Receive, Enqueue, Become
    <2>3. UNCHANGED <<cleanup, handled, attempts, deaths>> /\ posts' \in 0..MaxPosts
        BY <1>1 DEF Receive, TypeOK
    <2>4. event' \in Event /\ unchanged' \in {unchanged, 0}
        BY <2>1, IdleIsTask DEF TypeOK, inbox, SaveEvent, Event
    <2>5. task' \in [Tasks -> Task] /\ CopiesLag' /\ SuccessIsHandled' /\ WritersAreRecent'
        <3>1. CASE UNCHANGED task
            BY <3>1, <2>3, <2>4, <1>types DEF CopiesLag, SuccessIsHandled, WritersAreRecent, Task
        <3>2. CASE \E t \in Tasks : task' = [task EXCEPT ![t] = Queued(0)]
            BY <3>2, <2>3, <2>4, <1>types, IdleIsTask, QueuedIsTask, QuietTask
        <3> QED BY <2>2, <3>1, <3>2
    <2>6. TypeOK'
        BY <2>3, <2>4, <2>5 DEF TypeOK
    <2>7. NotGivenUpEarly' /\ ProcessedIsHandled'
        BY <2>1, <2>3, <1>types
           DEF NotGivenUpEarly, ProcessedIsHandled, SaveEvent, inbox, Counts
    <2> QED BY <2>5, <2>6, <2>7
<1>2. ASSUME NEW t \in Tasks, Load(t) PROVE IInv'
    <2>1. UNCHANGED <<inbox, cleanup, handled, attempts, bounds>>
        BY <1>2 DEF Load
    <2>2. /\ task' \in [Tasks -> Task]
          /\ CopiesLag' /\ SuccessIsHandled' /\ WritersAreRecent'
        <3>1. CASE task' = [task EXCEPT ![t] = Idle]
            BY <3>1, <2>1, <1>types, IdleIsTask, QuietTask DEF inbox
        <3>2. CASE task' = [task EXCEPT ![t] = [task[t] EXCEPT !.pc = "loaded",
                                                             !.copy = event.retries]]
            <4> DEFINE job == [task[t] EXCEPT !.pc = "loaded", !.copy = event.retries]
            <4>1. job \in Task /\ job.pc = "loaded" /\ job.copy = event.retries
                <5>1. task[t] \in Task /\ event.retries \in Counts
                    BY <1>types
                <5>2. "loaded" \in {"loaded", "marked"}
                    OBVIOUS
                <5> QED BY <5>1, <5>2, CountedTask
            <4>2. task' \in [Tasks -> Task] /\ task'[t] = job
                  /\ \A u \in Tasks : u # t => task'[u] = task[u]
                <5> HIDE DEF job
                <5> QED BY <3>2, <4>1, <1>types, OneTaskChanges DEF job
            <4> HIDE DEF job
            <4> QED BY <4>1, <4>2, <2>1 DEF CopiesLag, SuccessIsHandled,
                       WritersAreRecent, NotGivenUpEarly, inbox
        <3> QED BY <1>2, <3>1, <3>2 DEF Load, Become
    <2>3. TypeOK'
        BY <2>1, <2>2 DEF TypeOK, inbox, bounds
    <2>4. NotGivenUpEarly' /\ ProcessedIsHandled'
        BY <2>1 DEF NotGivenUpEarly, ProcessedIsHandled, inbox
    <2> QED BY <2>2, <2>3, <2>4
<1>3. ASSUME NEW t \in Tasks, MarkProcessing(t) PROVE IInv'
    <2> DEFINE n == UpTo(MaxRetries, task[t].copy + 1)
    <2> DEFINE job == [task[t] EXCEPT !.pc = "marked", !.copy = n]
    <2>1. /\ task' = [task EXCEPT ![t] = job]
          /\ event' = [status |-> "processing", retries |-> n]
          /\ unchanged' = 0
          /\ attempts' = UpTo(MaxRetries, attempts + 1)
          /\ UNCHANGED <<cleanup, handled, bounds>>
        BY <1>3 DEF MarkProcessing, Become, SaveEvent
    <2>2. n \in Counts /\ attempts' \in Counts
        BY <2>1, <1>types, UpToRange DEF Counts
    <2>3. n <= attempts' /\ attempts <= attempts'
        BY <2>1, <1>types, UpToMonotone DEF CopiesLag, Counts
    <2> HIDE DEF n
    <2>11. job \in Task /\ job.pc = "marked" /\ job.copy = n
        BY <2>2, <1>types, CountedTask
    <2>4. job \in Task /\ job.pc = "marked" /\ job.copy = n /\ 0 <= job.age
        <3>1. job.age \in 0..TaskLimit
            BY <2>11 DEF Task
        <3> QED BY <2>11, <3>1
    <2> HIDE DEF job
    <2>5. task' \in [Tasks -> Task] /\ task'[t] = job
          /\ \A u \in Tasks : u # t => task'[u] = task[u]
        BY <2>1, <2>4, <1>types, OneTaskChanges
    <2>6. event' \in Event
        BY <2>1, <2>2 DEF Event
    <2>7. TypeOK'
        BY <2>1, <2>2, <2>5, <2>6 DEF TypeOK, bounds
    <2>8. CopiesLag'
        BY <2>1, <2>2, <2>3, <2>4, <2>5, <1>types DEF CopiesLag, Counts
    <2>9. NotGivenUpEarly' /\ ProcessedIsHandled' /\ SuccessIsHandled'
        BY <2>1, <2>3, <2>4, <2>5
           DEF NotGivenUpEarly, ProcessedIsHandled, SuccessIsHandled
    <2>10. WritersAreRecent'
        BY <2>1, <2>4, <2>5, <1>types DEF WritersAreRecent
    <2> QED BY <2>7, <2>8, <2>9, <2>10
<1>4. ASSUME NEW t \in Tasks, Dispatch(t) PROVE IInv'
    <2>1. PICK result \in {"success", "failure", "exception"} :
             /\ task' = [task EXCEPT ![t] = [task[t] EXCEPT !.pc = "saving",
                                                          !.result = result]]
             /\ handled' = (handled \/ result = "success")
        BY <1>4 DEF Dispatch, Become
    <2>2. task[t].pc = "marked" /\ UNCHANGED <<inbox, cleanup, attempts, bounds>>
        BY <1>4 DEF Dispatch
    <2> DEFINE job == [task[t] EXCEPT !.pc = "saving", !.result = result]
    <2>3. /\ job \in Task /\ job.pc = "saving" /\ job.result = result
          /\ job.copy = task[t].copy /\ job.age = task[t].age
        BY <1>types, AnsweredTask
    <2>4. task' = [task EXCEPT ![t] = job]
        BY <2>1
    <2> HIDE DEF job
    <2>5. task' \in [Tasks -> Task] /\ task'[t] = job
          /\ \A u \in Tasks : u # t => task'[u] = task[u]
        BY <2>3, <2>4, <1>types, OneTaskChanges
    <2>6. handled' \in BOOLEAN
        BY <2>1
    <2>7. TypeOK'
        BY <2>2, <2>5, <2>6 DEF TypeOK, inbox, bounds
    <2>8. CopiesLag'
        BY <2>2, <2>3, <2>5 DEF CopiesLag
    <2>9. SuccessIsHandled'
        BY <2>1, <2>3, <2>5 DEF SuccessIsHandled
    <2>10. WritersAreRecent'
        BY <2>2, <2>3, <2>5 DEF WritersAreRecent, inbox
    <2>11. NotGivenUpEarly' /\ ProcessedIsHandled'
        BY <2>1, <2>2 DEF NotGivenUpEarly, ProcessedIsHandled, inbox
    <2> QED BY <2>7, <2>8, <2>9, <2>10, <2>11
<1>5. ASSUME NEW t \in Tasks, SaveResult(t) PROVE IInv'
    <2>1. PICK job : /\ task' = [task EXCEPT ![t] = job]
                     /\ \/ job = Idle
                        \/ task[t].tries < MaxRetries /\ job = Queued(task[t].tries + 1)
        BY <1>5 DEF SaveResult, Become, CeleryRetries
    <2>2. /\ task[t].pc = "saving"
          /\ event' = [status |-> StatusAfter(task[t].result), retries |-> task[t].copy]
          /\ unchanged' = 0
          /\ UNCHANGED <<cleanup, handled, attempts, bounds>>
        BY <1>5 DEF SaveResult, SaveEvent
    <2>3. StatusAfter(task[t].result) \in {"processed", "failed"}
        BY DEF StatusAfter
    <2>4. StatusAfter(task[t].result) = "processed" => handled
        BY <2>2 DEF StatusAfter, SuccessIsHandled
    <2>5. task[t].tries < MaxRetries => task[t].tries + 1 \in Counts
        BY <1>types DEF Counts
    <2>6. job \in Task /\ job.pc \notin {"marked", "saving"} /\ job.copy = 0
        BY <2>1, <2>5, IdleIsTask, QueuedIsTask
    <2>7. /\ task' \in [Tasks -> Task]
          /\ CopiesLag' /\ SuccessIsHandled' /\ WritersAreRecent'
        BY <2>1, <2>2, <2>6, <1>types, QuietTask
    <2>8. event' \in Event
        BY <2>2, <2>3, <1>types DEF Event
    <2>9. TypeOK'
        BY <2>2, <2>7, <2>8 DEF TypeOK, bounds
    <2>10. NotGivenUpEarly' /\ ProcessedIsHandled'
        BY <2>2, <2>4 DEF NotGivenUpEarly, ProcessedIsHandled, CopiesLag
    <2> QED BY <2>7, <2>9, <2>10
<1>6. ASSUME NEW t \in Tasks, Die(t) PROVE IInv'
    <2>1. PICK job \in {Idle, Queued(task[t].tries)} : task' = [task EXCEPT ![t] = job]
        BY <1>6 DEF Die, Become
    <2>2. UNCHANGED <<inbox, cleanup, handled, attempts, posts>> /\ deaths' \in 0..MaxDeaths
        BY <1>6 DEF Die, TypeOK
    <2>3. job \in Task /\ job.pc \notin {"marked", "saving"} /\ job.copy = 0
        BY <2>1, <1>types, IdleIsTask, QueuedIsTask
    <2>4. /\ task' \in [Tasks -> Task]
          /\ CopiesLag' /\ SuccessIsHandled' /\ WritersAreRecent'
        BY <2>1, <2>2, <2>3, <1>types, QuietTask DEF inbox
    <2>5. TypeOK'
        BY <2>2, <2>4 DEF TypeOK, inbox
    <2>6. NotGivenUpEarly' /\ ProcessedIsHandled'
        BY <2>2 DEF NotGivenUpEarly, ProcessedIsHandled, inbox
    <2> QED BY <2>4, <2>5, <2>6
<1>7. CASE RetryFailed
    <2>1. PICK t \in Tasks : task' = [task EXCEPT ![t] = Queued(0)]
        BY <1>7 DEF RetryFailed, Enqueue, Become
    <2>2. UNCHANGED <<inbox, cleanup, handled, attempts, bounds>>
        BY <1>7 DEF RetryFailed
    <2>3. /\ task' \in [Tasks -> Task]
          /\ CopiesLag' /\ SuccessIsHandled' /\ WritersAreRecent'
        BY <2>1, <2>2, <1>types, IdleIsTask, QueuedIsTask, QuietTask DEF inbox
    <2>4. TypeOK'
        BY <2>2, <2>3 DEF TypeOK, inbox, bounds
    <2>5. NotGivenUpEarly' /\ ProcessedIsHandled'
        BY <2>2 DEF NotGivenUpEarly, ProcessedIsHandled, inbox
    <2> QED BY <2>3, <2>4, <2>5
<1>8. CASE FindStuck
    <2>1. /\ cleanup' = cleanup \cup {event.retries}
          /\ UNCHANGED <<inbox, task, handled, attempts, bounds>>
        BY <1>8 DEF FindStuck
    <2> QED BY <2>1, <1>types DEF TypeOK, CopiesLag, NotGivenUpEarly, SuccessIsHandled,
               ProcessedIsHandled, WritersAreRecent, inbox, bounds
<1>9. ASSUME NEW n \in Counts, MarkStuckFailed(n) PROVE IInv'
    <2>1. /\ n \in cleanup
          /\ event' = [status |-> "failed", retries |-> n]
          /\ unchanged' = 0
          /\ cleanup' = cleanup \ {n}
          /\ UNCHANGED <<task, handled, attempts, bounds>>
        BY <1>9 DEF MarkStuckFailed, SaveEvent, FailedCopy
    <2> QED BY <2>1, <1>types DEF TypeOK, Event, CopiesLag, NotGivenUpEarly,
               SuccessIsHandled, ProcessedIsHandled, WritersAreRecent, bounds, Counts
<1>10. ASSUME NEW n \in Counts, CleanupStops(n) PROVE IInv'
    <2>1. /\ cleanup' = cleanup \ {n}
          /\ deaths' \in 0..MaxDeaths
          /\ UNCHANGED <<inbox, task, handled, attempts, posts>>
        BY <1>10 DEF CleanupStops, TypeOK
    <2> QED BY <2>1, <1>types DEF TypeOK, CopiesLag, NotGivenUpEarly,
               SuccessIsHandled, ProcessedIsHandled, WritersAreRecent, inbox
<1>11. CASE Tick
    <2>1. /\ \A t \in Tasks : task[t].pc \in Running => task[t].age < TaskLimit
          /\ unchanged' = UpTo(Threshold + 1, unchanged + 1)
          /\ task' = [t \in Tasks |-> IF task[t].pc \in Running
                                      THEN [task[t] EXCEPT !.age = @ + 1] ELSE task[t]]
          /\ UNCHANGED <<event, cleanup, handled, attempts, bounds>>
        BY <1>11 DEF Tick
    <2>2. unchanged' \in 0..(Threshold + 1) /\ unchanged' <= unchanged + 1
        BY <2>1, UpToRange DEF TypeOK
    <2>3. \A t \in Tasks : task[t].age < TaskLimit => [task[t] EXCEPT !.age = @ + 1] \in Task
        BY <1>types, OlderTask
    <2>9. task' \in [Tasks -> Task]
        BY <2>1, <2>3, <1>types
    <2>10. TypeOK'
        BY <2>1, <2>2, <2>9 DEF TypeOK, bounds
    <2>4. \A t \in Tasks : /\ task'[t].pc = task[t].pc
                           /\ task'[t].copy = task[t].copy
                           /\ task'[t].result = task[t].result
                           /\ task[t].pc \in Running => task'[t].age = task[t].age + 1
        BY <2>1, <1>types DEF Task
    <2>5. CopiesLag' /\ SuccessIsHandled' /\ NotGivenUpEarly' /\ ProcessedIsHandled'
        BY <2>1, <2>4 DEF CopiesLag, SuccessIsHandled, NotGivenUpEarly, ProcessedIsHandled
    <2>6. WritersAreRecent'
        BY <2>2, <2>4, <1>types DEF WritersAreRecent, Running, TypeOK
    <2> QED BY <2>10, <2>5, <2>6
<1>12. CASE UNCHANGED vars
    BY <1>12 DEF vars, inbox, bounds, TypeOK, CopiesLag, NotGivenUpEarly,
       SuccessIsHandled, ProcessedIsHandled, WritersAreRecent
<1> QED BY <1>1, <1>2, <1>3, <1>4, <1>5, <1>6, <1>7, <1>8, <1>9, <1>10, <1>11,
           <1>12 DEF Next, Step

LEMMA Inductive == Spec => []IInv
<1> QED BY Initially, Preserved, PTL DEF Spec

-----------------------------------------------------------------------------
(* The variables keep their types (the row, the messages and the copies of *)
(* payments/tasks.py).                                                     *)
THEOREM InboxTypes == Spec => []TypeOK
<1>1. IInv => TypeOK
    BY DEF IInv
<1> QED BY <1>1, Inductive, PTL

(* PROCESSED is only saved after a handler committed (tasks.py:133-139).   *)
THEOREM ProcessedWasHandled == Spec => []ProcessedIsHandled
<1>1. IInv => ProcessedIsHandled
    BY DEF IInv
<1> QED BY <1>1, Inductive, PTL

(* retry_count never says more attempts than there were (tasks.py:120,     *)
(* 205-208 and 258-262).                                                   *)
THEOREM EventGetsItsRetries == Spec => []NotGivenUpEarly
<1>1. IInv => NotGivenUpEarly
    BY DEF IInv
<1> QED BY <1>1, Inductive, PTL

(* The cleanup never finds the row of a living task, because the time      *)
(* limit of Celery is not above its threshold (tasks.py:250-256).          *)
THEOREM StuckTaskIsDead == Spec => StuckMeansDead
<1>1. IInv /\ [Next]_vars =>
         [cleanup' \ cleanup # {} =>
             \A t \in Tasks : task[t].pc \notin {"marked", "saving"}]_vars
    <2> SUFFICES ASSUME IInv, Next, cleanup' \ cleanup # {}, NEW t \in Tasks
                 PROVE  task[t].pc \notin {"marked", "saving"}
        OBVIOUS
    <2>1. FindStuck
        BY DEF Next, Step, Receive, Load, MarkProcessing, Dispatch, SaveResult, Die,
           RetryFailed, MarkStuckFailed, CleanupStops, Tick
    <2>2. unchanged > Threshold
        BY <2>1 DEF FindStuck, Stuck
    <2>3. task[t].age \in 0..TaskLimit /\ unchanged \in Nat
        BY InboxAssumption DEF IInv, TypeOK, Task
    <2> QED BY <2>2, <2>3, InboxAssumption DEF IInv, WritersAreRecent
<1> QED BY <1>1, Inductive, PTL DEF Spec, StuckMeansDead
=============================================================================
