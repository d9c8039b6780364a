----------------------------- MODULE WebhookInbox -----------------------------
(***************************************************************************)
(* One Stripe event from its reception to its end: the view stripe_webhook *)
(* (payments/webhooks/views.py), the Celery task process_webhook_event and *)
(* the periodic tasks retry_failed_webhooks and cleanup_stuck_webhooks     *)
(* (payments/tasks.py), over the event's WebhookEvent row.                 *)
(*                                                                         *)
(* Nobody locks the row: a task, and the cleanup, reads it, changes its    *)
(* copy and saves the whole copy later.  A task may die or be killed at    *)
(* the time limit of Celery; its message is then acknowledged, or          *)
(* delivered again.  Time passes in ticks.                                 *)
(***************************************************************************)
EXTENDS Naturals, FiniteSetsExt

CONSTANTS Tasks,       \* bound: messages of process_webhook_event at a time
          MaxRetries,  \* MAX_WEBHOOK_RETRIES, of the sweep and of Celery
          TaskLimit,   \* CELERY_TASK_TIME_LIMIT in ticks
          Threshold,   \* STUCK_PROCESSING_THRESHOLD_MINUTES in ticks
          MaxPosts,    \* bound: deliveries by Stripe
          MaxDeaths    \* bound: deaths of workers

ASSUME InboxAssumption ==
    /\ MaxRetries \in Nat \ {0}
    /\ TaskLimit \in Nat
    /\ Threshold \in Nat
    /\ TaskLimit <= Threshold           \* 30 minutes both
    /\ MaxPosts \in Nat
    /\ MaxDeaths \in Nat

VARIABLES event,     \* the row: status ("none": no row yet) and retry_count
          unchanged, \* ticks since updated_at, as far as Threshold tells
          task,      \* each message: where its task is, the retry_count of
                     \* its copy, the result to save, Celery's retries, and
                     \* the ticks since its start
          cleanup,   \* the copies that the cleanup has read and not saved
          handled,   \* the handler has committed with success
          attempts,  \* how often processing began (history variable)
          posts,     \* deliveries so far
          deaths     \* deaths so far

inbox == <<event, unchanged>>
bounds == <<posts, deaths>>
vars == <<inbox, task, cleanup, handled, attempts, bounds>>

(* Counters matter up to the limits they are compared with.                *)
UpTo(limit, n) == IF n < limit THEN n ELSE limit
Counts == 0..MaxRetries

Idle == [pc |-> "none", copy |-> 0, result |-> "none", tries |-> 0, age |-> 0]
Running == {"loaded", "marked", "saving"}
Task == [pc : {"none", "queued"} \cup Running, copy : Counts,
         result : {"none", "success", "failure", "exception"},
         tries : Counts, age : 0..TaskLimit]
Event == [status : {"none", "pending", "processing", "processed", "failed"},
          retries : Counts]

TypeOK ==
    /\ event \in Event
    /\ unchanged \in 0..(Threshold + 1)
    /\ task \in [Tasks -> Task]
    /\ cleanup \subseteq Counts
    /\ handled \in BOOLEAN
    /\ attempts \in Counts
    /\ posts \in 0..MaxPosts
    /\ deaths \in 0..MaxDeaths

Init ==
    /\ event = [status |-> "none", retries |-> 0]
    /\ unchanged = 0
    /\ task = [t \in Tasks |-> Idle]
    /\ cleanup = {}
    /\ handled = FALSE
    /\ attempts = 0
    /\ posts = 0
    /\ deaths = 0

(* save() writes every field, and updated_at.                              *)
SaveEvent(status, retries) ==
    /\ event' = [status |-> status, retries |-> retries]
    /\ unchanged' = 0

Become(t, job) == task' = [task EXCEPT ![t] = job]
Queued(tries) == [Idle EXCEPT !.pc = "queued", !.tries = tries]
Enqueue(t) == task[t] = Idle /\ Become(t, Queued(0))

-----------------------------------------------------------------------------
(* stripe_webhook: get_or_create, then .delay() unless the event has been  *)
(* processed.  When the broker refuses the task, the answer is 200 too.    *)

Receive ==
    /\ posts < MaxPosts
    /\ posts' = posts + 1
    /\ IF event.status = "none" THEN SaveEvent("pending", 0) ELSE UNCHANGED inbox
    /\ \/ event.status # "processed" /\ \E t \in Tasks : Enqueue(t)
       \/ UNCHANGED task
    /\ UNCHANGED <<cleanup, handled, attempts, deaths>>

-----------------------------------------------------------------------------
(* process_webhook_event                                                   *)

Load(t) ==
    /\ task[t].pc = "queued"
    /\ IF event.status = "processed"
       THEN Become(t, Idle)
       ELSE Become(t, [task[t] EXCEPT !.pc = "loaded", !.copy = event.retries])
    /\ UNCHANGED <<inbox, cleanup, handled, attempts, bounds>>

(* mark_processing() and save().                                           *)
MarkProcessing(t) ==
    LET n == UpTo(MaxRetries, task[t].copy + 1) IN
    /\ task[t].pc = "loaded"
    /\ SaveEvent("processing", n)
    /\ Become(t, [task[t] EXCEPT !.pc = "marked", !.copy = n])
    /\ attempts' = UpTo(MaxRetries, attempts + 1)
    /\ UNCHANGED <<cleanup, handled, bounds>>

(* The transaction of dispatch_webhook; any handler may succeed, answer    *)
(* with a failure or raise.                                                *)
Dispatch(t) ==
    /\ task[t].pc = "marked"
    /\ \E result \in {"success", "failure", "exception"} :
          /\ Become(t, [task[t] EXCEPT !.pc = "saving", !.result = result])
          /\ handled' = (handled \/ result = "success")
    /\ UNCHANGED <<inbox, cleanup, attempts, bounds>>

ProcessedUnlessRaised(result) ==          \* bug: result.success is not read
    IF result = "exception" THEN "failed" ELSE "processed"
StatusAfter(result) == IF result = "success" THEN "processed" ELSE "failed"

OnceMore(job) == job.tries <= MaxRetries  \* bug: one retry too many
CeleryRetries(job) == job.tries < MaxRetries

(* mark_processed() or mark_failed(), and save(); autoretry_for queues the *)
(* task again after an exception.                                          *)
SaveResult(t) ==
    LET job == task[t] IN
    /\ job.pc = "saving"
    /\ SaveEvent(StatusAfter(job.result), job.copy)
    /\ Become(t, IF job.result = "exception" /\ CeleryRetries(job)
                 THEN Queued(job.tries + 1) ELSE Idle)
    /\ UNCHANGED <<cleanup, handled, attempts, bounds>>

(* A worker dies, or is killed at the time limit.                          *)
Die(t) ==
    /\ deaths < MaxDeaths
    /\ deaths' = deaths + 1
    /\ task[t].pc \in Running
    /\ \E job \in {Idle, Queued(task[t].tries)} : Become(t, job)
    /\ UNCHANGED <<inbox, cleanup, handled, attempts, posts>>

-----------------------------------------------------------------------------
(* retry_failed_webhooks                                                   *)

RetriesOne == event.status = "failed" /\ event.retries < 1   \* bug: one retry
MayRetry == event.status = "failed" /\ event.retries < MaxRetries

RetryFailed ==
    /\ MayRetry
    /\ \E t \in Tasks : Enqueue(t)
    /\ UNCHANGED <<inbox, cleanup, handled, attempts, bounds>>

(* cleanup_stuck_webhooks: the query and, later, mark_failed and save.     *)

StuckAtOnce == event.status = "processing"      \* bug: no threshold
Stuck == event.status = "processing" /\ unchanged > Threshold

FindStuck ==
    /\ Stuck
    /\ cleanup' = cleanup \cup {event.retries}
    /\ UNCHANGED <<inbox, task, handled, attempts, bounds>>

CountsFailure(n) == UpTo(MaxRetries, n + 1)     \* bug: counts a reset too
FailedCopy(n) == n

MarkStuckFailed(n) ==
    /\ n \in cleanup
    /\ SaveEvent("failed", FailedCopy(n))
    /\ cleanup' = cleanup \ {n}
    /\ UNCHANGED <<task, handled, attempts, bounds>>

CleanupStops(n) ==
    /\ n \in cleanup
    /\ deaths < MaxDeaths
    /\ deaths' = deaths + 1
    /\ cleanup' = cleanup \ {n}
    /\ UNCHANGED <<inbox, task, handled, attempts, posts>>

(* A tick; no task outlives its time limit.                                *)
Tick ==
    /\ \A t \in Tasks : task[t].pc \in Running => task[t].age < TaskLimit
    /\ unchanged' = UpTo(Threshold + 1, unchanged + 1)
    /\ task' = [t \in Tasks |-> IF task[t].pc \in Running
                                THEN [task[t] EXCEPT !.age = @ + 1] ELSE task[t]]
    /\ UNCHANGED <<event, cleanup, handled, attempts, bounds>>

-----------------------------------------------------------------------------
Step(t) == Load(t) \/ MarkProcessing(t) \/ Dispatch(t) \/ SaveResult(t)

Next ==
    \/ Receive
    \/ \E t \in Tasks : Step(t) \/ Die(t)
    \/ RetryFailed
    \/ FindStuck
    \/ \E n \in Counts : MarkStuckFailed(n) \/ CleanupStops(n)
    \/ Tick

Spec == Init /\ [][Next]_vars

(* Celery runs what is queued to its end, and time passes.  The two        *)
(* periodic tasks run again and again: "should be scheduled via            *)
(* celery-beat" (tasks.py:199); that is left to the deployment, no         *)
(* migration does it.  Stripe and the deaths owe nothing.                  *)
Fairness ==
    /\ \A t \in Tasks : WF_vars(Step(t))
    /\ WF_vars(RetryFailed)
    /\ WF_vars(FindStuck)
    /\ \A n \in Counts : WF_vars(MarkStuckFailed(n))
    /\ WF_vars(Tick)

FairSpec == Spec /\ Fairness

-----------------------------------------------------------------------------
(* An event is called processed only when its handler has committed, also  *)
(* when several tasks run it and save over each other (tasks.py:133-176).  *)
ProcessedIsHandled ==
    event.status = "processed" => handled

(* No event is given up before it was tried as often as MAX_WEBHOOK_RETRIES*)
(* says: stale copies may lose attempts of retry_count, none adds one      *)
(* (tasks.py:205-208, models/webhook_event.py, "Number of processing       *)
(* attempts").                                                             *)
NotGivenUpEarly == event.retries <= attempts

(* What the cleanup takes for a crashed worker is one: no task that began  *)
(* to process the event is still running, since the time limit of Celery   *)
(* has ended it (tasks.py, "This handles cases where the worker crashed    *)
(* during processing").                                                    *)
StuckMeansDead ==
    [][cleanup' \ cleanup # {} =>
          \A t \in Tasks : task[t].pc \notin {"marked", "saving"}]_vars

(* An event whose processing once began is processed, or tried for the     *)
(* last time, whoever dies and whatever copy is saved over another         *)
(* (tasks.py, retry_failed_webhooks and cleanup_stuck_webhooks).           *)
Resolved ==
    \/ event.status = "processed"
    \/ event.status = "failed" /\ event.retries = MaxRetries

BegunIsResolved == (event.status \in {"processing", "failed"}) ~> Resolved
=============================================================================
