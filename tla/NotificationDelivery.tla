------------------------- MODULE NotificationDelivery -------------------------
(***************************************************************************)
(* One notification with an idempotency key: the preferences of its        *)
(* recipient and their cache, its creation by callers that repeat          *)
(* themselves, the Celery task of each channel, and the callbacks of the   *)
(* providers (notifications/services.py, preferences.py, tasks.py,         *)
(* webhooks.py).                                                           *)
(***************************************************************************)
EXTENDS Naturals, Sequences

CONSTANTS Channels,     \* channels the type of the notification supports
          Creators,     \* callers of create_notification
          MaxRetries    \* max_retries of the tasks

Order == <<"push", "email", "websocket">>

ASSUME NotificationAssumption ==
    /\ Channels \subseteq {Order[i] : i \in DOMAIN Order}
    /\ MaxRetries \in Nat

VARIABLES prefs,      \* the preference rows of the recipient, resolved
          dirty,      \* a saved type preference is yet to be invalidated
          cache,      \* the cached resolution
          caller,     \* what each caller is doing
          made,       \* Notification rows with the key
          read,       \* is_read
          delivery,   \* the status of each channel's NotificationDelivery row
          known,      \* channels whose provider_message_id is stored
          task,       \* the Celery task of each channel
          sends,      \* external: times the provider accepted the message
          told        \* history: channels whose provider has reported

prefVars == <<prefs, dirty, cache>>
noteVars == <<made, read>>
deliveryVars == <<delivery, known, task, sends, told>>
notificationVars == <<prefVars, caller, noteVars, deliveryVars>>

(* The rows of the recipient: everything off, the category of the type     *)
(* off, and the channels left on for the type, none when it is disabled.   *)
Prefs == [global : BOOLEAN, category : BOOLEAN, type : SUBSET Channels]
Defaults == [global |-> FALSE, category |-> FALSE, type |-> Channels]
NotCached == {"nothing"}

(* ResolvedPreferences: the channels that are on.  The three rows are read *)
(* as one.                                                                 *)
Resolution == IF prefs.global \/ prefs.category THEN {} ELSE prefs.type

Status == {"none", "PENDING", "SENT", "DELIVERED", "FAILED", "SKIPPED"}
NoTask == [at |-> "none", tries |-> 0]
Queued(tries) == [at |-> "queued", tries |-> tries]
AtRest == [op |-> "idle"]

NotificationInit ==
    /\ prefs = Defaults
    /\ dirty = FALSE /\ cache = NotCached
    /\ caller = [c \in Creators |-> AtRest]
    /\ made = 0 /\ read = FALSE
    /\ delivery = [ch \in Channels |-> "none"] /\ known = {}
    /\ task = [ch \in Channels |-> NoTask]
    /\ sends = [ch \in Channels |-> 0]
    /\ told = {}

-----------------------------------------------------------------------------
(* PreferenceService.  Only a change of a type's preference deletes the    *)
(* cached resolution, after its row is saved; the others name no type when *)
(* they invalidate, and wait for the TTL.                                  *)

Saves(rows) == prefs' = rows /\ UNCHANGED <<cache, caller, noteVars, deliveryVars>>

SetGlobal ==
    \E off \in BOOLEAN : Saves([prefs EXCEPT !.global = off]) /\ UNCHANGED dirty

SetCategory ==
    \E off \in BOOLEAN : Saves([prefs EXCEPT !.category = off]) /\ UNCHANGED dirty

SetType ==
    /\ ~dirty /\ dirty' = TRUE
    /\ \E on \in SUBSET Channels : Saves([prefs EXCEPT !.type = on])

Reset == Saves(Defaults) /\ UNCHANGED dirty

Invalidate ==
    /\ dirty /\ dirty' = FALSE
    /\ cache' \in {NotCached, cache}            \* the process may die before
    /\ UNCHANGED <<prefs, caller, noteVars, deliveryVars>>

NeverExpires == FALSE /\ UNCHANGED notificationVars   \* bug: no TTL
Expires ==
    /\ cache # NotCached /\ cache' = NotCached
    /\ UNCHANGED <<prefs, dirty, caller, noteVars, deliveryVars>>

-----------------------------------------------------------------------------
(* create_notification.  "keyed": with the key; a caller without creates   *)
(* other notifications of the type.                                        *)

Goes(c, step) == caller' = [caller EXCEPT ![c] = step]

CheckKey(c, keyed) ==
    /\ caller[c] = AtRest /\ (keyed => made = 0)
    /\ Goes(c, [op |-> "resolve", keyed |-> keyed])
    /\ UNCHANGED <<prefVars, noteVars, deliveryVars>>

(* The cache answers, or the database does and the cache is set later.     *)
Resolve(c) ==
    /\ caller[c].op = "resolve"
    /\ Goes(c, [op |-> IF cache = NotCached THEN "fill" ELSE "insert",
                keyed |-> caller[c].keyed,
                prefs |-> IF cache = NotCached THEN Resolution ELSE cache])
    /\ UNCHANGED <<prefVars, noteVars, deliveryVars>>

Fill(c) ==
    /\ caller[c].op = "fill"
    /\ cache' = caller[c].prefs
    /\ Goes(c, [caller[c] EXCEPT !.op = "insert"])
    /\ UNCHANGED <<prefs, dirty, noteVars, deliveryVars>>

(* The rows of a notification are inserted together; the key is unique.    *)
AnyKey(keyed) == TRUE                           \* bug: only looked up before
KeyIsNew(keyed) == keyed => made = 0

Insert(c) ==
    /\ caller[c].op = "insert"
    /\ LET wanted == caller[c].prefs IN
          \/ /\ caller[c].keyed /\ KeyIsNew(caller[c].keyed)
             /\ made' = made + 1
             /\ delivery' = [ch \in Channels |->
                               IF ch \in wanted THEN "PENDING" ELSE "SKIPPED"]
             /\ Goes(c, [op |-> "dispatch", todo |-> wanted])
          \/ /\ ~caller[c].keyed \/ ~KeyIsNew(caller[c].keyed)
             /\ Goes(c, AtRest)
             /\ UNCHANGED <<made, delivery>>
    /\ UNCHANGED <<prefVars, read, known, task, sends, told>>

(* After the commit, channel by channel: the broker may refuse one, or the *)
(* process die, and the rest are never queued.                             *)
Dispatch(c) ==
    /\ caller[c].op = "dispatch"
    /\ \E n \in 0..Len(Order) :
          task' = [ch \in Channels |->
                     IF ch \in caller[c].todo \cap {Order[i] : i \in 1..n}
                     THEN Queued(0) ELSE task[ch]]
    /\ Goes(c, AtRest)
    /\ UNCHANGED <<prefVars, noteVars, delivery, known, sends, told>>

Gives(c) ==                                     \* any error before the commit
    /\ caller[c].op \in {"resolve", "fill", "insert"}
    /\ Goes(c, AtRest)
    /\ UNCHANGED <<prefVars, noteVars, deliveryVars>>

MarkRead ==
    /\ made > 0 /\ ~read /\ read' = TRUE
    /\ UNCHANGED <<prefVars, caller, made, deliveryVars>>

-----------------------------------------------------------------------------
(* The tasks; each is one message, acknowledged when it is taken.          *)

Becomes(ch, status) == delivery' = [delivery EXCEPT ![ch] = status]
Task(ch, t) == task' = [task EXCEPT ![ch] = t]
Again(ch) ==
    Task(ch, IF task[ch].tries < MaxRetries THEN Queued(task[ch].tries + 1) ELSE NoTask)

IsPending(ch) == delivery[ch] = "PENDING"

GetDelivery(ch) ==
    /\ task[ch].at = "queued"
    /\ Task(ch, IF IsPending(ch) THEN [task[ch] EXCEPT !.at = "loaded"] ELSE NoTask)
    /\ UNCHANGED <<prefVars, caller, noteVars, delivery, known, sends, told>>

(* No e-mail address, no connection.                                       *)
Skip(ch) ==
    /\ task[ch].at = "loaded" /\ ch # "push"
    /\ Becomes(ch, "SKIPPED")
    /\ Task(ch, NoTask)
    /\ UNCHANGED <<prefVars, caller, noteVars, known, sends, told>>

(* A permanent error is saved, any other is retried.                       *)
SendNotification(ch) ==
    /\ task[ch].at = "loaded"
    /\ \/ /\ sends' = [sends EXCEPT ![ch] = @ + 1]
          /\ Task(ch, [task[ch] EXCEPT !.at = "sent"])
          /\ UNCHANGED delivery
       \/ ch # "websocket" /\ Becomes(ch, "FAILED") /\ Task(ch, NoTask) /\ UNCHANGED sends
       \/ Again(ch) /\ UNCHANGED <<delivery, sends>>
    /\ UNCHANGED <<prefVars, caller, noteVars, known, told>>

(* A websocket's delivery is known at once, the others have an id that     *)
(* their provider reports on.                                              *)
Reported(ch) == ch # "websocket"

(* _mark_sent; an error, with the row saved or not, is retried as well.    *)
MarkSent(ch) ==
    /\ task[ch].at = "sent"
    /\ \/ /\ Becomes(ch, IF Reported(ch) THEN "SENT" ELSE "DELIVERED")
          /\ known' = IF Reported(ch) THEN known \cup {ch} ELSE known
          /\ Task(ch, NoTask) \/ Again(ch)
       \/ Again(ch) /\ UNCHANGED <<delivery, known>>
    /\ UNCHANGED <<prefVars, caller, noteVars, sends, told>>

Dies(ch) ==
    /\ task[ch].at \in {"loaded", "sent"}
    /\ Task(ch, NoTask)
    /\ UNCHANGED <<prefVars, caller, noteVars, delivery, known, sends, told>>

(* What providers report; bounced, complained and dropped are failures.    *)
Reports == {"DELIVERED", "FAILED"}

(* _update_delivery_status: callbacks come late, twice and in any order;   *)
(* one that comes before the message's id is stored is not found.          *)
Callback(ch) ==
    /\ ch \in known
    /\ \E said \in Reports : Becomes(ch, said)
    /\ told' = told \cup {ch}
    /\ UNCHANGED <<prefVars, caller, noteVars, known, task, sends>>

-----------------------------------------------------------------------------
NotificationNext ==
    \/ SetGlobal \/ SetCategory \/ SetType \/ Reset \/ Invalidate \/ Expires
    \/ \E c \in Creators :
          \/ \E keyed \in BOOLEAN : CheckKey(c, keyed)
          \/ Resolve(c) \/ Fill(c) \/ Insert(c) \/ Dispatch(c) \/ Gives(c)
    \/ MarkRead
    \/ \E ch \in Channels :
          \/ GetDelivery(ch) \/ Skip(ch) \/ SendNotification(ch) \/ MarkSent(ch)
          \/ Dies(ch) \/ Callback(ch)

(* Time passes.                                                            *)
NotificationSpec ==
    NotificationInit /\ [][NotificationNext]_notificationVars /\ WF_notificationVars(Expires)

-----------------------------------------------------------------------------
NotificationTypes ==
    /\ prefs \in Prefs /\ cache \in (SUBSET Channels) \cup {NotCached} /\ dirty \in BOOLEAN
    /\ read \in BOOLEAN
    /\ delivery \in [Channels -> Status] /\ known \subseteq Channels
    /\ task \in [Channels -> [at : {"none", "queued", "loaded", "sent"},
                              tries : 0..MaxRetries]]

(* Callers that repeat themselves make one notification, and each try of a *)
(* task sends once.  An error after the row was saved runs the task again: *)
(* it neither sends a second time what the provider has an id for, nor     *)
(* puts another status in the place of what the provider reported.         *)
NotifiedOnce ==
    /\ made <= 1
    /\ \A ch \in Channels :
          /\ sends[ch] <= MaxRetries + 1
          /\ ch \in known => task[ch].at \notin {"loaded", "sent"}
          /\ ch \in told => delivery[ch] \in Reports

NotificationSafe == NotificationTypes /\ NotifiedOnce

(* Once the recipient leaves the preferences alone, the cache comes to     *)
(* agree with them, though callers that had read the old ones may still    *)
(* write them after the cache was invalidated.                             *)
CacheCatchesUp ==
    \A on \in SUBSET Channels :
        <>[](Resolution = on) => <>[](cache \in {NotCached, on})
=============================================================================
