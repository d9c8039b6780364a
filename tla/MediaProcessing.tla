--------------------------- MODULE MediaProcessing ---------------------------
(***************************************************************************)
(* The processing of one uploaded file: the task process_media_file, its   *)
(* retries by Celery, and the sweeps of failed and of stuck files.  The    *)
(* generators of assets run one after the other; each makes the row of its *)
(* asset, then stores its file.  What one fails to make is noted in the    *)
(* row of the media file, which is READY all the same.                     *)
(***************************************************************************)
EXTENDS Naturals

CONSTANTS Workers,
          Assets,           \* generators: 3 for an image, 2 a document, 1 a video
          MaxRetries,       \* MAX_PROCESSING_RETRIES, for Celery and the sweep
          MaxDeaths         \* bound of the model: workers that die

ASSUME ProcessingAssumption ==
    Assets \in Nat /\ MaxRetries \in Nat \ {0} /\ MaxDeaths \in Nat

VARIABLES file,       \* the MediaFile row; noted: processing_error is set
          asset,      \* the MediaAsset of each generator
          mail,       \* queued tasks, by the number of their retry
          job,        \* the task each worker has begun
          held,       \* sweeps between their query and their save
          late,       \* processing_started_at is past the threshold
          deaths

mediaVars == <<file, asset, mail, job, held, late, deaths>>

Retries == 0..MaxRetries
Idle == MaxRetries + 1
Generators == 1..Assets

(* attempts is only compared with MaxRetries.                              *)
MediaFile == [status : {"PENDING", "PROCESSING", "READY", "FAILED"},
              attempts : Retries, noted : BOOLEAN]

(* msg: the retry the worker runs; next: the generator it is at; half:     *)
(* that generator has made its row; errs: its list of errors is not empty. *)
Job == [msg : Retries \cup {Idle}, next : 1..(Assets + 1), half : BOOLEAN, errs : BOOLEAN]

NoJob == [msg |-> Idle, next |-> 1, half |-> FALSE, errs |-> FALSE]

MediaTypes ==
    /\ file \in MediaFile /\ asset \in [Generators -> {"none", "row", "file"}]
    /\ mail \subseteq Retries /\ job \in [Workers -> Job]
    /\ held \subseteq {"retry", "stuck"} /\ late \in BOOLEAN /\ deaths \in 0..MaxDeaths

(* The scan has returned.                                                  *)
MediaInit ==
    /\ file = [status |-> "PENDING", attempts |-> 0, noted |-> FALSE]
    /\ asset = [i \in Generators |-> "none"]
    /\ mail = {0}
    /\ job = [w \in Workers |-> NoJob]
    /\ held = {} /\ late = FALSE /\ deaths = 0

-----------------------------------------------------------------------------
(* The processing task.                                                    *)

(* The extraction of the metadata may fail and be noted.                   *)
TakeProcess(w, msg) ==
    /\ job[w].msg = Idle /\ msg \in mail
    /\ mail' = mail \ {msg}
    /\ \/ file.status = "READY" /\ UNCHANGED <<file, job, late>>
       \/ /\ file.status # "READY"
          /\ file' = [file EXCEPT
                 !.status = "PROCESSING",
                 !.attempts = IF @ < MaxRetries THEN @ + 1 ELSE MaxRetries]
          /\ late' = FALSE
          /\ \E errs \in BOOLEAN :
                job' = [job EXCEPT ![w] = [NoJob EXCEPT !.msg = msg, !.errs = errs]]
    /\ UNCHANGED <<asset, held, deaths>>

Generates(w) == job[w].msg # Idle /\ job[w].next \in Generators

(* update_or_create: a row that is there keeps its file.                   *)
MakeRow(w) ==
    /\ Generates(w) /\ ~job[w].half
    /\ asset' = [asset EXCEPT ![job[w].next] = IF @ = "none" THEN "row" ELSE @]
    /\ job' = [job EXCEPT ![w].half = TRUE]
    /\ UNCHANGED <<file, mail, held, late, deaths>>

SaveFile(w) ==
    /\ Generates(w) /\ job[w].half
    /\ asset' = [asset EXCEPT ![job[w].next] = "file"]
    /\ job' = [job EXCEPT ![w].next = @ + 1, ![w].half = FALSE]
    /\ UNCHANGED <<file, mail, held, late, deaths>>

(* The errors of the generators that the task goes on after.               *)
FailsQuietly(j) == [j EXCEPT !.next = @ + 1, !.half = FALSE]             \* bug
Fails(j) == [j EXCEPT !.next = @ + 1, !.half = FALSE, !.errs = TRUE]

GeneratorFails(w) ==
    /\ Generates(w)
    /\ job' = [job EXCEPT ![w] = Fails(@)]
    /\ UNCHANGED <<file, asset, mail, held, late, deaths>>

Generated(w) == job[w].msg # Idle /\ job[w].next = Assets + 1

Ends(w) == job' = [job EXCEPT ![w] = NoJob]

FinishProcessing(w) ==
    /\ Generated(w)
    /\ file' = [file EXCEPT !.status = "READY", !.noted = job[w].errs]
    /\ Ends(w)
    /\ UNCHANGED <<asset, mail, held, late, deaths>>

(* The last save failed.  An I/O error is retried with the row left        *)
(* PROCESSING; the last one fails it; any other exception leaves the row   *)
(* as it is.                                                               *)
ProcessingRaises(w) ==
    /\ Generated(w)
    /\ \/ /\ job[w].msg < MaxRetries
          /\ mail' \in {mail, mail \cup {job[w].msg + 1}}
          /\ file' = [file EXCEPT !.noted = TRUE]
       \/ /\ job[w].msg = MaxRetries
          /\ file' = [file EXCEPT !.status = "FAILED", !.noted = TRUE]
          /\ UNCHANGED mail
    /\ Ends(w)
    /\ UNCHANGED <<asset, held, late, deaths>>

-----------------------------------------------------------------------------
(* The sweeps.  Their query's copies are saved in a later step.            *)

FindFailed ==
    /\ file.status = "FAILED" /\ file.attempts < MaxRetries
    /\ held' = held \cup {"retry"}
    /\ UNCHANGED <<file, asset, mail, job, late, deaths>>

(* The broker may refuse the task: the row is PENDING and no task is.      *)
RetryFailed ==
    /\ "retry" \in held
    /\ file' = [file EXCEPT !.status = "PENDING"]
    /\ mail' \in {mail, mail \cup {0}}
    /\ held' = held \ {"retry"}
    /\ UNCHANGED <<asset, job, late, deaths>>

StuckFirst == file.status = "PROCESSING" /\ late /\ file.attempts < MaxRetries  \* bug
Stuck == file.status = "PROCESSING" /\ late

FindStuck ==
    /\ Stuck
    /\ held' = held \cup {"stuck"}
    /\ UNCHANGED <<file, asset, mail, job, late, deaths>>

FailStuck ==
    /\ "stuck" \in held
    /\ file' = [file EXCEPT !.status = "FAILED", !.noted = TRUE]
    /\ held' = held \ {"stuck"}
    /\ UNCHANGED <<asset, mail, job, late, deaths>>

(* CELERY_TASK_TIME_LIMIT is the threshold: a task that started so long    *)
(* ago has been killed.                                                    *)
GrowLate ==
    /\ file.status = "PROCESSING" /\ ~late
    /\ \A w \in Workers : job[w].msg = Idle
    /\ late' = TRUE
    /\ UNCHANGED <<file, asset, mail, job, held, deaths>>

(* acks_late: the message of a dead worker may be delivered again.         *)
Die(w) ==
    /\ job[w].msg # Idle /\ deaths < MaxDeaths
    /\ deaths' = deaths + 1
    /\ mail' \in {mail, mail \cup {job[w].msg}}
    /\ Ends(w)
    /\ UNCHANGED <<file, asset, held, late>>

-----------------------------------------------------------------------------
Takes(msg) == \E w \in Workers : TakeProcess(w, msg)
Works(w) ==
    \/ MakeRow(w) \/ SaveFile(w) \/ GeneratorFails(w)
    \/ FinishProcessing(w) \/ ProcessingRaises(w)

MediaNext ==
    \/ \E msg \in Retries : Takes(msg)
    \/ \E w \in Workers : Works(w) \/ Die(w)
    \/ FindFailed \/ RetryFailed \/ FindStuck \/ FailStuck
    \/ GrowLate

(* Workers take every task and end it, beat keeps starting the sweeps, the *)
(* clock runs.                                                             *)
MediaSpec ==
    /\ MediaInit /\ [][MediaNext]_mediaVars
    /\ \A msg \in Retries : SF_mediaVars(Takes(msg))
    /\ \A w \in Workers : WF_mediaVars(Works(w))
    /\ WF_mediaVars(FindStuck) /\ WF_mediaVars(FailStuck)
    /\ WF_mediaVars(FindFailed) /\ WF_mediaVars(RetryFailed)
    /\ WF_mediaVars(GrowLate)

-----------------------------------------------------------------------------
(* A READY file with no error noted has every one of its assets, stored:   *)
(* whatever mixture of workers, deaths in the middle of a generator and    *)
(* retries made them, none is missing and none is a row without a file.    *)
ReadyIsWhole ==
    file.status = "READY" /\ ~file.noted => \A i \in Generators : asset[i] = "file"

ProcessingSafe == MediaTypes /\ ReadyIsWhole

(* In the end the file is READY, or FAILED with its attempts used up, or   *)
(* (the broker refused its retry, or the stale copy of a sweep was saved   *)
(* over it) PENDING: it neither stays PROCESSING after its worker died or  *)
(* its retry was lost, nor goes round for ever, nor is FAILED with         *)
(* attempts left.                                                          *)
Settled ==
    \/ file.status \in {"READY", "PENDING"}
    \/ file.status = "FAILED" /\ file.attempts = MaxRetries

ProcessingSettles == <>[]Settled
=============================================================================
