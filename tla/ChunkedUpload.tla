----------------------------- MODULE ChunkedUpload ----------------------------
(***************************************************************************)
(* Resumable uploads of the media app: the services under                  *)
(* services/chunked_upload/, the views that call them, the sweeps of       *)
(* tasks.py, and the user's storage usage.                                 *)
(*                                                                         *)
(* No call locks the session's row.  A view loads the row, the service     *)
(* decides by that copy and saves all of it, so every call is two steps:   *)
(* Load, and the action that saves.  Parts are of size 1.                  *)
(***************************************************************************)
EXTENDS Naturals, FiniteSets, Functions

CONSTANTS Sessions,
          TotalParts,   \* session.total_parts
          Callers,      \* concurrent requests
          Quota         \* storage_quota_bytes

ASSUME UploadAssumption ==
    /\ TotalParts \in Nat \ {0} /\ Quota \in Nat
    /\ IsFiniteSet(Sessions) /\ Sessions # {} /\ IsFiniteSet(Callers)

Parts == 1..TotalParts
FileSize == TotalParts

Sweeper == "sweeper"            \* cleanup_expired_upload_sessions
Processes == Callers \cup {Sweeper}

VARIABLES session,   \* UploadSession rows
          old,       \* sessions past expires_at
          stored,    \* parts written to the temp dir or the multipart upload
          open,      \* sessions whose temp dir or multipart upload exists
          call,      \* what each process does, with its copy of the row
          files,     \* the number of MediaFiles made from each session
          usage,     \* Profile.total_storage_bytes
          sum        \* the sum recalculate_user_storage_quota has read

rows == <<session, files, usage>>
store == <<stored, open>>
uploadVars == <<rows, old, store, call, sum>>

Backends == {"local", "s3"}
Statuses == {"NONE", "IN_PROGRESS", "COMPLETED", "FAILED", "EXPIRED"}
SessionRow == [status : Statuses, backend : Backends, parts : SUBSET Parts]
NoRow == [status |-> "NONE", backend |-> "local", parts |-> {}]

CallOps == {"idle", "record", "finalize", "abort", "expire", "clean"}
NoCall(s) == [op |-> "idle", session |-> s, part |-> 1, copy |-> NoRow]
Call == [op : CallOps, session : Sessions, part : Parts, copy : SessionRow]
NoSum == FileSize * Cardinality(Sessions) * Cardinality(Processes) + 1

UploadTypes ==
    /\ session \in [Sessions -> SessionRow]
    /\ old \subseteq Sessions /\ open \subseteq Sessions
    /\ stored \in [Sessions -> SUBSET Parts]
    /\ call \in [Processes -> Call]
    /\ files \in [Sessions -> 0..Cardinality(Callers)]
    /\ usage \in 0..NoSum /\ sum \in 0..NoSum

UploadInit ==
    /\ session = [s \in Sessions |-> NoRow]
    /\ old = {} /\ open = {}
    /\ stored = [s \in Sessions |-> {}]
    /\ call = [c \in Processes |-> NoCall(CHOOSE s \in Sessions : TRUE)]
    /\ files = [s \in Sessions |-> 0]
    /\ usage = 0
    /\ sum = NoSum

-----------------------------------------------------------------------------
(* create_session: the quota is checked, the directory or the multipart    *)
(* upload is made, then the row; a failure between leaves no row.          *)

CanUpload == usage + FileSize <= Quota

CreateSession(s) ==
    /\ session[s].status = "NONE" /\ s \notin open
    /\ s \notin old
    /\ CanUpload
    /\ open' = open \cup {s}
    /\ \E backend \in Backends, status \in {"IN_PROGRESS", "NONE"} :
          session' = [session EXCEPT ![s].backend = backend, ![s].status = status]
    /\ UNCHANGED <<old, stored, call, files, usage, sum>>

GrowOld(s) ==
    /\ s \in open \/ session[s].status # "NONE"
    /\ old' = old \cup {s}
    /\ UNCHANGED <<rows, store, call, sum>>

(* The client puts a part to the presigned URL it got before.              *)
PutToS3(s, p) ==
    /\ session[s].backend = "s3" /\ s \in open
    /\ stored' = [stored EXCEPT ![s] = @ \cup {p}]
    /\ UNCHANGED <<rows, old, open, call, sum>>

-----------------------------------------------------------------------------
(* The first step of a request: the view loads the row; receive_chunk, for *)
(* the local backend, also writes the part before anything is saved.       *)

Begin(c, op, s, p) ==
    /\ call[c].op = "idle"
    /\ session[s].status # "NONE"
    /\ call' = [call EXCEPT ![c] = [op |-> op, session |-> s, part |-> p,
                                    copy |-> session[s]]]

ReceiveChunk(c, s, p) ==
    /\ session[s].backend = "local"
    /\ session[s].status = "IN_PROGRESS" /\ s \notin old
    /\ s \in open
    /\ stored' = [stored EXCEPT ![s] = @ \cup {p}]
    /\ Begin(c, "record", s, p)
    /\ UNCHANGED <<rows, old, open, sum>>

(* record_completed_part looks neither at the status nor at S3.            *)
CompletePart(c, s, p) ==
    /\ session[s].backend = "s3"
    /\ Begin(c, "record", s, p)
    /\ UNCHANGED <<rows, old, store, sum>>

Finalize(c, s) ==
    /\ session[s].status = "IN_PROGRESS"
    /\ session[s].parts = Parts
    /\ Begin(c, "finalize", s, 1)
    /\ UNCHANGED <<rows, old, store, sum>>

MayAbort(status) == status # "COMPLETED"

Abort(c, s) ==
    /\ MayAbort(session[s].status)
    /\ Begin(c, "abort", s, 1)
    /\ UNCHANGED <<rows, old, store, sum>>

-----------------------------------------------------------------------------
(* The second step: the whole copy is saved.                               *)

SaveCopy(c, row) == session' = [session EXCEPT ![call[c].session] = row]

End(c) == call' = [call EXCEPT ![c] = NoCall(@.session)]

SavePart(c) ==
    /\ call[c].op = "record"
    /\ SaveCopy(c, [call[c].copy EXCEPT !.parts = @ \cup {call[c].part}])
    /\ End(c)
    /\ UNCHANGED <<old, store, files, usage, sum>>

(* Without all the listed parts reading the directory or completing the    *)
(* multipart upload raises.                                                *)
TakesWhatIsThere(s) == s \in open               \* bug: a part may be missing
CanAssemble(s) == s \in open /\ stored[s] = Parts

ChargeFile(s) ==
    /\ files' = [files EXCEPT ![s] = @ + 1]
    /\ usage' = usage + FileSize

(* The transaction: MediaFile, usage and status together.  The directory   *)
(* is removed after it.                                                    *)
AssembleLocal(c) ==
    /\ call[c].op = "finalize" /\ call[c].copy.backend = "local"
    /\ CanAssemble(call[c].session)
    /\ ChargeFile(call[c].session)
    /\ SaveCopy(c, [call[c].copy EXCEPT !.status = "COMPLETED"])
    /\ call' = [call EXCEPT ![c].op = "clean"]
    /\ UNCHANGED <<old, store, sum>>

RemoveDirectory(c) ==
    /\ call[c].op = "clean"
    /\ open' = open \ {call[c].session}
    /\ End(c)
    /\ UNCHANGED <<rows, old, stored, sum>>

(* S3 completes the upload once, inside the transaction: when that does    *)
(* not commit, the upload is used up and there is no file.                 *)
UsesUp(s) == open' = open \ {s}

AssembleS3(c) ==
    /\ call[c].op = "finalize" /\ call[c].copy.backend = "s3"
    /\ CanAssemble(call[c].session)
    /\ UsesUp(call[c].session)
    /\ \/ /\ ChargeFile(call[c].session)
          /\ SaveCopy(c, [call[c].copy EXCEPT !.status = "COMPLETED"])
       \/ UNCHANGED rows
    /\ End(c)
    /\ UNCHANGED <<old, stored, sum>>

FinalizeFails(c) ==
    /\ call[c].op = "finalize"
    /\ ~CanAssemble(call[c].session)
    /\ End(c)
    /\ UNCHANGED <<rows, old, store, sum>>

(* abort_upload; the removal may fail, also because it was done already.   *)
SaveAbort(c) ==
    /\ call[c].op = "abort"
    /\ SaveCopy(c, [call[c].copy EXCEPT !.status = "FAILED"])
    /\ open' \in {open, open \ {call[c].session}}
    /\ End(c)
    /\ UNCHANGED <<old, stored, files, usage, sum>>

-----------------------------------------------------------------------------
(* The sweeps.  cleanup_expired_upload_sessions has its query's copies.    *)

ExpiredOnDisk(s) == session[s].status = "IN_PROGRESS" /\ s \in old /\ s \in open  \* bug
Expired(s) == session[s].status = "IN_PROGRESS" /\ s \in old

FindExpired(s) ==
    /\ Expired(s)
    /\ Begin(Sweeper, "expire", s, 1)
    /\ UNCHANGED <<rows, old, store, sum>>

(* Only an error of S3 is passed over; the row is EXPIRED all the same.    *)
SaveExpired ==
    /\ call[Sweeper].op = "expire"
    /\ LET s == call[Sweeper].session IN
          open' \in {open \ {s}} \cup
                    (IF call[Sweeper].copy.backend = "s3" THEN {open} ELSE {})
    /\ SaveCopy(Sweeper, [call[Sweeper].copy EXCEPT !.status = "EXPIRED"])
    /\ End(Sweeper)
    /\ UNCHANGED <<old, stored, files, usage, sum>>

(* cleanup_orphaned_local_temp_dirs, cleanup_orphaned_s3_multipart_uploads *)
(* compare ages with django.utils.timezone.utc, which the pinned Django    *)
(* 5.2 no longer has.  At the first storage that no session in progress    *)
(* protects, the one raises and the other returns its error: neither       *)
(* removes anything.                                                       *)
Orphaned(s) == s \in open /\ session[s].status # "IN_PROGRESS"

SweepOrphan(s) == Orphaned(s) /\ UNCHANGED uploadVars

(* recalculate_user_storage_quota: the sum is read, then saved.            *)
SumOfSessions == FileSize * Cardinality({s \in Sessions : files[s] > 0})  \* bug
FileIds == {f \in Sessions \X (1..Cardinality(Callers)) : f[2] <= files[f[1]]}
SumOfFiles == FileSize * Cardinality(FileIds)

ReadSum ==
    /\ sum = NoSum
    /\ sum' = SumOfFiles
    /\ UNCHANGED <<rows, old, store, call>>

SaveSum ==
    /\ sum # NoSum
    /\ usage' = sum
    /\ sum' = NoSum
    /\ UNCHANGED <<session, files, old, store, call>>

-----------------------------------------------------------------------------
Request(c) ==
    \/ \E s \in Sessions :
          \/ \E p \in Parts : ReceiveChunk(c, s, p) \/ CompletePart(c, s, p)
          \/ Finalize(c, s)
          \/ Abort(c, s)
    \/ SavePart(c)
    \/ AssembleLocal(c) \/ RemoveDirectory(c) \/ AssembleS3(c) \/ FinalizeFails(c)
    \/ SaveAbort(c)

UploadNext ==
    \/ \E s \in Sessions :
          \/ CreateSession(s) \/ GrowOld(s)
          \/ \E p \in Parts : PutToS3(s, p)
          \/ FindExpired(s) \/ SweepOrphan(s)
    \/ \E c \in Callers : Request(c)
    \/ SaveExpired
    \/ ReadSum \/ SaveSum

(* Celery beat keeps starting the sweep of expired sessions and the        *)
(* recalculation; it starts the sweeps for orphans too, which change       *)
(* nothing.  Requests may stop anywhere.                                   *)
UploadSpec ==
    /\ UploadInit /\ [][UploadNext]_uploadVars
    /\ \A s \in Sessions : WF_uploadVars(FindExpired(s))
    /\ WF_uploadVars(SaveExpired)
    /\ WF_uploadVars(ReadSum) /\ WF_uploadVars(SaveSum)
-----------------------------------------------------------------------------
(* What the uploads promise, in spite of the stale copies.                 *)

(* A file is made of all its parts, though record_completed_part believes  *)
(* the client; and S3 lets a session, even one that a stale save put back  *)
(* to IN_PROGRESS, become one file.  (Two concurrent requests can make two *)
(* files of a local session: its directory is removed after the commit.)   *)
FilesAreWhole ==
    \A s \in Sessions : files[s] > 0 =>
        stored[s] = Parts /\ (session[s].backend = "s3" => files[s] = 1)

UploadSafe == UploadTypes /\ FilesAreWhole

(* An old upload does not stay in progress, though requests that hold a    *)
(* stale copy put an expired row back, with its storage already gone; and  *)
(* nothing of it is left on the local disk once it is EXPIRED.             *)
AbandonedIsClosed ==
    \A s \in Sessions : s \in old ~>
        /\ session[s].status # "IN_PROGRESS"
        /\ session[s].status = "EXPIRED" /\ session[s].backend = "local" => s \notin open

(* The recalculation, which may itself overwrite a charge made after it    *)
(* read the files, in the end leaves the usage the files really have.      *)
UsageIsRepaired ==
    <>[](usage = FileSize * SumFunction(files))
=============================================================================
