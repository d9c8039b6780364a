----------------------------- MODULE MalwareScan -----------------------------
(***************************************************************************)
(* The scanning of one uploaded file: the task scan_file_for_malware and   *)
(* Celery's retries of it, the rescan that beat starts, quarantine and     *)
(* restore, and the circuit breaker in front of clamd.  Processing, the    *)
(* next link of the chain, is here only whether the file is READY; its own *)
(* module is MediaProcessing.                                              *)
(*                                                                         *)
(* No step takes a lock: a task loads the row, works, and saves its        *)
(* columns over whatever the row has become.                               *)
(***************************************************************************)
EXTENDS CircuitBreaker

CONSTANTS Workers,
          ScanRetries,      \* max_retries of the task
          MaxDeaths         \* bound of the model: workers that die

ASSUME ScanAssumption == ScanRetries \in Nat /\ MaxDeaths \in Nat

VARIABLES file,       \* the MediaFile row
          content,    \* where the bytes are
          malicious,  \* what they are
          up,         \* clamd answers
          mail,       \* queued scan tasks
          chained,    \* the processing task is queued
          job,        \* what each worker is doing
          restoring,  \* an operator's restore is between its move and its save
          restored,   \* history: an operator has restored the file
          misread,    \* history: an answer that is no verdict passed for clean
          deaths

scanner == <<circuit, up>>
restore == <<restoring, restored>>
scanVars == <<file, content, malicious, scanner, mail, chained, job, restore,
              misread, deaths>>

(* "named": the file field is not empty.                                   *)
MediaFile == [scan : {"PENDING", "CLEAN", "INFECTED", "ERROR"},
              ready : BOOLEAN, named : BOOLEAN]

(* "chain": processing follows; a rescan is a task of its own.             *)
Message == [tries : 0..ScanRetries, chain : BOOLEAN]
Scan(tries, chain) == [tries |-> tries, chain |-> chain]

Ops == {"idle", "ask", "admit", "sent", "save_clean", "quarantine",
        "moved", "save_error"}
Job == [op : Ops, msg : Message, seen : {"none"} \cup Decisions]
Idle == [op |-> "idle", msg |-> Scan(0, FALSE), seen |-> "none"]

ScanTypes ==
    /\ file \in MediaFile /\ content \in {"media", "quarantine", "gone"}
    /\ malicious \in BOOLEAN /\ up \in BOOLEAN /\ circuit \in Circuit
    /\ mail \subseteq Message /\ chained \in BOOLEAN
    /\ job \in [Workers -> Job]
    /\ restoring \in BOOLEAN /\ restored \in BOOLEAN
    /\ misread \in BOOLEAN /\ deaths \in 0..MaxDeaths

(* The upload has created the row and queued the chain.                    *)
ScanInit ==
    /\ file = [scan |-> "PENDING", ready |-> FALSE, named |-> TRUE]
    /\ content = "media"
    /\ malicious \in BOOLEAN
    /\ up \in BOOLEAN
    /\ CircuitInit
    /\ mail = {Scan(0, TRUE)} /\ chained = FALSE
    /\ job = [w \in Workers |-> Idle]
    /\ restoring = FALSE /\ restored = FALSE /\ misread = FALSE /\ deaths = 0

-----------------------------------------------------------------------------
(* The scan task.                                                          *)

Goes(w, op) == job' = [job EXCEPT ![w].op = op, ![w].seen = "none"]
Ends(w) == job' = [job EXCEPT ![w] = Idle]

(* The next link of the chain, after a scan that returned.                 *)
NextLink(msg) == chained' = (chained \/ msg.chain)

(* CLEAN returns, INFECTED rejects, and an empty file field has no path.   *)
TakeScan(w, msg) ==
    /\ job[w].op = "idle" /\ msg \in mail
    /\ mail' = mail \ {msg}
    /\ \/ /\ file.scan \notin {"CLEAN", "INFECTED"} /\ file.named
          /\ job' = [job EXCEPT ![w] = [op |-> "ask", msg |-> msg, seen |-> "none"]]
          /\ UNCHANGED chained
       \/ file.scan = "CLEAN" /\ NextLink(msg) /\ UNCHANGED job
       \/ /\ file.scan = "INFECTED" \/ (file.scan # "CLEAN" /\ ~file.named)
          /\ UNCHANGED <<chained, job>>
    /\ UNCHANGED <<file, content, malicious, scanner, restore, misread, deaths>>

(* A small file is read before the breaker is asked, a large one looked    *)
(* for after it.  A scan that is skipped leaves the status PENDING.        *)
Ask(w) ==
    /\ job[w].op = "ask"
    /\ \/ /\ content = "media" /\ Decision \in Decisions
          /\ job' = [job EXCEPT ![w].op = "admit", ![w].seen = Decision]
          /\ UNCHANGED <<circuit, chained>>
       \/ /\ content # "media" /\ Goes(w, "save_error")
          /\ UNCHANGED circuit \/ (Decision \in Decisions /\ Admit(Decision))
          /\ UNCHANGED chained
       \/ /\ Decision = "skip" /\ Ends(w)
          /\ NextLink(job[w].msg)
          /\ UNCHANGED circuit
    /\ UNCHANGED <<file, content, malicious, up, mail, restore, misread, deaths>>

Admitted(w) ==
    /\ job[w].op = "admit"
    /\ Admit(job[w].seen)
    /\ \/ Goes(w, "sent")
       \/ content # "media" /\ Goes(w, "save_error")
    /\ UNCHANGED <<file, content, malicious, up, mail, chained, restore, misread, deaths>>

(* clamd's answer, and what the task does with it.  Any answer but FOUND   *)
(* passes for clean: also the ERROR of a path that is gone when clamd      *)
(* opens it, of one clamd may not read, or of data over its limit.         *)
CleanWhenDown == "save_clean"                   \* bug: no answer is no threat
WhenDown == "save_error"

Outcomes == {"save_clean"} \cup (IF malicious THEN {"quarantine"} ELSE {})

Misread(outcome) == malicious /\ content = "media" /\ outcome = "save_clean"

Answer(w) ==
    /\ job[w].op = "sent"
    /\ \/ /\ up /\ RecordSuccess
          /\ \E outcome \in Outcomes :
                Goes(w, outcome) /\ misread' = (misread \/ Misread(outcome))
       \/ ~up /\ RecordFailure /\ Goes(w, WhenDown) /\ UNCHANGED misread
    /\ UNCHANGED <<file, content, malicious, up, mail, chained, restore, deaths>>

SaveClean(w) ==
    /\ job[w].op = "save_clean"
    /\ file' = [file EXCEPT !.scan = "CLEAN"]
    /\ NextLink(job[w].msg)
    /\ Ends(w)
    /\ UNCHANGED <<content, malicious, scanner, mail, restore, misread, deaths>>

(* ERROR is saved over whatever the row says now; Celery retries, and the  *)
(* chain goes on when the retries are used up.                             *)
SaveError(w) ==
    /\ job[w].op = "save_error"
    /\ file' = [file EXCEPT !.scan = "ERROR"]
    /\ LET msg == job[w].msg IN
          \/ /\ msg.tries < ScanRetries
             /\ mail' = mail \cup {Scan(msg.tries + 1, msg.chain)}
             /\ UNCHANGED chained
          \/ msg.tries = ScanRetries /\ NextLink(msg) /\ UNCHANGED mail
    /\ Ends(w)
    /\ UNCHANGED <<content, malicious, scanner, restore, misread, deaths>>

-----------------------------------------------------------------------------
(* quarantine_infected_file: the file is moved, then the row is saved; the *)
(* task rejects the message whatever came of it.                           *)

Quarantine(w) ==
    /\ job[w].op = "quarantine"
    /\ content = "media" /\ content' = "quarantine"
    /\ Goes(w, "moved")
    /\ UNCHANGED <<file, malicious, scanner, mail, chained, restore, misread, deaths>>

QuarantineFails(w) ==                           \* not there, or an I/O error
    /\ job[w].op = "quarantine"
    /\ Ends(w)
    /\ UNCHANGED <<file, content, malicious, scanner, mail, chained, restore, misread, deaths>>

Infected == [file EXCEPT !.scan = "INFECTED", !.named = FALSE]

SaveInfected(w) ==
    /\ job[w].op = "moved"
    /\ file' \in {Infected, file}               \* the transaction may fail
    /\ Ends(w)
    /\ UNCHANGED <<content, malicious, scanner, mail, chained, restore, misread, deaths>>

(* restore_from_quarantine, by an operator: what is in the quarantine      *)
(* directory by the end is removed with it.                                *)
RestoreMoves ==
    /\ file.scan = "INFECTED" /\ content = "quarantine" /\ ~restoring
    /\ content' = "media"
    /\ restoring' = TRUE
    /\ UNCHANGED <<file, malicious, scanner, mail, chained, job, restored, misread, deaths>>

RestoreSaves ==
    /\ restoring
    /\ file' = [file EXCEPT !.scan = "CLEAN", !.named = TRUE]
    /\ content' = IF content = "quarantine" THEN "gone" ELSE content
    /\ restoring' = FALSE /\ restored' = TRUE
    /\ UNCHANGED <<malicious, scanner, mail, chained, job, misread, deaths>>

CleanupQuarantine ==
    /\ content = "quarantine" /\ ~restoring
    /\ content' = "gone"
    /\ UNCHANGED <<file, malicious, scanner, mail, chained, job, restore, misread, deaths>>

-----------------------------------------------------------------------------
(* The other link, the sweep, the other users of the breaker.              *)

MakeReady ==
    /\ chained /\ ~file.ready
    /\ file' = [file EXCEPT !.ready = TRUE]
    /\ UNCHANGED <<content, malicious, scanner, mail, chained, job, restore, misread, deaths>>

RescanSkipped ==
    /\ file.scan = "PENDING" /\ file.ready
    /\ mail' = mail \cup {Scan(0, FALSE)}
    /\ UNCHANGED <<file, content, malicious, scanner, chained, job, restore, misread, deaths>>

(* check_antivirus_health asks the breaker and records nothing.            *)
CheckHealth ==
    /\ Decision \in Decisions
    /\ Admit(Decision)
    /\ UNCHANGED <<file, content, malicious, up, mail, chained, job, restore, misread, deaths>>

OtherScanFails ==
    /\ ~up
    /\ RecordFailure
    /\ UNCHANGED <<file, content, malicious, up, mail, chained, job, restore, misread, deaths>>

(* acks_late: the message of a dead worker may be delivered again.         *)
Die(w) ==
    /\ job[w].op # "idle" /\ deaths < MaxDeaths
    /\ deaths' = deaths + 1
    /\ mail' \in {mail, mail \cup {job[w].msg}}
    /\ Ends(w)
    /\ UNCHANGED <<file, content, malicious, scanner, chained, restore, misread>>

ScannerTurns ==
    /\ up' = ~up
    /\ UNCHANGED <<file, content, malicious, circuit, mail, chained, job, restore, misread, deaths>>

TimePasses ==
    /\ Rest \/ Forget
    /\ UNCHANGED <<file, content, malicious, up, mail, chained, job, restore, misread, deaths>>

-----------------------------------------------------------------------------
Works(w) ==
    \/ Ask(w) \/ Admitted(w) \/ Answer(w)
    \/ SaveClean(w) \/ SaveError(w)
    \/ Quarantine(w) \/ QuarantineFails(w) \/ SaveInfected(w)

Takes(msg) == \E w \in Workers : TakeScan(w, msg)

ScanNext ==
    \/ \E msg \in Message : Takes(msg)
    \/ \E w \in Workers : Works(w) \/ Die(w)
    \/ RestoreMoves \/ RestoreSaves \/ CleanupQuarantine
    \/ MakeReady \/ RescanSkipped \/ CheckHealth \/ OtherScanFails
    \/ ScannerTurns \/ TimePasses

(* Workers take every message and go on with what they have begun; beat    *)
(* keeps starting the rescan; clocks run; the file system does not fail    *)
(* for ever.  Nothing is assumed of clamd, operators or the health check.  *)
ScanSpec ==
    /\ ScanInit /\ [][ScanNext]_scanVars
    /\ \A msg \in Message : SF_scanVars(Takes(msg))
    /\ \A w \in Workers : WF_scanVars(Works(w)) /\ SF_scanVars(Quarantine(w))
    /\ WF_scanVars(RescanSkipped) /\ WF_scanVars(TimePasses)

-----------------------------------------------------------------------------
(* A quarantined row has lost its file, and no scan that comes late, is    *)
(* repeated or finds clamd down lets malicious bytes that are where files  *)
(* are served from pass for CLEAN.  Only an operator's restore does, and   *)
(* clamd's failure to read bytes that are there.                           *)
MaliciousIsNotServed ==
    /\ file.scan = "INFECTED" => ~file.named
    /\ malicious /\ file.scan = "CLEAN" /\ file.named /\ ~restored /\ ~misread
          => content # "media"

ScanSafe == ScanTypes /\ MaliciousIsNotServed

(* A file that was made ready unscanned, the breaker being open, is        *)
(* scanned once clamd is back, even if the health check took the probe the *)
(* half-open breaker allows and recorded nothing.                          *)
SkippedFileIsScanned ==
    <>[]up => (file.ready /\ file.scan = "PENDING" ~> file.scan # "PENDING")
=============================================================================
