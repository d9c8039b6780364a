-------------------------- MODULE MediaUpload_proofs --------------------------
(***************************************************************************)
(* What a file goes through before it is processed, for any number of      *)
(* workers, requests and sessions: the scan (MalwareScan) and the          *)
(* resumable upload (ChunkedUpload).  The two share no state.              *)
(***************************************************************************)
EXTENDS MalwareScan, ChunkedUpload, FiniteSetTheorems, TLAPS

-----------------------------------------------------------------------------
(* The scan: types.                                                        *)

LEMMA IdleIsAJob == Idle \in Job /\ Idle.op = "idle"
PROOF
  <1>1. 0 \in 0..ScanRetries
    BY ScanAssumption
  <1> QED BY <1>1 DEF Idle, Job, Scan, Message, Ops

LEMMA CircuitSteps ==
  ASSUME circuit \in Circuit,
         \/ UNCHANGED circuit \/ RecordSuccess \/ RecordFailure \/ Rest \/ Forget
         \/ \E d \in Decisions : Admit(d)
  PROVE  circuit' \in Circuit
PROOF
  <1> USE CircuitAssumption
  <1>0. /\ 0 \in 0..HalfOpenMaxCalls /\ 1 \in 0..HalfOpenMaxCalls
        /\ 0 \in 0..FailureThreshold
        /\ circuit.failures \in 0..FailureThreshold /\ circuit.calls \in 0..HalfOpenMaxCalls
        /\ Capped(circuit.failures, FailureThreshold) \in 0..FailureThreshold
        /\ Capped(circuit.calls, HalfOpenMaxCalls) \in 0..HalfOpenMaxCalls
    BY DEF Circuit, Capped
  <1>1. \A state \in CircuitStates : Turned(state) \in Circuit
    BY <1>0 DEF Turned, Circuit
  <1>2. \A c \in Circuit : \A n \in 0..FailureThreshold : [c EXCEPT !.failures = n] \in Circuit
    BY DEF Circuit
  <1>3. \A c \in Circuit : \A n \in 0..HalfOpenMaxCalls : [c EXCEPT !.calls = n] \in Circuit
    BY DEF Circuit
  <1>4. CASE RecordSuccess
    BY <1>0, <1>1, <1>2, <1>4 DEF RecordSuccess, CircuitStates
  <1>5. CASE RecordFailure
    <2>1. (IF circuit.state = "half_open" THEN circuit.failures
           ELSE Capped(circuit.failures, FailureThreshold)) \in 0..FailureThreshold
      BY <1>0
    <2> QED BY <1>1, <1>2, <1>5, <2>1 DEF RecordFailure, CircuitStates
  <1>6. CASE Rest
    BY <1>6 DEF Rest, Circuit
  <1>7. CASE Forget
    BY <1>0, <1>1, <1>2, <1>7 DEF Forget, CircuitStates
  <1>8. ASSUME NEW d \in Decisions, Admit(d) PROVE circuit' \in Circuit
    <2>1. [Turned("half_open") EXCEPT !.calls = 1] \in Circuit
      BY <1>0, <1>1, <1>3 DEF CircuitStates
    <2>2. [circuit EXCEPT !.calls = Capped(circuit.calls, HalfOpenMaxCalls)] \in Circuit
      BY <1>0, <1>3
    <2> QED BY <1>8, <2>1, <2>2 DEF Admit
  <1> QED BY <1>4, <1>5, <1>6, <1>7, <1>8

(* What a save makes of the row.                                           *)
LEMMA FileSaves ==
  ASSUME file \in MediaFile
  PROVE  /\ \A s \in {"PENDING", "CLEAN", "INFECTED", "ERROR"} :
               LET f == [file EXCEPT !.scan = s] IN
               f \in MediaFile /\ f.scan = s /\ f.named = file.named
         /\ LET f == [file EXCEPT !.ready = TRUE] IN
               f \in MediaFile /\ f.scan = file.scan /\ f.named = file.named
         /\ Infected \in MediaFile /\ Infected.scan = "INFECTED" /\ ~Infected.named
         /\ LET f == [file EXCEPT !.scan = "CLEAN", !.named = TRUE] IN
               f \in MediaFile /\ f.scan = "CLEAN" /\ f.named
PROOF BY DEF MediaFile, Infected

(* What a step makes of the job of its worker.                             *)
LEMMA JobSteps ==
  ASSUME ScanTypes, NEW w \in Workers, NEW op \in Ops, Goes(w, op)
  PROVE  /\ job' \in [Workers -> Job] /\ job'[w].op = op
         /\ \A v \in Workers \ {w} : job'[v] = job[v]
PROOF
  <1>1. job[w] \in Job
    BY DEF ScanTypes
  <1>2. [job[w] EXCEPT !.op = op, !.seen = "none"] \in Job
           /\ [job[w] EXCEPT !.op = op, !.seen = "none"].op = op
    BY <1>1 DEF Job
  <1>3. job' = [job EXCEPT ![w] = [job[w] EXCEPT !.op = op, !.seen = "none"]]
    BY DEF Goes, ScanTypes
  <1> QED BY <1>2, <1>3 DEF ScanTypes

LEMMA JobEnds ==
  ASSUME ScanTypes, NEW w \in Workers, Ends(w)
  PROVE  /\ job' \in [Workers -> Job] /\ job'[w].op = "idle"
         /\ \A v \in Workers \ {w} : job'[v] = job[v]
PROOF BY IdleIsAJob DEF Ends, ScanTypes

-----------------------------------------------------------------------------
(* A scan that came late.                                                  *)

(* No row that was INFECTED is named again but by a restore, and a scan    *)
(* that found the bytes gone takes them for clean only where they are not  *)
(* served: back they come only with a restore, of a row without a name.    *)
NoWayBack ==
    /\ file.scan = "INFECTED" => ~file.named
    /\ restoring /\ ~restored => ~file.named
    /\ malicious /\ file.named /\ ~restored /\ ~misread =>
          /\ file.scan = "CLEAN" => content # "media"
          /\ \A w \in Workers : job[w].op = "save_clean" => content # "media"

ScanInv == ScanTypes /\ NoWayBack

LEMMA ScanInitially == ScanInit => ScanInv
PROOF
  <1> SUFFICES ASSUME ScanInit PROVE ScanInv
    OBVIOUS
  <1>1. circuit \in Circuit
    BY CircuitAssumption DEF ScanInit, CircuitInit, Circuit, CircuitStates
  <1>2. Scan(0, TRUE) \in Message
    BY ScanAssumption DEF Scan, Message
  <1>3. job \in [Workers -> Job] /\ \A w \in Workers : job[w].op = "idle"
    BY IdleIsAJob DEF ScanInit
  <1>4. file \in MediaFile /\ file.scan = "PENDING"
    BY DEF ScanInit, MediaFile
  <1>5. deaths \in 0..MaxDeaths
    BY ScanAssumption DEF ScanInit
  <1>6. ScanTypes
    BY <1>1, <1>2, <1>3, <1>4, <1>5 DEF ScanInit, ScanTypes
  <1>7. NoWayBack
    BY <1>3, <1>4 DEF ScanInit, NoWayBack
  <1> QED BY <1>6, <1>7 DEF ScanInv

(* The steps that neither save the row nor move the bytes, and find the    *)
(* scan clean only if it is or the bytes are gone.                         *)
LEMMA ScanKept ==
  ASSUME ScanInv, UNCHANGED <<file, content, malicious, restoring, restored>>,
         up' \in BOOLEAN, circuit' \in Circuit, mail' \subseteq Message, chained' \in BOOLEAN,
         misread' \in BOOLEAN, misread => misread',
         job' \in [Workers -> Job], deaths' \in 0..MaxDeaths,
         \A w \in Workers : job'[w].op = "save_clean" =>
             job[w].op = "save_clean" \/ ~malicious \/ content # "media" \/ misread'
  PROVE  ScanInv'
PROOF
  <1>1. ScanTypes'
    BY DEF ScanInv, ScanTypes
  <1>2. NoWayBack'
    BY DEF ScanInv, NoWayBack
  <1> QED BY <1>1, <1>2 DEF ScanInv

LEMMA ScanWorks ==
  ASSUME ScanInv, NEW w \in Workers,
         \/ Works(w) \/ Die(w) \/ \E msg \in Message : TakeScan(w, msg)
  PROVE  ScanInv'
PROOF
  <1> USE DEF ScanInv
  <1>0. /\ ScanTypes /\ job[w] \in Job /\ job[w].msg \in Message
        /\ job[w].msg.chain \in BOOLEAN
    BY DEF ScanTypes, Job, Message
  <1>1. ASSUME NEW msg \in Message, TakeScan(w, msg) PROVE ScanInv'
    <2>1. [op |-> "ask", msg |-> msg, seen |-> "none"] \in Job
      BY DEF Job, Ops
    <2>2. /\ job' \in [Workers -> Job] /\ \A v \in Workers : job'[v].op # "save_clean"
                                                     \/ job'[v] = job[v]
      BY <1>0, <1>1, <2>1 DEF TakeScan, ScanTypes
    <2>3. chained' \in BOOLEAN /\ mail' \subseteq Message
      BY <1>0, <1>1 DEF TakeScan, NextLink, ScanTypes, Message
    <2> QED BY <1>0, <1>1, <2>2, <2>3, ScanKept DEF TakeScan, scanner, restore, ScanTypes
  <1>2. CASE Ask(w)
    <2>1. /\ job' \in [Workers -> Job]
          /\ \A v \in Workers : job'[v].op # "save_clean" \/ job'[v] = job[v]
      <3>1. CASE Goes(w, "save_error")
        <4>1. "save_error" \in Ops
          BY DEF Ops
        <4> QED BY <1>0, <3>1, <4>1, JobSteps
      <3>2. CASE Ends(w)
        BY <1>0, <3>2, JobEnds
      <3>3. CASE job' = [job EXCEPT ![w].op = "admit", ![w].seen = Decision]
                    /\ Decision \in Decisions
        <4>1. [job[w] EXCEPT !.op = "admit", !.seen = Decision] \in Job
                 /\ [job[w] EXCEPT !.op = "admit", !.seen = Decision].op = "admit"
          BY <1>0, <3>3 DEF Job, Ops
        <4>2. job' = [job EXCEPT ![w] = [job[w] EXCEPT !.op = "admit", !.seen = Decision]]
          BY <3>3, <1>0 DEF ScanTypes
        <4> QED BY <1>0, <4>1, <4>2 DEF ScanTypes
      <3> QED BY <1>2, <3>1, <3>2, <3>3 DEF Ask
    <2>2. circuit' \in Circuit
      BY <1>0, <1>2, CircuitSteps DEF Ask, ScanTypes
    <2>3. chained' \in BOOLEAN
      BY <1>0, <1>2 DEF Ask, NextLink, ScanTypes
    <2> QED BY <1>0, <1>2, <2>1, <2>2, <2>3, ScanKept DEF Ask, restore, ScanTypes
  <1>3. CASE Admitted(w)
    <2>1. job[w].seen \in Decisions \/ circuit' = circuit
      BY <1>3 DEF Admitted, Admit, Decisions
    <2>2. circuit' \in Circuit
      BY <1>0, <1>3, <2>1, CircuitSteps DEF Admitted, ScanTypes
    <2>3. "sent" \in Ops /\ "save_error" \in Ops
      BY DEF Ops
    <2>4. /\ job' \in [Workers -> Job]
          /\ \A v \in Workers : job'[v].op # "save_clean" \/ job'[v] = job[v]
      BY <1>0, <1>3, <2>3, JobSteps DEF Admitted
    <2> QED BY <1>0, <1>3, <2>2, <2>4, ScanKept DEF Admitted, restore, ScanTypes
  <1>4. CASE Answer(w)
    <2>1. circuit' \in Circuit
      BY <1>0, <1>4, CircuitSteps DEF Answer, ScanTypes
    <2>2. PICK op \in {"save_clean", "quarantine", "save_error"} :
             /\ Goes(w, op)
             /\ op = "save_clean" => ~malicious \/ content # "media" \/ misread'
      BY <1>4 DEF Answer, Outcomes, Misread, WhenDown
    <2>3. op \in Ops
      BY DEF Ops
    <2>4. /\ job' \in [Workers -> Job]
          /\ \A v \in Workers : job'[v].op = "save_clean" =>
                job[v].op = "save_clean" \/ ~malicious \/ content # "media" \/ misread'
      BY <1>0, <2>2, <2>3, JobSteps
    <2>5. misread' \in BOOLEAN /\ (misread => misread')
      BY <1>0, <1>4 DEF Answer, Misread, ScanTypes
    <2> QED BY <1>0, <1>4, <2>1, <2>4, <2>5, ScanKept DEF Answer, restore, ScanTypes
  <1>5. CASE SaveClean(w)
    <2>1. /\ file' \in MediaFile /\ file'.scan = "CLEAN" /\ file'.named = file.named
      BY <1>0, <1>5, FileSaves DEF SaveClean, ScanTypes
    <2>2. /\ job' \in [Workers -> Job] /\ job'[w].op = "idle"
          /\ \A v \in Workers \ {w} : job'[v] = job[v]
      BY <1>0, <1>5, JobEnds DEF SaveClean
    <2>3. chained' \in BOOLEAN
      BY <1>0, <1>5 DEF SaveClean, NextLink, ScanTypes
    <2>4. ScanTypes'
      BY <1>0, <1>5, <2>1, <2>2, <2>3 DEF SaveClean, ScanTypes, scanner, restore
    <2>5. NoWayBack'
      BY <1>5, <2>1, <2>2 DEF SaveClean, NoWayBack, restore
    <2> QED BY <2>4, <2>5
  <1>6. CASE SaveError(w)
    <2>1. /\ file' \in MediaFile /\ file'.scan = "ERROR" /\ file'.named = file.named
      BY <1>0, <1>6, FileSaves DEF SaveError, ScanTypes
    <2>2. /\ job' \in [Workers -> Job] /\ job'[w].op = "idle"
          /\ \A v \in Workers \ {w} : job'[v] = job[v]
      BY <1>0, <1>6, JobEnds DEF SaveError
    <2>3. mail' \subseteq Message
      <3>1. job[w].msg.tries \in 0..ScanRetries
        BY <1>0 DEF Message
      <3>2. job[w].msg.tries < ScanRetries => Scan(job[w].msg.tries + 1, job[w].msg.chain) \in Message
        BY <1>0, <3>1, ScanAssumption DEF Scan, Message
      <3> QED BY <1>0, <1>6, <3>2 DEF SaveError, ScanTypes
    <2>4. chained' \in BOOLEAN
      BY <1>0, <1>6 DEF SaveError, NextLink, ScanTypes
    <2>5. ScanTypes'
      BY <1>0, <1>6, <2>1, <2>2, <2>3, <2>4 DEF SaveError, ScanTypes, scanner, restore
    <2>6. NoWayBack'
      BY <1>6, <2>1, <2>2 DEF SaveError, NoWayBack, restore
    <2> QED BY <2>5, <2>6
  <1>7. CASE Quarantine(w)
    <2>1. "moved" \in Ops
      BY DEF Ops
    <2>2. /\ job' \in [Workers -> Job] /\ job'[w].op = "moved"
          /\ \A v \in Workers \ {w} : job'[v] = job[v]
      BY <1>0, <1>7, <2>1, JobSteps DEF Quarantine
    <2>3. ScanTypes'
      BY <1>0, <1>7, <2>2 DEF Quarantine, ScanTypes, scanner, restore
    <2>4. NoWayBack'
      BY <1>7, <2>2 DEF Quarantine, NoWayBack, restore
    <2> QED BY <2>3, <2>4
  <1>8. CASE QuarantineFails(w)
    <2>1. /\ job' \in [Workers -> Job] /\ job'[w].op = "idle"
          /\ \A v \in Workers \ {w} : job'[v] = job[v]
      BY <1>0, <1>8, JobEnds DEF QuarantineFails
    <2>2. \A v \in Workers : job'[v].op = "save_clean" => job[v].op = "save_clean"
      BY <2>1
    <2> QED BY <1>0, <1>8, <2>1, <2>2, ScanKept DEF QuarantineFails, scanner, restore, ScanTypes
  <1>9. CASE SaveInfected(w)
    <2>1. /\ job' \in [Workers -> Job] /\ job'[w].op = "idle"
          /\ \A v \in Workers \ {w} : job'[v] = job[v]
      BY <1>0, <1>9, JobEnds DEF SaveInfected
    <2>2. file' \in MediaFile /\ (file' = file \/ (file'.scan = "INFECTED" /\ ~file'.named))
      BY <1>0, <1>9, FileSaves DEF SaveInfected, ScanTypes
    <2>3. ScanTypes'
      BY <1>0, <1>9, <2>1, <2>2 DEF SaveInfected, ScanTypes, scanner, restore
    <2>4. NoWayBack'
      BY <1>9, <2>1, <2>2 DEF SaveInfected, NoWayBack, restore
    <2> QED BY <2>3, <2>4
  <1>10. CASE Die(w)
    <2>1. /\ job' \in [Workers -> Job] /\ job'[w].op = "idle"
          /\ \A v \in Workers \ {w} : job'[v] = job[v]
      BY <1>0, <1>10, JobEnds DEF Die
    <2>2. \A v \in Workers : job'[v].op = "save_clean" => job[v].op = "save_clean"
      BY <2>1
    <2>3. mail' \subseteq Message /\ deaths' \in 0..MaxDeaths
      BY <1>0, <1>10, ScanAssumption DEF Die, ScanTypes
    <2> QED BY <1>0, <1>10, <2>1, <2>2, <2>3, ScanKept DEF Die, scanner, restore, ScanTypes
  <1> QED BY <1>1, <1>2, <1>3, <1>4, <1>5, <1>6, <1>7, <1>8, <1>9, <1>10 DEF Works

LEMMA ScanOthers ==
  ASSUME ScanInv, \/ RestoreMoves \/ RestoreSaves \/ CleanupQuarantine
                  \/ MakeReady \/ RescanSkipped \/ CheckHealth \/ OtherScanFails
                  \/ ScannerTurns \/ TimePasses \/ UNCHANGED scanVars
  PROVE  ScanInv'
PROOF
  <1> USE DEF ScanInv
  <1>0. ScanTypes
    OBVIOUS
  <1>1. CASE RestoreMoves
    BY <1>1 DEF RestoreMoves, ScanTypes, NoWayBack, scanner
  <1>2. CASE RestoreSaves
    <2>1. file' \in MediaFile /\ file'.scan = "CLEAN" /\ restored' = TRUE
      BY <1>2, FileSaves DEF RestoreSaves, ScanTypes
    <2> QED BY <1>2, <2>1 DEF RestoreSaves, ScanTypes, NoWayBack, scanner
  <1>3. CASE CleanupQuarantine
    BY <1>3 DEF CleanupQuarantine, ScanTypes, NoWayBack, scanner, restore
  <1>4. CASE MakeReady
    <2>1. file' \in MediaFile /\ file'.scan = file.scan /\ file'.named = file.named
      BY <1>4, FileSaves DEF MakeReady, ScanTypes
    <2>2. ScanTypes'
      BY <1>4, <2>1 DEF MakeReady, ScanTypes, scanner, restore
    <2>3. NoWayBack'
      BY <1>4, <2>1 DEF MakeReady, NoWayBack, restore
    <2> QED BY <2>2, <2>3
  <1>5. CASE RescanSkipped
    <2>1. Scan(0, FALSE) \in Message
      BY ScanAssumption DEF Scan, Message
    <2> QED BY <1>5, <2>1, ScanKept DEF RescanSkipped, ScanTypes, scanner, restore
  <1>6. CASE CheckHealth \/ OtherScanFails \/ TimePasses
    <2>1. circuit' \in Circuit
      BY <1>0, <1>6, CircuitSteps DEF CheckHealth, OtherScanFails, TimePasses, ScanTypes
    <2> QED BY <1>6, <2>1, ScanKept DEF CheckHealth, OtherScanFails, TimePasses, ScanTypes, restore
  <1>7. CASE ScannerTurns
    BY <1>7, ScanKept DEF ScannerTurns, ScanTypes, restore
  <1>8. CASE UNCHANGED scanVars
    BY <1>8, ScanKept DEF scanVars, ScanTypes, scanner, restore
  <1> QED BY <1>1, <1>2, <1>3, <1>4, <1>5, <1>6, <1>7, <1>8

(* A quarantined row has lost its file, and no scan, however late or       *)
(* repeated, lets malicious bytes that are where files are served from     *)
(* pass for CLEAN, unless an operator restored them or clamd answered for  *)
(* them with an error: any number of workers, retries, deaths and restores *)
(* (MalwareScan.ScanSafe).                                                 *)
THEOREM LateScansAreSafe == ScanSpec => []ScanSafe
PROOF
  <1>1. ScanInv /\ [ScanNext]_scanVars => ScanInv'
    <2> SUFFICES ASSUME ScanInv, [ScanNext]_scanVars PROVE ScanInv'
      OBVIOUS
    <2> QED BY ScanWorks, ScanOthers DEF ScanNext, Takes
  <1>2. ScanInv => ScanSafe
    BY DEF ScanInv, ScanSafe, NoWayBack, MaliciousIsNotServed
  <1> QED BY <1>1, <1>2, ScanInitially, PTL DEF ScanSpec

-----------------------------------------------------------------------------
(* The upload: types.                                                      *)

LEMMA SizesAreNat ==
  /\ FileSize \in Nat /\ FileSize >= 1 /\ 1 \in Parts
  /\ Cardinality(Sessions) \in Nat /\ Cardinality(Callers) \in Nat
  /\ Cardinality(Processes) \in Nat /\ Cardinality(Callers) <= Cardinality(Processes)
PROOF
  <1>1. IsFiniteSet(Processes) /\ Callers \subseteq Processes
    BY UploadAssumption, FS_AddElement DEF Processes
  <1> QED BY <1>1, UploadAssumption, FS_CardinalityType, FS_Subset DEF FileSize, Parts

LEMMA TimesGrows ==
  ASSUME NEW k \in Nat, NEW m \in Nat, NEW n \in Nat, m <= n
  PROVE  k * m \in Nat /\ k * m <= k * n
PROOF
  <1>1. PICK d \in Nat : n = m + d
    <2> WITNESS n - m \in Nat
    <2> QED OBVIOUS
  <1>2. k * (m + d) = k * m + k * d /\ k * m \in Nat /\ k * d \in Nat
    OBVIOUS
  <1> QED BY <1>1, <1>2

(* The files there can be fit into the sum; NoSum is more.                 *)
LEMMA IdsAreBounded ==
  ASSUME NEW made \in [Sessions -> 0..Cardinality(Callers)]
  PROVE  LET ids == {f \in Sessions \X (1..Cardinality(Callers)) : f[2] <= made[f[1]]}
         IN  /\ IsFiniteSet(ids) /\ Cardinality(ids) \in Nat
             /\ FileSize * Cardinality(ids) \in Nat
             /\ NoSum \in Nat /\ FileSize * Cardinality(ids) < NoSum
PROOF
  <1> DEFINE n == Cardinality(Callers)
             all == Sessions \X (1..n)
             ids == {f \in Sessions \X (1..Cardinality(Callers)) : f[2] <= made[f[1]]}
  <1>1. n \in Nat /\ Cardinality(Sessions) \in Nat /\ FileSize \in Nat
          /\ Cardinality(Processes) \in Nat /\ n <= Cardinality(Processes)
    BY SizesAreNat
  <1>2. IsFiniteSet(1..n) /\ Cardinality(1..n) = n
    BY <1>1, FS_Interval
  <1>3. IsFiniteSet(all) /\ Cardinality(all) = Cardinality(Sessions) * n
    BY <1>2, UploadAssumption, FS_Product
  <1>4. ids \subseteq all
    OBVIOUS
  <1> HIDE DEF all, n, ids
  <1>5. IsFiniteSet(ids) /\ Cardinality(ids) <= Cardinality(all)
    BY <1>3, <1>4, FS_Subset
  <1>6. Cardinality(ids) \in Nat
    BY <1>5, FS_CardinalityType
  <1> DEFINE s == Cardinality(Sessions)
             p == Cardinality(Processes)
             f == Cardinality(ids)
  <1>7. s * n \in Nat /\ s * n <= s * p /\ s * p \in Nat /\ f <= s * n
    BY <1>1, <1>3, <1>5, TimesGrows
  <1>8. f <= s * p
    BY <1>6, <1>7
  <1>9. FileSize * f \in Nat /\ FileSize * f <= FileSize * (s * p)
    BY <1>1, <1>6, <1>7, <1>8, TimesGrows
  <1>10. FileSize * (s * p) = FileSize * s * p /\ FileSize * (s * p) \in Nat
    BY <1>1, <1>7
  <1>11. FileSize * f < NoSum /\ NoSum \in Nat
    BY <1>9, <1>10 DEF NoSum
  <1> QED BY <1>5, <1>6, <1>9, <1>11 DEF ids

LEMMA SumIsBounded ==
  ASSUME files \in [Sessions -> 0..Cardinality(Callers)]
  PROVE  /\ IsFiniteSet(FileIds) /\ Cardinality(FileIds) \in Nat
         /\ SumOfFiles \in Nat /\ NoSum \in Nat /\ SumOfFiles < NoSum
PROOF BY IdsAreBounded DEF FileIds, SumOfFiles

LEMMA NextSumIsBounded ==
  ASSUME files' \in [Sessions -> 0..Cardinality(Callers)]
  PROVE  SumOfFiles' \in Nat /\ SumOfFiles' < NoSum
PROOF BY IdsAreBounded DEF FileIds, SumOfFiles

(* What a step makes of the call of its process.                           *)
LEMMA CallSteps ==
  ASSUME UploadTypes, NEW c \in Processes, NEW new \in Call, call' = [call EXCEPT ![c] = new]
  PROVE  /\ call' \in [Processes -> Call] /\ call'[c] = new
         /\ \A d \in Processes \ {c} : call'[d] = call[d]
PROOF BY DEF UploadTypes

LEMMA NoCallIsACall ==
  ASSUME NEW s \in Sessions
  PROVE  NoCall(s) \in Call /\ NoCall(s).op = "idle"
PROOF BY SizesAreNat DEF NoCall, Call, CallOps, NoRow, SessionRow, Statuses, Backends

-----------------------------------------------------------------------------
(* The files of a session.                                                 *)

Cleaning(s) == {c \in Callers : call[c].op = "clean" /\ call[c].session = s}

(* A call has the copy of a row that was made, on its backend.             *)
CallsKnow ==
    \A c \in Processes : call[c].op # "idle" =>
        /\ call[c].copy.status # "NONE" /\ session[call[c].session].status # "NONE"
        /\ call[c].copy.backend = session[call[c].session].backend
        /\ call[c].op = "clean" => call[c].copy.backend = "local"

(* While its directory exists, a local session has made one file for each  *)
(* request that is about to remove it; and an S3 upload is used up by its  *)
(* one file.                                                               *)
FilesMade ==
    \A s \in Sessions :
        /\ session[s].status = "NONE" => files[s] = 0
        /\ session[s].backend = "local" /\ s \in open => files[s] = Cardinality(Cleaning(s))
        /\ session[s].backend = "s3" => files[s] <= 1 /\ (s \in open => files[s] = 0)
        /\ files[s] > 0 => stored[s] = Parts

(* The usage, and the sum that was read, are never more than the files.    *)
Charged == usage <= SumOfFiles /\ (sum = NoSum \/ sum <= SumOfFiles)

UploadInv == UploadTypes /\ CallsKnow /\ FilesMade /\ Charged

LEMMA UploadInitially == UploadInit => UploadInv
PROOF
  <1> SUFFICES ASSUME UploadInit PROVE UploadInv
    OBVIOUS
  <1> DEFINE first == CHOOSE s \in Sessions : TRUE
  <1>1. NoCall(first) \in Call /\ NoCall(first).op = "idle"
    BY UploadAssumption, NoCallIsACall
  <1> HIDE DEF first
  <1>2. call \in [Processes -> Call] /\ \A c \in Processes : call[c].op = "idle"
    BY <1>1 DEF UploadInit, first
  <1>3. NoRow \in SessionRow /\ NoRow.status = "NONE"
    BY DEF NoRow, SessionRow, Statuses, Backends
  <1>4. session \in [Sessions -> SessionRow]
          /\ files \in [Sessions -> 0..Cardinality(Callers)] /\ \A s \in Sessions : files[s] = 0
    BY <1>3, SizesAreNat DEF UploadInit
  <1>5. NoSum \in Nat /\ SumOfFiles \in Nat
    BY <1>4, SumIsBounded
  <1>6. UploadTypes
    BY <1>2, <1>4, <1>5 DEF UploadInit, UploadTypes
  <1>7. CallsKnow
    BY <1>2 DEF CallsKnow
  <1>8. FilesMade
    BY <1>4 DEF UploadInit, FilesMade
  <1>9. Charged
    BY <1>5 DEF UploadInit, Charged
  <1> QED BY <1>6, <1>7, <1>8, <1>9 DEF UploadInv

(* The steps that charge no file, keep the row's backend and that it is    *)
(* there, and end no cleaning.                                             *)
LEMMA CleaningKept ==
  ASSUME NEW c \in Processes, \A d \in Processes \ {c} : call'[d] = call[d],
         call[c].op # "clean", call'[c].op # "clean"
  PROVE  \A s : Cleaning(s)' = Cleaning(s)
PROOF BY DEF Cleaning, Processes

RowsKept ==
    \A s \in Sessions : /\ session'[s].backend = session[s].backend
                        /\ session'[s].status = "NONE" <=> session[s].status = "NONE"

LEMMA CallsKnowNext ==
  ASSUME CallsKnow, UploadTypes, NEW c \in Processes, RowsKept,
         \A d \in Processes \ {c} : call'[d] = call[d],
         call'[c].op # "idle" =>
            /\ call'[c].copy.status # "NONE" /\ session[call'[c].session].status # "NONE"
            /\ call'[c].copy.backend = session[call'[c].session].backend
            /\ call'[c].op = "clean" => call'[c].copy.backend = "local",
         call'[c].session \in Sessions
  PROVE  CallsKnow'
PROOF
  <1>1. \A d \in Processes : call[d].session \in Sessions
    BY DEF UploadTypes, Call
  <1> QED BY <1>1 DEF CallsKnow, RowsKept

LEMMA UploadKept ==
  ASSUME UploadInv, session' \in [Sessions -> SessionRow], old' \subseteq Sessions,
         open' \subseteq open, stored' \in [Sessions -> SUBSET Parts],
         \A s \in Sessions : stored[s] \subseteq stored'[s],
         call' \in [Processes -> Call], CallsKnow', RowsKept,
         \A s \in open' : Cleaning(s)' = Cleaning(s),
         UNCHANGED <<files, usage, sum>>
  PROVE  UploadInv'
PROOF
  <1> USE DEF UploadInv
  <1>1. UploadTypes'
    BY DEF UploadTypes
  <1>2. FilesMade'
    <2> SUFFICES ASSUME NEW s \in Sessions
                 PROVE  /\ session'[s].status = "NONE" => files'[s] = 0
                        /\ session'[s].backend = "local" /\ s \in open' =>
                              files'[s] = Cardinality(Cleaning(s)')
                        /\ session'[s].backend = "s3" =>
                              files'[s] <= 1 /\ (s \in open' => files'[s] = 0)
                        /\ files'[s] > 0 => stored'[s] = Parts
      BY DEF FilesMade
    <2>1. stored'[s] \subseteq Parts
      OBVIOUS
    <2> QED BY <2>1 DEF FilesMade, RowsKept
  <1>3. Charged'
    BY DEF Charged, SumOfFiles, FileIds
  <1> QED BY <1>1, <1>2, <1>3

(* A request or the sweep begins with a copy of the row.                   *)
LEMMA BeginKeeps ==
  ASSUME UploadInv, NEW c \in Processes, NEW op \in CallOps \ {"idle", "clean"},
         NEW s \in Sessions, NEW p \in Parts, Begin(c, op, s, p),
         UNCHANGED <<session, files, usage, sum, old, open>>,
         stored' \in [Sessions -> SUBSET Parts],
         \A t \in Sessions : stored[t] \subseteq stored'[t]
  PROVE  UploadInv'
PROOF
  <1> USE DEF UploadInv
  <1> DEFINE new == [op |-> op, session |-> s, part |-> p, copy |-> session[s]]
  <1>1. new \in Call /\ new.op = op /\ new.session = s /\ new.copy = session[s]
    BY DEF Call, UploadTypes
  <1>2. call' = [call EXCEPT ![c] = new] /\ call[c].op = "idle" /\ session[s].status # "NONE"
    BY DEF Begin
  <1> HIDE DEF new
  <1>3. /\ call' \in [Processes -> Call] /\ call'[c] = new
        /\ \A d \in Processes \ {c} : call'[d] = call[d]
    BY <1>1, <1>2, CallSteps
  <1>4. RowsKept
    BY DEF RowsKept
  <1>5. CallsKnow'
    BY <1>1, <1>2, <1>3, <1>4, CallsKnowNext
  <1>6. \A t : Cleaning(t)' = Cleaning(t)
    BY <1>1, <1>2, <1>3, CleaningKept
  <1>7. session' \in [Sessions -> SessionRow] /\ old' \subseteq Sessions
    BY DEF UploadTypes
  <1> QED BY <1>3, <1>4, <1>5, <1>6, <1>7, UploadKept

(* A copy is saved with other parts or another status.                     *)
LEMMA SavedRow ==
  ASSUME UploadInv, NEW c \in Processes, call[c].op # "idle", NEW row \in SessionRow,
         row.status # "NONE", row.backend = call[c].copy.backend, SaveCopy(c, row)
  PROVE  session' \in [Sessions -> SessionRow] /\ RowsKept
PROOF
  <1>1. call[c].session \in Sessions
    BY DEF UploadInv, UploadTypes, Call
  <1>2. /\ session' \in [Sessions -> SessionRow] /\ session'[call[c].session] = row
        /\ \A s \in Sessions \ {call[c].session} : session'[s] = session[s]
    BY <1>1 DEF SaveCopy, UploadInv, UploadTypes
  <1> QED BY <1>1, <1>2 DEF RowsKept, UploadInv, CallsKnow

(* A call ends.                                                            *)
LEMMA EndKeeps ==
  ASSUME UploadInv, NEW c \in Processes, call[c].op # "clean", End(c),
         session' \in [Sessions -> SessionRow], RowsKept, open' \subseteq open,
         UNCHANGED <<old, stored, files, usage, sum>>
  PROVE  UploadInv'
PROOF
  <1> USE DEF UploadInv
  <1>1. call[c].session \in Sessions
    BY DEF UploadTypes, Call
  <1>2. NoCall(call[c].session) \in Call /\ NoCall(call[c].session).op = "idle"
    BY <1>1, NoCallIsACall
  <1>3. call' = [call EXCEPT ![c] = NoCall(call[c].session)]
    BY DEF End, UploadTypes
  <1>4. /\ call' \in [Processes -> Call] /\ call'[c].op = "idle"
        /\ \A d \in Processes \ {c} : call'[d] = call[d]
    BY <1>2, <1>3, CallSteps
  <1>5. call'[c].session \in Sessions
    BY <1>4 DEF Call
  <1>6. CallsKnow'
    BY <1>4, <1>5, CallsKnowNext
  <1>7. \A t : Cleaning(t)' = Cleaning(t)
    BY <1>4, CleaningKept
  <1>8. stored' \in [Sessions -> SUBSET Parts] /\ old' \subseteq Sessions
          /\ \A s \in Sessions : stored[s] \subseteq stored'[s]
    BY DEF UploadTypes
  <1> QED BY <1>4, <1>6, <1>7, <1>8, UploadKept

(* A charge for a file that fits counts one file more.                     *)
LEMMA ChargeCounts ==
  ASSUME UploadInv, NEW s \in Sessions, files[s] + 1 <= Cardinality(Callers), ChargeFile(s)
  PROVE  /\ files' \in [Sessions -> 0..Cardinality(Callers)]
         /\ files'[s] = files[s] + 1 /\ \A t \in Sessions \ {s} : files'[t] = files[t]
         /\ SumOfFiles' = SumOfFiles + FileSize /\ usage' = usage + FileSize
PROOF
  <1> USE DEF UploadInv
  <1> DEFINE n == Cardinality(Callers)
  <1>1. n \in Nat /\ FileSize \in Nat
    BY SizesAreNat
  <1>2. files \in [Sessions -> 0..n] /\ files[s] \in 0..n
    BY DEF UploadTypes
  <1>3. /\ files' \in [Sessions -> 0..n] /\ files'[s] = files[s] + 1
        /\ \A t \in Sessions \ {s} : files'[t] = files[t]
    BY <1>1, <1>2 DEF ChargeFile
  <1> DEFINE new == <<s, files[s] + 1>>
  <1>4. new \in Sessions \X (1..n)
    BY <1>1, <1>2
  <1>5. FileIds' = FileIds \cup {new} /\ new \notin FileIds
    <2>1. new \notin FileIds
      BY <1>2 DEF FileIds
    <2>2. ASSUME NEW f \in Sessions \X (1..n)
          PROVE  f[2] <= files'[f[1]] <=> f[2] <= files[f[1]] \/ f = new
      <3>1. f = <<f[1], f[2]>> /\ f[1] \in Sessions /\ f[2] \in 1..n
        OBVIOUS
      <3>2. CASE f[1] = s
        <4>1. f[2] <= files[s] + 1 <=> f[2] <= files[s] \/ f[2] = files[s] + 1
          BY <1>2, <3>1
        <4> QED BY <1>3, <3>1, <3>2, <4>1
      <3>3. CASE f[1] # s
        BY <1>3, <3>1, <3>3
      <3> QED BY <3>2, <3>3
    <2>3. FileIds' = {f \in Sessions \X (1..n) : f[2] <= files'[f[1]]}
      BY DEF FileIds
    <2>4. FileIds = {f \in Sessions \X (1..n) : f[2] <= files[f[1]]}
      BY DEF FileIds
    <2> HIDE DEF new, n
    <2> QED BY <1>4, <2>1, <2>2, <2>3, <2>4
  <1>6. IsFiniteSet(FileIds) /\ Cardinality(FileIds) \in Nat
    BY <1>2, SumIsBounded
  <1> HIDE DEF new
  <1>7. Cardinality(FileIds)' = Cardinality(FileIds) + 1
    BY <1>5, <1>6, FS_AddElement
  <1> DEFINE f == Cardinality(FileIds)
  <1>8. FileSize * (f + 1) = FileSize * f + FileSize
    BY <1>1, <1>6
  <1> QED BY <1>3, <1>7, <1>8 DEF SumOfFiles, ChargeFile

LEMMA CleaningIsFinite ==
  ASSUME NEW s
  PROVE  /\ IsFiniteSet(Cleaning(s)) /\ Cardinality(Cleaning(s)) \in Nat
         /\ Cardinality(Cleaning(s)) <= Cardinality(Callers)
PROOF
  <1>1. Cleaning(s) \subseteq Callers
    BY DEF Cleaning
  <1> QED BY <1>1, UploadAssumption, FS_Subset, FS_CardinalityType

(* The finalization of a local session: one file and one request more that *)
(* is about to remove the directory.                                       *)
LEMMA AssembleLocalKeeps ==
  ASSUME UploadInv, NEW c \in Callers, AssembleLocal(c)
  PROVE  UploadInv'
PROOF
  <1> USE DEF UploadInv
  <1> DEFINE s == call[c].session
             row == [call[c].copy EXCEPT !.status = "COMPLETED"]
             new == [call[c] EXCEPT !.op = "clean"]
  <1>0. /\ UploadTypes /\ c \in Processes /\ call[c] \in Call /\ s \in Sessions
        /\ call[c].copy \in SessionRow
    BY DEF UploadTypes, Call, Processes
  <1>1. /\ call[c].op = "finalize" /\ call[c].copy.backend = "local" /\ s \in open
        /\ stored[s] = Parts /\ ChargeFile(s) /\ SaveCopy(c, row)
        /\ call' = [call EXCEPT ![c] = new] /\ UNCHANGED <<old, stored, open, sum>>
    BY <1>0 DEF AssembleLocal, CanAssemble, store, UploadTypes
  <1>2. /\ call[c].copy.status # "NONE" /\ session[s].status # "NONE"
        /\ session[s].backend = "local"
    BY <1>0, <1>1 DEF CallsKnow
  <1>3. row \in SessionRow /\ row.status = "COMPLETED" /\ row.backend = "local"
    BY <1>0, <1>1 DEF SessionRow, Statuses
  <1>4. /\ new \in Call /\ new.op = "clean" /\ new.session = s /\ new.copy = call[c].copy
    BY <1>0 DEF Call, CallOps
  <1> HIDE DEF new, row
  <1>5. session' \in [Sessions -> SessionRow] /\ RowsKept
    BY <1>0, <1>1, <1>3, SavedRow
  <1>6. /\ call' \in [Processes -> Call] /\ call'[c] = new
        /\ \A d \in Processes \ {c} : call'[d] = call[d]
    BY <1>0, <1>1, <1>4, CallSteps
  <1>7. CallsKnow'
    BY <1>0, <1>1, <1>2, <1>4, <1>5, <1>6, CallsKnowNext
  <1>8. Cleaning(s)' = Cleaning(s) \cup {c} /\ c \notin Cleaning(s)
          /\ \A t : t # s => Cleaning(t)' = Cleaning(t)
    BY <1>1, <1>4, <1>6 DEF Cleaning, Processes
  <1>9. Cardinality(Cleaning(s))' = Cardinality(Cleaning(s)) + 1
    BY <1>8, CleaningIsFinite, FS_AddElement
  <1>10. Cardinality(Cleaning(s))' <= Cardinality(Callers)
    <2>1. Cleaning(s)' \subseteq Callers
      BY DEF Cleaning
    <2> QED BY <2>1, UploadAssumption, FS_Subset
  <1>11. files[s] = Cardinality(Cleaning(s))
    BY <1>0, <1>1, <1>2 DEF FilesMade
  <1> HIDE DEF s
  <1>12. /\ files' \in [Sessions -> 0..Cardinality(Callers)] /\ files'[s] = files[s] + 1
         /\ \A t \in Sessions \ {s} : files'[t] = files[t]
         /\ SumOfFiles' = SumOfFiles + FileSize /\ usage' = usage + FileSize
    BY <1>0, <1>1, <1>9, <1>10, <1>11, ChargeCounts
  <1>13. /\ SumOfFiles \in Nat /\ SumOfFiles' \in Nat /\ SumOfFiles' < NoSum /\ NoSum \in Nat
         /\ FileSize \in Nat
    <2>1. SumOfFiles \in Nat /\ FileSize \in Nat /\ NoSum \in Nat
      BY <1>0, SumIsBounded, SizesAreNat DEF UploadTypes
    <2>2. SumOfFiles' \in Nat /\ SumOfFiles' < NoSum
      BY <1>12, NextSumIsBounded
    <2> QED BY <1>12, <2>1, <2>2
  <1>14. Charged' /\ usage' \in 0..NoSum
    <2>1. usage \in 0..NoSum /\ sum \in 0..NoSum
      BY <1>0 DEF UploadTypes
    <2> QED BY <1>1, <1>12, <1>13, <2>1 DEF Charged
  <1>15. UploadTypes'
    BY <1>0, <1>1, <1>5, <1>6, <1>12, <1>14 DEF UploadTypes
  <1>16. FilesMade'
    <2> DEFINE Fits(t) == /\ session'[t].status = "NONE" => files'[t] = 0
                          /\ session'[t].backend = "local" /\ t \in open' =>
                                files'[t] = Cardinality(Cleaning(t))'
                          /\ session'[t].backend = "s3" =>
                                files'[t] <= 1 /\ (t \in open' => files'[t] = 0)
                          /\ files'[t] > 0 => stored'[t] = Parts
    <2>1. ASSUME NEW t \in Sessions, t # s PROVE Fits(t)
      BY <1>1, <1>5, <1>8, <1>12, <2>1 DEF FilesMade, RowsKept
    <2>2. /\ session'[s].status # "NONE" /\ session'[s].backend = "local"
          /\ files'[s] = Cardinality(Cleaning(s))' /\ stored'[s] = Parts
      BY <1>0, <1>1, <1>2, <1>5, <1>9, <1>11, <1>12 DEF RowsKept
    <2>3. Fits(s)
      BY <2>2
    <2>4. \A t \in Sessions : Fits(t)
      <3> HIDE DEF Fits
      <3> QED BY <2>1, <2>3
    <2> QED BY <2>4 DEF FilesMade
  <1> QED BY <1>7, <1>14, <1>15, <1>16

(* S3 completes an upload once.                                            *)
LEMMA AssembleS3Keeps ==
  ASSUME UploadInv, NEW c \in Callers, AssembleS3(c)
  PROVE  UploadInv'
PROOF
  <1> USE DEF UploadInv
  <1> DEFINE s == call[c].session
             row == [call[c].copy EXCEPT !.status = "COMPLETED"]
  <1>0. /\ UploadTypes /\ c \in Processes /\ call[c] \in Call /\ s \in Sessions
        /\ call[c].copy \in SessionRow
    BY DEF UploadTypes, Call, Processes
  <1>1. /\ call[c].op = "finalize" /\ call[c].copy.backend = "s3" /\ s \in open
        /\ stored[s] = Parts /\ open' = open \ {s} /\ End(c) /\ UNCHANGED <<old, stored, sum>>
        /\ (ChargeFile(s) /\ SaveCopy(c, row)) \/ UNCHANGED rows
    BY <1>0 DEF AssembleS3, CanAssemble, UsesUp
  <1>2. CASE UNCHANGED rows
    <2>1. RowsKept /\ session' \in [Sessions -> SessionRow] /\ UNCHANGED <<files, usage>>
      BY <1>0, <1>2 DEF RowsKept, rows, UploadTypes
    <2> QED BY <1>0, <1>1, <2>1, EndKeeps
  <1>3. CASE ChargeFile(s) /\ SaveCopy(c, row)
    <2>1. /\ call[c].copy.status # "NONE" /\ session[s].status # "NONE"
          /\ session[s].backend = "s3"
      BY <1>0, <1>1 DEF CallsKnow
    <2>2. row \in SessionRow /\ row.status = "COMPLETED" /\ row.backend = "s3"
      BY <1>0, <1>1 DEF SessionRow, Statuses
    <2> HIDE DEF row
    <2>3. session' \in [Sessions -> SessionRow] /\ RowsKept
      BY <1>0, <1>1, <1>3, <2>2, SavedRow
    <2>4. NoCall(s) \in Call /\ NoCall(s).op = "idle" /\ call' = [call EXCEPT ![c] = NoCall(s)]
      BY <1>0, <1>1, NoCallIsACall DEF End, UploadTypes
    <2>5. /\ call' \in [Processes -> Call] /\ call'[c].op = "idle" /\ call'[c].session \in Sessions
          /\ \A d \in Processes \ {c} : call'[d] = call[d]
      <3>1. /\ call' \in [Processes -> Call] /\ call'[c].op = "idle"
            /\ \A d \in Processes \ {c} : call'[d] = call[d]
        BY <1>0, <2>4, CallSteps
      <3> QED BY <1>0, <3>1 DEF Call
    <2>6. CallsKnow'
      BY <1>0, <2>3, <2>5, CallsKnowNext
    <2>7. \A t : Cleaning(t)' = Cleaning(t)
      BY <1>0, <1>1, <2>5, CleaningKept
    <2>8. files[s] = 0 /\ Cardinality(Callers) >= 1
      <3>1. files[s] = 0
        BY <1>0, <1>1, <2>1 DEF FilesMade
      <3>2. Callers # {}
        OBVIOUS
      <3> QED BY <3>1, <3>2, UploadAssumption, FS_EmptySet, FS_CardinalityType
    <2> HIDE DEF s
    <2>9. /\ files' \in [Sessions -> 0..Cardinality(Callers)] /\ files'[s] = files[s] + 1
          /\ \A t \in Sessions \ {s} : files'[t] = files[t]
          /\ SumOfFiles' = SumOfFiles + FileSize /\ usage' = usage + FileSize
      BY <1>0, <1>3, <2>8, SizesAreNat, ChargeCounts
    <2>10. /\ SumOfFiles \in Nat /\ SumOfFiles' < NoSum /\ FileSize \in Nat /\ NoSum \in Nat
      <3>1. SumOfFiles' < NoSum
        BY <2>9, NextSumIsBounded
      <3> QED BY <1>0, <3>1, SumIsBounded, SizesAreNat DEF UploadTypes
    <2>11. Charged' /\ usage' \in 0..NoSum
      <3>1. usage \in 0..NoSum /\ sum \in 0..NoSum
        BY <1>0 DEF UploadTypes
      <3> QED BY <1>1, <2>9, <2>10, <3>1 DEF Charged
    <2>12. UploadTypes'
      BY <1>0, <1>1, <2>3, <2>5, <2>9, <2>11 DEF UploadTypes
    <2>13. FilesMade'
      <3>1. ASSUME NEW t \in Sessions, t # s
            PROVE  /\ session'[t].status = "NONE" => files'[t] = 0
                   /\ session'[t].backend = "local" /\ t \in open' =>
                         files'[t] = Cardinality(Cleaning(t))'
                   /\ session'[t].backend = "s3" =>
                         files'[t] <= 1 /\ (t \in open' => files'[t] = 0)
                   /\ files'[t] > 0 => stored'[t] = Parts
        BY <1>1, <2>3, <2>7, <2>9, <3>1 DEF FilesMade, RowsKept
      <3>2. /\ session'[s].status # "NONE" /\ session'[s].backend = "s3"
            /\ files'[s] = 1 /\ s \notin open' /\ stored'[s] = Parts
        BY <1>0, <1>1, <2>1, <2>3, <2>8, <2>9 DEF RowsKept
      <3> QED BY <3>1, <3>2 DEF FilesMade
    <2> QED BY <2>6, <2>11, <2>12, <2>13
  <1> QED BY <1>1, <1>2, <1>3

LEMMA RemoveDirectoryKeeps ==
  ASSUME UploadInv, NEW c \in Callers, RemoveDirectory(c)
  PROVE  UploadInv'
PROOF
  <1> USE DEF UploadInv
  <1> DEFINE s == call[c].session
  <1>0. UploadTypes /\ c \in Processes /\ s \in Sessions
    BY DEF UploadTypes, Call, Processes
  <1>1. /\ UNCHANGED <<session, files, usage, old, stored, sum>> /\ open' = open \ {s} /\ End(c)
    BY DEF RemoveDirectory, rows
  <1>2. NoCall(s) \in Call /\ NoCall(s).op = "idle" /\ call' = [call EXCEPT ![c] = NoCall(s)]
    BY <1>0, <1>1, NoCallIsACall DEF End, UploadTypes
  <1>3. /\ call' \in [Processes -> Call] /\ call'[c].op = "idle"
        /\ \A d \in Processes \ {c} : call'[d] = call[d]
    BY <1>0, <1>2, CallSteps
  <1>4. RowsKept /\ call'[c].session \in Sessions
    BY <1>0, <1>1, <1>3 DEF RowsKept, Call
  <1>5. CallsKnow'
    BY <1>0, <1>3, <1>4, CallsKnowNext
  <1>6. \A t \in open' : Cleaning(t)' = Cleaning(t)
    BY <1>1, <1>3 DEF Cleaning, Processes
  <1>7. /\ session' \in [Sessions -> SessionRow] /\ old' \subseteq Sessions /\ open' \subseteq open
        /\ stored' \in [Sessions -> SUBSET Parts]
        /\ \A t \in Sessions : stored[t] \subseteq stored'[t]
    BY <1>0, <1>1 DEF UploadTypes
  <1> QED BY <1>1, <1>3, <1>4, <1>5, <1>6, <1>7, UploadKept

LEMMA RequestKeeps ==
  ASSUME UploadInv, NEW c \in Callers, Request(c)
  PROVE  UploadInv'
PROOF
  <1> USE DEF UploadInv
  <1>0. UploadTypes /\ c \in Processes /\ call[c] \in Call /\ call[c].copy \in SessionRow
          /\ call[c].part \in Parts
    BY DEF UploadTypes, Call, Processes
  <1>1. ASSUME NEW s \in Sessions, NEW p \in Parts, ReceiveChunk(c, s, p) PROVE UploadInv'
    <2>1. /\ Begin(c, "record", s, p) /\ UNCHANGED <<session, files, usage, sum, old, open>>
          /\ stored' = [stored EXCEPT ![s] = @ \cup {p}]
      BY <1>1 DEF ReceiveChunk, rows
    <2>2. /\ stored' \in [Sessions -> SUBSET Parts]
          /\ \A t \in Sessions : stored[t] \subseteq stored'[t]
      BY <1>0, <2>1 DEF UploadTypes
    <2>3. "record" \in CallOps \ {"idle", "clean"}
      BY DEF CallOps
    <2> QED BY <1>0, <2>1, <2>2, <2>3, BeginKeeps
  <1>2. ASSUME NEW s \in Sessions, NEW p \in Parts,
               CompletePart(c, s, p) \/ Finalize(c, s) \/ Abort(c, s)
        PROVE  UploadInv'
    <2>1. PICK op \in {"record", "finalize", "abort"}, q \in {p, 1} : Begin(c, op, s, q)
      BY <1>2 DEF CompletePart, Finalize, Abort
    <2>2. UNCHANGED <<session, files, usage, sum, old, open, stored>>
      BY <1>2 DEF CompletePart, Finalize, Abort, rows, store
    <2>3. op \in CallOps \ {"idle", "clean"} /\ q \in Parts
      BY SizesAreNat DEF CallOps
    <2>4. stored' \in [Sessions -> SUBSET Parts] /\ \A t \in Sessions : stored[t] \subseteq stored'[t]
      BY <1>0, <2>2 DEF UploadTypes
    <2> QED BY <1>0, <2>1, <2>2, <2>3, <2>4, BeginKeeps
  <1>3. ASSUME SavePart(c) \/ SaveAbort(c) PROVE UploadInv'
    <2>1. PICK row \in {[call[c].copy EXCEPT !.parts = @ \cup {call[c].part}],
                        [call[c].copy EXCEPT !.status = "FAILED"]} : SaveCopy(c, row)
      BY <1>3 DEF SavePart, SaveAbort
    <2>2. /\ call[c].op \in {"record", "abort"} /\ End(c) /\ open' \subseteq open
          /\ UNCHANGED <<old, stored, files, usage, sum>>
      BY <1>3 DEF SavePart, SaveAbort, store
    <2>3. call[c].copy.status # "NONE"
      BY <1>0, <2>2 DEF CallsKnow
    <2>4. row \in SessionRow /\ row.status # "NONE" /\ row.backend = call[c].copy.backend
      BY <1>0, <2>1, <2>3 DEF SessionRow, Statuses
    <2>5. session' \in [Sessions -> SessionRow] /\ RowsKept
      BY <1>0, <2>1, <2>2, <2>4, SavedRow
    <2> QED BY <1>0, <2>2, <2>5, EndKeeps
  <1>4. CASE FinalizeFails(c)
    <2>1. /\ call[c].op = "finalize" /\ End(c) /\ open' \subseteq open
          /\ UNCHANGED <<session, old, stored, files, usage, sum>>
      BY <1>4 DEF FinalizeFails, rows, store
    <2>2. session' \in [Sessions -> SessionRow] /\ RowsKept
      BY <1>0, <2>1 DEF RowsKept, UploadTypes
    <2> QED BY <1>0, <2>1, <2>2, EndKeeps
  <1> QED BY <1>1, <1>2, <1>3, <1>4, SizesAreNat, AssembleLocalKeeps, AssembleS3Keeps,
             RemoveDirectoryKeeps DEF Request

LEMMA CreateKeeps ==
  ASSUME UploadInv, NEW s \in Sessions, CreateSession(s)
  PROVE  UploadInv'
PROOF
  <1> USE DEF UploadInv
  <1>0. UploadTypes
    OBVIOUS
  <1>1. PICK backend \in Backends, status \in {"IN_PROGRESS", "NONE"} :
           session' = [session EXCEPT ![s].backend = backend, ![s].status = status]
    BY DEF CreateSession
  <1>2. /\ session[s].status = "NONE" /\ s \notin open /\ open' = open \cup {s}
        /\ UNCHANGED <<old, stored, call, files, usage, sum>>
    BY DEF CreateSession
  <1> DEFINE row == [session[s] EXCEPT !.backend = backend, !.status = status]
  <1>3. row \in SessionRow /\ row.backend \in Backends
    <2>1. session[s] \in SessionRow
      BY <1>0 DEF UploadTypes
    <2> QED BY <2>1 DEF SessionRow, Statuses, Backends
  <1>4. /\ session' \in [Sessions -> SessionRow] /\ session'[s] = row
        /\ \A t \in Sessions \ {s} : session'[t] = session[t]
    <2>1. session' = [session EXCEPT ![s] = row]
      BY <1>0, <1>1 DEF UploadTypes
    <2> HIDE DEF row
    <2> QED BY <1>0, <1>3, <2>1 DEF UploadTypes
  <1> HIDE DEF row
  <1>5. \A c \in Processes : call[c].op # "idle" =>
           call[c].session \in Sessions /\ call[c].session # s
    BY <1>0, <1>2 DEF CallsKnow, UploadTypes, Call
  <1>6. CallsKnow'
    BY <1>2, <1>4, <1>5 DEF CallsKnow
  <1>7. UploadTypes'
    BY <1>0, <1>2, <1>4 DEF UploadTypes
  <1>8. Charged'
    BY <1>2 DEF Charged, SumOfFiles, FileIds
  <1>9. /\ \A t : Cleaning(t)' = Cleaning(t)
        /\ Cleaning(s) = {} /\ Cardinality(Cleaning(s)) = 0
    <2>1. Cleaning(s) = {}
      BY <1>5 DEF Cleaning, Processes
    <2> QED BY <1>2, <2>1, FS_EmptySet DEF Cleaning
  <1>10. FilesMade'
    <2>1. files[s] = 0
      BY <1>2 DEF FilesMade
    <2>2. ASSUME NEW t \in Sessions, t # s
          PROVE  /\ session'[t].status = "NONE" => files'[t] = 0
                 /\ session'[t].backend = "local" /\ t \in open' =>
                       files'[t] = Cardinality(Cleaning(t))'
                 /\ session'[t].backend = "s3" =>
                       files'[t] <= 1 /\ (t \in open' => files'[t] = 0)
                 /\ files'[t] > 0 => stored'[t] = Parts
      BY <1>2, <1>4, <1>9, <2>2 DEF FilesMade
    <2>3. files'[s] = 0 /\ Cardinality(Cleaning(s))' = 0
      BY <1>2, <1>9, <2>1
    <2> QED BY <2>2, <2>3 DEF FilesMade
  <1> QED BY <1>6, <1>7, <1>8, <1>10

LEMMA SweepKeeps ==
  ASSUME UploadInv,
         \/ \E s \in Sessions : \/ GrowOld(s) \/ FindExpired(s) \/ SweepOrphan(s)
                                \/ \E p \in Parts : PutToS3(s, p)
         \/ SaveExpired \/ ReadSum \/ SaveSum \/ UNCHANGED uploadVars
  PROVE  UploadInv'
PROOF
  <1> USE DEF UploadInv
  <1>0. UploadTypes /\ Sweeper \in Processes /\ call[Sweeper] \in Call
          /\ call[Sweeper].copy \in SessionRow
    BY DEF UploadTypes, Call, Processes
  <1>1. ASSUME UNCHANGED <<session, call, files, usage, sum>>, old' \subseteq Sessions,
               open' \subseteq open, stored' \in [Sessions -> SUBSET Parts],
               \A t \in Sessions : stored[t] \subseteq stored'[t]
        PROVE  UploadInv'
    <2>1. RowsKept /\ \A t : Cleaning(t)' = Cleaning(t)
      BY <1>1 DEF RowsKept, Cleaning
    <2>2. CallsKnow'
      BY <1>1 DEF CallsKnow
    <2>3. session' \in [Sessions -> SessionRow] /\ call' \in [Processes -> Call]
      BY <1>0, <1>1 DEF UploadTypes
    <2> QED BY <1>1, <2>1, <2>2, <2>3, UploadKept
  <1>2. ASSUME NEW s \in Sessions, GrowOld(s) \/ SweepOrphan(s) PROVE UploadInv'
    <2>1. /\ UNCHANGED <<session, call, files, usage, sum, stored>> /\ old' \subseteq Sessions
          /\ open' \subseteq open
      BY <1>0, <1>2 DEF GrowOld, SweepOrphan, uploadVars, rows, store, UploadTypes
    <2> QED BY <1>0, <1>1, <2>1 DEF UploadTypes
  <1>3. ASSUME NEW s \in Sessions, NEW p \in Parts, PutToS3(s, p) PROVE UploadInv'
    <2>1. /\ UNCHANGED <<session, call, files, usage, sum, old, open>>
          /\ stored' = [stored EXCEPT ![s] = @ \cup {p}]
      BY <1>3 DEF PutToS3, rows
    <2>2. /\ stored' \in [Sessions -> SUBSET Parts]
          /\ \A t \in Sessions : stored[t] \subseteq stored'[t]
      BY <1>0, <2>1 DEF UploadTypes
    <2>3. old' \subseteq Sessions
      BY <1>0, <2>1 DEF UploadTypes
    <2> QED BY <1>1, <2>1, <2>2, <2>3
  <1>4. ASSUME NEW s \in Sessions, FindExpired(s) PROVE UploadInv'
    <2>1. /\ Begin(Sweeper, "expire", s, 1) /\ UNCHANGED <<session, files, usage, sum, old, open, stored>>
      BY <1>4 DEF FindExpired, rows, store
    <2>2. "expire" \in CallOps \ {"idle", "clean"}
      BY DEF CallOps
    <2>3. stored' \in [Sessions -> SUBSET Parts] /\ \A t \in Sessions : stored[t] \subseteq stored'[t]
      BY <1>0, <2>1 DEF UploadTypes
    <2> QED BY <1>0, <2>1, <2>2, <2>3, SizesAreNat, BeginKeeps
  <1>5. CASE SaveExpired
    <2> DEFINE row == [call[Sweeper].copy EXCEPT !.status = "EXPIRED"]
    <2>1. /\ call[Sweeper].op = "expire" /\ SaveCopy(Sweeper, row) /\ End(Sweeper)
          /\ UNCHANGED <<old, stored, files, usage, sum>> /\ open' \subseteq open
      BY <1>5 DEF SaveExpired
    <2>2. row \in SessionRow /\ row.status # "NONE" /\ row.backend = call[Sweeper].copy.backend
      BY <1>0 DEF SessionRow, Statuses
    <2> HIDE DEF row
    <2>3. session' \in [Sessions -> SessionRow] /\ RowsKept
      BY <1>0, <2>1, <2>2, SavedRow
    <2> QED BY <1>0, <2>1, <2>3, EndKeeps
  <1>6. CASE ReadSum \/ SaveSum
    <2>1. UNCHANGED <<session, call, files, old, open, stored>>
      BY <1>6 DEF ReadSum, SaveSum, rows, store
    <2>2. CallsKnow' /\ SumOfFiles' = SumOfFiles
      BY <2>1 DEF CallsKnow, SumOfFiles, FileIds
    <2>3. FilesMade'
      <3>1. \A t : Cleaning(t)' = Cleaning(t)
        BY <2>1 DEF Cleaning
      <3> QED BY <2>1, <3>1 DEF FilesMade
    <2>4. SumOfFiles \in Nat /\ SumOfFiles < NoSum /\ NoSum \in Nat
      BY <1>0, SumIsBounded DEF UploadTypes
    <2>5. usage' \in 0..NoSum /\ sum' \in 0..NoSum /\ Charged'
      BY <1>0, <1>6, <2>2, <2>4 DEF ReadSum, SaveSum, Charged, UploadTypes, rows
    <2>6. UploadTypes'
      BY <1>0, <2>1, <2>5 DEF UploadTypes
    <2> QED BY <2>2, <2>3, <2>5, <2>6
  <1>7. CASE UNCHANGED uploadVars
    <2>1. UNCHANGED <<session, call, files, usage, sum, old, open, stored>>
      BY <1>7 DEF uploadVars, rows, store
    <2> QED BY <1>0, <1>1, <2>1 DEF UploadTypes
  <1> QED BY <1>2, <1>3, <1>4, <1>5, <1>6, <1>7

(* A file is made of all its parts, and S3 lets a session become one file  *)
(* only, for any number of sessions, parts and requests that save stale    *)
(* copies of the row (ChunkedUpload.UploadSafe).  The usage that is        *)
(* charged never exceeds the files there are.                              *)
THEOREM UploadsAreSafe == UploadSpec => []UploadSafe
PROOF
  <1>1. UploadInv /\ [UploadNext]_uploadVars => UploadInv'
    <2> SUFFICES ASSUME UploadInv, [UploadNext]_uploadVars PROVE UploadInv'
      OBVIOUS
    <2> QED BY CreateKeeps, RequestKeeps, SweepKeeps DEF UploadNext
  <1>2. UploadInv => UploadSafe
    <2> SUFFICES ASSUME UploadInv PROVE UploadSafe
      OBVIOUS
    <2> USE DEF UploadInv
    <2>1. ASSUME NEW s \in Sessions, files[s] > 0
          PROVE  stored[s] = Parts /\ (session[s].backend = "s3" => files[s] = 1)
      <3>1. files[s] \in Nat
        BY SizesAreNat DEF UploadTypes
      <3> QED BY <2>1, <3>1 DEF FilesMade
    <2> QED BY <2>1 DEF UploadSafe, FilesAreWhole
  <1> QED BY <1>1, <1>2, UploadInitially, PTL DEF UploadSpec
=============================================================================
