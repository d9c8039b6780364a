----------------------- MODULE MediaProcessing_proofs ------------------------
(***************************************************************************)
(* Theorems about MediaProcessing, for any number of workers, generators,  *)
(* retries and deaths.                                                     *)
(***************************************************************************)
EXTENDS MediaProcessing, TLAPS

(* A job whose list of errors is empty has made the assets of all the      *)
(* generators it is past, whoever made their rows.                         *)
PassedAreMade ==
    \A w \in Workers : ~job[w].errs =>
       \A i \in Generators : i < job[w].next => asset[i] = "file"

IInv == MediaTypes /\ PassedAreMade /\ ReadyIsWhole

(* No step takes the file of an asset away.                                *)
FilesStay == \A i \in Generators : asset[i] = "file" => asset'[i] = "file"

-----------------------------------------------------------------------------
LEMMA NoJobIsJob == NoJob \in Job /\ NoJob.next = 1
BY ProcessingAssumption DEF NoJob, Job, Idle, Retries

LEMMA AttemptsAreRetries ==
    ASSUME NEW n \in Retries
    PROVE  (IF n < MaxRetries THEN n + 1 ELSE MaxRetries) \in Retries
BY ProcessingAssumption DEF Retries

LEMMA NextIsPlace ==
    ASSUME NEW i \in Generators
    PROVE  i + 1 \in 1..(Assets + 1)
BY ProcessingAssumption DEF Generators

(* What FilesStay and one job that owes nothing new keep.                  *)
LEMMA OneJobChanges ==
    ASSUME IInv, FilesStay, NEW w \in Workers, NEW new \in Job,
           job' = [job EXCEPT ![w] = new],
           ~new.errs => \A i \in Generators : i < new.next => asset'[i] = "file"
    PROVE  job' \in [Workers -> Job] /\ PassedAreMade'
<1>1. /\ job' \in [Workers -> Job]
      /\ job'[w] = new
      /\ \A v \in Workers : v # w => job'[v] = job[v]
    BY DEF IInv, MediaTypes
<1>2. ASSUME NEW v \in Workers, ~job'[v].errs,
             NEW i \in Generators, i < job'[v].next
      PROVE  asset'[i] = "file"
    <2>1. CASE v = w
        BY <1>1, <1>2, <2>1
    <2>2. CASE v # w
        BY <1>1, <1>2, <2>2 DEF IInv, PassedAreMade, FilesStay
    <2> QED BY <2>1, <2>2
<1> QED BY <1>1, <1>2 DEF PassedAreMade

(* A worker that ends its job.                                             *)
LEMMA EndsKeeps ==
    ASSUME IInv, NEW w \in Workers, Ends(w), UNCHANGED asset
    PROVE  job' \in [Workers -> Job] /\ PassedAreMade'
<1>1. FilesStay
    BY DEF FilesStay
<1>2. \A i \in Generators : ~(i < NoJob.next)
    BY NoJobIsJob DEF Generators
<1> QED BY <1>1, <1>2, NoJobIsJob, OneJobChanges DEF Ends

(* The row stays whole: it is not made READY, or its error stays noted.    *)
LEMMA RowStaysWhole ==
    ASSUME IInv, FilesStay,
           file'.status = "READY" /\ ~file'.noted => file.status = "READY" /\ ~file.noted
    PROVE  ReadyIsWhole'
BY DEF IInv, ReadyIsWhole, FilesStay

LEMMA Initially == MediaInit => IInv
<1> SUFFICES ASSUME MediaInit PROVE IInv
    OBVIOUS
<1>1. job \in [Workers -> Job]
    BY NoJobIsJob DEF MediaInit
<1>2. file \in MediaFile /\ 0 \in Retries /\ mail \subseteq Retries
    BY ProcessingAssumption DEF MediaInit, MediaFile, Retries
<1>3. MediaTypes
    <2>1. deaths \in 0..MaxDeaths
        BY ProcessingAssumption DEF MediaInit
    <2>2. asset \in [Generators -> {"none", "row", "file"}]
        BY DEF MediaInit
    <2> QED BY <1>1, <1>2, <2>1, <2>2 DEF MediaInit, MediaTypes
<1>4. PassedAreMade
    BY NoJobIsJob DEF MediaInit, PassedAreMade, Generators
<1>5. ReadyIsWhole
    BY DEF MediaInit, ReadyIsWhole
<1> QED BY <1>3, <1>4, <1>5 DEF IInv

-----------------------------------------------------------------------------
LEMMA TakeProcessKeeps ==
    ASSUME IInv, NEW w \in Workers, NEW msg \in Retries, TakeProcess(w, msg)
    PROVE  IInv'
<1>1. FilesStay /\ asset' = asset
    BY DEF TakeProcess, FilesStay
<1>2. CASE UNCHANGED <<file, job, late>>
    <2>1. MediaTypes'
        BY <1>2 DEF IInv, MediaTypes, TakeProcess
    <2> QED BY <1>1, <1>2, <2>1 DEF IInv, PassedAreMade, ReadyIsWhole
<1>3. CASE file.status # "READY"
    <2>1. /\ file' \in MediaFile
          /\ file'.status = "PROCESSING"
          /\ late' = FALSE
        <3>1. file.attempts \in Retries
            BY DEF IInv, MediaTypes, MediaFile
        <3>2. (IF file.attempts < MaxRetries THEN file.attempts + 1 ELSE MaxRetries) \in Retries
            BY <3>1, AttemptsAreRetries
        <3> QED BY <1>3, <3>2 DEF IInv, MediaTypes, MediaFile, TakeProcess
    <2>2. PICK errs \in BOOLEAN :
             job' = [job EXCEPT ![w] = [NoJob EXCEPT !.msg = msg, !.errs = errs]]
        BY <1>3 DEF TakeProcess
    <2> DEFINE new == [NoJob EXCEPT !.msg = msg, !.errs = errs]
    <2>3. new \in Job /\ new.next = 1
        BY NoJobIsJob DEF Job
    <2>4. \A i \in Generators : ~(i < new.next)
        BY <2>3 DEF Generators
    <2> HIDE DEF new
    <2>5. job' \in [Workers -> Job] /\ PassedAreMade'
        BY <1>1, <2>2, <2>3, <2>4, OneJobChanges DEF new
    <2>6. MediaTypes'
        BY <2>1, <2>5 DEF IInv, MediaTypes, TakeProcess
    <2>7. ReadyIsWhole'
        BY <2>1 DEF ReadyIsWhole
    <2> QED BY <2>5, <2>6, <2>7 DEF IInv
<1> QED BY <1>2, <1>3 DEF TakeProcess

LEMMA MakeRowKeeps ==
    ASSUME IInv, NEW w \in Workers, MakeRow(w)
    PROVE  IInv'
<1> DEFINE new == [job[w] EXCEPT !.half = TRUE]
<1>1. job[w] \in Job
    BY DEF IInv, MediaTypes
<1>2. new \in Job /\ new.next = job[w].next /\ new.errs = job[w].errs
    BY <1>1 DEF Job
<1>3. job' = [job EXCEPT ![w] = new]
    BY DEF MakeRow, IInv, MediaTypes
<1>4. asset' \in [Generators -> {"none", "row", "file"}] /\ FilesStay
    BY DEF MakeRow, IInv, MediaTypes, FilesStay
<1>5. ~new.errs => \A i \in Generators : i < new.next => asset'[i] = "file"
    BY <1>2, <1>4 DEF IInv, PassedAreMade, FilesStay
<1> HIDE DEF new
<1>6. job' \in [Workers -> Job] /\ PassedAreMade'
    BY <1>2, <1>3, <1>4, <1>5, OneJobChanges
<1>7. ReadyIsWhole'
    BY <1>4, RowStaysWhole DEF MakeRow
<1>8. MediaTypes'
    BY <1>4, <1>6 DEF IInv, MediaTypes, MakeRow
<1> QED BY <1>6, <1>7, <1>8 DEF IInv

LEMMA SaveFileKeeps ==
    ASSUME IInv, NEW w \in Workers, SaveFile(w)
    PROVE  IInv'
<1> DEFINE new == [job[w] EXCEPT !.next = @ + 1, !.half = FALSE]
<1>1. job[w] \in Job /\ job[w].next \in Generators
    BY DEF IInv, MediaTypes, SaveFile, Generates
<1>2. new \in Job /\ new.next = job[w].next + 1 /\ new.errs = job[w].errs
    BY <1>1, NextIsPlace DEF Job
<1>3. job' = [job EXCEPT ![w] = new]
    BY DEF SaveFile, IInv, MediaTypes
<1>4. /\ asset' \in [Generators -> {"none", "row", "file"}]
      /\ asset'[job[w].next] = "file"
      /\ FilesStay
    BY <1>1 DEF SaveFile, IInv, MediaTypes, FilesStay
<1>5. ASSUME ~new.errs, NEW i \in Generators, i < new.next
      PROVE  asset'[i] = "file"
    <2>1. i < job[w].next \/ i = job[w].next
        BY <1>1, <1>2, <1>5, ProcessingAssumption DEF Generators
    <2> QED BY <1>2, <1>4, <1>5, <2>1 DEF IInv, PassedAreMade, FilesStay
<1> HIDE DEF new
<1>6. job' \in [Workers -> Job] /\ PassedAreMade'
    BY <1>2, <1>3, <1>4, <1>5, OneJobChanges
<1>7. ReadyIsWhole'
    BY <1>4, RowStaysWhole DEF SaveFile
<1>8. MediaTypes'
    BY <1>4, <1>6 DEF IInv, MediaTypes, SaveFile
<1> QED BY <1>6, <1>7, <1>8 DEF IInv

LEMMA GeneratorFailsKeeps ==
    ASSUME IInv, NEW w \in Workers, GeneratorFails(w)
    PROVE  IInv'
<1>1. job[w] \in Job /\ job[w].next \in Generators
    BY DEF IInv, MediaTypes, GeneratorFails, Generates
<1>2. Fails(job[w]) \in Job /\ Fails(job[w]).errs
    BY <1>1, NextIsPlace DEF Fails, Job
<1>3. FilesStay /\ job' = [job EXCEPT ![w] = Fails(job[w])]
    BY DEF GeneratorFails, FilesStay, IInv, MediaTypes
<1>4. job' \in [Workers -> Job] /\ PassedAreMade'
    BY <1>2, <1>3, OneJobChanges
<1>5. ReadyIsWhole'
    BY <1>3, RowStaysWhole DEF GeneratorFails
<1>6. MediaTypes'
    BY <1>4 DEF IInv, MediaTypes, GeneratorFails
<1> QED BY <1>4, <1>5, <1>6 DEF IInv

LEMMA FinishProcessingKeeps ==
    ASSUME IInv, NEW w \in Workers, FinishProcessing(w)
    PROVE  IInv'
<1>1. job[w] \in Job /\ job[w].next = Assets + 1
    BY DEF IInv, MediaTypes, FinishProcessing, Generated
<1>2. job' \in [Workers -> Job] /\ PassedAreMade'
    BY EndsKeeps DEF FinishProcessing
<1>3. file' \in MediaFile /\ file'.noted = job[w].errs
    BY <1>1 DEF FinishProcessing, IInv, MediaTypes, MediaFile, Job
<1>4. \A i \in Generators : i < job[w].next
    BY <1>1, ProcessingAssumption DEF Generators
<1>5. ReadyIsWhole'
    BY <1>3, <1>4 DEF ReadyIsWhole, IInv, PassedAreMade, FinishProcessing
<1>6. MediaTypes'
    BY <1>2, <1>3 DEF IInv, MediaTypes, FinishProcessing
<1> QED BY <1>2, <1>5, <1>6 DEF IInv

LEMMA ProcessingRaisesKeeps ==
    ASSUME IInv, NEW w \in Workers, ProcessingRaises(w)
    PROVE  IInv'
<1>1. job' \in [Workers -> Job] /\ PassedAreMade'
    BY EndsKeeps DEF ProcessingRaises
<1>2. file' \in MediaFile /\ file'.noted
    BY DEF ProcessingRaises, IInv, MediaTypes, MediaFile
<1>3. mail' \subseteq Retries
    <2>1. job[w].msg < MaxRetries => job[w].msg + 1 \in Retries
        BY ProcessingAssumption DEF IInv, MediaTypes, Job, Retries, Idle
    <2> QED BY <2>1 DEF ProcessingRaises, IInv, MediaTypes
<1>4. ReadyIsWhole'
    BY <1>2 DEF ReadyIsWhole
<1>5. MediaTypes'
    BY <1>1, <1>2, <1>3 DEF IInv, MediaTypes, ProcessingRaises
<1> QED BY <1>1, <1>4, <1>5 DEF IInv

LEMMA DieKeeps ==
    ASSUME IInv, NEW w \in Workers, Die(w)
    PROVE  IInv'
<1>1. job' \in [Workers -> Job] /\ PassedAreMade'
    BY EndsKeeps DEF Die
<1>2. mail' \subseteq Retries
    <2>1. job[w].msg \in Retries
        BY DEF Die, IInv, MediaTypes, Job
    <2> QED BY <2>1 DEF Die, IInv, MediaTypes
<1>3. deaths' \in 0..MaxDeaths
    BY ProcessingAssumption DEF Die, IInv, MediaTypes
<1>4. MediaTypes' /\ ReadyIsWhole'
    BY <1>1, <1>2, <1>3 DEF IInv, MediaTypes, ReadyIsWhole, Die
<1> QED BY <1>1, <1>4 DEF IInv

LEMMA SweepKeeps ==
    ASSUME IInv, FindFailed \/ RetryFailed \/ FindStuck \/ FailStuck \/ GrowLate
    PROVE  IInv'
<1>1. UNCHANGED <<asset, job, deaths>>
    BY DEF FindFailed, RetryFailed, FindStuck, FailStuck, GrowLate
<1>2. PassedAreMade'
    BY <1>1 DEF IInv, PassedAreMade
<1>3. /\ file' \in MediaFile
      /\ file'.status = "READY" => UNCHANGED file
    BY DEF FindFailed, RetryFailed, FindStuck, FailStuck, GrowLate,
           IInv, MediaTypes, MediaFile
<1>4. 0 \in Retries
    BY ProcessingAssumption DEF Retries
<1>5. mail' \subseteq Retries /\ held' \subseteq {"retry", "stuck"} /\ late' \in BOOLEAN
    BY <1>4 DEF FindFailed, RetryFailed, FindStuck, FailStuck, GrowLate, IInv, MediaTypes
<1>6. MediaTypes' /\ ReadyIsWhole'
    BY <1>1, <1>3, <1>5 DEF IInv, MediaTypes, ReadyIsWhole
<1> QED BY <1>2, <1>6 DEF IInv

-----------------------------------------------------------------------------
(* What a READY file without a noted error promises its users holds        *)
(* however many workers process the file at once and wherever they die.    *)
THEOREM ReadyFilesAreWhole == MediaSpec => []ProcessingSafe
<1>1. MediaInit => IInv
    BY Initially
<1>2. IInv /\ [MediaNext]_mediaVars => IInv'
    <2> SUFFICES ASSUME IInv, [MediaNext]_mediaVars PROVE IInv'
        OBVIOUS
    <2>1. ASSUME NEW msg \in Retries, Takes(msg) PROVE IInv'
        BY <2>1, TakeProcessKeeps DEF Takes
    <2>2. ASSUME NEW w \in Workers, Works(w) PROVE IInv'
        BY <2>2, MakeRowKeeps, SaveFileKeeps, GeneratorFailsKeeps,
           FinishProcessingKeeps, ProcessingRaisesKeeps DEF Works
    <2>3. ASSUME NEW w \in Workers, Die(w) PROVE IInv'
        BY <2>3, DieKeeps
    <2>4. CASE FindFailed \/ RetryFailed \/ FindStuck \/ FailStuck \/ GrowLate
        BY <2>4, SweepKeeps
    <2>5. CASE UNCHANGED mediaVars
        BY <2>5 DEF IInv, MediaTypes, PassedAreMade, ReadyIsWhole, mediaVars
    <2> QED BY <2>1, <2>2, <2>3, <2>4, <2>5 DEF MediaNext
<1>3. IInv => ProcessingSafe
    BY DEF IInv, ProcessingSafe
<1> QED BY <1>1, <1>2, <1>3, PTL DEF MediaSpec
=============================================================================
