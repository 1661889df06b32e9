-------------------------- MODULE Scan2DriveProofs --------------------------
(***************************************************************************)
(* Safety of Scan2Drive, for every value of its constants: MarkersInOrder, *)
(* AwaitsOwnUpload, DoneIsDelivered, and that it implements JobLifecycle.  *)
(*                                                                         *)
(* processScan decides by its handle, the properties are about the disk.   *)
(* The invariant therefore says how the two are related: a handle, however *)
(* old, claims no marker that is not on disk, and the step the worker is   *)
(* at tells what must be on disk and on Drive by then.                     *)
(***************************************************************************)
EXTENDS Scan2DriveTypes

\* Whoever holds a handle, its markers are on disk.
Behind(j) == j.markers \subseteq jobDir[j.id].markers

WorkerBehindDisk == workerPc # "idle" => Behind(workerJob)

HandlesBehindDisk ==
    /\ WorkerBehindDisk
    /\ \A j \in resumeJobs : Behind(j)
    /\ \A i \in Ingester : ingest[i].pc # "idle" => Behind(ingest[i].job)

\* What is on disk when processScan has come to a step.
WorkerStage ==
    /\ workerPc \in {"originals", "pdf", "driveid", "markpdf"} =>
         "convert" \in jobDir[workerJob.id].markers
    /\ workerPc \in {"pdf", "driveid", "markpdf"} =>
         "uploadoriginals" \in jobDir[workerJob.id].markers

\* scan.pdf and its upload are there when they should be, or the user's doing.
ConvertedHasPDF ==
    \A id \in JobId :
        "convert" \in jobDir[id].markers => jobDir[id].pdf # NoFile \/ id \in deleted

WorkerHasPDF ==
    /\ workerPc = "markconvert" =>
         jobDir[workerJob.id].pdf # NoFile \/ workerJob.id \in deleted
    /\ workerPc = "driveid" => pdfs[workerJob.id] # <<>>
    /\ workerPc = "markpdf" => pdfs[workerJob.id] # <<>> \/ workerJob.id \in deleted

\* The goroutine that the worker may come to wait for is its own, and not ended.
OwnUpload(u, id) ==
    /\ u \in Upload
    /\ uploads[u].pc # "free"
    /\ uploads[u].pc # "done" => uploads[u].job = id

MayAwait ==
    \/ workerPc \in {"originals", "failing"}
    \/ workerPc \in {"convert", "markconvert"} /\ "uploadoriginals" \notin workerJob.markers

UploadAwaited == MayAwait => OwnUpload(workerUpload, workerJob.id)

SafetyInv ==
    /\ HandlesBehindDisk /\ WorkerStage
    /\ ConvertedHasPDF /\ WorkerHasPDF
    /\ UploadAwaited
    /\ MarkersInOrder /\ DoneIsDelivered

-----------------------------------------------------------------------------
(* What a step may do to the markers, to the PDFs and to deleted. *)

Recorded(id, m) ==
    \A k \in JobId :
        jobDir'[k].markers = jobDir[k].markers \cup (IF k = id THEN {m} ELSE {})

NothingRecorded == \A k \in JobId : jobDir'[k].markers = jobDir[k].markers

Silent == NothingRecorded /\ UNCHANGED <<pdfs, deleted>>

Records ==
    \E id \in JobId, m \in {"scan", "convert", "uploadoriginals"} :
        /\ Recorded(id, m) /\ UNCHANGED <<pdfs, deleted>>
        /\ m = "convert" => workerPc = "markconvert" /\ workerJob.id = id

Delivers ==
    /\ workerPc = "pdf"
    /\ NothingRecorded /\ CreatePDF(workerJob.id) /\ UNCHANGED deleted

Finishes ==
    /\ workerPc = "markpdf"
    /\ Recorded(workerJob.id, "uploadpdf") /\ UNCHANGED <<pdfs, deleted>>

Withdraws ==
    \E id \in JobId : NothingRecorded /\ deleted' = deleted \cup {id} /\ UNCHANGED pdfs

Effect == Silent \/ Records \/ Delivers \/ Finishes \/ Withdraws

\* All writes but WriteMarker leave the markers alone.
LEMMA QuietWrites ==
    ASSUME jobDir \in [JobId -> Dir], NEW id, NEW n, NEW content,
           \/ UNCHANGED jobDir \/ MakeDir(id) \/ WritePage(id, n, content)
           \/ WritePDF(id, content) \/ WriteDriveId(id, content)
    PROVE  NothingRecorded
BY DEF NothingRecorded, MakeDir, WritePage, WritePDF, WriteDriveId, Dir

LEMMA MarkerWrite ==
    ASSUME jobDir \in [JobId -> Dir], NEW id, NEW m, WriteMarker(id, m)
    PROVE  Recorded(id, m)
BY DEF Recorded, WriteMarker, Dir

LEMMA CommitFailsEffect ==
    ASSUME jobDir \in [JobId -> Dir], NEW id, NEW m, CommitFails(id, m)
    PROVE  NothingRecorded \/ Recorded(id, m)
BY MarkerWrite DEF CommitFails, NothingRecorded

LEMMA IngestEffect ==
    ASSUME TypeInv, NEW i \in Ingester, IngestStep(i)
    PROVE  Effect
<1>1. TypeOK /\ jobDir \in [JobId -> Dir]
  BY DEF TypeInv, TypeOK, QueueTypeOK
<1>2. UNCHANGED <<pdfs, deleted>>
  BY DEF IngestStep, StartJob, AddPage, AddPageError, CommitScan, CommitScanError, ReadBack,
         Enqueue, sinkVars, envVars
<1>3. SUFFICES NothingRecorded \/ Records
  BY <1>2 DEF Effect, Silent
<1>4. CASE \E s \in Scan : StartJob(i, s)
  BY <1>1, <1>4, QuietWrites DEF StartJob
<1>5. CASE AddPage(i)
  BY <1>1, <1>5, QuietWrites DEF AddPage
<1>6. CASE AddPageError(i)
  BY <1>1, <1>6, QuietWrites DEF AddPageError, AddPageFails
<1>7. CASE CommitScan(i)
  <2>1. ingest[i].job.id \in JobId
    BY <1>1, <1>7, IngesterBusy DEF CommitScan
  <2> QED BY <1>1, <1>2, <1>7, <2>1, MarkerWrite DEF CommitScan, Records
<1>8. CASE CommitScanError(i)
  <2>1. ingest[i].job.id \in JobId
    BY <1>1, <1>8, IngesterBusy DEF CommitScanError
  <2> QED BY <1>1, <1>2, <1>8, <2>1, CommitFailsEffect DEF CommitScanError, Records
<1>9. CASE ReadBack(i) \/ Enqueue(i)
  BY <1>9 DEF ReadBack, Enqueue, queueVars, NothingRecorded
<1> QED
  BY <1>4, <1>5, <1>6, <1>7, <1>8, <1>9 DEF IngestStep

LEMMA WorkerEffect ==
    ASSUME TypeInv, WorkerAction
    PROVE  Effect
<1>1. WorkerTypeOK /\ jobDir \in [JobId -> Dir] /\ UNCHANGED deleted
  BY DEF TypeInv, TypeOK, QueueTypeOK, WorkerAction, envVars
<1>2. WorkerStep
  BY DEF WorkerAction
<1>3. CASE \/ StartUpload \/ SkipUpload \/ ConvertUndecodable \/ OriginalsFailed
           \/ UploadNoPDF
  BY <1>1, <1>3 DEF StartUpload, SkipUpload, ConvertUndecodable, OriginalsFailed, UploadNoPDF,
                    queueVars, sinkVars, NothingRecorded, Effect, Silent
<1>4. CASE Convert \/ ConvertFails
  BY <1>1, <1>4, QuietWrites DEF Convert, ConvertFails, sinkVars, Effect, Silent
<1>5. CASE MarkConverted \/ MarkConvertedFails
  <2>1. workerJob.id \in JobId
    BY <1>1, <1>5, WorkerBusy DEF MarkConverted, MarkConvertedFails
  <2>2. NothingRecorded \/ Recorded(workerJob.id, "convert")
    BY <1>1, <1>5, MarkerWrite, CommitFailsEffect DEF MarkConverted, MarkConvertedFails
  <2>3. UNCHANGED pdfs /\ workerPc = "markconvert"
    BY <1>5 DEF MarkConverted, MarkConvertedFails, sinkVars
  <2> QED BY <1>1, <2>1, <2>2, <2>3 DEF Effect, Silent, Records
<1>6. CASE MarkOriginals \/ MarkOriginalsFails
  <2>1. workerJob.id \in JobId
    BY <1>1, <1>6, WorkerBusy DEF MarkOriginals, MarkOriginalsFails, AwaitsResult
  <2>2. NothingRecorded \/ Recorded(workerJob.id, "uploadoriginals")
    BY <1>1, <1>6, MarkerWrite, CommitFailsEffect DEF MarkOriginals, MarkOriginalsFails
  <2>3. UNCHANGED pdfs
    BY <1>6 DEF MarkOriginals, MarkOriginalsFails
  <2> QED BY <1>1, <2>1, <2>2, <2>3 DEF Effect, Silent, Records
<1>7. CASE UploadPDF \/ UploadPDFFails
  <2>1. NothingRecorded
    BY <1>7 DEF UploadPDF, UploadPDFFails, queueVars, NothingRecorded
  <2>2. workerPc = "pdf" /\ (UNCHANGED pdfs \/ CreatePDF(workerJob.id))
    BY <1>7 DEF UploadPDF, UploadPDFFails
  <2> QED BY <1>1, <2>1, <2>2 DEF Effect, Silent, Delivers
<1>8. CASE RecordDriveId \/ RecordDriveIdFails
  <2>1. NothingRecorded
    BY <1>1, <1>8, QuietWrites DEF RecordDriveId, RecordDriveIdFails
  <2>2. UNCHANGED pdfs
    BY <1>8 DEF RecordDriveId, RecordDriveIdFails, sinkVars
  <2> QED BY <1>1, <2>1, <2>2 DEF Effect, Silent
<1>9. CASE MarkPDF \/ MarkPDFFails
  <2>1. workerPc = "markpdf" /\ UNCHANGED pdfs
    BY <1>9 DEF MarkPDF, MarkPDFFails, sinkVars
  <2>2. NothingRecorded \/ Recorded(workerJob.id, "uploadpdf")
    BY <1>1, <1>9, MarkerWrite, CommitFailsEffect DEF MarkPDF, MarkPDFFails
  <2> QED BY <1>1, <2>1, <2>2 DEF Effect, Silent, Finishes
<1> QED
  BY <1>2, <1>3, <1>4, <1>5, <1>6, <1>7, <1>8, <1>9 DEF WorkerStep

LEMMA NextEffect ==
    ASSUME TypeInv, [Next]_vars
    PROVE  Effect
<1>1. jobDir \in [JobId -> Dir]
  BY DEF TypeInv, TypeOK, QueueTypeOK
<1>2. CASE UNCHANGED vars
  BY <1>2 DEF vars, queueVars, sinkVars, envVars, Effect, Silent, NothingRecorded
<1>3. CASE \E i \in Ingester : IngestStep(i)
  BY <1>3, IngestEffect
<1>4. CASE ResumeStep
  BY <1>4 DEF ResumeStep, WakeUp, ReadJob, ReadJobError, EnqueueUnfinished, queueVars, sinkVars,
              envVars, Effect, Silent, NothingRecorded
<1>5. CASE \E u \in Upload : UploadAction(u)
  BY <1>5 DEF UploadAction, UploadStep, ListFiles, FindFolder, FindFolderFails, TrashFolder,
              TrashFolderFails, CreateFolder, CreateFolderFails, UploadFile, UploadFileFails,
              queueVars, envVars, Effect, Silent, NothingRecorded
<1>6. CASE Crash
  <2>1. NothingRecorded
    BY <1>1, <1>6, QuietWrites DEF Crash, TornWrite
  <2> QED BY <1>6, <2>1 DEF Crash, Effect, Silent
<1>7. CASE \E id \in JobId : DeletePDF(id)
  BY <1>1, <1>7, QuietWrites DEF DeletePDF, sinkVars, Effect, Withdraws
<1> QED
  BY <1>2, <1>3, <1>4, <1>5, <1>6, <1>7, WorkerEffect DEF Next, Environment


LEMMA MarkersGrow ==
    ASSUME TypeInv, [Next]_vars, NEW id \in JobId
    PROVE  jobDir[id].markers \subseteq jobDir'[id].markers
BY NextEffect DEF Effect, Silent, Records, Delivers, Finishes, Withdraws, NothingRecorded,
                  Recorded

-----------------------------------------------------------------------------
(* Handles are never ahead of the disk. *)

LEMMA BehindGrows ==
    ASSUME TypeInv, [Next]_vars, NEW j \in Handle, Behind(j)
    PROVE  j.markers \subseteq jobDir'[j.id].markers
<1>1. j.id \in JobId
  BY DEF Handle
<1> QED
  BY <1>1, MarkersGrow DEF Behind

LEMMA ReadStateBehind ==
    ASSUME NEW j \in Handle, NEW d \in Dir, NEW M, j.markers \subseteq M, d.markers \subseteq M
    PROVE  ReadState(j, d).markers \subseteq M
BY DEF ReadState, Handle, Dir

\* A handle after CommitMarker is what is on disk then.
LEMMA CommittedBehind ==
    ASSUME jobDir \in [JobId -> Dir], NEW j \in Handle, NEW m \in Marker, Behind(j),
           WriteMarker(j.id, m)
    PROVE  /\ Committed(j, m).markers \subseteq jobDir'[j.id].markers
           /\ m \in jobDir'[j.id].markers
<1>1. j.id \in JobId
  BY DEF Handle
<1>2. Recorded(j.id, m)
  BY MarkerWrite
<1>3. jobDir'[j.id].markers = jobDir[j.id].markers \cup {m}
  BY <1>1, <1>2 DEF Recorded
<1> DEFINE d == [jobDir[j.id] EXCEPT !.markers = @ \cup {m}]
<1>4. d \in Dir /\ d.markers = jobDir[j.id].markers \cup {m}
  BY <1>1 DEF Dir
<1> HIDE DEF d
<1>5. ReadState(j, d).markers \subseteq jobDir'[j.id].markers
  BY <1>3, <1>4, ReadStateBehind DEF Behind
<1> QED
  BY <1>3, <1>5 DEF Committed, d

\* The steps of processScan that are skipped are those the handle says are done.
LEMMA SkippedSteps ==
    ASSUME NEW j
    PROVE  /\ AfterOriginals(j) \in {"idle", "pdf"}
           /\ AfterConvert(j) \in {"idle", "pdf", "originals"}
           /\ AfterConvert(j) = "originals" <=> "uploadoriginals" \notin j.markers
           /\ AfterSpawn(j) \in {"idle", "pdf", "originals", "convert"}
           /\ AfterSpawn(j) \in {"pdf", "originals"} => "convert" \in j.markers
           /\ AfterSpawn(j) = "pdf" => "uploadoriginals" \in j.markers
BY DEF AfterSpawn, AfterConvert, AfterOriginals

LEMMA ContinueStage ==
    ASSUME NEW pc, NEW j, NEW u, Continue(pc, j, u),
           pc # "idle" => j.markers \subseteq jobDir'[j.id].markers,
           pc \in {"originals", "pdf", "driveid", "markpdf"} =>
              "convert" \in jobDir'[j.id].markers,
           pc \in {"pdf", "driveid", "markpdf"} => "uploadoriginals" \in jobDir'[j.id].markers
    PROVE  WorkerBehindDisk' /\ WorkerStage'
BY DEF Continue, WorkerBehindDisk, Behind, WorkerStage

LEMMA ReturnStage ==
    ASSUME ReturnFromProcessScan
    PROVE  WorkerBehindDisk' /\ WorkerStage'
BY DEF ReturnFromProcessScan, Continue, WorkerBehindDisk, WorkerStage

LEMMA WorkerStageStep ==
    ASSUME TypeInv, WorkerBehindDisk, WorkerStage, WorkerAction
    PROVE  WorkerBehindDisk' /\ WorkerStage'
<1>1. WorkerTypeOK /\ jobDir \in [JobId -> Dir]
  BY DEF TypeInv, TypeOK, QueueTypeOK
<1>2. WorkerStep /\ [Next]_vars
  BY DEF WorkerAction, Next
<1> DEFINE id == workerJob.id
<1>3. workerPc # "idle"
  BY <1>2 DEF WorkerStep, StartUpload, SkipUpload, Convert, ConvertUndecodable, ConvertFails,
              MarkConverted, MarkConvertedFails, MarkOriginals, MarkOriginalsFails,
              OriginalsFailed, UploadPDF, UploadNoPDF, UploadPDFFails, RecordDriveId,
              RecordDriveIdFails, MarkPDF, MarkPDFFails, AwaitsResult
<1>4. workerJob \in Handle /\ id \in JobId /\ Behind(workerJob)
  BY <1>1, <1>3, WorkerBusy DEF WorkerBehindDisk
<1>5. workerJob.markers \subseteq jobDir'[id].markers
  BY <1>2, <1>4, BehindGrows
<1>6. jobDir[id].markers \subseteq jobDir'[id].markers
  BY <1>2, <1>4, MarkersGrow
<1> HIDE DEF id
<1>7. CASE StartUpload \/ SkipUpload
  <2>1. PICK u : Continue(AfterSpawn(workerJob), workerJob, u)
    BY <1>7 DEF StartUpload, SkipUpload
  <2>2. AfterSpawn(workerJob) \in {"pdf", "originals"} => "convert" \in workerJob.markers
    BY SkippedSteps
  <2>3. AfterSpawn(workerJob) = "pdf" => "uploadoriginals" \in workerJob.markers
    BY SkippedSteps
  <2>4. AfterSpawn(workerJob) \in {"idle", "pdf", "originals", "convert"}
    BY SkippedSteps
  <2> QED BY <1>5, <2>1, <2>2, <2>3, <2>4, ContinueStage DEF id
<1>8. CASE Convert
  BY <1>5, <1>8, ContinueStage DEF Convert, id
<1>9. CASE ConvertUndecodable \/ ConvertFails
  <2>1. PICK pc \in {"idle", "failing"} : Continue(pc, workerJob, workerUpload)
    BY <1>9 DEF ConvertUndecodable, ConvertFails, ConvertError
  <2> QED BY <1>5, <2>1, ContinueStage DEF id
<1>10. CASE MarkConverted
  <2> DEFINE j == Committed(workerJob, "convert")
  <2>1. PICK u : Continue(AfterConvert(j), j, u)
    BY <1>10 DEF MarkConverted
  <2>2. j.markers \subseteq jobDir'[id].markers /\ "convert" \in jobDir'[id].markers
    BY <1>1, <1>4, <1>10, CommittedBehind DEF MarkConverted, Marker, id
  <2>3. j.id = id
    BY <1>1, <1>4, CommittedType DEF Marker, id
  <2>4. /\ AfterConvert(j) \in {"idle", "pdf", "originals"}
        /\ AfterConvert(j) = "originals" <=> "uploadoriginals" \notin j.markers
    BY SkippedSteps
  <2> HIDE DEF j
  <2> QED BY <2>1, <2>2, <2>3, <2>4, ContinueStage
<1>11. CASE MarkOriginals
  <2> DEFINE j == Committed(workerJob, "uploadoriginals")
             pc == IF workerPc = "failing" THEN "idle" ELSE AfterOriginals(j)
  <2>1. Continue(pc, j, NoUpload)
    BY <1>11 DEF MarkOriginals
  <2>2. j.markers \subseteq jobDir'[id].markers /\ "uploadoriginals" \in jobDir'[id].markers
    BY <1>1, <1>4, <1>11, CommittedBehind DEF MarkOriginals, Marker, id
  <2>3. j.id = id
    BY <1>1, <1>4, CommittedType DEF Marker, id
  <2>4. pc \in {"idle", "pdf"} /\ (pc = "pdf" => workerPc = "originals")
    BY <1>11, SkippedSteps DEF MarkOriginals, AwaitsResult
  <2>5. pc = "pdf" => "convert" \in jobDir'[id].markers
    BY <1>6, <2>4 DEF WorkerStage, id
  <2> HIDE DEF j, pc
  <2> QED BY <2>1, <2>2, <2>3, <2>4, <2>5, ContinueStage
<1>12. CASE \/ MarkConvertedFails \/ MarkOriginalsFails \/ OriginalsFailed \/ UploadPDFFails
            \/ RecordDriveIdFails \/ MarkPDF \/ MarkPDFFails
  BY <1>12, ReturnStage DEF MarkConvertedFails, MarkOriginalsFails, OriginalsFailed,
       UploadPDFFails, RecordDriveIdFails, MarkPDF, MarkPDFFails
<1>13. CASE UploadPDF \/ UploadNoPDF
  <2>1. PICK pc \in {"driveid", "markpdf"} : Continue(pc, workerJob, NoUpload)
    BY <1>13 DEF UploadPDF, UploadNoPDF
  <2>2. {"convert", "uploadoriginals"} \subseteq jobDir'[id].markers
    BY <1>6, <1>13 DEF UploadPDF, UploadNoPDF, WorkerStage, id
  <2> QED BY <1>5, <2>1, <2>2, ContinueStage DEF id
<1>14. CASE RecordDriveId
  <2> DEFINE j == ReadState(workerJob, jobDir[id])
  <2>1. Continue("markpdf", j, NoUpload)
    BY <1>14 DEF RecordDriveId, id
  <2>2. j.id = id
    BY <1>1, <1>4, ReadStateType DEF id
  <2>3. j.markers \subseteq jobDir'[id].markers
    BY <1>1, <1>4, <1>5, <1>6, ReadStateBehind
  <2>4. {"convert", "uploadoriginals"} \subseteq jobDir'[id].markers
    BY <1>6, <1>14 DEF RecordDriveId, WorkerStage, id
  <2> HIDE DEF j
  <2> QED BY <2>1, <2>2, <2>3, <2>4, ContinueStage
<1> QED
  BY <1>2, <1>7, <1>8, <1>9, <1>10, <1>11, <1>12, <1>13, <1>14 DEF WorkerStep


LEMMA WorkerKept ==
    ASSUME TypeInv, [Next]_vars, WorkerBehindDisk, WorkerStage, UNCHANGED workerVars
    PROVE  WorkerBehindDisk' /\ WorkerStage'
<1>1. CASE workerPc = "idle"
  BY <1>1 DEF WorkerBehindDisk, WorkerStage, workerVars
<1>2. CASE workerPc # "idle"
  <2>1. workerJob \in Handle /\ workerJob.id \in JobId
    BY <1>2, WorkerBusy DEF TypeInv, TypeOK
  <2>2. workerJob.markers \subseteq jobDir'[workerJob.id].markers
    BY <1>2, <2>1, BehindGrows DEF WorkerBehindDisk
  <2>3. jobDir[workerJob.id].markers \subseteq jobDir'[workerJob.id].markers
    BY <2>1, MarkersGrow
  <2> QED BY <2>2, <2>3 DEF WorkerBehindDisk, Behind, WorkerStage, workerVars
<1> QED
  BY <1>1, <1>2

LEMMA WorkerReceives ==
    ASSUME TypeInv, [Next]_vars, NEW j \in Handle, Behind(j), Receive(j)
    PROVE  WorkerBehindDisk' /\ WorkerStage'
BY BehindGrows, ContinueStage DEF Receive

LEMMA ResumeKept ==
    ASSUME TypeInv, [Next]_vars, \A j \in resumeJobs : Behind(j),
           resumeJobs' \subseteq resumeJobs
    PROVE  (\A j \in resumeJobs : Behind(j))'
BY BehindGrows DEF TypeInv, TypeOK, Behind

LEMMA IngestKept ==
    ASSUME TypeInv, [Next]_vars, NEW i \in Ingester,
           ingest[i].pc # "idle" => Behind(ingest[i].job),
           ingest'[i].pc # "idle" => /\ ingest[i].pc # "idle"
                                     /\ ingest'[i].job.id = ingest[i].job.id
                                     /\ ingest'[i].job.markers = ingest[i].job.markers
    PROVE  (ingest[i].pc # "idle" => Behind(ingest[i].job))'
<1> SUFFICES ASSUME ingest'[i].pc # "idle" PROVE Behind(ingest[i].job)'
  OBVIOUS
<1>1. ingest[i].job \in Handle
  BY IngesterBusy DEF TypeInv
<1>2. ingest[i].job.markers \subseteq jobDir'[ingest[i].job.id].markers
  BY <1>1, BehindGrows
<1> QED
  BY <1>2 DEF Behind

LEMMA JobByIdBehind ==
    ASSUME NEW id \in JobId, jobDir \in [JobId -> Dir]
    PROVE  Behind(JobById(id))
<1> DEFINE d == jobDir[id]
           j == ReadState(NewHandle(id), d)
<1>1. NewHandle(id) \in Handle /\ NewHandle(id).markers = {} /\ NewHandle(id).id = id
  BY NewHandleType DEF NewHandle
<1>2. j \in Handle /\ j.markers \subseteq d.markers
  BY <1>1, ReadStateType, ReadStateBehind
<1>3. /\ [j EXCEPT !.state = "Done"].markers = j.markers
      /\ [j EXCEPT !.pages = LoadPages(d)].markers = j.markers
  <2> HIDE DEF j
  <2> QED BY <1>2 DEF Handle
<1>4. JobById(id) = IF IsDone(j) THEN [j EXCEPT !.state = "Done"]
                    ELSE IF j.state = "InProgress" THEN [j EXCEPT !.pages = LoadPages(d)]
                    ELSE j
  BY DEF JobById
<1>5. JobById(id).markers = j.markers
  <2> HIDE DEF j
  <2> QED BY <1>3, <1>4
<1> QED
  BY <1>2, <1>5, JobByIdType DEF Behind

LEMMA IngestStepHandles ==
    ASSUME TypeInv, HandlesBehindDisk, WorkerStage, NEW i \in Ingester, IngestStep(i)
    PROVE  HandlesBehindDisk' /\ WorkerStage'
<1>1. /\ TypeOK /\ [Next]_vars /\ jobDir \in [JobId -> Dir]
      /\ ingest \in [Ingester -> IngestState]
  BY DEF TypeInv, TypeOK, QueueTypeOK, Next
<1>2. /\ WorkerBehindDisk /\ \A j \in resumeJobs : Behind(j)
      /\ \A k \in Ingester : ingest[k].pc # "idle" => Behind(ingest[k].job)
  BY DEF HandlesBehindDisk
<1>3. WorkerBehindDisk' /\ WorkerStage'
  <2>1. CASE Enqueue(i)
    <3>1. ingest[i].job \in Handle /\ Behind(ingest[i].job) /\ Receive(ingest[i].job)
      BY <1>1, <1>2, <2>1, IngesterBusy DEF Enqueue
    <3> QED BY <1>1, <3>1, WorkerReceives
  <2>2. CASE ~Enqueue(i)
    <3>1. UNCHANGED workerVars
      BY <2>2 DEF IngestStep, StartJob, AddPage, AddPageError, CommitScan, CommitScanError,
                  ReadBack
    <3> QED BY <1>1, <1>2, <3>1, WorkerKept
  <2> QED BY <2>1, <2>2
<1>4. (\A j \in resumeJobs : Behind(j))'
  <2>1. resumeJobs' = resumeJobs
    BY DEF IngestStep, StartJob, AddPage, AddPageError, CommitScan, CommitScanError, ReadBack,
           Enqueue, resumeVars
  <2> QED BY <1>1, <1>2, <2>1, ResumeKept
<1>5. (ingest[i].pc # "idle" => Behind(ingest[i].job))'
  <2>1. CASE \E s \in Scan : StartJob(i, s)
    <3>1. PICK s \in Scan, id \in NewIds :
             ingest' = [ingest EXCEPT ![i] = [pc |-> AfterPages(s, 0), scan |-> s,
                                              job |-> NewHandle(id)]]
      BY <2>1 DEF StartJob
    <3>2. ingest'[i].job.markers = {}
      BY <1>1, <3>1 DEF NewHandle
    <3> QED BY <3>2 DEF Behind
  <2>2. CASE AddPage(i)
    <3> DEFINE s == ingest[i].scan
               n == NextPage(i)
               new == [ingest[i] EXCEPT !.pc = AfterPages(s, n),
                                        !.job.pages = Append(@, <<s, n>>)]
    <3>1. ingest'[i] = new
      BY <1>1, <2>2 DEF AddPage
    <3>2. /\ ingest[i] \in [pc : {"addpage", "commit", "readback", "send"},
                            scan : Scan, job : Handle]
          /\ ingest[i].job \in Handle
      BY <1>1, <2>2, IngesterBusy DEF AddPage
    <3>3. new.job.id = ingest[i].job.id /\ new.job.markers = ingest[i].job.markers
      <4> HIDE DEF s, n
      <4> QED BY <3>2 DEF Handle
    <3>4. ingest[i].pc # "idle"
      BY <2>2 DEF AddPage
    <3> HIDE DEF new
    <3> QED BY <1>1, <1>2, <3>1, <3>3, <3>4, IngestKept
  <2>3. CASE CommitScan(i)
    <3>1. ingest[i].pc # "idle" /\ ingest'[i].job = ingest[i].job
      BY <1>1, <2>3, IngesterBusy DEF CommitScan
    <3> QED BY <1>1, <1>2, <3>1, IngestKept
  <2>4. CASE ReadBack(i)
    <3> DEFINE j == ingest[i].job
               r == ReadState(j, jobDir[j.id])
               new == [ingest[i] EXCEPT !.pc = "send", !.job = [r EXCEPT !.state = "InProgress"]]
    <3>1. /\ ingest[i] \in [pc : {"addpage", "commit", "readback", "send"},
                            scan : Scan, job : Handle]
          /\ j \in Handle /\ j.id \in JobId /\ Behind(j)
      BY <1>1, <1>2, <2>4, IngesterBusy DEF ReadBack
    <3>2. r \in Handle /\ r.id = j.id
      BY <1>1, <3>1, ReadStateType
    <3>3. r.markers \subseteq jobDir[j.id].markers
      BY <1>1, <3>1, ReadStateBehind DEF Behind
    <3>4. ingest'[i] = new /\ jobDir' = jobDir
      BY <1>1, <2>4 DEF ReadBack, queueVars
    <3>5. new.job.markers = r.markers /\ new.job.id = r.id
      <4> HIDE DEF r, j
      <4> QED BY <3>1, <3>2 DEF Handle
    <3> HIDE DEF r, new
    <3> QED BY <3>2, <3>3, <3>4, <3>5 DEF Behind
  <2>5. CASE AddPageError(i) \/ CommitScanError(i) \/ Enqueue(i)
    <3>1. ingest'[i] = NoIngest
      BY <1>1, <2>5 DEF AddPageError, CommitScanError, Enqueue, GiveUp
    <3> QED BY <3>1 DEF NoIngest
  <2> QED BY <2>1, <2>2, <2>3, <2>4, <2>5 DEF IngestStep
<1>6. ASSUME NEW k \in Ingester, k # i
      PROVE  (ingest[k].pc # "idle" => Behind(ingest[k].job))'
  <2>1. ingest'[k] = ingest[k]
    BY <1>1, <1>6 DEF IngestStep, StartJob, AddPage, AddPageError, CommitScan, CommitScanError,
                      ReadBack, Enqueue, GiveUp
  <2> QED BY <1>1, <1>2, <2>1, IngestKept
<1> QED
  BY <1>3, <1>4, <1>5, <1>6 DEF HandlesBehindDisk


LEMMA ResumeStepHandles ==
    ASSUME TypeInv, HandlesBehindDisk, WorkerStage, ResumeStep
    PROVE  HandlesBehindDisk' /\ WorkerStage'
<1>1. /\ [Next]_vars /\ jobDir \in [JobId -> Dir]
      /\ resumeTodo \subseteq JobId /\ resumeJobs \subseteq Handle
  BY DEF TypeInv, TypeOK, QueueTypeOK, Next
<1>2. /\ WorkerBehindDisk /\ \A j \in resumeJobs : Behind(j)
      /\ \A k \in Ingester : ingest[k].pc # "idle" => Behind(ingest[k].job)
  BY DEF HandlesBehindDisk
<1>3. ASSUME NEW k \in Ingester
      PROVE  (ingest[k].pc # "idle" => Behind(ingest[k].job))'
  <2>1. ingest' = ingest
    BY DEF ResumeStep, WakeUp, ReadJob, ReadJobError, EnqueueUnfinished, ingestVars
  <2> QED BY <1>1, <1>2, <2>1, IngestKept
<1>4. CASE WakeUp \/ ReadJobError
  <2>1. UNCHANGED workerVars /\ resumeJobs' \subseteq resumeJobs
    BY <1>4 DEF WakeUp, ReadJobError
  <2> QED BY <1>1, <1>2, <1>3, <2>1, WorkerKept, ResumeKept DEF HandlesBehindDisk
<1>5. CASE ReadJob
  <2>1. PICK id \in resumeTodo : resumeJobs' \subseteq resumeJobs \cup {JobById(id)}
    BY <1>5 DEF ReadJob
  <2>2. jobDir' = jobDir /\ UNCHANGED workerVars
    BY <1>5 DEF ReadJob, queueVars
  <2>3. Behind(JobById(id))
    BY <1>1, JobByIdBehind
  <2>4. (\A j \in resumeJobs : Behind(j))'
    BY <1>2, <2>1, <2>2, <2>3 DEF Behind
  <2> QED BY <1>1, <1>2, <1>3, <2>2, <2>4, WorkerKept DEF HandlesBehindDisk
<1>6. CASE EnqueueUnfinished
  <2>1. PICK j \in resumeJobs : Receive(j) /\ resumeJobs' = resumeJobs \ {j}
    BY <1>6 DEF EnqueueUnfinished
  <2>2. WorkerBehindDisk' /\ WorkerStage'
    BY <1>1, <1>2, <2>1, WorkerReceives
  <2> QED BY <1>1, <1>2, <1>3, <2>1, <2>2, ResumeKept DEF HandlesBehindDisk
<1> QED
  BY <1>4, <1>5, <1>6 DEF ResumeStep

LEMMA HandlesStep ==
    ASSUME TypeInv, HandlesBehindDisk, WorkerStage, [Next]_vars
    PROVE  HandlesBehindDisk' /\ WorkerStage'
<1>1. /\ WorkerBehindDisk /\ \A j \in resumeJobs : Behind(j)
      /\ \A k \in Ingester : ingest[k].pc # "idle" => Behind(ingest[k].job)
  BY DEF HandlesBehindDisk
<1>2. ASSUME UNCHANGED <<ingest, resumeJobs>>, WorkerBehindDisk' /\ WorkerStage'
      PROVE  HandlesBehindDisk' /\ WorkerStage'
  BY <1>1, <1>2, ResumeKept, IngestKept DEF HandlesBehindDisk
<1>3. CASE UNCHANGED vars
  BY <1>1, <1>2, <1>3, WorkerKept DEF vars, ingestVars, resumeVars
<1>4. CASE \E i \in Ingester : IngestStep(i)
  BY <1>4, IngestStepHandles
<1>5. CASE WorkerAction
  BY <1>1, <1>2, <1>5, WorkerStageStep DEF WorkerAction, ingestVars, resumeVars
<1>6. CASE \E u \in Upload : UploadAction(u)
  BY <1>1, <1>2, <1>6, WorkerKept DEF UploadAction, ingestVars, resumeVars
<1>7. CASE Crash
  BY <1>7 DEF Crash, HandlesBehindDisk, WorkerBehindDisk, WorkerStage, NoIngest
<1>8. CASE \E id \in JobId : DeletePDF(id)
  BY <1>1, <1>2, <1>8, WorkerKept DEF DeletePDF, ingestVars, resumeVars
<1> QED
  BY <1>3, <1>4, <1>5, <1>6, <1>7, <1>8, ResumeStepHandles DEF Next, Environment

-----------------------------------------------------------------------------
(* scan.pdf is there until the user deletes it. *)

KeepsPDFs ==
    /\ deleted \subseteq deleted'
    /\ \A id \in JobId : jobDir[id].pdf # NoFile => jobDir'[id].pdf # NoFile \/ id \in deleted'

\* No write but the user's removes a scan.pdf.
LEMMA WritesKeepPDFs ==
    ASSUME jobDir \in [JobId -> Dir], NEW id, NEW n, NEW m, NEW content, NEW pdf, pdf # NoFile,
           \/ UNCHANGED jobDir \/ MakeDir(id) \/ WritePage(id, n, content)
           \/ WritePDF(id, pdf) \/ WriteDriveId(id, content) \/ WriteMarker(id, m)
    PROVE  \A k \in JobId : jobDir[k].pdf # NoFile => jobDir'[k].pdf # NoFile
BY DEF MakeDir, WritePage, WritePDF, WriteDriveId, WriteMarker, Dir

LEMMA NextKeepsPDFs ==
    ASSUME TypeInv, [Next]_vars
    PROVE  KeepsPDFs
<1>1. TypeOK /\ jobDir \in [JobId -> Dir] /\ WorkerTypeOK
  BY DEF TypeInv, TypeOK, QueueTypeOK
<1>2. Empty # NoFile
  BY FileAssumption
<1>3. CASE UNCHANGED vars
  BY <1>3 DEF vars, queueVars, envVars, KeepsPDFs
<1>4. CASE \E i \in Ingester : IngestStep(i)
  <2>1. PICK i \in Ingester : IngestStep(i)
    BY <1>4
  <2>2. UNCHANGED deleted
    BY <2>1 DEF IngestStep, StartJob, AddPage, AddPageError, CommitScan, CommitScanError,
                ReadBack, Enqueue, envVars
  <2>3. \E id, n, m, content : \/ UNCHANGED jobDir \/ MakeDir(id) \/ WritePage(id, n, content)
                               \/ WriteMarker(id, m)
    BY <2>1 DEF IngestStep, StartJob, AddPage, AddPageError, AddPageFails, CommitScan,
                CommitScanError, CommitFails, ReadBack, Enqueue, queueVars
  <2> QED BY <1>1, <1>2, <2>2, <2>3, WritesKeepPDFs DEF KeepsPDFs
<1>5. CASE ResumeStep
  BY <1>5 DEF ResumeStep, WakeUp, ReadJob, ReadJobError, EnqueueUnfinished, queueVars, envVars,
              KeepsPDFs
<1>6. CASE WorkerAction
  <2>1. UNCHANGED deleted /\ WorkerStep
    BY <1>6 DEF WorkerAction, envVars
  <2>2. CASE Convert \/ ConvertFails
    <3>1. workerJob.pages \in Seq(Page)
      BY <1>1, <2>2, WorkerBusy DEF Convert, ConvertFails
    <3>2. Converted(workerJob.pages) # NoFile
      BY <3>1, ConvertedType, PDFAssumption
    <3>3. \/ UNCHANGED jobDir \/ WritePDF(workerJob.id, Empty)
          \/ WritePDF(workerJob.id, Converted(workerJob.pages))
      BY <2>2 DEF Convert, ConvertFails
    <3> QED BY <1>1, <1>2, <2>1, <3>2, <3>3, WritesKeepPDFs DEF KeepsPDFs
  <2>3. CASE ~(Convert \/ ConvertFails)
    <3>1. \E id, m, driveId : UNCHANGED jobDir \/ WriteMarker(id, m) \/ WriteDriveId(id, driveId)
      BY <2>1, <2>3 DEF WorkerStep, StartUpload, SkipUpload, ConvertUndecodable, MarkConverted,
            MarkConvertedFails, MarkOriginals, MarkOriginalsFails, OriginalsFailed, UploadPDF,
            UploadNoPDF, UploadPDFFails, RecordDriveId, RecordDriveIdFails, MarkPDF,
            MarkPDFFails, CommitFails, queueVars
    <3> QED BY <1>1, <1>2, <2>1, <3>1, WritesKeepPDFs DEF KeepsPDFs
  <2> QED BY <2>2, <2>3
<1>7. CASE \E u \in Upload : UploadAction(u)
  BY <1>7 DEF UploadAction, UploadStep, ListFiles, FindFolder, FindFolderFails, TrashFolder,
              TrashFolderFails, CreateFolder, CreateFolderFails, UploadFile, UploadFileFails,
              queueVars, envVars, KeepsPDFs
<1>8. CASE Crash
  <2>1. UNCHANGED deleted
    BY <1>8 DEF Crash
  <2>2. \E id, n : \/ UNCHANGED jobDir \/ WritePage(id, n, Empty)
                   \/ WritePDF(id, Empty) \/ WriteDriveId(id, 0)
    BY <1>8 DEF Crash, TornWrite
  <2> QED BY <1>1, <1>2, <2>1, <2>2, WritesKeepPDFs DEF KeepsPDFs
<1>9. CASE \E id \in JobId : DeletePDF(id)
  <2>1. PICK id \in JobId : DeletePDF(id)
    BY <1>9
  <2>2. deleted' = deleted \cup {id} /\ \A k \in JobId \ {id} : jobDir'[k] = jobDir[k]
    BY <1>1, <2>1 DEF DeletePDF, WritePDF
  <2> QED BY <2>2 DEF KeepsPDFs
<1> QED
  BY <1>3, <1>4, <1>5, <1>6, <1>7, <1>8, <1>9 DEF Next, Environment


\* PDFs on Drive are never deleted.
LEMMA NextKeepsDelivered ==
    ASSUME TypeInv, [Next]_vars, NEW id \in JobId, pdfs[id] # <<>>
    PROVE  pdfs'[id] # <<>>
<1>1. pdfs \in [JobId -> Seq(PDF \cup {Empty})]
  BY DEF TypeInv, TypeOK, SinkTypeOK
<1>2. UNCHANGED pdfs \/ CreatePDF(workerJob.id)
  BY NextEffect DEF Effect, Silent, Records, Delivers, Finishes, Withdraws
<1>3. CASE UNCHANGED pdfs
  BY <1>3
<1>4. CASE CreatePDF(workerJob.id)
  <2> DEFINE S == PDF \cup {Empty}
             content == jobDir[workerJob.id].pdf
  <2>1. pdfs' = [pdfs EXCEPT ![workerJob.id] = Append(@, content)]
    BY <1>4 DEF CreatePDF
  <2>2. pdfs'[id] = IF id = workerJob.id THEN Append(pdfs[id], content) ELSE pdfs[id]
    BY <1>1, <2>1
  <2>3. pdfs[id] \in Seq(S)
    BY <1>1
  <2> HIDE DEF S, content
  <2>4. Append(pdfs[id], content) # <<>>
    BY <2>3
  <2> QED BY <2>2, <2>4
<1> QED
  BY <1>2, <1>3, <1>4

LEMMA ConvertedStep ==
    ASSUME TypeInv, ConvertedHasPDF, WorkerHasPDF, [Next]_vars
    PROVE  ConvertedHasPDF'
<1>1. SUFFICES ASSUME NEW id \in JobId, "convert" \in jobDir'[id].markers
               PROVE  jobDir'[id].pdf # NoFile \/ id \in deleted'
  BY DEF ConvertedHasPDF
<1>2. SUFFICES jobDir[id].pdf # NoFile \/ id \in deleted
  BY NextKeepsPDFs DEF KeepsPDFs
<1>3. CASE "convert" \in jobDir[id].markers
  BY <1>3 DEF ConvertedHasPDF
<1>4. CASE "convert" \notin jobDir[id].markers
  <2>1. workerPc = "markconvert" /\ workerJob.id = id
    BY <1>1, <1>4, NextEffect DEF Effect, Silent, Records, Delivers, Finishes, Withdraws,
                                  NothingRecorded, Recorded
  <2> QED BY <2>1 DEF WorkerHasPDF
<1> QED
  BY <1>3, <1>4

LEMMA WorkerPDFKept ==
    ASSUME TypeInv, WorkerHasPDF, [Next]_vars, UNCHANGED workerVars
    PROVE  WorkerHasPDF'
<1>1. CASE workerPc \in {"markconvert", "driveid", "markpdf"}
  <2>1. workerJob.id \in JobId
    BY <1>1, WorkerBusy DEF TypeInv, TypeOK
  <2> QED BY <2>1, NextKeepsPDFs, NextKeepsDelivered DEF KeepsPDFs, WorkerHasPDF, workerVars
<1>2. CASE workerPc \notin {"markconvert", "driveid", "markpdf"}
  BY <1>2 DEF WorkerHasPDF, workerVars
<1> QED
  BY <1>1, <1>2

LEMMA WorkerPDFStep ==
    ASSUME TypeInv, WorkerStage, ConvertedHasPDF, WorkerHasPDF, WorkerAction
    PROVE  WorkerHasPDF'
<1>1. /\ WorkerTypeOK /\ jobDir \in [JobId -> Dir] /\ UNCHANGED deleted
      /\ pdfs \in [JobId -> Seq(PDF \cup {Empty})]
      /\ WorkerStep /\ [Next]_vars
  BY DEF TypeInv, TypeOK, QueueTypeOK, SinkTypeOK, WorkerAction, envVars, Next
<1>2. CASE workerPc' \notin {"markconvert", "driveid", "markpdf"}
  BY <1>2 DEF WorkerHasPDF
<1>3. CASE workerPc' \in {"markconvert", "driveid", "markpdf"}
  <2>1. Convert \/ UploadPDF \/ UploadNoPDF \/ RecordDriveId
    BY <1>1, <1>3, SkippedSteps DEF WorkerStep, StartUpload, SkipUpload, ConvertUndecodable,
          ConvertFails, ConvertError, MarkConverted, MarkConvertedFails, MarkOriginals,
          MarkOriginalsFails, OriginalsFailed, UploadPDFFails, RecordDriveIdFails, MarkPDF,
          MarkPDFFails, ReturnFromProcessScan, Continue
  <2>2. workerJob \in Handle /\ workerJob.id \in JobId /\ workerJob.pages \in Seq(Page)
    BY <1>1, <2>1, WorkerBusy DEF Convert, UploadPDF, UploadNoPDF, RecordDriveId
  <2>3. CASE Convert
    <3>1. Converted(workerJob.pages) # NoFile
      BY <2>2, ConvertedType, PDFAssumption
    <3>2. jobDir'[workerJob.id].pdf # NoFile
      BY <1>1, <2>2, <2>3, <3>1 DEF Convert, WritePDF, Dir
    <3> QED BY <2>3, <3>2 DEF Convert, Continue, WorkerHasPDF
  <2>4. CASE UploadPDF
    <3> DEFINE S == PDF \cup {Empty}
               content == jobDir[workerJob.id].pdf
    <3>1. pdfs'[workerJob.id] = Append(pdfs[workerJob.id], content)
      BY <1>1, <2>2, <2>4 DEF UploadPDF, CreatePDF
    <3>2. pdfs[workerJob.id] \in Seq(S)
      BY <1>1, <2>2
    <3>3. pdfs'[workerJob.id] # <<>>
      <4> HIDE DEF S, content
      <4> QED BY <3>1, <3>2
    <3> QED BY <2>4, <3>3 DEF UploadPDF, Continue, WorkerHasPDF
  <2>5. CASE UploadNoPDF
    <3>1. "convert" \in jobDir[workerJob.id].markers
      BY <2>5 DEF UploadNoPDF, WorkerStage
    <3>2. workerJob.id \in deleted
      BY <2>2, <2>5, <3>1 DEF UploadNoPDF, ConvertedHasPDF
    <3> QED BY <1>1, <2>5, <3>2 DEF UploadNoPDF, Continue, WorkerHasPDF
  <2>6. CASE RecordDriveId
    <3>1. ReadState(workerJob, jobDir[workerJob.id]).id = workerJob.id
      BY <1>1, <2>2, ReadStateType
    <3>2. pdfs'[workerJob.id] # <<>>
      BY <2>6 DEF RecordDriveId, sinkVars, WorkerHasPDF
    <3> QED BY <2>6, <3>1, <3>2 DEF RecordDriveId, Continue, WorkerHasPDF
  <2> QED BY <2>1, <2>3, <2>4, <2>5, <2>6
<1> QED
  BY <1>2, <1>3

\* Steps that are not the worker's own leave it alone, reset it or hand it a job.
LEMMA OthersAndWorker ==
    ASSUME [Next]_vars, ~WorkerAction
    PROVE  UNCHANGED workerVars \/ workerPc' \in {"idle", "start"}
BY DEF Next, IngestStep, StartJob, AddPage, AddPageError, CommitScan, CommitScanError, ReadBack,
       Enqueue, ResumeStep, WakeUp, ReadJob, ReadJobError, EnqueueUnfinished, UploadAction,
       Environment, Crash, DeletePDF, Receive, Continue, vars

LEMMA PDFStep ==
    ASSUME TypeInv, WorkerStage, ConvertedHasPDF, WorkerHasPDF, [Next]_vars
    PROVE  ConvertedHasPDF' /\ WorkerHasPDF'
<1>1. CASE WorkerAction
  BY <1>1, WorkerPDFStep, ConvertedStep
<1>2. CASE ~WorkerAction /\ UNCHANGED workerVars
  BY <1>2, WorkerPDFKept, ConvertedStep
<1>3. CASE workerPc' \in {"idle", "start"}
  BY <1>3, ConvertedStep DEF WorkerHasPDF
<1> QED
  BY <1>1, <1>2, <1>3, OthersAndWorker


-----------------------------------------------------------------------------
(* The worker waits for its own goroutine. *)

\* A goroutine of UploadOriginals does not end before its result is received,
\* and it works for one job only.
LEMMA UploadStepOwn ==
    ASSUME SinkTypeOK, NEW u \in Upload, UploadStep(u), NEW v \in Upload
    PROVE  /\ uploads[v].pc # "free" => uploads'[v].pc # "free"
           /\ uploads'[v].pc # "done" => \/ uploads'[v] = uploads[v]
                                         \/ /\ uploads[v].pc # "done"
                                            /\ uploads'[v].job = uploads[v].job
<1>1. uploads \in [Upload -> UploadState]
  BY DEF SinkTypeOK
<1>2. CASE v # u
  BY <1>1, <1>2 DEF UploadStep, ListFiles, FindFolder, FindFolderFails, TrashFolder,
        TrashFolderFails, CreateFolder, CreateFolderFails, UploadFile, UploadFileFails,
        RequestFails, Return, FileDone
<1>3. CASE v = u
  <2>1. ASSUME NEW failed, Return(u, failed)
        PROVE  uploads'[u].pc = "done"
    BY <1>1, <2>1 DEF Return, FreeUpload
  <2>2. CASE FindFolderFails(u) \/ TrashFolderFails(u) \/ CreateFolderFails(u)
    BY <1>3, <2>1, <2>2 DEF FindFolderFails, TrashFolderFails, CreateFolderFails, RequestFails
  <2>3. CASE ListFiles(u) \/ FindFolder(u) \/ TrashFolder(u)
    <3>1. /\ uploads[u].pc # "done"
          /\ uploads'[u].job = uploads[u].job
          /\ uploads'[u].pc \in {"find", "trash", "create"}
      BY <1>1, <2>3 DEF ListFiles, FindFolder, TrashFolder, UploadState
    <3> QED BY <1>3, <3>1
  <2>4. CASE CreateFolder(u)
    <3>1. CASE Return(u, FALSE)
      BY <1>3, <2>1, <3>1
    <3>2. CASE ~Return(u, FALSE)
      <4>1. /\ uploads[u].pc # "done"
            /\ uploads'[u].job = uploads[u].job
            /\ uploads'[u].pc = "files"
        BY <1>1, <2>4, <3>2 DEF CreateFolder, UploadState
      <4> QED BY <1>3, <4>1
    <3> QED BY <3>1, <3>2
  <2>5. CASE UploadFile(u) \/ UploadFileFails(u)
    <3>1. PICK n, failed : FileDone(u, n, failed)
      BY <2>5 DEF UploadFile, UploadFileFails
    <3>2. uploads[u].pc = "files"
      BY <2>5 DEF UploadFile, UploadFileFails
    <3>3. CASE uploads[u].names = {n}
      BY <1>3, <2>1, <3>1, <3>3 DEF FileDone
    <3>4. CASE uploads[u].names # {n}
      <4>1. uploads'[u].pc = uploads[u].pc /\ uploads'[u].job = uploads[u].job
        BY <1>1, <3>1, <3>4 DEF FileDone, UploadState
      <4> QED BY <1>3, <3>2, <4>1
    <3> QED BY <3>3, <3>4
  <2> QED BY <2>2, <2>3, <2>4, <2>5 DEF UploadStep
<1> QED
  BY <1>2, <1>3

LEMMA WorkerUploadStep ==
    ASSUME TypeInv, UploadAwaited, WorkerAction
    PROVE  UploadAwaited'
<1>1. WorkerTypeOK /\ SinkTypeOK /\ jobDir \in [JobId -> Dir] /\ WorkerStep
  BY DEF TypeInv, TypeOK, QueueTypeOK, WorkerAction
<1>2. SUFFICES ASSUME MayAwait' PROVE OwnUpload(workerUpload, workerJob.id)'
  BY DEF UploadAwaited
<1>3. workerPc' \in {"originals", "failing", "convert", "markconvert"}
  BY <1>2 DEF MayAwait
<1>4. CASE StartUpload
  <2>1. PICK u \in Upload :
          /\ uploads' = [uploads EXCEPT ![u] = [FreeUpload EXCEPT !.pc = "list",
                                                                  !.job = workerJob.id]]
          /\ Continue(AfterSpawn(workerJob), workerJob, u)
    BY <1>4 DEF StartUpload
  <2>2. workerUpload' = u /\ workerJob' = workerJob
    BY <1>3, <2>1 DEF Continue
  <2>3. uploads'[u].pc = "list" /\ uploads'[u].job = workerJob.id
    BY <1>1, <2>1 DEF SinkTypeOK, FreeUpload
  <2> QED BY <2>2, <2>3 DEF OwnUpload
<1>5. CASE SkipUpload
  <2>1. Continue(AfterSpawn(workerJob), workerJob, NoUpload)
    BY <1>5 DEF SkipUpload
  <2>2. "uploadoriginals" \in workerJob.markers /\ AfterSpawn(workerJob) \in {"idle", "pdf", "convert"}
    BY <1>5 DEF SkipUpload, AfterSpawn, AfterConvert, AfterOriginals
  <2> QED BY <1>2, <2>1, <2>2 DEF Continue, MayAwait
<1>6. CASE Convert \/ ConvertUndecodable \/ ConvertFails
  <2>1. UNCHANGED uploads /\ workerJob' = workerJob /\ workerUpload' = workerUpload
    BY <1>3, <1>6 DEF Convert, ConvertUndecodable, ConvertFails, ConvertError, Continue, sinkVars
  <2>2. "uploadoriginals" \notin workerJob.markers /\ workerPc = "convert"
    BY <1>2, <1>6 DEF Convert, ConvertUndecodable, ConvertFails, ConvertError, Continue, MayAwait
  <2>3. OwnUpload(workerUpload, workerJob.id)
    BY <2>2 DEF UploadAwaited, MayAwait
  <2> QED BY <2>1, <2>3 DEF OwnUpload
<1>7. CASE MarkConverted
  <2> DEFINE j == Committed(workerJob, "convert")
             u == IF "uploadoriginals" \in j.markers THEN NoUpload ELSE workerUpload
  <2>1. Continue(AfterConvert(j), j, u) /\ UNCHANGED uploads /\ workerPc = "markconvert"
    BY <1>7 DEF MarkConverted, sinkVars
  <2>2. /\ AfterConvert(j) \in {"idle", "pdf", "originals"}
        /\ AfterConvert(j) = "originals" <=> "uploadoriginals" \notin j.markers
    BY SkippedSteps
  <2>3. workerJob \in Handle
    BY <1>1, <2>1, WorkerBusy
  <2>4. workerJob.markers \subseteq j.markers /\ j.id = workerJob.id
    BY <1>1, <2>3, CommittedType DEF Committed, ReadState, Handle, Marker
  <2> HIDE DEF j
  <2>5. workerPc' = "originals" /\ "uploadoriginals" \notin j.markers
    BY <1>3, <2>1, <2>2 DEF Continue
  <2>6. workerJob' = j /\ workerUpload' = workerUpload
    BY <2>1, <2>5 DEF Continue
  <2>7. OwnUpload(workerUpload, workerJob.id)
    BY <2>1, <2>4, <2>5 DEF UploadAwaited, MayAwait
  <2> QED BY <2>1, <2>4, <2>6, <2>7 DEF OwnUpload
<1>8. CASE ~(\/ StartUpload \/ SkipUpload \/ Convert \/ ConvertUndecodable \/ ConvertFails
             \/ MarkConverted)
  <2>1. workerPc' \in {"idle", "pdf", "driveid", "markpdf"}
    BY <1>1, <1>8, SkippedSteps DEF WorkerStep, MarkConvertedFails, MarkOriginals,
          MarkOriginalsFails, OriginalsFailed, UploadPDF, UploadNoPDF, UploadPDFFails,
          RecordDriveId, RecordDriveIdFails, MarkPDF, MarkPDFFails, ReturnFromProcessScan,
          Continue
  <2> QED BY <1>3, <2>1
<1> QED
  BY <1>4, <1>5, <1>6, <1>7, <1>8

LEMMA UploadAwaitedStep ==
    ASSUME TypeInv, UploadAwaited, [Next]_vars
    PROVE  UploadAwaited'
<1>1. CASE WorkerAction
  BY <1>1, WorkerUploadStep
<1>2. CASE \E u \in Upload : UploadAction(u)
  <2>1. PICK u \in Upload : UploadAction(u)
    BY <1>2
  <2>2. UploadStep(u) /\ UNCHANGED workerVars /\ SinkTypeOK
    BY <2>1 DEF UploadAction, TypeInv, TypeOK
  <2>3. ASSUME NEW v, NEW id, OwnUpload(v, id)
        PROVE  v \in Upload /\ uploads'[v].pc # "free"
               /\ (uploads'[v].pc # "done" => uploads'[v].job = id)
    BY <2>2, <2>3, UploadStepOwn DEF OwnUpload
  <2> QED BY <2>2, <2>3 DEF UploadAwaited, MayAwait, OwnUpload, workerVars
<1>3. CASE ~WorkerAction /\ ~(\E u \in Upload : UploadAction(u)) /\ UNCHANGED workerVars
  <2>1. CASE workerPc = "idle"
    BY <1>3, <2>1 DEF UploadAwaited, MayAwait, workerVars
  <2>2. CASE workerPc # "idle" /\ Crash
    BY <2>2 DEF Crash, UploadAwaited, MayAwait
  <2>3. CASE ~Crash
    <3>1. UNCHANGED uploads
      BY <1>3, <2>3 DEF Next, IngestStep, StartJob, AddPage, AddPageError, CommitScan,
            CommitScanError, ReadBack, Enqueue, ResumeStep, WakeUp, ReadJob, ReadJobError,
            EnqueueUnfinished, Environment, DeletePDF, sinkVars, vars
    <3> QED BY <1>3, <3>1 DEF UploadAwaited, MayAwait, OwnUpload, workerVars
  <2> QED BY <2>1, <2>2, <2>3
<1>4. CASE workerPc' \in {"idle", "start"}
  BY <1>4 DEF UploadAwaited, MayAwait
<1> QED
  BY <1>1, <1>2, <1>3, <1>4, OthersAndWorker


-----------------------------------------------------------------------------
(* The invariant, and what follows from it. *)

LEMMA InitSafetyInv == Init => SafetyInv
<1> SUFFICES ASSUME Init PROVE SafetyInv
  OBVIOUS
<1> USE DEF Init, QueueInit, SinkInit, WorkerInit
<1>1. \A id \in JobId : jobDir[id].markers = {}
  BY DEF NoDir
<1>2. HandlesBehindDisk
  BY DEF HandlesBehindDisk, WorkerBehindDisk, NoIngest
<1>3. WorkerStage /\ WorkerHasPDF /\ UploadAwaited
  BY DEF WorkerStage, WorkerHasPDF, UploadAwaited, MayAwait
<1> QED
  BY <1>1, <1>2, <1>3 DEF SafetyInv, ConvertedHasPDF, MarkersInOrder, DoneIsDelivered, Delivered

LEMMA MarkersInOrderStep ==
    ASSUME TypeInv, WorkerStage, MarkersInOrder, [Next]_vars
    PROVE  MarkersInOrder'
<1>1. SUFFICES ASSUME NEW id \in JobId, "uploadpdf" \in jobDir'[id].markers
               PROVE  {"convert", "uploadoriginals"} \subseteq jobDir'[id].markers
  BY DEF MarkersInOrder, Delivered
<1>2. SUFFICES {"convert", "uploadoriginals"} \subseteq jobDir[id].markers
  BY MarkersGrow
<1>3. CASE "uploadpdf" \in jobDir[id].markers
  BY <1>3 DEF MarkersInOrder, Delivered
<1>4. CASE "uploadpdf" \notin jobDir[id].markers
  <2>1. workerPc = "markpdf" /\ workerJob.id = id
    BY <1>1, <1>4, NextEffect DEF Effect, Silent, Records, Delivers, Finishes, Withdraws,
                                  NothingRecorded, Recorded
  <2> QED BY <2>1 DEF WorkerStage
<1> QED
  BY <1>3, <1>4

LEMMA DoneIsDeliveredStep ==
    ASSUME TypeInv, WorkerHasPDF, DoneIsDelivered, [Next]_vars
    PROVE  DoneIsDelivered'
<1>1. SUFFICES ASSUME NEW id \in JobId, "uploadpdf" \in jobDir'[id].markers, id \notin deleted'
               PROVE  pdfs'[id] # <<>>
  BY DEF DoneIsDelivered, Delivered
<1>2. id \notin deleted
  BY <1>1, NextKeepsPDFs DEF KeepsPDFs
<1>3. SUFFICES pdfs[id] # <<>>
  BY NextKeepsDelivered
<1>4. CASE "uploadpdf" \in jobDir[id].markers
  BY <1>2, <1>4 DEF DoneIsDelivered, Delivered
<1>5. CASE "uploadpdf" \notin jobDir[id].markers
  <2>1. workerPc = "markpdf" /\ workerJob.id = id
    BY <1>1, <1>5, NextEffect DEF Effect, Silent, Records, Delivers, Finishes, Withdraws,
                                  NothingRecorded, Recorded
  <2> QED BY <1>2, <2>1 DEF WorkerHasPDF
<1> QED
  BY <1>4, <1>5

LEMMA NextSafetyInv ==
    ASSUME TypeInv, SafetyInv, [Next]_vars
    PROVE  SafetyInv'
BY HandlesStep, PDFStep, UploadAwaitedStep, MarkersInOrderStep, DoneIsDeliveredStep DEF SafetyInv

\* However old the handles are with which a job is processed again, and whatever
\* fails or crashes in between, the disk is never behind a handle and the worker
\* never ahead of the disk (readStateFromDir, processScan).
THEOREM SafetyInvariant == Spec => []SafetyInv
<1>1. TypeInv /\ SafetyInv /\ [Next]_vars => SafetyInv'
  BY NextSafetyInv
<1> QED
  BY TypeInvariant, InitSafetyInv, <1>1, PTL DEF Spec

\* COMPLETE.uploadpdf implies the markers of the earlier steps (processScan).
THEOREM MarkersAlwaysInOrder == Spec => []MarkersInOrder
<1>1. SafetyInv => MarkersInOrder
  BY DEF SafetyInv
<1> QED
  BY SafetyInvariant, <1>1, PTL

\* COMPLETE.uploadpdf implies a PDF on Drive, but for deleted ones (UploadPDF).
THEOREM DoneIsAlwaysDelivered == Spec => []DoneIsDelivered
<1>1. SafetyInv => DoneIsDelivered
  BY DEF SafetyInv
<1> QED
  BY SafetyInvariant, <1>1, PTL

\* The result processScan waits for is that of the goroutine it started for the
\* job it works on: neither of one that was not started nor of another job's.
THEOREM AlwaysAwaitsOwnUpload == Spec => []AwaitsOwnUpload
<1>1. SafetyInv => AwaitsOwnUpload
  BY DEF SafetyInv, UploadAwaited, MayAwait, OwnUpload, AwaitsOwnUpload
<1> QED
  BY SafetyInvariant, <1>1, PTL

-----------------------------------------------------------------------------
(* Refinement of JobLifecycle. *)

LEMMA InitLifecycle == Init => Lifecycle!Init
BY DEF Init, QueueInit, SinkInit, NoDir, Lifecycle!Init

\* Setting a marker, as a step of the abstract variable done.
LEMMA RecordedDone ==
    ASSUME jobDir \in [JobId -> Dir], NEW id \in JobId, NEW m, Recorded(id, m)
    PROVE  [k \in JobId |-> jobDir[k].markers]' =
             [[k \in JobId |-> jobDir[k].markers] EXCEPT ![id] = @ \cup {m}]
BY DEF Recorded

LEMMA NextLifecycle ==
    ASSUME TypeInv, SafetyInv, [Next]_vars
    PROVE  [Lifecycle!Next]_(Lifecycle!vars)
<1> DEFINE done == [k \in JobId |-> jobDir[k].markers]
           delivered == [k \in JobId |-> Len(pdfs[k])]
<1>1. /\ jobDir \in [JobId -> Dir] /\ WorkerTypeOK
      /\ pdfs \in [JobId -> Seq(PDF \cup {Empty})]
  BY DEF TypeInv, TypeOK, QueueTypeOK, SinkTypeOK
<1>2. NothingRecorded => done' = done
  BY DEF NothingRecorded
<1>3. UNCHANGED pdfs => delivered' = delivered
  OBVIOUS
<1>4. CASE Silent
  BY <1>2, <1>3, <1>4 DEF Silent, Lifecycle!vars
<1>5. CASE Records
  <2>1. PICK id \in JobId, m \in {"scan", "convert", "uploadoriginals"} :
             Recorded(id, m) /\ UNCHANGED <<pdfs, deleted>>
    BY <1>5 DEF Records
  <2>2. done' = [done EXCEPT ![id] = @ \cup {m}]
    BY <1>1, <2>1, RecordedDone
  <2>3. Lifecycle!Record(id, m) /\ m \in Lifecycle!Step
    BY <1>3, <2>1, <2>2 DEF Lifecycle!Record, Lifecycle!Step
  <2> QED BY <2>3 DEF Lifecycle!Next
<1>6. ASSUME workerPc \in {"pdf", "markpdf"}
      PROVE  /\ workerJob.id \in JobId
             /\ Lifecycle!Uploadable(workerJob.id)
  <2>1. workerJob.id \in JobId
    BY <1>1, <1>6, WorkerBusy
  <2>2. {"convert", "uploadoriginals"} \subseteq jobDir[workerJob.id].markers
    BY <1>6 DEF SafetyInv, WorkerStage
  <2> QED BY <2>1, <2>2 DEF Lifecycle!Uploadable
<1>7. CASE Delivers
  <2>1. PICK id \in JobId : id = workerJob.id /\ Lifecycle!Uploadable(id)
    BY <1>6, <1>7 DEF Delivers
  <2> DEFINE S == PDF \cup {Empty}
             content == jobDir[id].pdf
  <2>2. pdfs' = [pdfs EXCEPT ![id] = Append(@, content)]
    BY <1>7, <2>1 DEF Delivers, CreatePDF
  <2>3. delivered' = [delivered EXCEPT ![id] = @ + 1]
    <3>1. pdfs \in [JobId -> Seq(S)] /\ id \in JobId
      BY <1>1, <2>1
    <3> HIDE DEF S, content
    <3>2. Len(Append(pdfs[id], content)) = Len(pdfs[id]) + 1
      BY <3>1
    <3>3. \A k \in JobId : pdfs'[k] = IF k = id THEN Append(pdfs[id], content) ELSE pdfs[k]
      BY <2>2, <3>1
    <3> QED BY <3>1, <3>2, <3>3
  <2>4. done' = done /\ deleted' = deleted
    BY <1>2, <1>7 DEF Delivers
  <2>5. Lifecycle!Deliver(id)
    BY <2>1, <2>3, <2>4 DEF Lifecycle!Deliver
  <2> QED BY <2>1, <2>5 DEF Lifecycle!Next
<1>8. CASE Finishes
  <2>1. PICK id \in JobId : id = workerJob.id /\ Lifecycle!Uploadable(id)
    BY <1>6, <1>8 DEF Finishes
  <2>2. done' = [done EXCEPT ![id] = @ \cup {"uploadpdf"}]
    BY <1>1, <1>8, <2>1, RecordedDone DEF Finishes
  <2>3. pdfs[id] # <<>> \/ id \in deleted
    BY <1>8, <2>1 DEF Finishes, SafetyInv, WorkerHasPDF
  <2>4. Len(pdfs[id]) > 0 \/ id \in deleted
    <3> DEFINE S == PDF \cup {Empty}
    <3>1. pdfs[id] \in Seq(S)
      BY <1>1, <2>1
    <3> HIDE DEF S
    <3> QED BY <2>3, <3>1
  <2>5. Lifecycle!Finish(id)
    BY <1>3, <1>8, <2>1, <2>2, <2>4 DEF Finishes, Lifecycle!Finish
  <2> QED BY <2>1, <2>5 DEF Lifecycle!Next
<1>9. CASE Withdraws
  <2>1. PICK id \in JobId : NothingRecorded /\ deleted' = deleted \cup {id} /\ UNCHANGED pdfs
    BY <1>9 DEF Withdraws
  <2>2. Lifecycle!Withdraw(id)
    BY <1>2, <1>3, <2>1 DEF Lifecycle!Withdraw
  <2> QED BY <2>2 DEF Lifecycle!Next
<1> QED
  BY <1>4, <1>5, <1>7, <1>8, <1>9, NextEffect DEF Effect

\* The queue, its worker, the goroutines, the ingesters and the resume loop
\* together implement the abstract life of a job, through crashes and errors.
THEOREM Refinement == Spec => ImplementsLifecycle
<1>1. TypeInv /\ SafetyInv /\ [Next]_vars => [Lifecycle!Next]_(Lifecycle!vars)
  BY NextLifecycle
<1> QED
  BY InitLifecycle, TypeInvariant, SafetyInvariant, <1>1, PTL
     DEF Spec, ImplementsLifecycle, Lifecycle!Spec
=============================================================================
