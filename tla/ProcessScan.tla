----------------------------- MODULE ProcessScan ----------------------------
(***************************************************************************)
(* The queue worker: processScan, convert and the loop over workJobs in    *)
(* cmd/scan2drive/scan2drive.go, with what it calls of legacyconvert,      *)
(* jobqueue and drivesink.                                                 *)
(*                                                                         *)
(* The one worker takes a handle, starts UploadOriginals in a goroutine    *)
(* while it converts, waits for that goroutine, uploads the PDF, and       *)
(* commits a marker after each step.  A step whose marker the handle has   *)
(* is skipped.  On an error processScan returns: the job stays as it is on *)
(* disk and the worker takes the next one.                                 *)
(***************************************************************************)
EXTENDS DriveSink

CONSTANTS
    Blank,          \* pages more than 99% white
    Undecodable,    \* pages whose JPEG cannot be decoded
    NoUpload        \* no goroutine

ASSUME PageKindAssumption == Blank \subseteq Page /\ Undecodable \subseteq Page

ASSUME NoUploadAssumption == NoUpload \notin Upload /\ NoJob \notin JobId

VARIABLES
    workerPc,       \* what processScan does next; "idle" is the receive of workJobs
    workerJob,      \* the handle it works on
    workerUpload    \* the goroutine it awaits

workerVars == <<workerPc, workerJob, workerUpload>>

NoHandle == NewHandle(NoJob)

\* The first step of processScan from the given one on that j still needs.
AfterOriginals(j) == IF "uploadpdf" \in j.markers THEN "idle" ELSE "pdf"

\* (Mutation of AfterConvert: the upload of the originals is not awaited.)
BugNoWait(j) == AfterOriginals(j)

\* (Mutation of AfterConvert: it is awaited even if it was not started.)
BugAlwaysWait(j) == "originals"

AfterConvert(j) == IF "uploadoriginals" \in j.markers THEN AfterOriginals(j) ELSE "originals"
AfterSpawn(j) == IF "convert" \in j.markers THEN AfterConvert(j) ELSE "convert"

\* Continue with step pc of handle j; "idle" is the return of processScan.
\* A goroutine that is not awaited any more runs on and then blocks forever.
Continue(pc, j, u) ==
    /\ workerPc' = pc
    /\ workerJob' = IF pc = "idle" THEN NoHandle ELSE j
    /\ workerUpload' = IF pc = "idle" THEN NoUpload ELSE u

ReturnFromProcessScan == Continue("idle", NoHandle, NoUpload)

\* processScan receives the handle j from workJobs.
Receive(j) == workerPc = "idle" /\ Continue("start", j, NoUpload)

\* What a handle holds after CommitMarker(m): j, read anew from its directory.
Committed(j, m) == ReadState(j, [jobDir[j.id] EXCEPT !.markers = @ \cup {m}])

-----------------------------------------------------------------------------
(* The steps of processScan. *)

\* A goroutine whose result is not awaited is as good as gone once it is done.
Unused(u) == uploads[u].pc \in {"free", "done"}

StartUpload ==
    /\ workerPc = "start"
    /\ "uploadoriginals" \notin workerJob.markers
    /\ \E u \in Upload :
         /\ Unused(u)
         /\ uploads' = [uploads EXCEPT ![u] = [FreeUpload EXCEPT !.pc = "list",
                                                                 !.job = workerJob.id]]
         /\ Continue(AfterSpawn(workerJob), workerJob, u)
    /\ UNCHANGED <<queueVars, folders, pdfs>>

SkipUpload ==
    /\ workerPc = "start"
    /\ "uploadoriginals" \in workerJob.markers
    /\ Continue(AfterSpawn(workerJob), workerJob, NoUpload)
    /\ UNCHANGED <<queueVars, sinkVars>>

\* ConvertLogic: blank pages are left out, one broken page fails the document.
Decodable(pages) == \A i \in DOMAIN pages : pages[i] \notin Undecodable

Converted(pages) == [i \in DOMAIN pages |-> IF pages[i] \in Blank THEN NoFile ELSE pages[i]]

Convert ==
    /\ workerPc = "convert"
    /\ Decodable(workerJob.pages)
    /\ WritePDF(workerJob.id, Converted(workerJob.pages))
    /\ Continue("markconvert", workerJob, workerUpload)
    /\ UNCHANGED <<faults, sinkVars>>

\* (Mutation of ConvertError: processScan goes on after a failed conversion.)
BugConvertErrorIgnored == Continue(AfterConvert(workerJob), workerJob, workerUpload)

\* (Mutation of ConvertError: wait for a goroutine that may not have been started.)
BugConvertErrorWaits == Continue("failing", workerJob, workerUpload)

\* After a failed conversion only the originals are seen to.
ConvertError ==
    Continue(IF "uploadoriginals" \in workerJob.markers THEN "idle" ELSE "failing",
             workerJob, workerUpload)

ConvertUndecodable ==
    /\ workerPc = "convert"
    /\ ~Decodable(workerJob.pages)
    /\ ConvertError
    /\ UNCHANGED <<queueVars, sinkVars>>

\* Writing scan.pdf fails, or thumb.png after it.
ConvertFails ==
    /\ workerPc = "convert"
    /\ Decodable(workerJob.pages)
    /\ Fault
    /\ \/ UNCHANGED jobDir
       \/ WritePDF(workerJob.id, Empty)
       \/ WritePDF(workerJob.id, Converted(workerJob.pages))
    /\ ConvertError
    /\ UNCHANGED sinkVars

\* CommitMarker reads all markers back: if uploadoriginals has turned up in the
\* directory since, the goroutine that uploads them is not awaited any more.
MarkConverted ==
    /\ workerPc = "markconvert"
    /\ WriteMarker(workerJob.id, "convert")
    /\ LET j == Committed(workerJob, "convert")
       IN  Continue(AfterConvert(j), j,
                    IF "uploadoriginals" \in j.markers THEN NoUpload ELSE workerUpload)
    /\ UNCHANGED <<faults, sinkVars>>

MarkConvertedFails ==
    /\ workerPc = "markconvert"
    /\ CommitFails(workerJob.id, "convert")
    /\ ReturnFromProcessScan
    /\ UNCHANGED sinkVars

\* The goroutine's result has been received: it ends.
Join(u) == uploads' = [uploads EXCEPT ![u] = FreeUpload]

\* (Mutation of AwaitsResult: not received, the goroutine taken to be done.)
BugNotReceived == workerPc \in {"originals", "failing"} /\ workerUpload # NoUpload

\* The receive from uploadOriginalsRes; without a goroutine it would block.
AwaitsResult ==
    /\ workerPc \in {"originals", "failing"}
    /\ workerUpload # NoUpload /\ uploads[workerUpload].pc = "done"

\* The originals are uploaded: commit that, and go on unless converting failed.
MarkOriginals ==
    /\ AwaitsResult
    /\ ~uploads[workerUpload].failed
    /\ Join(workerUpload)
    /\ WriteMarker(workerJob.id, "uploadoriginals")
    /\ LET j == Committed(workerJob, "uploadoriginals")
       IN  Continue(IF workerPc = "failing" THEN "idle" ELSE AfterOriginals(j), j, NoUpload)
    /\ UNCHANGED <<faults, folders, pdfs>>

MarkOriginalsFails ==
    /\ AwaitsResult
    /\ ~uploads[workerUpload].failed
    /\ Join(workerUpload)
    /\ CommitFails(workerJob.id, "uploadoriginals")
    /\ ReturnFromProcessScan
    /\ UNCHANGED <<folders, pdfs>>

OriginalsFailed ==
    /\ AwaitsResult
    /\ uploads[workerUpload].failed
    /\ Join(workerUpload)
    /\ ReturnFromProcessScan
    /\ UNCHANGED <<queueVars, folders, pdfs>>

-----------------------------------------------------------------------------
(* UploadPDF, and the last marker. *)

UploadPDF ==
    /\ workerPc = "pdf"
    /\ jobDir[workerJob.id].pdf # NoFile
    /\ CreatePDF(workerJob.id)
    /\ Continue("driveid", workerJob, NoUpload)
    /\ UNCHANGED <<queueVars, folders, uploads>>

\* The loop over the files finds no scan.pdf and UploadPDF returns no error.
UploadNoPDF ==
    /\ workerPc = "pdf"
    /\ jobDir[workerJob.id].pdf = NoFile
    /\ Continue("markpdf", workerJob, NoUpload)
    /\ UNCHANGED <<queueVars, sinkVars>>

\* (Mutation of UploadPDFFails: the error is dropped.)
BugUploadErrorIgnored ==
    /\ workerPc = "pdf"
    /\ Fault
    /\ Continue("markpdf", workerJob, NoUpload)
    /\ UNCHANGED <<jobDir, sinkVars>>

UploadPDFFails ==
    /\ workerPc = "pdf"
    /\ Fault
    /\ \/ UNCHANGED pdfs
       \/ jobDir[workerJob.id].pdf # NoFile /\ CreatePDF(workerJob.id)
    /\ ReturnFromProcessScan
    /\ UNCHANGED <<jobDir, folders, uploads>>

\* Only the worker creates PDFs: the one it just created is the last.
RecordDriveId ==
    /\ workerPc = "driveid"
    /\ WriteDriveId(workerJob.id, Len(pdfs[workerJob.id]))
    /\ Continue("markpdf", ReadState(workerJob, jobDir[workerJob.id]), NoUpload)
    /\ UNCHANGED <<faults, sinkVars>>

RecordDriveIdFails ==
    /\ workerPc = "driveid"
    /\ Fault
    /\ \/ UNCHANGED jobDir
       \/ WriteDriveId(workerJob.id, 0)
       \/ WriteDriveId(workerJob.id, Len(pdfs[workerJob.id]))
    /\ ReturnFromProcessScan
    /\ UNCHANGED sinkVars

MarkPDF ==
    /\ workerPc = "markpdf"
    /\ WriteMarker(workerJob.id, "uploadpdf")
    /\ ReturnFromProcessScan
    /\ UNCHANGED <<faults, sinkVars>>

MarkPDFFails ==
    /\ workerPc = "markpdf"
    /\ CommitFails(workerJob.id, "uploadpdf")
    /\ ReturnFromProcessScan
    /\ UNCHANGED sinkVars

WorkerStep ==
    \/ StartUpload \/ SkipUpload
    \/ Convert \/ ConvertUndecodable \/ ConvertFails
    \/ MarkConverted \/ MarkConvertedFails
    \/ MarkOriginals \/ MarkOriginalsFails \/ OriginalsFailed
    \/ UploadPDF \/ UploadNoPDF \/ UploadPDFFails
    \/ RecordDriveId \/ RecordDriveIdFails
    \/ MarkPDF \/ MarkPDFFails

WorkerPc == {"idle", "start", "convert", "markconvert", "failing", "originals",
             "pdf", "driveid", "markpdf"}

WorkerTypeOK ==
    /\ workerPc \in WorkerPc
    /\ workerJob \in IF workerPc = "idle" THEN {NoHandle} ELSE Handle
    /\ workerUpload \in Upload \cup {NoUpload}

WorkerInit ==
    /\ workerPc = "idle"
    /\ workerJob = NoHandle
    /\ workerUpload = NoUpload
=============================================================================
