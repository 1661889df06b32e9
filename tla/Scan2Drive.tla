----------------------------- MODULE Scan2Drive -----------------------------
(***************************************************************************)
(* The scan2drive process: what cmd/scan2drive/scan2drive.go puts around   *)
(* the queue worker.  Ingesters (a scanner button, the web UI, MQTT, the   *)
(* HTTP API) persist a finished scan with AddJob and hand it to the worker *)
(* over the unbuffered channel workJobs; the resume loop reads all jobs    *)
(* from disk once an hour and hands over those that are not done; the      *)
(* process crashes and restarts.  Disk and Google Drive survive a crash.   *)
(*                                                                         *)
(* One user account is modelled: accounts share only the worker.           *)
(***************************************************************************)
EXTENDS ProcessScan

CONSTANTS
    Ingester,   \* goroutines that may call AddJob at the same time
    PageCount,  \* how many pages each scan has
    SameSecond, \* whether two AddJob calls may fall into the same second
    MaxCrashes, \* bound: crashes
    MaxDeletes  \* bound: jobs of which the user deletes scan.pdf

ASSUME ScanAssumption ==
    /\ PageCount \in [Scan -> 0..MaxPages]
    /\ SameSecond \in BOOLEAN
    /\ MaxCrashes \in Nat /\ MaxDeletes \in Nat

VARIABLES
    ingest,         \* the ingesters
    scanned,        \* scans handed to AddJob so far
    resumePc,       \* what the resume loop is doing
    resumeTodo,     \* directories Scans has yet to read
    resumeJobs,     \* handles the resume loop has yet to enqueue
    crashes,        \* crashes so far
    deleted,        \* jobs of which the user deleted scan.pdf, at most once each
    handedPartial   \* history: jobs given to the worker without COMPLETE.scan

ingestVars == <<ingest, scanned>>
resumeVars == <<resumePc, resumeTodo, resumeJobs>>
envVars == <<crashes, deleted>>
vars == <<queueVars, sinkVars, workerVars, ingestVars, resumeVars, envVars, handedPartial>>

NoIngest == [pc |-> "idle", scan |-> NoFile, job |-> NoHandle]

IngestState == {NoIngest} \cup
    [pc : {"addpage", "commit", "readback", "send"}, scan : Scan, job : Handle]

-----------------------------------------------------------------------------
(* IngestCallback and AddJob. *)

\* Directories are named by the second, so a new name is later than all
\* others, or, within the same second, equal to the latest.
NewIds ==
    {id \in JobId : /\ \A old \in JobDirs : old < id \/ (SameSecond /\ old = id)
                    /\ \A k \in 1..(id - 1) : k \in JobDirs}

AfterPages(s, n) == IF n = PageCount[s] THEN "commit" ELSE "addpage"

\* Scan s is complete; AddJob makes its directory.
StartJob(i, s) ==
    /\ ingest[i].pc = "idle"
    /\ s \notin scanned
    /\ scanned' = scanned \cup {s}
    /\ \E id \in NewIds :
         /\ MakeDir(id)
         /\ ingest' = [ingest EXCEPT ![i] = [pc |-> AfterPages(s, 0), scan |-> s,
                                             job |-> NewHandle(id)]]
    /\ UNCHANGED <<faults, sinkVars, workerVars, resumeVars, envVars, handedPartial>>

\* (Mutation of GiveUp: the error is dropped and the scan committed.)
BugCommitAnyway(i) == ingest' = [ingest EXCEPT ![i].pc = "commit"]

\* AddJob returns an error: the scan is given up, its directory stays as it is.
GiveUp(i) == ingest' = [ingest EXCEPT ![i] = NoIngest]

\* (Mutation of NextPage: one page number is skipped.)
BugSkipsNumber(i) == Len(ingest[i].job.pages) + 2

\* The number of the page that addPage writes next (curpage).
NextPage(i) == Len(ingest[i].job.pages) + 1

AddPage(i) ==
    /\ ingest[i].pc = "addpage"
    /\ LET s == ingest[i].scan
           n == NextPage(i)
       IN  /\ WritePage(ingest[i].job.id, n, <<s, n>>)
           /\ ingest' = [ingest EXCEPT ![i].pc = AfterPages(s, n),
                                       ![i].job.pages = Append(@, <<s, n>>)]
    /\ UNCHANGED <<faults, sinkVars, workerVars, scanned, resumeVars, envVars, handedPartial>>

AddPageError(i) ==
    /\ ingest[i].pc = "addpage"
    /\ AddPageFails(ingest[i].job.id, NextPage(i))
    /\ GiveUp(i)
    /\ UNCHANGED <<sinkVars, workerVars, scanned, resumeVars, envVars, handedPartial>>

\* commit, first half: from here on the job is found by the resume loop.
CommitScan(i) ==
    /\ ingest[i].pc = "commit"
    /\ WriteMarker(ingest[i].job.id, "scan")
    /\ ingest' = [ingest EXCEPT ![i].pc = "readback"]
    /\ UNCHANGED <<faults, sinkVars, workerVars, scanned, resumeVars, envVars, handedPartial>>

CommitScanError(i) ==
    /\ ingest[i].pc = "commit"
    /\ CommitFails(ingest[i].job.id, "scan")
    /\ GiveUp(i)
    /\ UNCHANGED <<sinkVars, workerVars, scanned, resumeVars, envVars, handedPartial>>

\* commit, second half.
ReadBack(i) ==
    /\ ingest[i].pc = "readback"
    /\ LET j == ingest[i].job
       IN  ingest' = [ingest EXCEPT ![i].pc = "send",
                                    ![i].job = [ReadState(j, jobDir[j.id])
                                                  EXCEPT !.state = "InProgress"]]
    /\ UNCHANGED <<queueVars, sinkVars, workerVars, scanned, resumeVars, envVars, handedPartial>>

\* Which jobs were given to the worker before their scan was complete.
NoteHandover(j) ==
    handedPartial' = IF j.state = "Canceled" THEN handedPartial \cup {j.id} ELSE handedPartial

\* workJobs <- workJob{...}: blocks until the worker receives.
Enqueue(i) ==
    /\ ingest[i].pc = "send"
    /\ Receive(ingest[i].job)
    /\ NoteHandover(ingest[i].job)
    /\ ingest' = [ingest EXCEPT ![i] = NoIngest]
    /\ UNCHANGED <<queueVars, sinkVars, scanned, resumeVars, envVars>>

IngestStep(i) ==
    \/ \E s \in Scan : StartJob(i, s)
    \/ AddPage(i) \/ AddPageError(i)
    \/ CommitScan(i) \/ CommitScanError(i)
    \/ ReadBack(i) \/ Enqueue(i)

-----------------------------------------------------------------------------
(* The resume loop. *)

\* Five seconds after the start, or an hour after the last round, the loop
\* lists the job directories.
WakeUp ==
    /\ resumePc = "sleep"
    /\ JobDirs # {}
    /\ resumePc' = "read"
    /\ resumeTodo' = JobDirs
    /\ UNCHANGED <<queueVars, sinkVars, workerVars, ingestVars, resumeJobs, envVars, handedPartial>>

\* Scans reads one directory after the other, in the order of their names.
\* Those that are done are dropped here and not when they are enqueued.
ReadJob ==
    /\ resumePc = "read"
    /\ \E id \in resumeTodo :
         /\ \A other \in resumeTodo : id <= other
         /\ resumeTodo' = resumeTodo \ {id}
         /\ LET j == JobById(id)
                jobs == IF j.state = "Done" THEN resumeJobs ELSE resumeJobs \cup {j}
            IN  /\ resumeJobs' = jobs
                /\ resumePc' = IF resumeTodo # {id} THEN "read"
                               ELSE IF jobs # {} THEN "enqueue" ELSE "sleep"
    /\ UNCHANGED <<queueVars, sinkVars, workerVars, ingestVars, envVars, handedPartial>>

\* One directory that cannot be read makes Scans fail as a whole.
ReadJobError ==
    /\ resumePc = "read"
    /\ Fault
    /\ resumePc' = "sleep" /\ resumeTodo' = {} /\ resumeJobs' = {}
    /\ UNCHANGED <<jobDir, sinkVars, workerVars, ingestVars, envVars, handedPartial>>

\* The handles are enqueued in no particular order (Scans returns a map).
EnqueueUnfinished ==
    /\ resumePc = "enqueue"
    /\ \E j \in resumeJobs :
         /\ Receive(j)
         /\ NoteHandover(j)
         /\ resumeJobs' = resumeJobs \ {j}
         /\ resumePc' = IF resumeJobs = {j} THEN "sleep" ELSE "enqueue"
    /\ UNCHANGED <<queueVars, sinkVars, ingestVars, resumeTodo, envVars>>

ResumeStep == WakeUp \/ ReadJob \/ ReadJobError \/ EnqueueUnfinished

-----------------------------------------------------------------------------
(* The environment. *)

\* A crash may catch a file between its truncation and its being written.
TornWrite ==
    \/ UNCHANGED jobDir
    \/ workerPc = "convert" /\ WritePDF(workerJob.id, Empty)
    \/ workerPc = "driveid" /\ WriteDriveId(workerJob.id, 0)
    \/ \E i \in Ingester :
         ingest[i].pc = "addpage" /\ WritePage(ingest[i].job.id, NextPage(i), Empty)

\* The process dies and is started again: only the disk and Drive remain.
Crash ==
    /\ TornWrite
    /\ crashes < MaxCrashes
    /\ crashes' = crashes + 1
    /\ workerPc' = "idle" /\ workerJob' = NoHandle /\ workerUpload' = NoUpload
    /\ uploads' = [u \in Upload |-> FreeUpload]
    /\ ingest' = [i \in Ingester |-> NoIngest]
    /\ resumePc' = "sleep" /\ resumeTodo' = {} /\ resumeJobs' = {}
    /\ UNCHANGED <<faults, folders, pdfs, scanned, deleted, handedPartial>>

\* The user deletes a converted PDF: README.md lets any file be deleted.
DeletePDF(id) ==
    /\ Cardinality(deleted) < MaxDeletes /\ id \notin deleted
    /\ jobDir[id].pdf # NoFile
    /\ deleted' = deleted \cup {id}
    /\ WritePDF(id, NoFile)
    /\ UNCHANGED <<faults, sinkVars, workerVars, ingestVars, resumeVars, crashes, handedPartial>>

Environment == Crash \/ \E id \in JobId : DeletePDF(id)

-----------------------------------------------------------------------------

TypeOK ==
    /\ QueueTypeOK /\ SinkTypeOK /\ WorkerTypeOK
    /\ ingest \in [Ingester -> IngestState]
    /\ scanned \subseteq Scan
    /\ resumePc \in {"sleep", "read", "enqueue"}
    /\ resumeTodo \subseteq JobId
    /\ resumeJobs \subseteq Handle
    /\ crashes \in 0..MaxCrashes /\ deleted \subseteq JobId
    /\ handedPartial \subseteq JobId

Init ==
    /\ QueueInit /\ SinkInit /\ WorkerInit
    /\ ingest = [i \in Ingester |-> NoIngest]
    /\ scanned = {}
    /\ resumePc = "sleep" /\ resumeTodo = {} /\ resumeJobs = {}
    /\ crashes = 0 /\ deleted = {}
    /\ handedPartial = {}

WorkerAction == WorkerStep /\ UNCHANGED <<ingestVars, resumeVars, envVars, handedPartial>>

UploadAction(u) ==
    UploadStep(u) /\ UNCHANGED <<workerVars, ingestVars, resumeVars, envVars, handedPartial>>

Next ==
    \/ \E i \in Ingester : IngestStep(i)
    \/ ResumeStep
    \/ WorkerAction
    \/ \E u \in Upload : UploadAction(u)
    \/ Environment

Spec == Init /\ [][Next]_vars

\* Goroutines run, requests are answered and the hour passes.  The senders
\* blocked on workJobs are served in turn, as a Go channel queues them; nobody
\* has to scan anything.
Fairness ==
    /\ WF_vars(WorkerAction)
    /\ \A u \in Upload : WF_vars(UploadAction(u))
    /\ \A i \in Ingester :
         /\ WF_vars(AddPage(i)) /\ WF_vars(CommitScan(i)) /\ WF_vars(ReadBack(i))
         /\ SF_vars(Enqueue(i))
    /\ WF_vars(WakeUp) /\ WF_vars(ReadJob) /\ SF_vars(EnqueueUnfinished)

FairSpec == Spec /\ Fairness

-----------------------------------------------------------------------------
(* Properties. *)

\* A directory holds one whole scan and nothing else.
HoldsScan(d, s) ==
    d.pages = [n \in 1..MaxPages |-> IF n <= PageCount[s] THEN <<s, n>> ELSE NoFile]

\* The pages of a directory in the order in which they were scanned.
ScannedPages(d) == [n \in 1..Cardinality(Loadable(d)) |-> d.pages[n]]

\* The PDF of a directory: every page in its place, left out if it is blank.
FullPDF(d) == [n \in 1..Cardinality(Loadable(d)) |->
                 IF d.pages[n] \in Blank THEN NoFile ELSE d.pages[n]]

\* A folder on Drive holds all pages of a directory.
HoldsPages(folder, d) == \A n \in Loadable(d) : folder.files[n] = d.pages[n]

Accepted == {id \in JobId : "scan" \in jobDir[id].markers}
Archived == {id \in JobId : "uploadoriginals" \in jobDir[id].markers}
Delivered == {id \in JobId : "uploadpdf" \in jobDir[id].markers}

\* COMPLETE.scan is only written when every page of exactly one scan is on disk,
\* whatever addPage or a crash left behind before (AddJob).
CompleteScan == \A id \in Accepted : \E s \in Scan : HoldsScan(jobDir[id], s)

\* The markers are set in the order of processScan's steps, also when handles
\* read at different times work on one job after the other.
MarkersInOrder ==
    \A id \in Delivered : {"convert", "uploadoriginals"} \subseteq jobDir[id].markers

\* processScan never waits for a goroutine that it did not start, and the result
\* it receives is about the job it works on (the channel of processScan).
AwaitsOwnUpload ==
    workerPc \in {"originals", "failing"} =>
        /\ workerUpload \in Upload
        /\ uploads[workerUpload].pc # "free"
        /\ uploads[workerUpload].pc # "done" => uploads[workerUpload].job = workerJob.id

\* COMPLETE.uploadpdf means that Drive has a PDF of the job, unless the user
\* deleted scan.pdf before (UploadPDF, CommitMarker).
DoneIsDelivered == \A id \in Delivered \ deleted : pdfs[id] # <<>>

\* COMPLETE.uploadoriginals means that some folder on Drive, trashed or not,
\* was given every page (UploadOriginals), for jobs the worker did not get
\* while they were still being added.
OriginalsKept ==
    \A id \in Archived \ handedPartial :
        \E f \in DOMAIN folders[id] : HoldsPages(folders[id][f], jobDir[id])

\* Without I/O errors a finished job has a PDF on Drive that shows its pages, all
\* of them, in order and without the blank ones, across crashes and resumes.
DeliveredInFull ==
    faults = 0 =>
        \A id \in Delivered \ (handedPartial \cup deleted) :
            \E k \in DOMAIN pdfs[id] : pdfs[id][k] = FullPDF(jobDir[id])

\* README.md: deleting a scan "before the COMPLETE.uploadoriginals file is present
\* will result in that scan being irrevocably lost", and not after.  So by then a
\* folder on Drive, in the trash or not, was given all its pages (UploadOriginals).
OriginalsSafe ==
    \A id \in Accepted \cap Archived :
        \E f \in DOMAIN folders[id] : HoldsPages(folders[id][f], jobDir[id])

\* drivesink.go: the folders that are trashed are left "from earlier partial
\* uploads".  So no folder is trashed that holds all pages of a job whose
\* originals are recorded as uploaded.
TrashOnlyPartial ==
    [][\A id \in Accepted \cap Archived : \A f \in LiveFolders(id) :
         folders'[id][f].trashed => ~HoldsPages(folders[id][f], jobDir[id])]_vars

\* A job that is resumed has the pages that were scanned, in that order.
PagesInOrder ==
    \A j \in resumeJobs :
        j.state = "InProgress" => j.pages = ScannedPages(jobDir[j.id])

\* A PDF of the job is on Drive.  If there were no I/O errors, one shows every page;
\* after an error, what a crash left of scan.pdf may have been uploaded.
OnDrive(id) ==
    \E k \in DOMAIN pdfs[id] : faults = 0 => pdfs[id][k] = FullPDF(jobDir[id])

\* Every complete scan that can be converted is marked as uploaded in the end, and
\* a PDF of it is on Drive then: the resume loop brings the job back to the worker
\* after crashes and errors.  (A job that the worker was given while it was still
\* being added, or of which the user deleted scan.pdf, may end without a PDF.)
EveryScanDelivered ==
    \A id \in JobId :
        (id \in Accepted /\ Decodable(ScannedPages(jobDir[id]))) ~>
            id \in Delivered /\ (OnDrive(id) \/ id \in handedPartial \cup deleted)

\* AddJob's caller is not blocked on workJobs for ever, although the resume loop
\* keeps the worker busy with jobs it can never finish.
IngestReturns == \A i \in Ingester : ingest[i].pc # "idle" ~> ingest[i].pc = "idle"

-----------------------------------------------------------------------------
(* The queue and its worker implement what JobLifecycle promises. *)

Lifecycle == INSTANCE JobLifecycle WITH
    done <- [id \in JobId |-> jobDir[id].markers],
    delivered <- [id \in JobId |-> Len(pdfs[id])],
    withdrawn <- deleted

\* A PDF is created only when COMPLETE.convert and COMPLETE.uploadoriginals are on
\* disk, no marker is ever lost, and COMPLETE.uploadpdf comes after a PDF was
\* created: in every step, whichever handle the worker holds (processScan).
ImplementsLifecycle == Lifecycle!Spec
=============================================================================
