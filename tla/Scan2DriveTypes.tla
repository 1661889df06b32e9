--------------------------- MODULE Scan2DriveTypes --------------------------
(***************************************************************************)
(* Type correctness of Scan2Drive, for every value of its constants.       *)
(*                                                                         *)
(* TypeOK is not inductive by itself: which page an ingester writes next,  *)
(* and which folder a goroutine fills, must stay in range.  UploadsInRange *)
(* and PagesInRange say that they do.                                      *)
(***************************************************************************)
EXTENDS Scan2Drive, DirOrderProofs

Running == {"list", "find", "trash", "create", "files"}

\* A running UploadOriginals works on a job, and on a folder that is there.
UploadsInRange ==
    \A u \in Upload :
        /\ uploads[u].pc \in Running => uploads[u].job \in JobId
        /\ uploads[u].pc \in {"trash", "files"} =>
              uploads[u].folder \in DOMAIN folders[uploads[u].job]

\* AddJob has a page left to write whenever it is about to write one.
PagesInRange ==
    \A i \in Ingester :
        ingest[i].pc = "addpage" =>
            Len(ingest[i].job.pages) < PageCount[ingest[i].scan]

TypeInv == TypeOK /\ UploadsInRange /\ PagesInRange

-----------------------------------------------------------------------------
(* Writing to a job directory. *)

LEMMA WritePageType ==
    ASSUME NEW id \in JobId, NEW n \in 1..MaxPages,
           NEW content \in Page \cup {NoFile, Empty},
           jobDir \in [JobId -> Dir], WritePage(id, n, content)
    PROVE  jobDir' \in [JobId -> Dir]
BY DEF WritePage, Dir

LEMMA WritePDFType ==
    ASSUME NEW id \in JobId, NEW content \in PDF \cup {NoFile, Empty},
           jobDir \in [JobId -> Dir], WritePDF(id, content)
    PROVE  jobDir' \in [JobId -> Dir]
BY DEF WritePDF, Dir

LEMMA WriteMarkerType ==
    ASSUME NEW id \in JobId, NEW m \in Marker,
           jobDir \in [JobId -> Dir], WriteMarker(id, m)
    PROVE  jobDir' \in [JobId -> Dir]
BY DEF WriteMarker, Dir

LEMMA WriteDriveIdType ==
    ASSUME NEW id \in JobId, NEW driveId \in Nat,
           jobDir \in [JobId -> Dir], WriteDriveId(id, driveId)
    PROVE  jobDir' \in [JobId -> Dir]
BY DEF WriteDriveId, Dir

LEMMA MakeDirType ==
    ASSUME NEW id \in JobId, jobDir \in [JobId -> Dir], MakeDir(id)
    PROVE  jobDir' \in [JobId -> Dir]
BY DEF MakeDir, Dir

LEMMA CommitFailsType ==
    ASSUME NEW id \in JobId, NEW m \in Marker, QueueTypeOK, CommitFails(id, m)
    PROVE  QueueTypeOK'
BY WriteMarkerType, BoundsAssumption DEF QueueTypeOK, CommitFails, Fault

LEMMA FaultType == ASSUME faults \in 0..MaxFaults, Fault PROVE faults' \in 0..MaxFaults
BY BoundsAssumption DEF Fault

(* Reading a job directory. *)

LEMMA ReadStateType ==
    ASSUME NEW j \in Handle, NEW d \in Dir
    PROVE  ReadState(j, d) \in Handle /\ ReadState(j, d).id = j.id
BY DEF ReadState, Handle, Dir

LEMMA CommittedType ==
    ASSUME NEW j \in Handle, NEW m \in Marker, jobDir \in [JobId -> Dir]
    PROVE  Committed(j, m) \in Handle /\ Committed(j, m).id = j.id
<1>1. j.id \in JobId
  BY DEF Handle
<1>2. [jobDir[j.id] EXCEPT !.markers = @ \cup {m}] \in Dir
  BY <1>1 DEF Dir
<1> QED
  BY <1>2, ReadStateType DEF Committed

LEMMA NewHandleType == ASSUME NEW id \in JobId PROVE NewHandle(id) \in Handle
BY DEF NewHandle, Handle

LEMMA JobByIdType ==
    ASSUME NEW id \in JobId, jobDir \in [JobId -> Dir]
    PROVE  JobById(id) \in Handle /\ JobById(id).id = id
<1> DEFINE d == jobDir[id]
           j == ReadState(NewHandle(id), d)
<1>1. d \in Dir /\ NewHandle(id) \in Handle /\ NewHandle(id).id = id
  BY NewHandleType DEF NewHandle
<1>2. j \in Handle /\ j.id = id
  BY <1>1, ReadStateType
<1>3. [j EXCEPT !.state = "Done"] \in Handle
  <2> HIDE DEF j
  <2> QED BY <1>2 DEF Handle
<1>4. LoadPages(d) \in Seq(Page)
  BY <1>1, LoadPagesType
<1>5. [j EXCEPT !.pages = LoadPages(d)] \in Handle
  <2> HIDE DEF j
  <2> QED BY <1>2, <1>4 DEF Handle
<1>6. JobById(id) = IF IsDone(j) THEN [j EXCEPT !.state = "Done"]
                    ELSE IF j.state = "InProgress" THEN [j EXCEPT !.pages = LoadPages(d)]
                    ELSE j
  BY DEF JobById
<1>7. [j EXCEPT !.state = "Done"].id = id /\ [j EXCEPT !.pages = LoadPages(d)].id = id
  <2> HIDE DEF j
  <2> QED BY <1>2 DEF Handle
<1> HIDE DEF j
<1> QED
  BY <1>2, <1>3, <1>5, <1>6, <1>7

LEMMA ConvertedType ==
    ASSUME NEW pages \in Seq(Page)
    PROVE  Converted(pages) \in PDF
BY DEF Converted, PDF

-----------------------------------------------------------------------------
(* The initial state. *)

LEMMA InitTypeInv == Init => TypeInv
<1> SUFFICES ASSUME Init PROVE TypeInv
  OBVIOUS
<1> USE DEF Init, QueueInit, SinkInit, WorkerInit
<1>1. NoDir \in Dir
  BY DEF NoDir, Dir
<1>2. QueueTypeOK
  BY <1>1, BoundsAssumption DEF QueueTypeOK
<1>3. FreeUpload \in UploadState
  BY DEF FreeUpload, UploadState
<1>4. SinkTypeOK
  BY <1>3 DEF SinkTypeOK
<1>5. WorkerTypeOK
  BY DEF WorkerTypeOK, WorkerPc
<1>6. TypeOK
  BY <1>2, <1>4, <1>5, ScanAssumption DEF TypeOK, IngestState
<1>7. UploadsInRange
  BY DEF UploadsInRange, FreeUpload, Running
<1>8. PagesInRange
  BY DEF PagesInRange, NoIngest
<1> QED
  BY <1>6, <1>7, <1>8 DEF TypeInv

-----------------------------------------------------------------------------
(* The steps of UploadOriginals. *)

\* What a step of goroutine u keeps of the sink's invariant when it leaves the
\* folders alone.
LEMMA UploadStateStep ==
    ASSUME SinkTypeOK, UploadsInRange, NEW u \in Upload, NEW new \in UploadState,
           uploads' = [uploads EXCEPT ![u] = new],
           folders' \in [JobId -> Seq(Folder)],
           \A id \in JobId : DOMAIN folders[id] \subseteq DOMAIN folders'[id],
           new.pc \in Running => new.job \in JobId,
           new.pc \in {"trash", "files"} => new.folder \in DOMAIN folders'[new.job],
           pdfs' = pdfs
    PROVE  SinkTypeOK' /\ UploadsInRange'
<1>1. SinkTypeOK'
  BY DEF SinkTypeOK
<1>2. ASSUME NEW v \in Upload
      PROVE  /\ uploads'[v].pc \in Running => uploads'[v].job \in JobId
             /\ uploads'[v].pc \in {"trash", "files"} =>
                   uploads'[v].folder \in DOMAIN folders'[uploads'[v].job]
  <2>1. CASE v = u
    <3>1. uploads'[v] = new
      BY <2>1 DEF SinkTypeOK
    <3> QED BY <3>1
  <2>2. CASE v # u
    <3>1. uploads'[v] = uploads[v]
      BY <2>2 DEF SinkTypeOK
    <3>2. uploads[v].pc \in {"trash", "files"} => uploads[v].job \in JobId
      BY DEF UploadsInRange, Running
    <3> QED BY <3>1, <3>2 DEF UploadsInRange
  <2> QED BY <2>1, <2>2
<1> QED
  BY <1>1, <1>2 DEF UploadsInRange

LEMMA ReturnedType ==
    ASSUME NEW failed \in BOOLEAN
    PROVE  LET r == [FreeUpload EXCEPT !.pc = "done", !.failed = failed]
           IN  r \in UploadState /\ r.pc = "done"
BY DEF FreeUpload, UploadState

LEMMA ReturnStep ==
    ASSUME SinkTypeOK, UploadsInRange, NEW u \in Upload, NEW failed \in BOOLEAN,
           Return(u, failed),
           folders' \in [JobId -> Seq(Folder)],
           \A id \in JobId : DOMAIN folders[id] \subseteq DOMAIN folders'[id],
           pdfs' = pdfs
    PROVE  SinkTypeOK' /\ UploadsInRange'
<1> DEFINE r == [FreeUpload EXCEPT !.pc = "done", !.failed = failed]
<1>1. r \in UploadState /\ r.pc = "done"
  BY ReturnedType
<1>2. uploads' = [uploads EXCEPT ![u] = r]
  BY DEF Return
<1> HIDE DEF r
<1> QED
  BY <1>1, <1>2, UploadStateStep DEF Running

\* Creating, trashing and filling folders.
LEMMA AppendFolderType ==
    ASSUME NEW id \in JobId, folders \in [JobId -> Seq(Folder)], AppendFolder(id)
    PROVE  /\ folders' \in [JobId -> Seq(Folder)]
           /\ \A k \in JobId : DOMAIN folders[k] \subseteq DOMAIN folders'[k]
           /\ Len(folders[id]) + 1 \in DOMAIN folders'[id]
<1> DEFINE new == [files |-> NoDir.pages, trashed |-> FALSE]
<1>1. new \in Folder
  BY DEF Folder, NoDir
<1>2. folders' = [folders EXCEPT ![id] = Append(@, new)]
  BY DEF AppendFolder
<1> HIDE DEF new
<1> QED
  BY <1>1, <1>2

LEMMA ChangeFolderType ==
    ASSUME NEW id \in JobId, NEW f \in DOMAIN folders[id], NEW new \in Folder,
           folders \in [JobId -> Seq(Folder)],
           folders' = [folders EXCEPT ![id][f] = new]
    PROVE  /\ folders' \in [JobId -> Seq(Folder)]
           /\ \A k \in JobId : DOMAIN folders[k] \subseteq DOMAIN folders'[k]
<1>1. folders' = [folders EXCEPT ![id] = [folders[id] EXCEPT ![f] = new]]
  OBVIOUS
<1>2. f \in 1..Len(folders[id]) /\ folders[id] \in Seq(Folder)
  OBVIOUS
<1>3. [folders[id] EXCEPT ![f] = new] \in Seq(Folder)
  BY <1>2
<1>4. DOMAIN [folders[id] EXCEPT ![f] = new] = DOMAIN folders[id]
  OBVIOUS
<1> QED
  BY <1>1, <1>3, <1>4

LEMMA FoldersUnchanged ==
    ASSUME SinkTypeOK, UNCHANGED folders
    PROVE  /\ folders' \in [JobId -> Seq(Folder)]
           /\ \A k \in JobId : DOMAIN folders[k] \subseteq DOMAIN folders'[k]
BY DEF SinkTypeOK

LEMMA MarkTrashedType ==
    ASSUME SinkTypeOK, UploadsInRange, NEW u \in Upload, uploads[u].pc = "trash",
           MarkTrashed(u)
    PROVE  /\ folders' \in [JobId -> Seq(Folder)]
           /\ \A k \in JobId : DOMAIN folders[k] \subseteq DOMAIN folders'[k]
<1> DEFINE id == uploads[u].job
           f == uploads[u].folder
           new == [folders[id][f] EXCEPT !.trashed = TRUE]
<1>1. id \in JobId /\ f \in DOMAIN folders[id]
  BY DEF UploadsInRange, Running
<1>2. folders \in [JobId -> Seq(Folder)]
  BY DEF SinkTypeOK
<1>3. folders[id][f] \in Folder
  BY <1>1, <1>2
<1>4. new \in Folder
  BY <1>3 DEF Folder
<1>5. folders' = [folders EXCEPT ![id][f] = new]
  BY <1>1, <1>2 DEF MarkTrashed
<1> HIDE DEF id, f, new
<1> QED
  BY <1>1, <1>2, <1>4, <1>5, ChangeFolderType

LEMMA StoreFileType ==
    ASSUME QueueTypeOK, SinkTypeOK, UploadsInRange, NEW u \in Upload,
           uploads[u].pc = "files", NEW n \in uploads[u].names, StoreFile(u, n)
    PROVE  /\ folders' \in [JobId -> Seq(Folder)]
           /\ \A k \in JobId : DOMAIN folders[k] \subseteq DOMAIN folders'[k]
<1> DEFINE id == uploads[u].job
           f == uploads[u].folder
           new == [folders[id][f] EXCEPT !.files[n] = jobDir[id].pages[n]]
<1>1. id \in JobId /\ f \in DOMAIN folders[id]
  BY DEF UploadsInRange, Running
<1>2. folders \in [JobId -> Seq(Folder)] /\ n \in 1..MaxPages
  BY DEF SinkTypeOK, UploadState
<1>3. folders[id][f] \in Folder
  BY <1>1, <1>2
<1>4. jobDir[id].pages[n] \in Page \cup {NoFile, Empty}
  BY <1>1, <1>2 DEF QueueTypeOK, Dir
<1>5. new \in Folder
  BY <1>2, <1>3, <1>4 DEF Folder
<1>6. folders' = [folders EXCEPT ![id][f] = new]
  BY <1>1, <1>2 DEF StoreFile
<1> HIDE DEF id, f, new
<1> QED
  BY <1>1, <1>2, <1>5, <1>6, ChangeFolderType

LEMMA FileDoneStep ==
    ASSUME SinkTypeOK, UploadsInRange, NEW u \in Upload, uploads[u].pc = "files",
           NEW n, NEW failed \in BOOLEAN, FileDone(u, n, failed),
           folders' \in [JobId -> Seq(Folder)],
           \A id \in JobId : DOMAIN folders[id] \subseteq DOMAIN folders'[id],
           pdfs' = pdfs
    PROVE  SinkTypeOK' /\ UploadsInRange'
<1> DEFINE up == uploads[u]
           new == [up EXCEPT !.names = @ \ {n}, !.failed = @ \/ failed]
<1>1. up \in UploadState
  BY DEF SinkTypeOK
<1>2. CASE up.names = {n}
  <2>1. (up.failed \/ failed) \in BOOLEAN
    OBVIOUS
  <2>2. Return(u, up.failed \/ failed)
    BY <1>2 DEF FileDone
  <2> QED BY <2>1, <2>2, ReturnStep
<1>3. CASE up.names # {n}
  <2>1. uploads' = [uploads EXCEPT ![u] = new]
    BY <1>1, <1>3 DEF FileDone, SinkTypeOK
  <2>2. new \in UploadState /\ new.pc = "files" /\ new.job = up.job /\ new.folder = up.folder
    BY <1>1 DEF UploadState
  <2>3. up.job \in JobId /\ up.folder \in DOMAIN folders[up.job]
    BY DEF UploadsInRange, Running
  <2> HIDE DEF new, up
  <2> QED BY <2>1, <2>2, <2>3, UploadStateStep DEF Running
<1> QED
  BY <1>2, <1>3

LEMMA UploadStepTypeInv ==
    ASSUME TypeInv, NEW u \in Upload, UploadAction(u)
    PROVE  TypeInv'
<1> USE DEF TypeInv, TypeOK
<1> DEFINE up == uploads[u]
<1>1. up \in UploadState /\ QueueTypeOK /\ SinkTypeOK /\ UploadsInRange
  BY DEF SinkTypeOK
<1>2. SUFFICES QueueTypeOK' /\ SinkTypeOK' /\ UploadsInRange'
  BY DEF UploadAction, workerVars, ingestVars, resumeVars, envVars, WorkerTypeOK, PagesInRange
<1>3. CASE ListFiles(u)
  <2> DEFINE new == [up EXCEPT !.pc = "find",
                               !.names = {n \in 1..MaxPages : jobDir[up.job].pages[n] # NoFile}]
  <2>1. uploads' = [uploads EXCEPT ![u] = new] /\ UNCHANGED <<jobDir, faults, folders, pdfs>>
    BY <1>1, <1>3 DEF ListFiles, queueVars, SinkTypeOK
  <2>2. new \in UploadState /\ new.pc = "find" /\ new.job = up.job
    BY <1>1 DEF UploadState
  <2>3. up.job \in JobId
    BY <1>3 DEF ListFiles, UploadsInRange, Running
  <2>4. SinkTypeOK' /\ UploadsInRange'
    <3> HIDE DEF new
    <3> QED BY <1>1, <2>1, <2>2, <2>3, FoldersUnchanged, UploadStateStep
  <2> QED BY <1>1, <2>1, <2>4 DEF QueueTypeOK
<1>4. CASE FindFolder(u)
  <2>1. UNCHANGED <<jobDir, faults, folders, pdfs>> /\ up.pc = "find"
    BY <1>4 DEF FindFolder, queueVars
  <2>2. up.job \in JobId
    BY <2>1 DEF UploadsInRange, Running
  <2>3. CASE \E f \in LiveFolders(up.job) :
               uploads' = [uploads EXCEPT ![u].pc = "trash", ![u].folder = f]
    <3>1. PICK f \in LiveFolders(up.job) :
               uploads' = [uploads EXCEPT ![u].pc = "trash", ![u].folder = f]
      BY <2>3
    <3> DEFINE new == [up EXCEPT !.pc = "trash", !.folder = f]
    <3>2. uploads' = [uploads EXCEPT ![u] = new]
      BY <1>1, <3>1 DEF SinkTypeOK
    <3>3. f \in DOMAIN folders[up.job] /\ f \in Nat
      BY <1>1, <2>2, <3>1 DEF LiveFolders, SinkTypeOK
    <3>4. new \in UploadState /\ new.pc = "trash" /\ new.job = up.job /\ new.folder = f
      BY <1>1, <3>3 DEF UploadState
    <3>5. SinkTypeOK' /\ UploadsInRange'
      <4> HIDE DEF new
      <4> QED BY <1>1, <2>1, <2>2, <3>2, <3>3, <3>4, FoldersUnchanged, UploadStateStep
    <3> QED BY <1>1, <2>1, <3>5 DEF QueueTypeOK
  <2>4. CASE uploads' = [uploads EXCEPT ![u].pc = "create"]
    <3> DEFINE new == [up EXCEPT !.pc = "create"]
    <3>1. uploads' = [uploads EXCEPT ![u] = new]
      BY <1>1, <2>4 DEF SinkTypeOK
    <3>2. new \in UploadState /\ new.pc = "create" /\ new.job = up.job
      BY <1>1 DEF UploadState
    <3>3. SinkTypeOK' /\ UploadsInRange'
      <4> HIDE DEF new
      <4> QED BY <1>1, <2>1, <2>2, <3>1, <3>2, FoldersUnchanged, UploadStateStep
    <3> QED BY <1>1, <2>1, <3>3 DEF QueueTypeOK
  <2> QED BY <1>4, <2>3, <2>4 DEF FindFolder
<1>5. CASE FindFolderFails(u)
  <2>1. Fault /\ Return(u, TRUE) /\ UNCHANGED <<jobDir, folders, pdfs>>
    BY <1>5 DEF FindFolderFails, RequestFails
  <2> QED BY <1>1, <2>1, FaultType, FoldersUnchanged, ReturnStep DEF QueueTypeOK
<1>6. CASE TrashFolder(u)
  <2> DEFINE new == [up EXCEPT !.pc = "create", !.folder = 0]
  <2>1. up.pc = "trash" /\ MarkTrashed(u) /\ UNCHANGED <<jobDir, faults, pdfs>>
    BY <1>6 DEF TrashFolder, queueVars
  <2>2. uploads' = [uploads EXCEPT ![u] = new]
    BY <1>1, <1>6 DEF TrashFolder, SinkTypeOK
  <2>3. new \in UploadState /\ new.pc = "create" /\ new.job = up.job
    BY <1>1 DEF UploadState
  <2>4. up.job \in JobId
    BY <2>1 DEF UploadsInRange, Running
  <2>5. SinkTypeOK' /\ UploadsInRange'
    <3> HIDE DEF new
    <3> QED BY <1>1, <2>1, <2>2, <2>3, <2>4, MarkTrashedType, UploadStateStep
  <2> QED BY <1>1, <2>1, <2>5 DEF QueueTypeOK
<1>7. CASE TrashFolderFails(u)
  <2>1. up.pc = "trash" /\ Fault /\ Return(u, TRUE) /\ UNCHANGED <<jobDir, pdfs>>
    BY <1>7 DEF TrashFolderFails, RequestFails
  <2>2. SinkTypeOK' /\ UploadsInRange'
    BY <1>1, <1>7, <2>1, FoldersUnchanged, MarkTrashedType, ReturnStep DEF TrashFolderFails
  <2> QED BY <1>1, <2>1, <2>2, FaultType DEF QueueTypeOK
<1>8. CASE CreateFolder(u)
  <2>1. up.pc = "create" /\ AppendFolder(up.job) /\ UNCHANGED <<jobDir, faults, pdfs>>
    BY <1>8 DEF CreateFolder, queueVars
  <2>2. up.job \in JobId
    BY <2>1 DEF UploadsInRange, Running
  <2>3. /\ folders' \in [JobId -> Seq(Folder)]
        /\ \A k \in JobId : DOMAIN folders[k] \subseteq DOMAIN folders'[k]
        /\ Len(folders[up.job]) + 1 \in DOMAIN folders'[up.job]
    BY <1>1, <2>1, <2>2, AppendFolderType DEF SinkTypeOK
  <2>4. CASE up.names = {}
    BY <1>1, <1>8, <2>1, <2>3, <2>4, ReturnStep DEF CreateFolder, QueueTypeOK
  <2>5. CASE up.names # {}
    <3> DEFINE k == Len(folders[up.job]) + 1
               new == [up EXCEPT !.pc = "files", !.folder = k]
    <3>1. uploads' = [uploads EXCEPT ![u] = new]
      BY <1>1, <1>8, <2>5 DEF CreateFolder, SinkTypeOK
    <3>2. k \in Nat
      BY <1>1, <2>2 DEF SinkTypeOK
    <3>3. new \in UploadState /\ new.pc = "files" /\ new.job = up.job /\ new.folder = k
      BY <1>1, <3>2 DEF UploadState
    <3>4. SinkTypeOK' /\ UploadsInRange'
      <4> HIDE DEF new, k
      <4>1. k \in DOMAIN folders'[up.job]
        BY <2>3 DEF k
      <4> QED BY <1>1, <2>1, <2>2, <2>3, <3>1, <3>3, <4>1, UploadStateStep
    <3> QED BY <1>1, <2>1, <3>4 DEF QueueTypeOK
  <2> QED BY <2>4, <2>5
<1>9. CASE CreateFolderFails(u)
  <2>1. up.pc = "create" /\ Fault /\ Return(u, TRUE) /\ UNCHANGED <<jobDir, pdfs>>
    BY <1>9 DEF CreateFolderFails, RequestFails
  <2>2. up.job \in JobId
    BY <2>1 DEF UploadsInRange, Running
  <2>3. /\ folders' \in [JobId -> Seq(Folder)]
        /\ \A k \in JobId : DOMAIN folders[k] \subseteq DOMAIN folders'[k]
    BY <1>1, <1>9, <2>2, FoldersUnchanged, AppendFolderType DEF CreateFolderFails, SinkTypeOK
  <2> QED BY <1>1, <2>1, <2>3, FaultType, ReturnStep DEF QueueTypeOK
<1>10. CASE UploadFile(u)
  <2>1. up.pc = "files" /\ UNCHANGED <<jobDir, faults, pdfs>>
    BY <1>10 DEF UploadFile, queueVars
  <2>2. PICK n \in up.names : StoreFile(u, n) /\ FileDone(u, n, FALSE)
    BY <1>10 DEF UploadFile
  <2>3. SinkTypeOK' /\ UploadsInRange'
    BY <1>1, <2>1, <2>2, StoreFileType, FileDoneStep
  <2> QED BY <1>1, <2>1, <2>3 DEF QueueTypeOK
<1>11. CASE UploadFileFails(u)
  <2>1. up.pc = "files" /\ Fault /\ UNCHANGED <<jobDir, pdfs>>
    BY <1>11 DEF UploadFileFails
  <2>2. PICK n \in up.names : /\ UNCHANGED folders \/ StoreFile(u, n)
                              /\ FileDone(u, n, TRUE)
    BY <1>11 DEF UploadFileFails
  <2>3. /\ folders' \in [JobId -> Seq(Folder)]
        /\ \A k \in JobId : DOMAIN folders[k] \subseteq DOMAIN folders'[k]
    BY <1>1, <2>1, <2>2, FoldersUnchanged, StoreFileType
  <2>4. SinkTypeOK' /\ UploadsInRange'
    BY <1>1, <2>1, <2>2, <2>3, FileDoneStep
  <2> QED BY <1>1, <2>1, <2>4, FaultType DEF QueueTypeOK
<1> QED
  BY <1>3, <1>4, <1>5, <1>6, <1>7, <1>8, <1>9, <1>10, <1>11 DEF UploadAction, UploadStep

-----------------------------------------------------------------------------
(* The steps of the worker. *)

LEMMA ContinueType ==
    ASSUME NEW pc \in WorkerPc, NEW j, pc # "idle" => j \in Handle,
           NEW u \in Upload \cup {NoUpload}, Continue(pc, j, u)
    PROVE  WorkerTypeOK'
BY DEF Continue, WorkerTypeOK

LEMMA ReturnFromType == ReturnFromProcessScan => WorkerTypeOK'
BY DEF ReturnFromProcessScan, Continue, WorkerTypeOK, WorkerPc

LEMMA AfterType ==
    ASSUME NEW j
    PROVE  {AfterSpawn(j), AfterConvert(j), AfterOriginals(j)} \subseteq WorkerPc
BY DEF AfterSpawn, AfterConvert, AfterOriginals, WorkerPc

\* The job the worker is busy with is a handle of an existing job.
LEMMA WorkerBusy ==
    ASSUME WorkerTypeOK, workerPc # "idle"
    PROVE  /\ workerJob \in Handle /\ workerJob.id \in JobId
           /\ workerJob.pages \in Seq(Page)
BY DEF WorkerTypeOK, Handle

\* Starting and joining a goroutine; leaving the sink alone.
LEMMA SpawnStep ==
    ASSUME SinkTypeOK, UploadsInRange, NEW u \in Upload, NEW id \in JobId,
           uploads' = [uploads EXCEPT ![u] = [FreeUpload EXCEPT !.pc = "list", !.job = id]],
           UNCHANGED <<folders, pdfs>>
    PROVE  SinkTypeOK' /\ UploadsInRange'
<1> DEFINE new == [FreeUpload EXCEPT !.pc = "list", !.job = id]
<1>1. new \in UploadState /\ new.pc = "list" /\ new.job = id
  BY DEF FreeUpload, UploadState
<1> HIDE DEF new
<1> QED
  BY <1>1, FoldersUnchanged, UploadStateStep DEF new

LEMMA JoinStep ==
    ASSUME SinkTypeOK, UploadsInRange, NEW u \in Upload, Join(u), UNCHANGED <<folders, pdfs>>
    PROVE  SinkTypeOK' /\ UploadsInRange'
<1>1. FreeUpload \in UploadState /\ FreeUpload.pc = "free"
  BY DEF FreeUpload, UploadState
<1> QED
  BY <1>1, FoldersUnchanged, UploadStateStep DEF Join, Running

LEMMA SinkUnchanged ==
    ASSUME SinkTypeOK, UploadsInRange, UNCHANGED sinkVars
    PROVE  SinkTypeOK' /\ UploadsInRange'
BY DEF sinkVars, SinkTypeOK, UploadsInRange

\* A new PDF on Drive has the content of a scan.pdf.
LEMMA CreatePDFStep ==
    ASSUME QueueTypeOK, SinkTypeOK, UploadsInRange, NEW id \in JobId,
           jobDir[id].pdf # NoFile, CreatePDF(id), UNCHANGED <<folders, uploads>>
    PROVE  SinkTypeOK' /\ UploadsInRange'
<1>1. jobDir[id].pdf \in PDF \cup {Empty}
  BY DEF QueueTypeOK, Dir
<1> DEFINE content == jobDir[id].pdf
<1>2. pdfs' = [pdfs EXCEPT ![id] = Append(@, content)]
  BY DEF CreatePDF
<1>3. pdfs' \in [JobId -> Seq(PDF \cup {Empty})]
  <2> HIDE DEF content
  <2>1. content \in PDF \cup {Empty}
    BY <1>1 DEF content
  <2>2. pdfs \in [JobId -> Seq(PDF \cup {Empty})]
    BY DEF SinkTypeOK
  <2> DEFINE P == PDF \cup {Empty}
  <2> HIDE DEF P
  <2>3. content \in P /\ pdfs \in [JobId -> Seq(P)]
    BY <2>1, <2>2 DEF P
  <2>4. pdfs' \in [JobId -> Seq(P)]
    BY <1>2, <2>3
  <2> QED BY <2>4 DEF P
<1> QED
  BY <1>3 DEF SinkTypeOK, UploadsInRange

LEMMA WorkerStepTypeInv ==
    ASSUME TypeInv, WorkerAction
    PROVE  TypeInv'
<1> USE DEF TypeInv, TypeOK
<1>1. QueueTypeOK /\ SinkTypeOK /\ UploadsInRange /\ WorkerTypeOK
  OBVIOUS
<1>2. SUFFICES QueueTypeOK' /\ SinkTypeOK' /\ UploadsInRange' /\ WorkerTypeOK'
  BY DEF WorkerAction, ingestVars, resumeVars, envVars, PagesInRange
<1>3. jobDir \in [JobId -> Dir] /\ faults \in 0..MaxFaults
  BY DEF QueueTypeOK
<1>4. workerUpload \in Upload \cup {NoUpload}
  BY DEF WorkerTypeOK
<1>5. NoUpload \in Upload \cup {NoUpload}
  OBVIOUS
<1>6. UNCHANGED queueVars => QueueTypeOK'
  BY DEF QueueTypeOK, queueVars
<1>7. ASSUME jobDir' \in [JobId -> Dir], UNCHANGED faults \/ Fault
      PROVE  QueueTypeOK'
  BY <1>3, <1>7, FaultType DEF QueueTypeOK
<1>8. Marker = {"scan", "convert", "uploadoriginals", "uploadpdf"}
  BY DEF Marker
<1>9. CASE StartUpload
  <2>1. workerJob \in Handle /\ workerJob.id \in JobId
    BY <1>1, <1>9, WorkerBusy DEF StartUpload
  <2>2. PICK u \in Upload :
          /\ uploads' = [uploads EXCEPT ![u] = [FreeUpload EXCEPT !.pc = "list",
                                                                  !.job = workerJob.id]]
          /\ Continue(AfterSpawn(workerJob), workerJob, u)
    BY <1>9 DEF StartUpload
  <2>3. UNCHANGED <<queueVars, folders, pdfs>>
    BY <1>9 DEF StartUpload
  <2>4. AfterSpawn(workerJob) \in WorkerPc
    BY AfterType
  <2>5. WorkerTypeOK'
    BY <2>1, <2>2, <2>4, ContinueType
  <2>6. SinkTypeOK' /\ UploadsInRange'
    BY <1>1, <2>1, <2>2, <2>3, SpawnStep
  <2> QED BY <1>6, <2>3, <2>5, <2>6
<1>10. CASE SkipUpload
  <2>1. workerJob \in Handle /\ Continue(AfterSpawn(workerJob), workerJob, NoUpload)
    BY <1>1, <1>10, WorkerBusy DEF SkipUpload
  <2>2. AfterSpawn(workerJob) \in WorkerPc
    BY AfterType
  <2>3. WorkerTypeOK'
    BY <1>5, <2>1, <2>2, ContinueType
  <2> QED BY <1>1, <1>6, <1>10, <2>3, SinkUnchanged DEF SkipUpload

<1>11. CASE Convert
  <2>1. workerJob \in Handle /\ workerJob.id \in JobId /\ workerJob.pages \in Seq(Page)
    BY <1>1, <1>11, WorkerBusy DEF Convert
  <2>2. jobDir' \in [JobId -> Dir]
    BY <1>3, <1>11, <2>1, ConvertedType, WritePDFType DEF Convert
  <2>3. WorkerTypeOK'
    <3>1. Continue("markconvert", workerJob, workerUpload) /\ "markconvert" \in WorkerPc
      BY <1>11 DEF Convert, WorkerPc
    <3> QED BY <1>4, <2>1, <3>1, ContinueType
  <2> QED BY <1>1, <1>7, <1>11, <2>2, <2>3, SinkUnchanged DEF Convert
<1>12. ASSUME workerPc = "convert", ConvertError
       PROVE  WorkerTypeOK'
  <2>1. workerJob \in Handle
    BY <1>1, <1>12, WorkerBusy
  <2> DEFINE pc == IF "uploadoriginals" \in workerJob.markers THEN "idle" ELSE "failing"
  <2>2. pc \in WorkerPc /\ Continue(pc, workerJob, workerUpload)
    BY <1>12 DEF ConvertError, WorkerPc
  <2> HIDE DEF pc
  <2> QED BY <1>4, <2>1, <2>2, ContinueType
<1>13. CASE ConvertUndecodable
  BY <1>1, <1>6, <1>12, <1>13, SinkUnchanged DEF ConvertUndecodable
<1>14. CASE ConvertFails
  <2>1. workerJob.id \in JobId /\ workerJob.pages \in Seq(Page)
    BY <1>1, <1>14, WorkerBusy DEF ConvertFails
  <2>2. Converted(workerJob.pages) \in PDF
    BY <2>1, ConvertedType
  <2>3. jobDir' \in [JobId -> Dir]
    BY <1>3, <1>14, <2>1, <2>2, WritePDFType DEF ConvertFails
  <2> QED BY <1>1, <1>7, <1>12, <1>14, <2>3, SinkUnchanged DEF ConvertFails
<1>15. CASE MarkConverted
  <2> DEFINE j == Committed(workerJob, "convert")
             u == IF "uploadoriginals" \in j.markers THEN NoUpload ELSE workerUpload
  <2>1. workerJob \in Handle /\ workerJob.id \in JobId
    BY <1>1, <1>15, WorkerBusy DEF MarkConverted
  <2>2. j \in Handle /\ u \in Upload \cup {NoUpload} /\ AfterConvert(j) \in WorkerPc
    BY <1>3, <1>4, <1>8, <2>1, CommittedType, AfterType
  <2>3. Continue(AfterConvert(j), j, u)
    BY <1>15 DEF MarkConverted
  <2>4. WorkerTypeOK'
    <3> HIDE DEF j, u
    <3> QED BY <2>2, <2>3, ContinueType
  <2>5. jobDir' \in [JobId -> Dir]
    BY <1>3, <1>8, <1>15, <2>1, WriteMarkerType DEF MarkConverted
  <2> QED BY <1>1, <1>7, <1>15, <2>4, <2>5, SinkUnchanged DEF MarkConverted
<1>16. CASE MarkConvertedFails
  <2>1. workerJob.id \in JobId
    BY <1>1, <1>16, WorkerBusy DEF MarkConvertedFails
  <2> QED BY <1>1, <1>8, <1>16, <2>1, CommitFailsType, ReturnFromType, SinkUnchanged
          DEF MarkConvertedFails
<1>17. ASSUME AwaitsResult
       PROVE  workerUpload \in Upload /\ workerJob \in Handle /\ workerJob.id \in JobId
  BY <1>1, <1>4, <1>17, WorkerBusy DEF AwaitsResult
<1>18. CASE MarkOriginals
  <2> DEFINE j == Committed(workerJob, "uploadoriginals")
             pc == IF workerPc = "failing" THEN "idle" ELSE AfterOriginals(j)
  <2>1. workerUpload \in Upload /\ workerJob \in Handle /\ workerJob.id \in JobId
    BY <1>17, <1>18 DEF MarkOriginals
  <2>2. j \in Handle /\ pc \in WorkerPc
    BY <1>3, <1>8, <2>1, CommittedType, AfterType DEF WorkerPc
  <2>3. Continue(pc, j, NoUpload)
    BY <1>18 DEF MarkOriginals
  <2>4. WorkerTypeOK'
    <3> HIDE DEF j, pc
    <3> QED BY <1>5, <2>2, <2>3, ContinueType
  <2>5. jobDir' \in [JobId -> Dir]
    BY <1>3, <1>8, <1>18, <2>1, WriteMarkerType DEF MarkOriginals
  <2>6. SinkTypeOK' /\ UploadsInRange'
    BY <1>1, <1>18, <2>1, JoinStep DEF MarkOriginals
  <2> QED BY <1>7, <1>18, <2>4, <2>5, <2>6 DEF MarkOriginals
<1>19. CASE MarkOriginalsFails
  <2>1. workerUpload \in Upload /\ workerJob.id \in JobId
    BY <1>17, <1>19 DEF MarkOriginalsFails
  <2>2. SinkTypeOK' /\ UploadsInRange'
    BY <1>1, <1>19, <2>1, JoinStep DEF MarkOriginalsFails
  <2> QED BY <1>1, <1>8, <1>19, <2>1, <2>2, CommitFailsType, ReturnFromType
          DEF MarkOriginalsFails
<1>20. CASE OriginalsFailed
  <2>1. workerUpload \in Upload
    BY <1>17, <1>20 DEF OriginalsFailed
  <2>2. SinkTypeOK' /\ UploadsInRange'
    BY <1>1, <1>20, <2>1, JoinStep DEF OriginalsFailed
  <2> QED BY <1>6, <1>20, <2>2, ReturnFromType DEF OriginalsFailed
<1>21. {"driveid", "markpdf"} \subseteq WorkerPc
  BY DEF WorkerPc
<1>22. CASE UploadPDF
  <2>1. workerJob \in Handle /\ workerJob.id \in JobId
    BY <1>1, <1>22, WorkerBusy DEF UploadPDF
  <2>2. Continue("driveid", workerJob, NoUpload)
    BY <1>22 DEF UploadPDF
  <2>3. WorkerTypeOK'
    BY <1>5, <1>21, <2>1, <2>2, ContinueType
  <2>4. SinkTypeOK' /\ UploadsInRange'
    BY <1>1, <1>22, <2>1, CreatePDFStep DEF UploadPDF
  <2> QED BY <1>6, <1>22, <2>3, <2>4 DEF UploadPDF
<1>23. CASE UploadNoPDF
  <2>1. workerJob \in Handle /\ Continue("markpdf", workerJob, NoUpload)
    BY <1>1, <1>23, WorkerBusy DEF UploadNoPDF
  <2>2. WorkerTypeOK'
    BY <1>5, <1>21, <2>1, ContinueType
  <2> QED BY <1>1, <1>6, <1>23, <2>2, SinkUnchanged DEF UploadNoPDF
<1>24. CASE UploadPDFFails
  <2>1. workerJob.id \in JobId
    BY <1>1, <1>24, WorkerBusy DEF UploadPDFFails
  <2>2. SinkTypeOK' /\ UploadsInRange'
    BY <1>1, <1>24, <2>1, CreatePDFStep, SinkUnchanged DEF UploadPDFFails, sinkVars
  <2> QED BY <1>3, <1>7, <1>24, <2>2, ReturnFromType DEF UploadPDFFails
<1>25. ASSUME workerPc = "driveid"
       PROVE  Len(pdfs[workerJob.id]) \in Nat
  BY <1>1, <1>25, WorkerBusy DEF SinkTypeOK
<1>26. CASE RecordDriveId
  <2>1. workerJob \in Handle /\ workerJob.id \in JobId
    BY <1>1, <1>26, WorkerBusy DEF RecordDriveId
  <2>2. ReadState(workerJob, jobDir[workerJob.id]) \in Handle
    BY <1>3, <2>1, ReadStateType
  <2>3. Continue("markpdf", ReadState(workerJob, jobDir[workerJob.id]), NoUpload)
    BY <1>26 DEF RecordDriveId
  <2>4. WorkerTypeOK'
    BY <1>5, <1>21, <2>2, <2>3, ContinueType
  <2>5. jobDir' \in [JobId -> Dir]
    BY <1>3, <1>25, <1>26, <2>1, WriteDriveIdType DEF RecordDriveId
  <2> QED BY <1>1, <1>7, <1>26, <2>4, <2>5, SinkUnchanged DEF RecordDriveId
<1>27. CASE RecordDriveIdFails
  <2>1. workerJob.id \in JobId /\ 0 \in Nat
    BY <1>1, <1>27, WorkerBusy DEF RecordDriveIdFails
  <2>2. jobDir' \in [JobId -> Dir]
    BY <1>3, <1>25, <1>27, <2>1, WriteDriveIdType DEF RecordDriveIdFails
  <2> QED BY <1>1, <1>7, <1>27, <2>2, ReturnFromType, SinkUnchanged DEF RecordDriveIdFails
<1>28. CASE MarkPDF
  <2>1. workerJob.id \in JobId
    BY <1>1, <1>28, WorkerBusy DEF MarkPDF
  <2>2. jobDir' \in [JobId -> Dir]
    BY <1>3, <1>8, <1>28, <2>1, WriteMarkerType DEF MarkPDF
  <2> QED BY <1>1, <1>7, <1>28, <2>2, ReturnFromType, SinkUnchanged DEF MarkPDF
<1>29. CASE MarkPDFFails
  <2>1. workerJob.id \in JobId
    BY <1>1, <1>29, WorkerBusy DEF MarkPDFFails
  <2> QED BY <1>1, <1>8, <1>29, <2>1, CommitFailsType, ReturnFromType, SinkUnchanged
          DEF MarkPDFFails
<1> QED
  BY <1>9, <1>10, <1>11, <1>13, <1>14, <1>15, <1>16, <1>18, <1>19, <1>20, <1>22, <1>23,
     <1>24, <1>26, <1>27, <1>28, <1>29 DEF WorkerAction, WorkerStep


-----------------------------------------------------------------------------
(* The steps of an ingester. *)

\* What a step of ingester i keeps when it leaves i in state new.
LEMMA IngestStateStep ==
    ASSUME TypeOK, PagesInRange, NEW i \in Ingester, NEW new \in IngestState,
           ingest' = [ingest EXCEPT ![i] = new],
           new.pc = "addpage" => Len(new.job.pages) < PageCount[new.scan]
    PROVE  ingest' \in [Ingester -> IngestState] /\ PagesInRange'
<1>1. ingest \in [Ingester -> IngestState]
  BY DEF TypeOK
<1>2. \A k \in Ingester : ingest'[k] = IF k = i THEN new ELSE ingest[k]
  BY <1>1
<1> QED
  BY <1>1, <1>2 DEF PagesInRange

\* A busy ingester holds a handle of an existing job.
LEMMA IngesterBusy ==
    ASSUME TypeOK, NEW i \in Ingester, ingest[i].pc # "idle"
    PROVE  /\ ingest[i] \in [pc : {"addpage", "commit", "readback", "send"},
                             scan : Scan, job : Handle]
           /\ ingest[i].scan \in Scan /\ ingest[i].job \in Handle
           /\ ingest[i].job.id \in JobId /\ ingest[i].job.pages \in Seq(Page)
<1>1. ingest[i] \in IngestState /\ ingest[i] # NoIngest
  BY DEF TypeOK, NoIngest
<1>2. ingest[i] \in [pc : {"addpage", "commit", "readback", "send"},
                     scan : Scan, job : Handle]
  BY <1>1 DEF IngestState
<1> QED
  BY <1>2 DEF Handle

LEMMA GiveUpStep ==
    ASSUME TypeOK, PagesInRange, NEW i \in Ingester, ingest' = [ingest EXCEPT ![i] = NoIngest]
    PROVE  ingest' \in [Ingester -> IngestState] /\ PagesInRange'
<1>1. NoIngest \in IngestState /\ NoIngest.pc = "idle"
  BY DEF NoIngest, IngestState
<1> QED
  BY <1>1, IngestStateStep

\* The page that addPage writes next is within the bound.
LEMMA NextPageType ==
    ASSUME TypeOK, PagesInRange, NEW i \in Ingester, ingest[i].pc = "addpage"
    PROVE  /\ NextPage(i) \in 1..MaxPages
           /\ NextPage(i) <= PageCount[ingest[i].scan]
           /\ PageCount[ingest[i].scan] \in Nat
<1>1. ingest[i].scan \in Scan /\ ingest[i].job.pages \in Seq(Page)
  BY IngesterBusy
<1>2. PageCount[ingest[i].scan] \in 0..MaxPages /\ MaxPages \in Nat
  BY <1>1, ScanAssumption, BoundsAssumption
<1>3. Len(ingest[i].job.pages) < PageCount[ingest[i].scan]
  BY DEF PagesInRange
<1> DEFINE l == Len(ingest[i].job.pages)
<1>4. l \in Nat
  BY <1>1
<1> HIDE DEF l
<1> QED
  BY <1>2, <1>3, <1>4 DEF NextPage, l

LEMMA ReceiveType ==
    ASSUME NEW j \in Handle, Receive(j)
    PROVE  WorkerTypeOK'
BY ContinueType DEF Receive, WorkerPc

LEMMA HandoverType ==
    ASSUME NEW j \in Handle, handedPartial \subseteq JobId, NoteHandover(j)
    PROVE  handedPartial' \subseteq JobId
BY DEF NoteHandover, Handle

LEMMA IngestStepTypeInv ==
    ASSUME TypeInv, NEW i \in Ingester, IngestStep(i)
    PROVE  TypeInv'
<1> USE DEF TypeInv
<1>1. TypeOK /\ UploadsInRange /\ PagesInRange
  OBVIOUS
<1>2. /\ QueueTypeOK /\ SinkTypeOK /\ WorkerTypeOK
      /\ jobDir \in [JobId -> Dir] /\ faults \in 0..MaxFaults
      /\ ingest \in [Ingester -> IngestState]
      /\ scanned \subseteq Scan /\ handedPartial \subseteq JobId
      /\ resumePc \in {"sleep", "read", "enqueue"} /\ resumeTodo \subseteq JobId
      /\ resumeJobs \subseteq Handle
      /\ crashes \in 0..MaxCrashes /\ deleted \subseteq JobId
  BY DEF TypeOK, QueueTypeOK
<1>3. UNCHANGED workerVars => WorkerTypeOK'
  BY <1>2 DEF workerVars, WorkerTypeOK
<1>4. SUFFICES /\ QueueTypeOK' /\ WorkerTypeOK'
               /\ ingest' \in [Ingester -> IngestState] /\ PagesInRange'
               /\ scanned' \subseteq Scan /\ handedPartial' \subseteq JobId
               /\ UNCHANGED <<sinkVars, resumeVars, envVars>>
  BY <1>1, <1>2, SinkUnchanged DEF TypeOK, resumeVars, envVars
<1>5. CASE \E s \in Scan : StartJob(i, s)
  <2>0. PICK s \in Scan : StartJob(i, s)
    BY <1>5
  <2>1. PICK id \in NewIds :
          /\ MakeDir(id)
          /\ ingest' = [ingest EXCEPT ![i] = [pc |-> AfterPages(s, 0), scan |-> s,
                                              job |-> NewHandle(id)]]
    BY <2>0 DEF StartJob
  <2>2. id \in JobId
    BY DEF NewIds
  <2> DEFINE j == NewHandle(id)
             new == [pc |-> AfterPages(s, 0), scan |-> s, job |-> j]
  <2>3. j \in Handle /\ j.pages = <<>>
    BY <2>2, NewHandleType DEF NewHandle
  <2>4. PageCount[s] \in Nat
    BY ScanAssumption, BoundsAssumption
  <2>5. new \in IngestState /\ (new.pc = "addpage" => Len(new.job.pages) < PageCount[new.scan])
    <3> HIDE DEF j
    <3> QED BY <2>3, <2>4 DEF IngestState, AfterPages
  <2>6. ingest' \in [Ingester -> IngestState] /\ PagesInRange'
    <3> HIDE DEF new
    <3>1. ingest' = [ingest EXCEPT ![i] = new]
      BY <2>1 DEF new
    <3> QED BY <1>1, <2>5, <3>1, IngestStateStep
  <2>7. jobDir' \in [JobId -> Dir]
    BY <1>2, <2>1, <2>2, MakeDirType
  <2> QED BY <1>2, <1>3, <2>0, <2>6, <2>7 DEF StartJob, QueueTypeOK
<1>6. CASE AddPage(i)
  <2> DEFINE s == ingest[i].scan
             n == NextPage(i)
             j == [ingest[i].job EXCEPT !.pages = Append(@, <<s, n>>)]
             new == [ingest[i] EXCEPT !.pc = AfterPages(s, n), !.job = j]
  <2>1. /\ ingest[i] \in [pc : {"addpage", "commit", "readback", "send"},
                          scan : Scan, job : Handle]
        /\ s \in Scan /\ ingest[i].job \in Handle
        /\ ingest[i].job.id \in JobId /\ ingest[i].job.pages \in Seq(Page)
    BY <1>1, <1>6, IngesterBusy DEF AddPage
  <2>2. n \in 1..MaxPages /\ n <= PageCount[s] /\ PageCount[s] \in Nat
    BY <1>1, <1>6, NextPageType DEF AddPage
  <2>3. <<s, n>> \in Page
    BY <2>1, <2>2 DEF Page
  <2>4. WritePage(ingest[i].job.id, n, <<s, n>>)
    BY <1>6 DEF AddPage
  <2>5. jobDir' \in [JobId -> Dir]
    <3> HIDE DEF n, s
    <3> QED BY <1>2, <2>1, <2>2, <2>3, <2>4, WritePageType
  <2>6. n = Len(ingest[i].job.pages) + 1
    BY DEF NextPage
  <2>7. j \in Handle /\ Len(j.pages) = n
    <3> DEFINE page == <<s, n>>
               old == ingest[i].job.pages
    <3>1. page \in Page /\ old \in Seq(Page) /\ n = Len(old) + 1
      BY <2>1, <2>3, <2>6
    <3>2. j = [ingest[i].job EXCEPT !.pages = Append(old, page)]
      OBVIOUS
    <3> HIDE DEF n, s, page, old, j
    <3>3. Append(old, page) \in Seq(Page) /\ Len(Append(old, page)) = n
      BY <3>1
    <3> QED BY <2>1, <3>2, <3>3 DEF Handle
  <2>8. new \in IngestState /\ (new.pc = "addpage" => Len(new.job.pages) < PageCount[new.scan])
    <3>1. new.scan = s /\ new.job = j /\ new.pc = AfterPages(s, n)
      BY <2>1
    <3>2. new \in IngestState
      <4> HIDE DEF n, j
      <4> QED BY <2>1, <2>7 DEF IngestState, AfterPages
    <3> HIDE DEF new, j, n, s
    <3> QED BY <2>2, <2>7, <3>1, <3>2 DEF AfterPages
  <2>9. ingest' = [ingest EXCEPT ![i] = new]
    BY <1>2, <1>6 DEF AddPage
  <2>10. ingest' \in [Ingester -> IngestState] /\ PagesInRange'
    <3> HIDE DEF new
    <3> QED BY <1>1, <2>8, <2>9, IngestStateStep
  <2> QED BY <1>2, <1>3, <1>4, <1>6, <2>5, <2>10 DEF AddPage, QueueTypeOK
<1>7. CASE AddPageError(i)
  <2>1. ingest[i].job.id \in JobId
    BY <1>1, <1>7, IngesterBusy DEF AddPageError
  <2>2. NextPage(i) \in 1..MaxPages
    BY <1>1, <1>7, NextPageType DEF AddPageError
  <2>3. Fault /\ (UNCHANGED jobDir \/ WritePage(ingest[i].job.id, NextPage(i), Empty))
    BY <1>7 DEF AddPageError, AddPageFails
  <2>4. jobDir' \in [JobId -> Dir]
    BY <1>2, <2>1, <2>2, <2>3, WritePageType
  <2>5. QueueTypeOK'
    BY <1>2, <2>3, <2>4, FaultType DEF QueueTypeOK
  <2>6. ingest' \in [Ingester -> IngestState] /\ PagesInRange'
    BY <1>1, <1>7, GiveUpStep DEF AddPageError, GiveUp
  <2> QED BY <1>2, <1>3, <1>4, <1>7, <2>5, <2>6 DEF AddPageError
<1>8. CASE CommitScan(i)
  <2> DEFINE new == [ingest[i] EXCEPT !.pc = "readback"]
  <2>1. ingest[i].job.id \in JobId
    BY <1>1, <1>8, IngesterBusy DEF CommitScan
  <2>2. new \in IngestState /\ new.pc # "addpage"
    BY <1>1, <1>8, IngesterBusy DEF CommitScan, IngestState
  <2>3. ingest' = [ingest EXCEPT ![i] = new]
    BY <1>2, <1>8 DEF CommitScan
  <2>4. ingest' \in [Ingester -> IngestState] /\ PagesInRange'
    <3> HIDE DEF new
    <3> QED BY <1>1, <2>2, <2>3, IngestStateStep
  <2>5. jobDir' \in [JobId -> Dir]
    BY <1>2, <1>8, <2>1, WriteMarkerType DEF CommitScan, Marker
  <2> QED BY <1>2, <1>3, <1>4, <1>8, <2>4, <2>5 DEF CommitScan, QueueTypeOK
<1>9. CASE CommitScanError(i)
  <2>1. ingest[i].job.id \in JobId /\ "scan" \in Marker
    BY <1>1, <1>9, IngesterBusy DEF CommitScanError, Marker
  <2>2. QueueTypeOK'
    BY <1>2, <1>9, <2>1, CommitFailsType DEF CommitScanError
  <2>3. ingest' \in [Ingester -> IngestState] /\ PagesInRange'
    BY <1>1, <1>9, GiveUpStep DEF CommitScanError, GiveUp
  <2> QED BY <1>2, <1>3, <1>4, <1>9, <2>2, <2>3 DEF CommitScanError
<1>10. CASE ReadBack(i)
  <2> DEFINE j == ingest[i].job
             r == ReadState(j, jobDir[j.id])
             h == [r EXCEPT !.state = "InProgress"]
             new == [ingest[i] EXCEPT !.pc = "send", !.job = h]
  <2>1. /\ ingest[i] \in [pc : {"addpage", "commit", "readback", "send"},
                          scan : Scan, job : Handle]
        /\ j \in Handle /\ j.id \in JobId
    BY <1>1, <1>10, IngesterBusy DEF ReadBack
  <2>2. r \in Handle
    BY <1>2, <2>1, ReadStateType
  <2>3. h \in Handle
    <3> HIDE DEF r
    <3> QED BY <2>2 DEF Handle
  <2>4. new \in IngestState /\ new.pc # "addpage"
    <3> HIDE DEF h
    <3> QED BY <2>1, <2>3 DEF IngestState
  <2>5. ingest' = [ingest EXCEPT ![i] = new]
    BY <1>2, <1>10 DEF ReadBack
  <2>6. ingest' \in [Ingester -> IngestState] /\ PagesInRange'
    <3> HIDE DEF new
    <3> QED BY <1>1, <2>4, <2>5, IngestStateStep
  <2> QED BY <1>2, <1>3, <1>4, <1>10, <2>6 DEF ReadBack, QueueTypeOK, queueVars
<1>11. CASE Enqueue(i)
  <2>1. ingest[i].job \in Handle
    BY <1>1, <1>11, IngesterBusy DEF Enqueue
  <2>2. WorkerTypeOK' /\ handedPartial' \subseteq JobId
    BY <1>2, <1>11, <2>1, ReceiveType, HandoverType DEF Enqueue
  <2>3. ingest' \in [Ingester -> IngestState] /\ PagesInRange'
    BY <1>1, <1>11, GiveUpStep DEF Enqueue
  <2> QED BY <1>2, <1>4, <1>11, <2>2, <2>3 DEF Enqueue, QueueTypeOK, queueVars
<1> QED
  BY <1>5, <1>6, <1>7, <1>8, <1>9, <1>10, <1>11 DEF IngestStep


-----------------------------------------------------------------------------
(* The steps of the resume loop. *)

LEMMA ResumeStepTypeInv ==
    ASSUME TypeInv, ResumeStep
    PROVE  TypeInv'
<1>1. TypeOK /\ UploadsInRange /\ PagesInRange
  BY DEF TypeInv
<1>2. /\ QueueTypeOK /\ SinkTypeOK /\ WorkerTypeOK
      /\ jobDir \in [JobId -> Dir] /\ faults \in 0..MaxFaults
      /\ handedPartial \subseteq JobId
      /\ resumePc \in {"sleep", "read", "enqueue"} /\ resumeTodo \subseteq JobId
      /\ resumeJobs \subseteq Handle
  BY <1>1 DEF TypeOK, QueueTypeOK
<1>3. SUFFICES /\ QueueTypeOK' /\ WorkerTypeOK' /\ handedPartial' \subseteq JobId
               /\ resumePc' \in {"sleep", "read", "enqueue"} /\ resumeTodo' \subseteq JobId
               /\ resumeJobs' \subseteq Handle
               /\ UNCHANGED <<sinkVars, ingestVars, envVars>>
  BY <1>1, <1>2, SinkUnchanged DEF TypeInv, TypeOK, ingestVars, envVars, PagesInRange
<1>4. UNCHANGED workerVars => WorkerTypeOK'
  BY <1>2 DEF workerVars, WorkerTypeOK
<1>5. UNCHANGED queueVars => QueueTypeOK'
  BY <1>2 DEF queueVars, QueueTypeOK
<1>6. CASE WakeUp
  BY <1>2, <1>4, <1>5, <1>6 DEF WakeUp, JobDirs
<1>7. CASE ReadJob
  <2>1. PICK id \in resumeTodo :
          /\ resumeTodo' = resumeTodo \ {id}
          /\ LET j == JobById(id)
                 jobs == IF j.state = "Done" THEN resumeJobs ELSE resumeJobs \cup {j}
             IN  /\ resumeJobs' = jobs
                 /\ resumePc' = IF resumeTodo # {id} THEN "read"
                                ELSE IF jobs # {} THEN "enqueue" ELSE "sleep"
    BY <1>7 DEF ReadJob
  <2> DEFINE j == JobById(id)
  <2>2. j \in Handle
    BY <1>2, JobByIdType
  <2>3. resumeJobs' \subseteq Handle /\ resumePc' \in {"sleep", "read", "enqueue"}
    <3>1. resumeJobs' = IF j.state = "Done" THEN resumeJobs ELSE resumeJobs \cup {j}
      BY <2>1
    <3>2. resumePc' \in {"sleep", "read", "enqueue"}
      BY <2>1
    <3> HIDE DEF j
    <3> QED BY <1>2, <2>2, <3>1, <3>2
  <2> QED BY <1>2, <1>4, <1>5, <1>7, <2>1, <2>3 DEF ReadJob
<1>8. CASE ReadJobError
  BY <1>2, <1>4, <1>8, FaultType DEF ReadJobError, QueueTypeOK
<1>9. CASE EnqueueUnfinished
  <2>1. PICK j \in resumeJobs :
          /\ Receive(j)
          /\ NoteHandover(j)
          /\ resumeJobs' = resumeJobs \ {j}
          /\ resumePc' = IF resumeJobs = {j} THEN "sleep" ELSE "enqueue"
    BY <1>9 DEF EnqueueUnfinished
  <2>2. j \in Handle
    BY <1>2
  <2>3. WorkerTypeOK' /\ handedPartial' \subseteq JobId
    BY <1>2, <2>1, <2>2, ReceiveType, HandoverType
  <2> QED BY <1>2, <1>5, <1>9, <2>1, <2>3 DEF EnqueueUnfinished
<1> QED
  BY <1>6, <1>7, <1>8, <1>9 DEF ResumeStep

-----------------------------------------------------------------------------
(* The environment. *)

LEMMA TornWriteType ==
    ASSUME TypeInv, TornWrite
    PROVE  jobDir' \in [JobId -> Dir]
<1>1. TypeOK /\ PagesInRange /\ WorkerTypeOK /\ jobDir \in [JobId -> Dir]
  BY DEF TypeInv, TypeOK, QueueTypeOK
<1>2. CASE workerPc = "convert" /\ WritePDF(workerJob.id, Empty)
  BY <1>1, <1>2, WorkerBusy, WritePDFType
<1>3. CASE workerPc = "driveid" /\ WriteDriveId(workerJob.id, 0)
  <2>1. workerJob.id \in JobId /\ 0 \in Nat
    BY <1>1, <1>3, WorkerBusy
  <2> QED BY <1>1, <1>3, <2>1, WriteDriveIdType
<1>4. CASE \E i \in Ingester :
             ingest[i].pc = "addpage" /\ WritePage(ingest[i].job.id, NextPage(i), Empty)
  <2>1. PICK i \in Ingester :
             ingest[i].pc = "addpage" /\ WritePage(ingest[i].job.id, NextPage(i), Empty)
    BY <1>4
  <2>2. ingest[i].job.id \in JobId
    BY <1>1, <2>1, IngesterBusy
  <2>3. NextPage(i) \in 1..MaxPages
    BY <1>1, <2>1, NextPageType
  <2> QED BY <1>1, <2>1, <2>2, <2>3, WritePageType
<1> QED
  BY <1>1, <1>2, <1>3, <1>4 DEF TornWrite

LEMMA EnvironmentTypeInv ==
    ASSUME TypeInv, Environment
    PROVE  TypeInv'
<1>1. TypeOK /\ UploadsInRange /\ PagesInRange
  BY DEF TypeInv
<1>2. /\ QueueTypeOK /\ SinkTypeOK /\ WorkerTypeOK
      /\ jobDir \in [JobId -> Dir] /\ faults \in 0..MaxFaults
      /\ ingest \in [Ingester -> IngestState]
      /\ scanned \subseteq Scan /\ handedPartial \subseteq JobId
      /\ resumePc \in {"sleep", "read", "enqueue"} /\ resumeTodo \subseteq JobId
      /\ resumeJobs \subseteq Handle
      /\ crashes \in 0..MaxCrashes /\ deleted \subseteq JobId
  BY <1>1 DEF TypeOK, QueueTypeOK
<1>3. CASE Crash
  <2>1. jobDir' \in [JobId -> Dir]
    BY <1>3, TornWriteType DEF Crash
  <2>2. FreeUpload \in UploadState /\ FreeUpload.pc = "free"
    BY DEF FreeUpload, UploadState
  <2>3. SinkTypeOK' /\ UploadsInRange'
    BY <1>2, <1>3, <2>2 DEF Crash, SinkTypeOK, UploadsInRange, Running
  <2>4. WorkerTypeOK'
    BY <1>3 DEF Crash, WorkerTypeOK, WorkerPc
  <2>5. NoIngest \in IngestState /\ NoIngest.pc = "idle"
    BY DEF NoIngest, IngestState
  <2>6. ingest' \in [Ingester -> IngestState] /\ PagesInRange'
    BY <1>3, <2>5 DEF Crash, PagesInRange
  <2>7. crashes' \in 0..MaxCrashes
    BY <1>2, <1>3, ScanAssumption DEF Crash
  <2> QED BY <1>2, <1>3, <2>1, <2>3, <2>4, <2>6, <2>7 DEF Crash, TypeInv, TypeOK, QueueTypeOK
<1>4. CASE \E id \in JobId : DeletePDF(id)
  <2>1. PICK id \in JobId : DeletePDF(id)
    BY <1>4
  <2>2. jobDir' \in [JobId -> Dir] /\ UNCHANGED sinkVars
    BY <1>2, <2>1, WritePDFType DEF DeletePDF
  <2>3. deleted' \subseteq JobId
    BY <1>2, <2>1 DEF DeletePDF
  <2>4. SinkTypeOK' /\ UploadsInRange'
    BY <1>1, <1>2, <2>2, SinkUnchanged
  <2>5. UNCHANGED <<faults, workerVars, ingestVars, resumeVars, crashes, handedPartial>>
    BY <2>1 DEF DeletePDF
  <2> QED BY <1>1, <1>2, <2>2, <2>3, <2>4, <2>5
          DEF TypeInv, TypeOK, QueueTypeOK, WorkerTypeOK, PagesInRange,
              workerVars, ingestVars, resumeVars
<1> QED
  BY <1>3, <1>4 DEF Environment

-----------------------------------------------------------------------------

LEMMA NextTypeInv ==
    ASSUME TypeInv, [Next]_vars
    PROVE  TypeInv'
<1>1. CASE UNCHANGED vars
  <2>1. /\ UNCHANGED <<queueVars, sinkVars, workerVars, ingestVars, resumeVars, envVars>>
        /\ handedPartial' = handedPartial
    BY <1>1 DEF vars
  <2> QED BY <2>1 DEF TypeInv, TypeOK, QueueTypeOK, SinkTypeOK, WorkerTypeOK,
                      UploadsInRange, PagesInRange, queueVars, sinkVars, workerVars,
                      ingestVars, resumeVars, envVars
<1>2. CASE \E i \in Ingester : IngestStep(i)
  BY <1>2, IngestStepTypeInv
<1>3. CASE \E u \in Upload : UploadAction(u)
  BY <1>3, UploadStepTypeInv
<1> QED
  BY <1>1, <1>2, <1>3, ResumeStepTypeInv, WorkerStepTypeInv, EnvironmentTypeInv DEF Next

\* Every value stays in its range: in particular no goroutine of UploadOriginals
\* fills a folder that does not exist, and addPage never runs past the pages of
\* its scan (UploadOriginals, AddJob).
THEOREM TypeInvariant == Spec => []TypeInv
<1>1. TypeInv /\ [Next]_vars => TypeInv'
  BY NextTypeInv
<1> QED
  BY InitTypeInv, <1>1, PTL DEF Spec

\* The type invariant, of which TypeInv is the inductive strengthening.
THEOREM TypeCorrect == Spec => []TypeOK
<1>1. TypeInv => TypeOK
  BY DEF TypeInv
<1> QED
  BY TypeInvariant, <1>1, PTL
=============================================================================
