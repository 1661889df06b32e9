------------------------------ MODULE DriveSink -----------------------------
(***************************************************************************)
(* The Google Drive sink: internal/sink/drivesink/drivesink.go, and the    *)
(* part of Google Drive it talks to.                                       *)
(*                                                                         *)
(* The originals of a job go into a folder named after the job; each run   *)
(* of UploadOriginals is a goroutine of its own, an Upload below, that     *)
(* makes one request per step.  The PDF is uploaded by the worker itself.  *)
(*                                                                         *)
(* Google Drive keeps what it is given, lets any number of files share a   *)
(* name and never deletes.  A request succeeds, is refused, or takes       *)
(* effect while its answer is lost, which the client sees as an error.     *)
(* The folder of the current year is taken to exist and not to change.     *)
(***************************************************************************)
EXTENDS JobQueue

CONSTANTS
    Upload,     \* UploadOriginals goroutines that may run at the same time
    NoJob       \* no job

VARIABLES
    folders,    \* Drive: the folders named after each job, in order of creation
    pdfs,       \* Drive: the PDFs named after each job, in order of creation
    uploads     \* the UploadOriginals goroutines

sinkVars == <<folders, pdfs, uploads>>

\* The Drive id of a folder or a PDF is its index in the sequence of its job.
Folder == [files : [1..MaxPages -> Page \cup {NoFile, Empty}], trashed : BOOLEAN]

UploadState == [pc : {"free", "list", "find", "trash", "create", "files", "done"},
                job : JobId \cup {NoJob},
                names : SUBSET (1..MaxPages),   \* the .jpg files listed, not yet uploaded
                folder : Nat,                   \* folder to trash, then folder to fill
                failed : BOOLEAN]

FreeUpload == [pc |-> "free", job |-> NoJob, names |-> {}, folder |-> 0, failed |-> FALSE]

\* UploadOriginals returns.
Return(u, failed) ==
    uploads' = [uploads EXCEPT ![u] = [FreeUpload EXCEPT !.pc = "done", !.failed = failed]]

\* A request of goroutine u is answered with an error: UploadOriginals gives up.
RequestFails(u) == Fault /\ Return(u, TRUE)

\* The folders a search for the job's name finds.
LiveFolders(id) == {f \in DOMAIN folders[id] : ~folders[id][f].trashed}

-----------------------------------------------------------------------------
(* The steps of UploadOriginals. *)

\* Filenames, read once at the start.
ListFiles(u) ==
    /\ uploads[u].pc = "list"
    /\ LET d == jobDir[uploads[u].job]
       IN  uploads' = [uploads EXCEPT ![u].pc = "find",
                                      ![u].names = {n \in 1..MaxPages : d.pages[n] # NoFile}]
    /\ UNCHANGED <<queueVars, folders, pdfs>>

\* Find a folder of the same name; the answer holds at most one (PageSize(1)).
FindFolder(u) ==
    /\ uploads[u].pc = "find"
    /\ \/ \E f \in LiveFolders(uploads[u].job) :
            uploads' = [uploads EXCEPT ![u].pc = "trash", ![u].folder = f]
       \/ /\ LiveFolders(uploads[u].job) = {}
          /\ uploads' = [uploads EXCEPT ![u].pc = "create"]
    /\ UNCHANGED <<queueVars, folders, pdfs>>

FindFolderFails(u) ==
    /\ uploads[u].pc = "find"
    /\ RequestFails(u)
    /\ UNCHANGED <<jobDir, folders, pdfs>>

MarkTrashed(u) ==
    folders' = [folders EXCEPT ![uploads[u].job][uploads[u].folder].trashed = TRUE]

TrashFolder(u) ==
    /\ uploads[u].pc = "trash"
    /\ MarkTrashed(u)
    /\ uploads' = [uploads EXCEPT ![u].pc = "create", ![u].folder = 0]
    /\ UNCHANGED <<queueVars, pdfs>>

TrashFolderFails(u) ==
    /\ uploads[u].pc = "trash"
    /\ RequestFails(u)
    /\ UNCHANGED folders \/ MarkTrashed(u)
    /\ UNCHANGED <<jobDir, pdfs>>

AppendFolder(id) ==
    folders' = [folders EXCEPT ![id] = Append(@, [files |-> NoDir.pages, trashed |-> FALSE])]

\* Without a file to upload, UploadOriginals is done once the folder is there.
CreateFolder(u) ==
    /\ uploads[u].pc = "create"
    /\ AppendFolder(uploads[u].job)
    /\ IF uploads[u].names = {}
         THEN Return(u, FALSE)
         ELSE uploads' = [uploads EXCEPT ![u].pc = "files",
                                         ![u].folder = Len(folders[uploads[u].job]) + 1]
    /\ UNCHANGED <<queueVars, pdfs>>

CreateFolderFails(u) ==
    /\ uploads[u].pc = "create"
    /\ RequestFails(u)
    /\ UNCHANGED folders \/ AppendFolder(uploads[u].job)
    /\ UNCHANGED <<jobDir, pdfs>>

\* One of the errgroup's goroutines is through with file n; when the last one
\* is, eg.Wait returns the first error of any of them.
FileDone(u, n, failed) ==
    LET up == uploads[u]
    IN  IF up.names = {n}
          THEN Return(u, up.failed \/ failed)
          ELSE uploads' = [uploads EXCEPT ![u].names = @ \ {n},
                                          ![u].failed = @ \/ failed]

\* The file is opened and read now, not when it was listed.
StoreFile(u, n) ==
    LET id == uploads[u].job
    IN  folders' = [folders EXCEPT ![id][uploads[u].folder].files[n] = jobDir[id].pages[n]]

UploadFile(u) ==
    /\ uploads[u].pc = "files"
    /\ \E n \in uploads[u].names : StoreFile(u, n) /\ FileDone(u, n, FALSE)
    /\ UNCHANGED <<queueVars, pdfs>>

UploadFileFails(u) ==
    /\ uploads[u].pc = "files"
    /\ Fault
    /\ \E n \in uploads[u].names :
         /\ UNCHANGED folders \/ StoreFile(u, n)
         /\ FileDone(u, n, TRUE)
    /\ UNCHANGED <<jobDir, pdfs>>

UploadStep(u) ==
    \/ ListFiles(u)
    \/ FindFolder(u) \/ FindFolderFails(u)
    \/ TrashFolder(u) \/ TrashFolderFails(u)
    \/ CreateFolder(u) \/ CreateFolderFails(u)
    \/ UploadFile(u) \/ UploadFileFails(u)

-----------------------------------------------------------------------------
(* What the worker does of UploadPDF. *)

\* Files.Create stores scan.pdf; its file id is the last index of pdfs'[id].
CreatePDF(id) == pdfs' = [pdfs EXCEPT ![id] = Append(@, jobDir[id].pdf)]

SinkTypeOK ==
    /\ folders \in [JobId -> Seq(Folder)]
    /\ pdfs \in [JobId -> Seq(PDF \cup {Empty})]
    /\ uploads \in [Upload -> UploadState]

SinkInit ==
    /\ folders = [id \in JobId |-> <<>>]
    /\ pdfs = [id \in JobId |-> <<>>]
    /\ uploads = [u \in Upload |-> FreeUpload]
=============================================================================
