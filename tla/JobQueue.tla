------------------------------ MODULE JobQueue ------------------------------
(***************************************************************************)
(* The persistent job queue of one user: internal/jobqueue/jobqueue.go.    *)
(*                                                                         *)
(* A job is a directory below the user's scans directory, named after the  *)
(* second in which it was created.  The directory holds the scanned pages  *)
(* (page1.jpg, page2.jpg, ...), the derived scan.pdf, the id of the        *)
(* uploaded PDF (pdf.drive_id) and empty COMPLETE.* marker files.  Nothing *)
(* else about a job survives a crash.  In memory a job is a Job, here a    *)
(* "handle": what its holder last read of the directory.                   *)
(*                                                                         *)
(* Left out: thumb.png, the rename and COMPLETE.rename files and the text  *)
(* of pdf.drive_id in a handle, which only the web pages read.             *)
(***************************************************************************)
EXTENDS Naturals, Sequences, FiniteSets

CONSTANTS
    Scan,       \* the documents that are scanned, each at most once
    MaxPages,   \* bound: pages of one scan
    MaxJobs,    \* bound: job directories that are ever made
    MaxFaults,  \* bound: I/O errors of the disk and of Google Drive, together
    NoFile,     \* nothing: a file that is not there, a page left out of a PDF
    Empty       \* a file of zero bytes: created, but its content never written

ASSUME BoundsAssumption ==
    /\ MaxPages \in Nat \ {0} /\ MaxPages < 1000   \* see NameKey
    /\ MaxJobs \in Nat \ {0}
    /\ MaxFaults \in Nat

ASSUME FileAssumption == NoFile # Empty

\* The content of a page: the scan it belongs to and its place in that scan.
Page == Scan \X (1..MaxPages)

ASSUME PageAssumption == NoFile \notin Page /\ Empty \notin Page

\* A converted document: its pages in order, with NoFile for each page left out.
PDF == Seq(Page \cup {NoFile})

ASSUME PDFAssumption == NoFile \notin PDF /\ Empty \notin PDF

\* Job directories are named by creation time, so their names are ordered.
JobId == 1..MaxJobs

Marker == {"scan", "convert", "uploadoriginals", "uploadpdf"}

\* The markers a handle keeps (CompletionMarkers); "scan" only shows in its state.
HandleMarker == Marker \ {"scan"}

VARIABLES
    jobDir,     \* the job directories on disk
    faults      \* I/O errors so far

queueVars == <<jobDir, faults>>

Dir == [exists : BOOLEAN,
        pages : [1..MaxPages -> Page \cup {NoFile, Empty}],
        pdf : PDF \cup {NoFile, Empty},
        markers : SUBSET Marker,
        driveId : Nat]

NoDir == [exists |-> FALSE, pages |-> [n \in 1..MaxPages |-> NoFile],
          pdf |-> NoFile, markers |-> {}, driveId |-> 0]

Handle == [id : JobId,
           state : {"Canceled", "InProgress", "Done"},
           markers : SUBSET HandleMarker,
           pages : Seq(Page)]

\* A handle of which nothing is known yet but its directory.
NewHandle(id) == [id |-> id, state |-> "Canceled", markers |-> {}, pages |-> <<>>]

-----------------------------------------------------------------------------
(* Reading a directory. *)

\* ReadDir returns file names in lexicographic order, and '.' sorts before a
\* digit: page1.jpg, page10.jpg, page100.jpg, page101.jpg, ..., page11.jpg, ...
\* The key of a page number is its digits padded to three places, then how many
\* they were.
NameKey(n) == IF n < 10 THEN 400 * n + 1
              ELSE IF n < 100 THEN 40 * n + 2
              ELSE 4 * n + 3

\* How many of the pages S come before page n in directory order.
DirRank(S, n) == Cardinality({m \in S : NameKey(m) < NameKey(n)})

\* The pages S in directory order.
DirOrder(S) == [i \in 1..Cardinality(S) |-> CHOOSE n \in S : DirRank(S, n) = i - 1]

\* The pages of a directory that JobById loads: those that are not empty.
Loadable(d) == {n \in 1..MaxPages : d.pages[n] \in Page}

\* (Mutation of LoadPages: the pages are not read back.)
BugLoadNothing(d) == <<>>

LoadPages(d) == [i \in 1..Cardinality(Loadable(d)) |-> d.pages[DirOrder(Loadable(d))[i]]]

\* readStateFromDir: the state is computed anew and knows no "Done"; a marker
\* is only ever switched on.
ReadState(j, d) ==
    [j EXCEPT !.state = IF "scan" \in d.markers THEN "InProgress" ELSE "Canceled",
              !.markers = @ \cup (d.markers \cap HandleMarker)]

\* (Mutation of IsDone: uploaded originals are taken for a finished job.)
BugDoneEarly(j) == "uploadoriginals" \in j.markers

IsDone(j) == "uploadpdf" \in j.markers

\* JobById
JobById(id) ==
    LET d == jobDir[id]
        j == ReadState(NewHandle(id), d)
    IN  IF IsDone(j) THEN [j EXCEPT !.state = "Done"]
        ELSE IF j.state = "InProgress" THEN [j EXCEPT !.pages = LoadPages(d)]
        ELSE j

\* The directories Scans lists.
JobDirs == {id \in JobId : jobDir[id].exists}

-----------------------------------------------------------------------------
(* Writing files.  A write that fails may already have truncated the file. *)

\* An I/O error, of which the model allows MaxFaults.
Fault == faults < MaxFaults /\ faults' = faults + 1

\* os.MkdirAll in AddJob succeeds on a directory that exists.
MakeDir(id) == jobDir' = [jobDir EXCEPT ![id].exists = TRUE]

WritePage(id, n, content) == jobDir' = [jobDir EXCEPT ![id].pages[n] = content]

WritePDF(id, content) == jobDir' = [jobDir EXCEPT ![id].pdf = content]

WriteMarker(id, m) == jobDir' = [jobDir EXCEPT ![id].markers = @ \cup {m}]

WriteDriveId(id, driveId) == jobDir' = [jobDir EXCEPT ![id].driveId = driveId]

\* addPage for page n fails: nothing happened, or page n is left empty.
AddPageFails(id, n) ==
    /\ Fault
    /\ UNCHANGED jobDir \/ WritePage(id, n, Empty)

\* CommitMarker fails: the marker was not written, or it was and only
\* reading the directory back failed.
CommitFails(id, m) ==
    /\ Fault
    /\ UNCHANGED jobDir \/ WriteMarker(id, m)

QueueTypeOK ==
    /\ jobDir \in [JobId -> Dir]
    /\ faults \in 0..MaxFaults

QueueInit ==
    /\ jobDir = [id \in JobId |-> NoDir]
    /\ faults = 0
=============================================================================
