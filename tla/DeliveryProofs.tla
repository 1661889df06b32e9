--------------------------- MODULE DeliveryProofs ---------------------------
(***************************************************************************)
(* The way of the pages from the scanner to the PDF on Drive: a handle has *)
(* the pages that were scanned, in order, and, as long as nothing fails,   *)
(* COMPLETE.uploadpdf means that a PDF on Drive shows all of them.         *)
(*                                                                         *)
(* Both need that no two scans are added within a second and that a scan   *)
(* has fewer than ten pages: the runs same_second and pages_in_order show  *)
(* what happens otherwise.                                                 *)
(***************************************************************************)
EXTENDS OriginalsProofs

(* Handles have the pages that were scanned. *)

\* The pages that a whole scan has.
WholeScan(s) == [n \in 1..PageCount[s] |-> <<s, n>>]

LEMMA ScanPages ==
    ASSUME NEW s \in Scan, NEW d, HoldsScan(d, s)
    PROVE  /\ PageCount[s] \in 0..MaxPages
           /\ Loadable(d) = 1..PageCount[s]
           /\ \A n \in 1..PageCount[s] : d.pages[n] = <<s, n>>
<1>1. PageCount[s] \in 0..MaxPages /\ MaxPages \in Nat
  BY ScanAssumption, BoundsAssumption
<1>2. \A n \in 1..MaxPages : d.pages[n] = IF n <= PageCount[s] THEN <<s, n>> ELSE NoFile
  BY DEF HoldsScan
<1>3. \A n \in 1..MaxPages : <<s, n>> \in Page
  BY DEF Page
<1>4. \A n \in 1..MaxPages : d.pages[n] \in Page <=> n <= PageCount[s]
  BY <1>2, <1>3, PageAssumption
<1>5. \A n : n \in 1..PageCount[s] <=> n \in 1..MaxPages /\ n <= PageCount[s]
  BY <1>1
<1>6. Loadable(d) = 1..PageCount[s]
  BY <1>4, <1>5 DEF Loadable
<1> QED
  BY <1>1, <1>2, <1>5, <1>6

\* The directory of a whole scan has its pages, and JobById reads them back in
\* order, if they have numbers of one digit.
LEMMA ScannedInOrder ==
    ASSUME NEW s \in Scan, NEW d, HoldsScan(d, s)
    PROVE  /\ ScannedPages(d) = WholeScan(s)
           /\ MaxPages < 10 => LoadPages(d) = ScannedPages(d)
<1>1. /\ PageCount[s] \in 0..MaxPages /\ Loadable(d) = 1..PageCount[s]
      /\ \A n \in 1..PageCount[s] : d.pages[n] = <<s, n>>
  BY ScanPages
<1>2. Cardinality(Loadable(d)) = PageCount[s]
  BY <1>1, FirstPagesCount, BoundsAssumption
<1>3. ScannedPages(d) = WholeScan(s)
  BY <1>1, <1>2 DEF ScannedPages, WholeScan
<1>4. ASSUME MaxPages < 10
      PROVE  LoadPages(d) = ScannedPages(d)
  <2>1. DirOrder(1..PageCount[s]) = [i \in 1..PageCount[s] |-> i]
    BY <1>1, <1>4, DirOrderOfPages
  <2>2. \A i \in 1..PageCount[s] : DirOrder(Loadable(d))[i] = i
    BY <1>1, <2>1
  <2> QED BY <1>2, <2>2 DEF LoadPages, ScannedPages
<1> QED
  BY <1>3, <1>4

\* What of a handle's pages AddJob has kept, and what is on disk when it is done.
IngestPages(i) ==
    LET s == ingest[i].scan
        pages == ingest[i].job.pages
    IN  /\ pages = [n \in 1..Len(pages) |-> <<s, n>>]
        /\ ingest[i].pc # "addpage" => Len(pages) = PageCount[s]
        /\ ingest[i].pc \in {"readback", "send"} => HoldsScan(jobDir[ingest[i].job.id], s)

WorkerPages ==
    workerPc # "idle" /\ workerJob.id \notin handedPartial =>
        workerJob.pages = ScannedPages(jobDir[workerJob.id])

PagesInv ==
    /\ \A i \in Ingester : Busy(i) => IngestPages(i)
    /\ \A j \in resumeJobs : j.state # "Done"
    /\ PagesInOrder /\ WorkerPages

\* A handle that was made from a whole scan stays one.
LEMMA PagesStay ==
    ASSUME TypeInv, ScanInv, [Next]_vars, NEW k \in JobId, IsAccepted(jobDir[k])
    PROVE  /\ ScannedPages(jobDir'[k]) = ScannedPages(jobDir[k])
           /\ \A s : HoldsScan(jobDir[k], s) => HoldsScan(jobDir'[k], s)
<1>1. jobDir'[k].pages = jobDir[k].pages
  BY AcceptedStays DEF PagesKept
<1> QED
  BY <1>1 DEF ScannedPages, Loadable, HoldsScan

\* An ingester goes on with its scan, is idle then, or is left alone.
LEMMA IngesterKept ==
    ASSUME TypeInv, [Next]_vars, NEW i \in Ingester
    PROVE  \/ \E s \in Scan : StartJob(i, s)
           \/ AddPage(i) \/ CommitScan(i) \/ ReadBack(i)
           \/ ingest'[i] = ingest[i] \/ ingest'[i].pc = "idle"
<1>1. ingest \in [Ingester -> IngestState]
  BY IngestTyped
<1>2. CASE \E k \in Ingester \ {i} : IngestStep(k)
  BY <1>1, <1>2 DEF IngestStep, StartJob, AddPage, AddPageError, CommitScan, GiveUp,
     CommitScanError, ReadBack, Enqueue
<1>3. CASE AddPageError(i) \/ CommitScanError(i) \/ Enqueue(i)
  BY <1>1, <1>3 DEF AddPageError, CommitScanError, Enqueue, GiveUp, NoIngest
<1>4. CASE Crash
  BY <1>4, CrashFrees
<1>5. CASE UNCHANGED ingest
  BY <1>5
<1> QED
  BY <1>2, <1>3, <1>4, <1>5 DEF Next, vars, ingestVars, IngestStep, ResumeStep, WakeUp, ReadJob,
     ReadJobError, EnqueueUnfinished, WorkerAction, UploadAction, Environment, DeletePDF

LEMMA StartJobPages ==
    ASSUME TypeInv, NEW i \in Ingester, NEW s \in Scan, StartJob(i, s)
    PROVE  IngestPages(i)'
<1>1. PICK id \in NewIds :
        ingest' = [ingest EXCEPT ![i] = [pc |-> AfterPages(s, 0), scan |-> s,
                                         job |-> NewHandle(id)]]
  BY DEF StartJob
<1>2. /\ ingest'[i].pc = AfterPages(s, 0) /\ ingest'[i].scan = s
      /\ ingest'[i].job.pages = <<>>
  BY <1>1, IngestTyped DEF NewHandle
<1>3. <<>> = [n \in 1..0 |-> <<s, n>>] /\ Len(<<>>) = 0
  OBVIOUS
<1>4. /\ ingest'[i].pc \in {"addpage", "commit"}
      /\ ingest'[i].pc # "addpage" => PageCount[s] = 0
  BY <1>2 DEF AfterPages
<1> QED
  BY <1>2, <1>3, <1>4 DEF IngestPages

\* Appending a page to the first k pages of a scan.
LEMMA AppendScanned ==
    ASSUME NEW s, NEW pages, NEW k \in Nat, pages = [n \in 1..k |-> <<s, n>>]
    PROVE  /\ Append(pages, <<s, k + 1>>) = [n \in 1..(k + 1) |-> <<s, n>>]
           /\ Len(Append(pages, <<s, k + 1>>)) = k + 1
<1> DEFINE S == {<<s, n>> : n \in 1..(k + 1)}
           new == <<s, k + 1>>
<1>1. pages \in Seq(S) /\ Len(pages) = k /\ new \in S
  OBVIOUS
<1>2. \A n \in 1..k : pages[n] = <<s, n>>
  OBVIOUS
<1> HIDE DEF S, new
<1>3. /\ Append(pages, new) \in Seq(S) /\ Len(Append(pages, new)) = k + 1
      /\ Append(pages, new)[k + 1] = new
      /\ \A n \in 1..k : Append(pages, new)[n] = pages[n]
  BY <1>1
<1>4. \A n \in 1..(k + 1) : Append(pages, new)[n] = <<s, n>>
  BY <1>2, <1>3 DEF new
<1>5. Append(pages, new) = [n \in 1..(k + 1) |-> Append(pages, new)[n]]
  BY <1>3
<1>6. Append(pages, new) = [n \in 1..(k + 1) |-> <<s, n>>]
  BY <1>4, <1>5
<1> QED
  BY <1>3, <1>6 DEF new

LEMMA AddPagePages ==
    ASSUME TypeInv, NEW i \in Ingester, IngestPages(i), AddPage(i)
    PROVE  IngestPages(i)'
<1> DEFINE s == ingest[i].scan
           pages == ingest[i].job.pages
           k == Len(pages)
<1>1. /\ ingest[i] \in [pc : {"addpage", "commit", "readback", "send"}, scan : Scan, job : Handle]
      /\ ingest[i].job \in Handle /\ pages \in Seq(Page)
  BY IngesterBusy DEF TypeInv, AddPage
<1>2. k \in Nat
  BY <1>1
<1>3. ingest' = [ingest EXCEPT ![i].pc = AfterPages(s, k + 1),
                               ![i].job.pages = Append(@, <<s, k + 1>>)]
  BY DEF AddPage, NextPage
<1>4. /\ ingest'[i].pc = AfterPages(s, k + 1) /\ ingest'[i].scan = s
      /\ ingest'[i].job.pages = Append(pages, <<s, k + 1>>)
  BY <1>1, <1>3, IngestTyped DEF Handle
<1>5. pages = [n \in 1..k |-> <<s, n>>]
  BY DEF IngestPages
<1>6. PICK new : new = Append(pages, <<s, k + 1>>)
  OBVIOUS
<1>7. ingest'[i].job.pages = new /\ ingest'[i].scan = s
  BY <1>4, <1>6
<1>8. /\ ingest'[i].pc \in {"addpage", "commit"}
      /\ ingest'[i].pc # "addpage" => k + 1 = PageCount[s]
  BY <1>4 DEF AfterPages
<1> HIDE DEF s, pages, k
<1>9. new = [n \in 1..(k + 1) |-> <<s, n>>] /\ Len(new) = k + 1
  BY <1>2, <1>5, <1>6, AppendScanned
<1>10. new = [n \in 1..Len(new) |-> <<s, n>>]
  BY <1>9
<1> QED
  BY <1>7, <1>8, <1>9, <1>10 DEF IngestPages

LEMMA CommitPages ==
    ASSUME TypeInv, ScanInv, NEW i \in Ingester, IngestPages(i), CommitScan(i)
    PROVE  IngestPages(i)'
<1> DEFINE id == ingest[i].job.id
           s == ingest[i].scan
<1>1. /\ ingest[i] \in [pc : {"addpage", "commit", "readback", "send"}, scan : Scan, job : Handle]
      /\ id \in JobId /\ ingest[i].pc = "commit"
  BY IngesterBusy DEF TypeInv, CommitScan
<1>2. /\ ingest'[i].pc = "readback" /\ ingest'[i].scan = s
      /\ ingest'[i].job = ingest[i].job
  BY <1>1, IngestTyped DEF CommitScan
<1>3. HoldsScan(jobDir[id], s)
  BY <1>1 DEF ScanInv, Busy, WrittenSoFar
<1>4. jobDir'[id].pages = jobDir[id].pages
  BY <1>1, IngestTyped DEF CommitScan, WriteMarker, Dir
<1>5. HoldsScan(jobDir'[id], s)
  BY <1>3, <1>4 DEF HoldsScan
<1>6. PICK pages : pages = ingest[i].job.pages
  OBVIOUS
<1>7. pages = [n \in 1..Len(pages) |-> <<s, n>>] /\ Len(pages) = PageCount[s]
  BY <1>1, <1>6 DEF IngestPages
<1> HIDE DEF id, s
<1> QED
  BY <1>2, <1>5, <1>6, <1>7 DEF IngestPages, id

LEMMA ReadBackPages ==
    ASSUME TypeInv, ScanInv, NEW i \in Ingester, IngestPages(i), ReadBack(i)
    PROVE  IngestPages(i)'
<1> DEFINE id == ingest[i].job.id
           s == ingest[i].scan
           j == ReadState(ingest[i].job, jobDir[id])
           new == [j EXCEPT !.state = "InProgress"]
<1>1. /\ ingest[i] \in [pc : {"addpage", "commit", "readback", "send"}, scan : Scan, job : Handle]
      /\ id \in JobId /\ ingest[i].pc = "readback" /\ ingest[i].job \in Handle
  BY IngesterBusy DEF TypeInv, ReadBack
<1>2. j \in Handle /\ j.id = id /\ j.pages = ingest[i].job.pages
  BY <1>1, IngestTyped, ReadStateType, ReadStateKeepsPages
<1>3. ingest' = [ingest EXCEPT ![i].pc = "send", ![i].job = new] /\ UNCHANGED jobDir
  BY DEF ReadBack, queueVars
<1> HIDE DEF j
<1>4. new.id = id /\ new.pages = ingest[i].job.pages
  BY <1>2 DEF Handle
<1> HIDE DEF new
<1>5. /\ ingest'[i].pc = "send" /\ ingest'[i].scan = s /\ ingest'[i].job = new
  BY <1>1, <1>3, IngestTyped
<1>6. PICK pages : pages = ingest[i].job.pages
  OBVIOUS
<1>7. pages = [n \in 1..Len(pages) |-> <<s, n>>] /\ Len(pages) = PageCount[s]
  BY <1>1, <1>6 DEF IngestPages
<1>8. HoldsScan(jobDir'[id], s)
  BY <1>1, <1>3 DEF IngestPages
<1> HIDE DEF id, s
<1> QED
  BY <1>4, <1>5, <1>6, <1>7, <1>8 DEF IngestPages

LEMMA IngestPagesStep ==
    ASSUME TypeInv, ScanInv, SendersSettled, [Next]_vars, NEW i \in Ingester,
           Busy(i) => IngestPages(i), ingest'[i].pc # "idle"
    PROVE  IngestPages(i)'
<1>1. CASE \E s \in Scan : StartJob(i, s)
  BY <1>1, StartJobPages
<1>2. CASE AddPage(i)
  BY <1>2, AddPagePages DEF AddPage, Busy
<1>3. CASE CommitScan(i)
  BY <1>3, CommitPages DEF CommitScan, Busy
<1>4. CASE ReadBack(i)
  BY <1>4, ReadBackPages DEF ReadBack, Busy
<1>5. CASE ingest'[i] = ingest[i]
  <2>1. Busy(i) /\ IngestPages(i)
    BY <1>5 DEF Busy
  <2>2. PICK s : s = ingest[i].scan
    OBVIOUS
  <2>3. PICK pages : pages = ingest[i].job.pages
    OBVIOUS
  <2>4. /\ pages = [n \in 1..Len(pages) |-> <<s, n>>]
        /\ ingest[i].pc # "addpage" => Len(pages) = PageCount[s]
    BY <2>1, <2>2, <2>3 DEF IngestPages
  <2>5. ASSUME ingest[i].pc \in {"readback", "send"}
        PROVE  HoldsScan(jobDir'[ingest[i].job.id], s)
    <3>1. ingest[i].job.id \in JobId /\ IsAccepted(jobDir[ingest[i].job.id])
      BY <2>1, <2>5, IngesterBusy DEF TypeInv, SendersSettled, Busy
    <3> QED BY <2>1, <2>2, <2>5, <3>1, PagesStay DEF IngestPages
  <2> QED BY <1>5, <2>2, <2>3, <2>4, <2>5 DEF IngestPages
<1> QED
  BY <1>1, <1>2, <1>3, <1>4, <1>5, IngesterKept

\* What JobById makes of a directory it does not find done.
LEMMA ReadJobPages ==
    ASSUME NEW id \in JobId, jobDir \in [JobId -> Dir], JobById(id).state = "InProgress"
    PROVE  IsAccepted(jobDir[id]) /\ JobById(id).pages = LoadPages(jobDir[id])
<1> DEFINE j == ReadState(NewHandle(id), jobDir[id])
<1>1. j \in Handle /\ (j.state = "InProgress" => IsAccepted(jobDir[id]))
  BY NewHandleType, ReadStateType DEF ReadState, NewHandle, IsAccepted
<1>2. JobById(id) = IF IsDone(j) THEN [j EXCEPT !.state = "Done"]
                    ELSE IF j.state = "InProgress"
                      THEN [j EXCEPT !.pages = LoadPages(jobDir[id])]
                    ELSE j
  BY DEF JobById
<1> DEFINE pages == LoadPages(jobDir[id])
<1> HIDE DEF j, pages
<1>3. /\ [j EXCEPT !.state = "Done"].state = "Done"
      /\ [j EXCEPT !.pages = pages].pages = pages
  BY <1>1 DEF Handle
<1>4. JobById(id) = [j EXCEPT !.pages = pages] /\ j.state = "InProgress"
  BY <1>2, <1>3 DEF pages
<1>5. JobById(id).pages = pages
  BY <1>3, <1>4
<1> QED
  BY <1>1, <1>4, <1>5 DEF pages

LEMMA ResumePagesStep ==
    ASSUME MaxPages < 10, TypeInv, ScanInv, SendersSettled, PagesInv, [Next]_vars,
           NEW j \in resumeJobs'
    PROVE  /\ j.state # "Done"
           /\ j.state = "InProgress" => j.pages = ScannedPages(jobDir'[j.id])
<1>1. TypeOK /\ jobDir \in [JobId -> Dir]
  BY IngestTyped DEF TypeInv
<1>2. CASE j \in resumeJobs
  <2>1. j.state # "Done" /\ j.id \in JobId
    BY <1>1, <1>2 DEF PagesInv, TypeOK, Handle
  <2>2. ASSUME j.state = "InProgress"
        PROVE  j.pages = ScannedPages(jobDir'[j.id])
    <3>1. IsAccepted(jobDir[j.id])
      BY <1>2, <2>2 DEF SendersSettled
    <3>2. j.pages = ScannedPages(jobDir[j.id])
      BY <1>2, <2>2 DEF PagesInv, PagesInOrder
    <3>3. ScannedPages(jobDir'[j.id]) = ScannedPages(jobDir[j.id])
      BY <2>1, <3>1, PagesStay
    <3> QED BY <3>2, <3>3
  <2> QED BY <2>1, <2>2
<1>3. CASE ReadJob /\ j \notin resumeJobs
  <2>1. PICK id \in resumeTodo :
           resumeJobs' = IF JobById(id).state = "Done" THEN resumeJobs
                         ELSE resumeJobs \cup {JobById(id)}
    BY <1>3 DEF ReadJob
  <2>2. id \in JobId /\ UNCHANGED jobDir
    BY <1>1, <1>3 DEF ReadJob, TypeOK, queueVars
  <2>3. j = JobById(id) /\ j.state # "Done" /\ j.id = id
    BY <1>1, <1>3, <2>1, <2>2, JobByIdType
  <2>4. ASSUME j.state = "InProgress"
        PROVE  j.pages = ScannedPages(jobDir[id])
    <3>1. IsAccepted(jobDir[id]) /\ j.pages = LoadPages(jobDir[id])
      BY <1>1, <2>2, <2>3, <2>4, ReadJobPages
    <3>2. PICK s \in Scan : HoldsScan(jobDir[id], s)
      BY <2>2, <3>1 DEF ScanInv, CompleteScan, Accepted, IsAccepted
    <3>3. LoadPages(jobDir[id]) = ScannedPages(jobDir[id])
      BY <3>2, ScannedInOrder
    <3> QED BY <3>1, <3>3
  <2> QED BY <2>2, <2>3, <2>4
<1>4. CASE ~ReadJob
  <2>1. resumeJobs' \subseteq resumeJobs
    BY <1>4 DEF Next, vars, resumeVars, IngestStep, StartJob, AddPage, AddPageError,
       CommitScan, CommitScanError, ReadBack, Enqueue, ResumeStep, WakeUp, ReadJobError,
       EnqueueUnfinished, WorkerAction, UploadAction, Environment, Crash, DeletePDF
  <2> QED BY <1>2, <2>1
<1> QED
  BY <1>2, <1>3, <1>4

\* The worker receives a handle with the pages of its directory.
LEMMA ReceivePages ==
    ASSUME TypeInv, ScanInv, [Next]_vars, NEW j \in Handle, Receive(j), NoteHandover(j),
           j.state # "Canceled" =>
              IsAccepted(jobDir[j.id]) /\ j.pages = ScannedPages(jobDir[j.id])
    PROVE  WorkerPages'
<1>1. workerJob' = j /\ j.id \in JobId
  BY DEF Receive, Continue, Handle
<1>2. CASE j.state = "Canceled"
  BY <1>1, <1>2 DEF NoteHandover, WorkerPages
<1>3. CASE j.state # "Canceled"
  <2>1. j.pages = ScannedPages(jobDir'[j.id])
    BY <1>1, <1>3, PagesStay
  <2> QED BY <1>1, <2>1 DEF WorkerPages
<1> QED
  BY <1>2, <1>3

LEMMA WorkerPagesStep ==
    ASSUME TypeInv, ScanInv, SendersSettled, WorkerSettled, PagesInv, [Next]_vars
    PROVE  WorkerPages'
<1>1. TypeOK /\ WorkerTypeOK
  BY DEF TypeInv, TypeOK
<1>2. CASE /\ workerPc # "idle"
           /\ workerPc' # "idle" => /\ workerJob'.id = workerJob.id
                                    /\ workerJob'.pages = workerJob.pages
  <2>1. SUFFICES ASSUME workerPc' # "idle", workerJob.id \notin handedPartial'
                 PROVE  workerJob.pages = ScannedPages(jobDir'[workerJob.id])
    BY <1>2 DEF WorkerPages
  <2>2. workerJob.id \in JobId /\ workerJob.id \notin handedPartial
    BY <1>1, <1>2, <2>1, WorkerBusy, PartialStays
  <2>3. IsAccepted(jobDir[workerJob.id])
    BY <1>2, <2>2 DEF WorkerSettled, Settled
  <2>4. workerJob.pages = ScannedPages(jobDir[workerJob.id])
    BY <1>2, <2>2 DEF PagesInv, WorkerPages
  <2>5. ScannedPages(jobDir'[workerJob.id]) = ScannedPages(jobDir[workerJob.id])
    BY <2>2, <2>3, PagesStay
  <2> QED BY <2>4, <2>5
<1>3. CASE workerPc' = "idle"
  BY <1>3 DEF WorkerPages
<1>4. ASSUME NEW j \in resumeJobs, Receive(j), NoteHandover(j)
      PROVE  WorkerPages'
  <2>1. j \in Handle /\ j.state \in {"Canceled", "InProgress", "Done"}
    BY <1>1 DEF TypeOK, Handle
  <2>2. j.state # "Canceled" =>
           IsAccepted(jobDir[j.id]) /\ j.pages = ScannedPages(jobDir[j.id])
    BY <2>1 DEF SendersSettled, PagesInv, PagesInOrder
  <2> QED BY <1>4, <2>1, <2>2, ReceivePages
<1>5. ASSUME NEW i \in Ingester, ingest[i].pc = "send", Receive(ingest[i].job),
             NoteHandover(ingest[i].job)
      PROVE  WorkerPages'
  <2> DEFINE j == ingest[i].job
             s == ingest[i].scan
  <2>1. j \in Handle /\ s \in Scan /\ IsAccepted(jobDir[j.id])
    BY <1>1, <1>5, IngesterBusy DEF SendersSettled
  <2>2. HoldsScan(jobDir[j.id], s) /\ j.pages = WholeScan(s)
    <3>1. IngestPages(i)
      BY <1>5 DEF PagesInv, Busy
    <3>2. PICK pages : pages = j.pages
      OBVIOUS
    <3>3. pages = [n \in 1..Len(pages) |-> <<s, n>>] /\ Len(pages) = PageCount[s]
      BY <1>5, <3>1, <3>2 DEF IngestPages
    <3>4. pages = WholeScan(s)
      BY <3>3 DEF WholeScan
    <3> QED BY <1>5, <3>1, <3>2, <3>4 DEF IngestPages
  <2>3. j.pages = ScannedPages(jobDir[j.id])
    <3> HIDE DEF j, s
    <3> QED BY <2>1, <2>2, ScannedInOrder
  <2> HIDE DEF j
  <2> QED BY <1>5, <2>1, <2>3, ReceivePages DEF j
<1>6. CASE WorkerAction
  BY <1>2, <1>3, <1>6, WorkerKeepsJob
<1>7. CASE UNCHANGED workerVars
  BY <1>2, <1>3, <1>7 DEF workerVars
<1> QED
  BY <1>3, <1>4, <1>5, <1>6, <1>7, CrashFrees, WorkerByOthers

LEMMA NextPages ==
    ASSUME MaxPages < 10, TypeInv, ScanInv, OriginalsInv, PagesInv, [Next]_vars
    PROVE  PagesInv'
<1>1. WorkerSettled /\ SendersSettled
  BY DEF OriginalsInv
<1>2. \A i \in Ingester : ingest'[i].pc # "idle" => IngestPages(i)'
  BY <1>1, IngestPagesStep DEF PagesInv
<1>3. PagesInOrder' /\ \A j \in resumeJobs' : j.state # "Done"
  BY <1>1, ResumePagesStep DEF PagesInOrder
<1>4. WorkerPages'
  BY <1>1, WorkerPagesStep
<1> QED
  BY <1>2, <1>3, <1>4 DEF PagesInv, Busy

LEMMA InitPages == Init => PagesInv
BY DEF Init, WorkerInit, PagesInv, PagesInOrder, WorkerPages, Busy, NoIngest

\* A job of fewer than ten pages is resumed with the pages that were scanned, in
\* that order (JobById; with ten pages the run pages_in_order shows page 10
\* before page 2).
THEOREM PagesInOrderHolds ==
    ASSUME ~SameSecond, MaxPages < 10
    PROVE  Spec => []PagesInOrder
<1>1. TypeInv /\ ScanInv /\ SafetyInv /\ OriginalsInv /\ PagesInv /\ [Next]_vars => PagesInv'
  BY NextPages
<1>2. PagesInv => PagesInOrder
  BY DEF PagesInv
<1> QED
  BY Invariants, InitPages, <1>1, <1>2, PTL DEF Spec

-----------------------------------------------------------------------------
(* Without I/O errors, what is delivered is the whole document.            *)
(*                                                                         *)
(* Handles get stale while another handle of the same job is processed.    *)
(* What saves the document is that, without errors, processScan only gives *)
(* up a job it cannot convert: so COMPLETE.convert was found on disk by a  *)
(* stale handle only if the PDF had been uploaded already.                 *)

NoneFailed == \A u \in Upload : ~uploads[u].failed

\* Neither handed over early nor tampered with by the user.
Regular(id) == id \notin handedPartial \cup deleted

\* A PDF of the whole job is on Drive.
InFull(id) ==
    /\ IsAccepted(jobDir[id])
    /\ \E k \in DOMAIN pdfs[id] : pdfs[id][k] = FullPDF(jobDir[id])

\* It is there, or scan.pdf is what is to be uploaded.
Ready(id) == jobDir[id].pdf = FullPDF(jobDir[id]) \/ InFull(id)

IsConverted(d) == "convert" \in d.markers

ConvertedReady ==
    \A id \in JobId :
        Regular(id) /\ IsConverted(jobDir[id]) => IsAccepted(jobDir[id]) /\ Ready(id)

DeliveredWhole == \A id \in Delivered : Regular(id) => InFull(id)

\* What must be on Drive when processScan has come to a step: a conversion is only
\* repeated if its first result has been uploaded.
WorkerDelivers ==
    workerPc # "idle" /\ Regular(workerJob.id) =>
        LET d == jobDir[workerJob.id]
        IN  /\ workerPc = "start" /\ IsConverted(d) /\ "convert" \notin workerJob.markers =>
                 InFull(workerJob.id)
            /\ workerPc \in {"convert", "failing"} /\ IsConverted(d) => InFull(workerJob.id)
            /\ workerPc = "markconvert" => Ready(workerJob.id)
            /\ workerPc \in {"driveid", "markpdf"} => InFull(workerJob.id)

WorksOn(id) == workerPc # "idle" /\ workerJob.id = id

\* A handle does not know of a conversion only if that is no harm.
UpToDate(j) ==
    Regular(j.id) /\ IsConverted(jobDir[j.id]) /\ "convert" \notin j.markers =>
        InFull(j.id) \/ WorksOn(j.id)

SendersUpToDate ==
    /\ \A j \in resumeJobs : UpToDate(j)
    /\ \A i \in Ingester : ingest[i].pc = "send" => UpToDate(ingest[i].job)

DeliveryInv ==
    faults = 0 =>
        /\ NoneFailed
        /\ ConvertedReady /\ DeliveredWhole
        /\ WorkerDelivers /\ SendersUpToDate

-----------------------------------------------------------------------------
(* What stays as it is. *)

LEMMA NoFault ==
    ASSUME TypeInv, [Next]_vars, faults' = 0
    PROVE  faults = 0 /\ ~Fault
<1>1. faults \in Nat
  BY BoundsAssumption DEF TypeInv, TypeOK, QueueTypeOK
<1>2. UNCHANGED faults \/ Fault
  BY DEF Next, vars, queueVars, IngestStep, StartJob, AddPage, AddPageError, AddPageFails,
     CommitScan, CommitScanError, CommitFails, ReadBack, Enqueue, ResumeStep, WakeUp, ReadJob,
     ReadJobError, EnqueueUnfinished, Environment, Crash, DeletePDF, WorkerAction, WorkerStep,
     StartUpload, SkipUpload, Convert, ConvertUndecodable, ConvertFails, MarkConverted,
     MarkConvertedFails, MarkOriginals, MarkOriginalsFails, OriginalsFailed, UploadPDF,
     UploadNoPDF, UploadPDFFails, RecordDriveId, RecordDriveIdFails, MarkPDF, MarkPDFFails,
     UploadAction, UploadStep, ListFiles, FindFolder, FindFolderFails, TrashFolder,
     TrashFolderFails, CreateFolder, CreateFolderFails, UploadFile, UploadFileFails,
     RequestFails
<1> QED
  BY <1>1, <1>2 DEF Fault

LEMMA FullPDFStays ==
    ASSUME NEW k \in JobId, PagesKept(k)
    PROVE  FullPDF(jobDir'[k]) = FullPDF(jobDir[k])
BY DEF PagesKept, FullPDF, Loadable

\* The PDF of a whole scan is one, and it is what Convert makes of its pages.
LEMMA FullPDFConverted ==
    ASSUME NEW d
    PROVE  Converted(ScannedPages(d)) = FullPDF(d)
BY DEF Converted, ScannedPages, FullPDF

LEMMA FullPDFIsFile ==
    ASSUME ScanInv, NEW k \in JobId, IsAccepted(jobDir[k])
    PROVE  FullPDF(jobDir[k]) # NoFile
<1>1. PICK s \in Scan : HoldsScan(jobDir[k], s)
  BY DEF ScanInv, CompleteScan, Accepted, IsAccepted
<1>2. ScannedPages(jobDir[k]) = WholeScan(s) /\ PageCount[s] \in 0..MaxPages
  BY <1>1, ScannedInOrder, ScanPages
<1>3. WholeScan(s) \in Seq(Page)
  BY <1>2, BoundsAssumption DEF WholeScan, Page
<1>4. FullPDF(jobDir[k]) \in PDF
  <2>1. PICK pages \in Seq(Page) : pages = ScannedPages(jobDir[k])
    BY <1>2, <1>3
  <2> QED BY <2>1, ConvertedType, FullPDFConverted
<1> QED
  BY <1>4, PDFAssumption

\* PDFs on Drive stay what they are.
LEMMA PDFsStay ==
    ASSUME TypeInv, [Next]_vars, NEW id \in JobId, NEW k \in DOMAIN pdfs[id]
    PROVE  k \in DOMAIN pdfs'[id] /\ pdfs'[id][k] = pdfs[id][k]
<1>1. pdfs \in [JobId -> Seq(PDF \cup {Empty})]
  BY DEF TypeInv, TypeOK, SinkTypeOK
<1>2. UNCHANGED pdfs \/ CreatePDF(workerJob.id)
  BY NextEffect DEF Effect, Silent, Records, Delivers, Finishes, Withdraws
<1>3. CASE UNCHANGED pdfs
  BY <1>3
<1>4. CASE CreatePDF(workerJob.id)
  <2> DEFINE S == PDF \cup {Empty}
             content == jobDir[workerJob.id].pdf
  <2>1. pdfs'[id] = IF id = workerJob.id THEN Append(pdfs[id], content) ELSE pdfs[id]
    BY <1>1, <1>4 DEF CreatePDF
  <2>2. PICK q \in Seq(S) : q = pdfs[id]
    BY <1>1
  <2> HIDE DEF S, content
  <2>3. k \in DOMAIN Append(q, content) /\ Append(q, content)[k] = q[k]
    BY <2>2
  <2> QED BY <2>1, <2>2, <2>3
<1> QED
  BY <1>2, <1>3, <1>4

LEMMA InFullStays ==
    ASSUME TypeInv, ScanInv, [Next]_vars, NEW id \in JobId, InFull(id)
    PROVE  InFull(id)'
<1>1. PICK k \in DOMAIN pdfs[id] : pdfs[id][k] = FullPDF(jobDir[id])
  BY DEF InFull
<1>2. k \in DOMAIN pdfs'[id] /\ pdfs'[id][k] = pdfs[id][k]
  BY PDFsStay
<1>3. IsAccepted(jobDir'[id]) /\ PagesKept(id)
  BY AcceptedStays DEF InFull
<1>4. FullPDF(jobDir'[id]) = FullPDF(jobDir[id])
  BY <1>3, FullPDFStays
<1> QED
  BY <1>1, <1>2, <1>3, <1>4 DEF InFull

LEMMA WasRegular ==
    ASSUME TypeInv, [Next]_vars, NEW id, Regular(id)'
    PROVE  Regular(id)
BY PartialStays, NextKeepsPDFs DEF KeepsPDFs, Regular

-----------------------------------------------------------------------------
(* Steps without an I/O error. *)

LEMMA NoneFailedStep ==
    ASSUME TypeInv, NoneFailed, [Next]_vars, ~Fault
    PROVE  NoneFailed'
<1>1. SinkTypeOK /\ uploads \in [Upload -> UploadState]
  BY DEF TypeInv, TypeOK, SinkTypeOK
<1>2. SUFFICES ASSUME NEW v \in Upload PROVE ~uploads'[v].failed
  BY DEF NoneFailed
<1>3. ~uploads[v].failed
  BY DEF NoneFailed
<1>4. CASE WorkerAction
  <2>1. WorkerStep
    BY <1>4 DEF WorkerAction
  <2>2. CASE StartUpload
    BY <1>1, <1>3, <2>2 DEF StartUpload, FreeUpload
  <2>3. CASE MarkOriginals \/ MarkOriginalsFails \/ OriginalsFailed
    BY <1>1, <1>3, <2>3 DEF MarkOriginals, MarkOriginalsFails, OriginalsFailed, Join, FreeUpload
  <2>4. CASE UNCHANGED uploads
    BY <1>3, <2>4
  <2> QED BY <2>1, <2>2, <2>3, <2>4 DEF WorkerStep, sinkVars, SkipUpload, Convert,
     ConvertUndecodable, ConvertFails, MarkConverted, MarkConvertedFails, UploadPDF,
     UploadNoPDF, UploadPDFFails, RecordDriveId, RecordDriveIdFails, MarkPDF, MarkPDFFails
<1>5. CASE \E u \in Upload : UploadAction(u)
  <2>1. PICK u \in Upload : UploadStep(u)
    BY <1>5 DEF UploadAction
  <2>2. ~(FindFolderFails(u) \/ TrashFolderFails(u) \/ CreateFolderFails(u) \/ UploadFileFails(u))
    BY DEF FindFolderFails, TrashFolderFails, CreateFolderFails, UploadFileFails, RequestFails
  <2>3. CASE v # u
    BY <1>1, <1>3, <2>1, <2>3 DEF UploadStep, ListFiles, FindFolder, FindFolderFails,
       TrashFolder, TrashFolderFails, CreateFolder, CreateFolderFails, UploadFile,
       UploadFileFails, RequestFails, Return, FileDone
  <2>4. CASE v = u
    <3>1. CASE ListFiles(u) \/ FindFolder(u) \/ TrashFolder(u)
      <4>1. uploads'[u].failed = uploads[u].failed
        BY <1>1, <3>1 DEF ListFiles, FindFolder, TrashFolder, UploadState
      <4> QED BY <1>3, <2>4, <4>1
    <3>2. CASE Return(u, FALSE)
      BY <1>1, <2>4, <3>2, Returned
    <3>3. CASE CreateFolder(u) /\ ~Return(u, FALSE)
      <4>1. uploads'[u].failed = uploads[u].failed
        BY <1>1, <3>3 DEF CreateFolder, UploadState
      <4> QED BY <1>3, <2>4, <4>1
    <3>4. CASE UploadFile(u)
      <4>1. PICK n : FileDone(u, n, FALSE)
        BY <3>4 DEF UploadFile
      <4>2. uploads[u].failed = FALSE
        BY <1>1, <1>3, <2>4 DEF UploadState
      <4>3. CASE uploads[u].names = {n}
        <5>1. Return(u, FALSE)
          BY <4>1, <4>2, <4>3 DEF FileDone
        <5> QED BY <3>2, <5>1
      <4>4. CASE uploads[u].names # {n}
        <5>1. uploads' = [uploads EXCEPT ![u].names = @ \ {n}, ![u].failed = FALSE]
          BY <1>1, <4>1, <4>2, <4>4 DEF FileDone
        <5>2. uploads'[u].failed = FALSE
          BY <1>1, <5>1 DEF UploadState
        <5> QED BY <2>4, <5>2
      <4> QED BY <4>3, <4>4
    <3> QED BY <2>1, <2>2, <3>1, <3>2, <3>3, <3>4 DEF UploadStep
  <2> QED BY <2>3, <2>4
<1>6. CASE UNCHANGED uploads
  BY <1>3, <1>6
<1>7. CASE Crash
  BY <1>7 DEF Crash, FreeUpload
<1> QED
  BY <1>4, <1>5, <1>6, <1>7, UploadsByOthers

\* All writes but those of scan.pdf.
LEMMA OtherFiles ==
    ASSUME jobDir \in [JobId -> Dir], NEW id, NEW n, NEW content, NEW m,
           \/ UNCHANGED jobDir \/ MakeDir(id) \/ WritePage(id, n, content)
           \/ WriteDriveId(id, content) \/ WriteMarker(id, m)
    PROVE  \A k \in JobId : jobDir'[k].pdf = jobDir[k].pdf
BY DEF MakeDir, WritePage, WriteDriveId, WriteMarker, Dir

LEMMA WritePDFElsewhere ==
    ASSUME jobDir \in [JobId -> Dir], NEW id, NEW content, WritePDF(id, content)
    PROVE  \A k \in JobId \ {id} : jobDir'[k].pdf = jobDir[k].pdf
BY DEF WritePDF, Dir

\* Apart from the user, only the conversion of a job changes its scan.pdf.
LEMMA WhoWritesPDF ==
    ASSUME TypeInv, [Next]_vars, ~Fault, NEW k \in JobId, k \notin deleted'
    PROVE  \/ jobDir'[k].pdf = jobDir[k].pdf
           \/ workerPc = "convert" /\ workerJob.id = k /\ (Convert \/ Crash)
<1>1. jobDir \in [JobId -> Dir]
  BY IngestTyped
<1>2. CASE \E id, n, content, m :
             \/ UNCHANGED jobDir \/ MakeDir(id) \/ WritePage(id, n, content)
             \/ WriteDriveId(id, content) \/ WriteMarker(id, m)
  BY <1>1, <1>2, OtherFiles
<1>3. CASE Convert
  BY <1>1, <1>3, WritePDFElsewhere DEF Convert
<1>4. CASE Crash
  BY <1>1, <1>2, <1>4, WritePDFElsewhere DEF Crash, TornWrite
<1>5. CASE \E id \in JobId : DeletePDF(id)
  BY <1>1, <1>5, WritePDFElsewhere DEF DeletePDF
<1>6. CASE WorkerAction
  <2>1. WorkerStep
    BY <1>6 DEF WorkerAction
  <2> QED BY <1>2, <1>3, <2>1 DEF WorkerStep, StartUpload, SkipUpload, ConvertUndecodable,
     ConvertFails, MarkConverted, MarkConvertedFails, MarkOriginals, MarkOriginalsFails,
     OriginalsFailed, UploadPDF, UploadNoPDF, UploadPDFFails, RecordDriveId,
     RecordDriveIdFails, MarkPDF, MarkPDFFails, CommitFails, queueVars
<1>7. CASE \E i \in Ingester : IngestStep(i)
  BY <1>2, <1>7 DEF IngestStep, StartJob, AddPage, AddPageError, AddPageFails, CommitScan,
     CommitScanError, CommitFails, ReadBack, Enqueue, queueVars
<1>8. CASE UNCHANGED vars \/ ResumeStep \/ \E u \in Upload : UploadAction(u)
  <2>1. UNCHANGED jobDir
    BY <1>8 DEF vars, ResumeStep, WakeUp, ReadJob, ReadJobError, EnqueueUnfinished, queueVars,
       UploadAction, UploadStep, ListFiles, FindFolder, FindFolderFails, TrashFolder,
       TrashFolderFails, CreateFolder, CreateFolderFails, UploadFile, UploadFileFails
  <2> QED BY <1>2, <2>1
<1> QED
  BY <1>4, <1>5, <1>6, <1>7, <1>8 DEF Next, Environment

\* COMPLETE.convert and COMPLETE.uploadpdf are the worker's.
LEMMA WhoConverts ==
    ASSUME TypeInv, [Next]_vars, NEW k \in JobId, IsConverted(jobDir'[k]),
           ~IsConverted(jobDir[k])
    PROVE  workerPc = "markconvert" /\ workerJob.id = k
BY NextEffect DEF Effect, Silent, Records, Delivers, Finishes, Withdraws, NothingRecorded,
                  Recorded, IsConverted

LEMMA WhoDelivers ==
    ASSUME TypeInv, [Next]_vars, NEW k \in JobId, k \in Delivered', k \notin Delivered
    PROVE  workerPc = "markpdf" /\ workerJob.id = k
BY NextEffect DEF Effect, Silent, Records, Delivers, Finishes, Withdraws, NothingRecorded,
                  Recorded, Delivered

LEMMA WhoWorks ==
    ASSUME TypeInv, WorkerSettled, WorkerPages, workerPc # "idle", Regular(workerJob.id)
    PROVE  /\ workerJob \in Handle /\ workerJob.id \in JobId
           /\ workerJob.pages = ScannedPages(jobDir[workerJob.id])
           /\ IsAccepted(jobDir[workerJob.id])
BY WorkerBusy DEF TypeInv, TypeOK, WorkerSettled, Settled, WorkerPages, Regular

\* What has been converted stays ready to be uploaded.
LEMMA ReadyStays ==
    ASSUME TypeInv, ScanInv, [Next]_vars, ~Fault, NEW id \in JobId, Regular(id)',
           IsAccepted(jobDir[id]), Ready(id),
           workerPc = "convert" /\ workerJob.id = id => InFull(id)
    PROVE  Ready(id)'
<1>1. CASE InFull(id)
  BY <1>1, InFullStays DEF Ready
<1>2. CASE ~InFull(id)
  <2>1. jobDir'[id].pdf = jobDir[id].pdf
    BY <1>2, WhoWritesPDF DEF Regular
  <2>2. FullPDF(jobDir'[id]) = FullPDF(jobDir[id])
    BY AcceptedStays, FullPDFStays
  <2> QED BY <1>2, <2>1, <2>2 DEF Ready
<1> QED
  BY <1>1, <1>2

LEMMA ConvertedReadyStep ==
    ASSUME TypeInv, ScanInv, WorkerSettled, WorkerPages, ConvertedReady, WorkerDelivers,
           [Next]_vars, ~Fault
    PROVE  ConvertedReady'
<1>1. SUFFICES ASSUME NEW id \in JobId, Regular(id)', IsConverted(jobDir'[id])
               PROVE  IsAccepted(jobDir'[id]) /\ Ready(id)'
  BY DEF ConvertedReady
<1>2. Regular(id)
  BY <1>1, WasRegular
<1>3. CASE IsConverted(jobDir[id])
  <2>1. IsAccepted(jobDir[id]) /\ Ready(id)
    BY <1>2, <1>3 DEF ConvertedReady
  <2>2. workerPc = "convert" /\ workerJob.id = id => InFull(id)
    BY <1>2, <1>3 DEF WorkerDelivers
  <2> QED BY <1>1, <2>1, <2>2, AcceptedStays, ReadyStays
<1>4. CASE ~IsConverted(jobDir[id])
  <2>1. workerPc = "markconvert" /\ workerJob.id = id
    BY <1>1, <1>4, WhoConverts
  <2>2. IsAccepted(jobDir[id]) /\ Ready(id)
    BY <1>2, <2>1, WhoWorks DEF WorkerDelivers
  <2> QED BY <1>1, <2>1, <2>2, AcceptedStays, ReadyStays
<1> QED
  BY <1>3, <1>4

LEMMA DeliveredWholeStep ==
    ASSUME TypeInv, ScanInv, DeliveredWhole, WorkerDelivers, [Next]_vars
    PROVE  DeliveredWhole'
<1>1. SUFFICES ASSUME NEW id \in JobId, id \in Delivered', Regular(id)'
               PROVE  InFull(id)'
  BY DEF DeliveredWhole, Delivered
<1>2. Regular(id)
  BY <1>1, WasRegular
<1>3. InFull(id)
  BY <1>1, <1>2, WhoDelivers DEF DeliveredWhole, WorkerDelivers
<1> QED
  BY <1>3, InFullStays

-----------------------------------------------------------------------------
(* The steps of processScan. *)

\* UploadPDF stores what is ready.
LEMMA UploadedInFull ==
    ASSUME TypeInv, ScanInv, [Next]_vars, NEW id \in JobId, IsAccepted(jobDir[id]), Ready(id),
           UNCHANGED jobDir, CreatePDF(id)
    PROVE  InFull(id)'
<1>1. CASE InFull(id)
  BY <1>1, InFullStays
<1>2. CASE jobDir[id].pdf = FullPDF(jobDir[id])
  <2>1. pdfs \in [JobId -> Seq(PDF \cup {Empty})]
    BY DEF TypeInv, TypeOK, SinkTypeOK
  <2> DEFINE S == PDF \cup {Empty}
             content == jobDir[id].pdf
  <2>2. pdfs'[id] = Append(pdfs[id], content)
    BY <2>1 DEF CreatePDF
  <2>3. PICK q \in Seq(S) : q = pdfs[id]
    BY <2>1
  <2>4. content = FullPDF(jobDir[id])
    BY <1>2
  <2> HIDE DEF S, content
  <2>5. Len(q) + 1 \in DOMAIN Append(q, content) /\ Append(q, content)[Len(q) + 1] = content
    BY <2>3
  <2>6. \E k \in DOMAIN pdfs'[id] : pdfs'[id][k] = content
    BY <2>2, <2>3, <2>5
  <2> QED BY <2>4, <2>6 DEF InFull
<1> QED
  BY <1>1, <1>2 DEF Ready

\* The worker goes on with its job, k.
LEMMA WorkerGoesOn ==
    ASSUME TypeInv, ScanInv, WorkerStage, WorkerSettled, WorkerPages, ConvertedReady,
           WorkerDelivers, WorkerAction, ~Fault, workerPc' # "idle",
           NEW k \in JobId, k = workerJob.id, Regular(k)'
    PROVE  /\ workerPc' \in {"convert", "failing"} /\ IsConverted(jobDir'[k]) => InFull(k)'
           /\ workerPc' = "markconvert" => Ready(k)'
           /\ workerPc' \in {"driveid", "markpdf"} => InFull(k)'
<1>1. [Next]_vars /\ WorkerStep /\ jobDir \in [JobId -> Dir]
  BY IngestTyped DEF Next, WorkerAction
<1>2. workerPc # "idle" /\ Regular(k)
  BY <1>1, WorkerKeepsJob, WasRegular
<1>3. IsAccepted(jobDir[k]) /\ workerJob.pages = ScannedPages(jobDir[k])
  BY <1>2, WhoWorks
<1>4. InFull(k) => InFull(k)'
  BY <1>1, InFullStays
<1>5. CASE StartUpload \/ SkipUpload
  <2>1. PICK u : Continue(AfterSpawn(workerJob), workerJob, u)
    BY <1>5 DEF StartUpload, SkipUpload
  <2>2. workerPc = "start" /\ UNCHANGED jobDir
    BY <1>5 DEF StartUpload, SkipUpload, queueVars
  <2>3. /\ workerPc' \in {"pdf", "originals", "convert"}
        /\ workerPc' = "convert" => "convert" \notin workerJob.markers
    BY <2>1 DEF Continue, AfterSpawn, AfterConvert, AfterOriginals
  <2>4. workerPc' = "convert" /\ IsConverted(jobDir[k]) => InFull(k)
    BY <1>2, <2>2, <2>3 DEF WorkerDelivers
  <2> QED BY <1>4, <2>2, <2>3, <2>4
<1>6. CASE Convert
  <2>1. workerPc' = "markconvert"
    BY <1>6 DEF Convert, Continue
  <2>2. jobDir'[k].pdf = Converted(workerJob.pages)
    BY <1>1, <1>6 DEF Convert, WritePDF, Dir
  <2>3. FullPDF(jobDir'[k]) = FullPDF(jobDir[k])
    BY <1>1, <1>3, AcceptedStays, FullPDFStays
  <2>4. Converted(ScannedPages(jobDir[k])) = FullPDF(jobDir[k])
    BY FullPDFConverted
  <2>5. Converted(workerJob.pages) = Converted(ScannedPages(jobDir[k]))
    BY <1>3
  <2> QED BY <2>1, <2>2, <2>3, <2>4, <2>5 DEF Ready
<1>7. CASE ConvertUndecodable
  <2>1. workerPc = "convert" /\ UNCHANGED jobDir /\ workerPc' = "failing"
    BY <1>7 DEF ConvertUndecodable, ConvertError, Continue, queueVars
  <2>2. IsConverted(jobDir[k]) => InFull(k)
    BY <1>2, <2>1 DEF WorkerDelivers
  <2> QED BY <1>4, <2>1, <2>2
<1>8. CASE MarkConverted \/ MarkOriginals
  <2>1. \E j, u : \/ Continue(AfterConvert(j), j, u) \/ Continue("idle", j, u)
                  \/ Continue(AfterOriginals(j), j, u)
    BY <1>8 DEF MarkConverted, MarkOriginals
  <2>2. workerPc' \in {"originals", "pdf"}
    BY <2>1, SkippedSteps DEF Continue
  <2> QED BY <2>2
<1>9. ASSUME workerPc = "pdf"
      PROVE  Ready(k)
  <2>1. IsConverted(jobDir[k])
    BY <1>9 DEF WorkerStage, IsConverted
  <2> QED BY <1>2, <2>1 DEF ConvertedReady
<1>10. CASE UploadPDF
  <2>1. workerPc = "pdf" /\ UNCHANGED jobDir /\ CreatePDF(k) /\ workerPc' = "driveid"
    BY <1>10 DEF UploadPDF, Continue, queueVars
  <2> QED BY <1>1, <1>3, <1>9, <2>1, UploadedInFull
<1>11. CASE UploadNoPDF
  <2>1. workerPc = "pdf" /\ jobDir[k].pdf = NoFile /\ workerPc' = "markpdf"
    BY <1>11 DEF UploadNoPDF, Continue
  <2>2. FullPDF(jobDir[k]) # NoFile
    BY <1>3, FullPDFIsFile
  <2>3. InFull(k)
    BY <1>9, <2>1, <2>2 DEF Ready
  <2> QED BY <1>4, <2>1, <2>3
<1>12. CASE RecordDriveId
  <2>1. workerPc = "driveid" /\ workerPc' = "markpdf"
    BY <1>12 DEF RecordDriveId, Continue
  <2>2. InFull(k)
    BY <1>2, <2>1 DEF WorkerDelivers
  <2> QED BY <1>4, <2>1, <2>2
<1>13. CASE \/ ConvertFails \/ MarkConvertedFails \/ MarkOriginalsFails \/ OriginalsFailed
            \/ UploadPDFFails \/ RecordDriveIdFails \/ MarkPDF \/ MarkPDFFails
  BY <1>13 DEF ConvertFails, MarkConvertedFails, MarkOriginalsFails, OriginalsFailed,
     UploadPDFFails, RecordDriveIdFails, MarkPDF, MarkPDFFails, CommitFails,
     ReturnFromProcessScan, Continue
<1> QED
  BY <1>1, <1>5, <1>6, <1>7, <1>8, <1>10, <1>11, <1>12, <1>13 DEF WorkerStep

\* Nobody else disturbs the job k that the worker is at.
LEMMA WorkerLeftAlone ==
    ASSUME TypeInv, ScanInv, WorkerSettled, WorkerPages, WorkerDelivers, [Next]_vars, ~Fault,
           UNCHANGED workerVars, workerPc # "idle", NEW k \in JobId, k = workerJob.id,
           Regular(k)'
    PROVE  WorkerDelivers'
<1>1. Regular(k) /\ IsAccepted(jobDir[k])
  BY WasRegular, WhoWorks
<1>2. InFull(k) => InFull(k)'
  BY InFullStays
<1>3. IsConverted(jobDir'[k]) /\ workerPc # "markconvert" => IsConverted(jobDir[k])
  BY WhoConverts
<1>4. /\ workerPc = "start" /\ IsConverted(jobDir'[k]) /\ "convert" \notin workerJob.markers =>
            InFull(k)'
      /\ workerPc \in {"convert", "failing"} /\ IsConverted(jobDir'[k]) => InFull(k)'
      /\ workerPc \in {"driveid", "markpdf"} => InFull(k)'
  BY <1>1, <1>2, <1>3 DEF WorkerDelivers
<1>5. workerPc = "markconvert" => Ready(k)'
  BY <1>1, ReadyStays DEF WorkerDelivers
<1> QED
  BY <1>4, <1>5 DEF workerVars, WorkerDelivers, InFull, Ready, Regular

\* The worker receives a handle.
LEMMA ReceiveDelivers ==
    ASSUME TypeInv, ScanInv, [Next]_vars, NEW j \in Handle, Receive(j), UpToDate(j)
    PROVE  WorkerDelivers'
<1>1. workerPc = "idle" /\ workerPc' = "start" /\ workerJob' = j /\ j.id \in JobId
  BY DEF Receive, Continue, Handle
<1>2. SUFFICES ASSUME Regular(j.id)', IsConverted(jobDir'[j.id]), "convert" \notin j.markers
               PROVE  InFull(j.id)'
  BY <1>1 DEF WorkerDelivers, InFull, Regular
<1>3. Regular(j.id) /\ IsConverted(jobDir[j.id])
  BY <1>1, <1>2, WasRegular, WhoConverts
<1>4. InFull(j.id)
  BY <1>1, <1>2, <1>3 DEF UpToDate, WorksOn
<1> QED
  BY <1>1, <1>4, InFullStays

LEMMA WorkerDeliversStep ==
    ASSUME TypeInv, ScanInv, WorkerStage, WorkerSettled, WorkerPages, ConvertedReady,
           WorkerDelivers, SendersUpToDate, [Next]_vars, ~Fault
    PROVE  WorkerDelivers'
<1>1. TypeOK /\ WorkerTypeOK
  BY DEF TypeInv, TypeOK
<1>2. CASE WorkerAction
  <2>1. PICK k : k = workerJob.id
    OBVIOUS
  <2>2. /\ workerPc # "idle" /\ workerPc' # "start"
        /\ workerPc' # "idle" => workerJob'.id = k
    BY <1>2, <2>1, WorkerKeepsJob
  <2>3. k \in JobId
    BY <1>1, <2>1, <2>2, WorkerBusy
  <2>4. ASSUME workerPc' # "idle", Regular(k)'
        PROVE  /\ workerPc' \in {"convert", "failing"} /\ IsConverted(jobDir'[k]) => InFull(k)'
               /\ workerPc' = "markconvert" => Ready(k)'
               /\ workerPc' \in {"driveid", "markpdf"} => InFull(k)'
    BY <1>2, <2>1, <2>3, <2>4, WorkerGoesOn
  <2> QED BY <2>2, <2>4 DEF WorkerDelivers, InFull, Ready, Regular
<1>3. CASE UNCHANGED workerVars
  <2>1. CASE workerPc = "idle"
    BY <1>3, <2>1 DEF WorkerDelivers, workerVars
  <2>2. CASE workerPc # "idle"
    <3>1. PICK k : k = workerJob.id
      OBVIOUS
    <3>2. k \in JobId
      BY <1>1, <2>2, <3>1, WorkerBusy
    <3>3. CASE Regular(k)'
      BY <1>3, <2>2, <3>1, <3>2, <3>3, WorkerLeftAlone
    <3>4. CASE ~Regular(k)'
      BY <1>3, <3>1, <3>4 DEF WorkerDelivers, workerVars, Regular
    <3> QED BY <3>3, <3>4
  <2> QED BY <2>1, <2>2
<1>4. ASSUME NEW j \in resumeJobs, Receive(j)
      PROVE  WorkerDelivers'
  BY <1>1, <1>4, ReceiveDelivers DEF SendersUpToDate, TypeOK
<1>5. ASSUME NEW i \in Ingester, ingest[i].pc = "send", Receive(ingest[i].job)
      PROVE  WorkerDelivers'
  <2>1. PICK j \in Handle : j = ingest[i].job
    BY <1>1, <1>5, IngesterBusy
  <2> QED BY <1>5, <2>1, ReceiveDelivers DEF SendersUpToDate
<1>6. CASE Crash
  BY <1>6, CrashFrees DEF WorkerDelivers
<1> QED
  BY <1>2, <1>3, <1>4, <1>5, <1>6, WorkerByOthers

\* A job that processScan leaves without an error is finished, or it cannot be converted.
LEMMA WorkerLeaves ==
    ASSUME TypeInv, ScanInv, WorkerBehindDisk, WorkerSettled, WorkerPages, NoneFailed,
           DeliveredWhole, WorkerDelivers, WorkerAction, ~Fault, workerPc' = "idle",
           NEW k \in JobId, k = workerJob.id, Regular(k)', IsConverted(jobDir'[k])
    PROVE  InFull(k)'
<1>1. /\ [Next]_vars /\ WorkerStep /\ WorkerTypeOK /\ jobDir \in [JobId -> Dir]
      /\ workerPc # "idle"
  BY IngestTyped, WorkerKeepsJob DEF Next, WorkerAction, TypeInv, TypeOK
<1>2. Regular(k) /\ Behind(workerJob) /\ workerJob \in Handle
  BY <1>1, WasRegular, WorkerBusy DEF WorkerBehindDisk
<1>3. InFull(k) => InFull(k)'
  BY <1>1, InFullStays
<1>4. DeliveredWhole'
  BY <1>1, DeliveredWholeStep
<1>5. ASSUME "uploadpdf" \in jobDir'[k].markers
      PROVE  InFull(k)'
  BY <1>4, <1>5 DEF DeliveredWhole, Delivered
<1>6. ASSUME workerPc \in {"convert", "failing"}
      PROVE  InFull(k)'
  <2>1. IsConverted(jobDir[k])
    BY <1>1, <1>6, WhoConverts
  <2> QED BY <1>1, <1>2, <1>3, <1>6, <2>1 DEF WorkerDelivers
<1>7. CASE StartUpload \/ SkipUpload
  <2>1. PICK u : Continue(AfterSpawn(workerJob), workerJob, u)
    BY <1>7 DEF StartUpload, SkipUpload
  <2>2. AfterSpawn(workerJob) = "idle"
    BY <2>1 DEF Continue
  <2>3. "uploadpdf" \in workerJob.markers
    BY <2>2 DEF AfterSpawn, AfterConvert, AfterOriginals
  <2>4. "uploadpdf" \in jobDir[k].markers
    BY <1>2, <2>3 DEF Behind
  <2> QED BY <1>1, <1>5, <2>4, MarkersGrow
<1>8. CASE MarkConverted
  <2>1. PICK j : j = Committed(workerJob, "convert")
    OBVIOUS
  <2>2. AfterConvert(j) = "idle" /\ WriteMarker(workerJob.id, "convert")
    BY <1>8, <2>1 DEF MarkConverted, Continue
  <2>3. "uploadpdf" \in j.markers
    BY <2>2 DEF AfterConvert, AfterOriginals
  <2>4. j.markers \subseteq jobDir'[k].markers
    BY <1>1, <1>2, <2>1, <2>2, CommittedBehind DEF Marker
  <2> QED BY <1>5, <2>3, <2>4
<1>9. CASE MarkOriginals /\ workerPc # "failing"
  <2>1. PICK j : j = Committed(workerJob, "uploadoriginals")
    OBVIOUS
  <2>2. AfterOriginals(j) = "idle" /\ WriteMarker(workerJob.id, "uploadoriginals")
    BY <1>9, <2>1 DEF MarkOriginals, Continue
  <2>3. "uploadpdf" \in j.markers
    BY <2>2 DEF AfterOriginals
  <2>4. j.markers \subseteq jobDir'[k].markers
    BY <1>1, <1>2, <2>1, <2>2, CommittedBehind DEF Marker
  <2> QED BY <1>5, <2>3, <2>4
<1>10. CASE OriginalsFailed
  BY <1>1, <1>10 DEF OriginalsFailed, AwaitsResult, WorkerTypeOK, NoneFailed
<1>11. CASE MarkPDF
  BY <1>1, <1>2, <1>3, <1>11 DEF MarkPDF, WorkerDelivers
<1>12. CASE Convert \/ UploadPDF \/ UploadNoPDF \/ RecordDriveId
  BY <1>12 DEF Convert, UploadPDF, UploadNoPDF, RecordDriveId, Continue
<1>13. CASE \/ ConvertFails \/ MarkConvertedFails \/ MarkOriginalsFails
            \/ UploadPDFFails \/ RecordDriveIdFails \/ MarkPDFFails
  BY <1>13 DEF ConvertFails, MarkConvertedFails, MarkOriginalsFails, UploadPDFFails,
     RecordDriveIdFails, MarkPDFFails, CommitFails
<1> QED
  BY <1>1, <1>6, <1>7, <1>8, <1>9, <1>10, <1>11, <1>12, <1>13
     DEF WorkerStep, ConvertUndecodable

\* A handle that can still be handed over stays good enough.
LEMMA UpToDateStays ==
    ASSUME TypeInv, ScanInv, WorkerBehindDisk, WorkerSettled, WorkerPages, NoneFailed,
           DeliveredWhole, WorkerDelivers, [Next]_vars, ~Fault, ~Crash,
           NEW j \in Handle, UpToDate(j)
    PROVE  UpToDate(j)'
<1>1. j.id \in JobId
  BY DEF Handle
<1>2. PICK k \in JobId : k = j.id
  BY <1>1
<1>3. SUFFICES ASSUME Regular(k)', IsConverted(jobDir'[k]), "convert" \notin j.markers
               PROVE  InFull(k)' \/ (workerPc' # "idle" /\ workerJob'.id = k)
  BY <1>2 DEF UpToDate, Regular, InFull, WorksOn
<1>4. Regular(k)
  BY <1>3, WasRegular
<1>5. InFull(k) \/ WorksOn(k)
  <2>1. CASE IsConverted(jobDir[k])
    BY <1>2, <1>3, <1>4, <2>1 DEF UpToDate
  <2>2. CASE ~IsConverted(jobDir[k])
    BY <1>3, <2>2, WhoConverts DEF WorksOn
  <2> QED BY <2>1, <2>2
<1>6. CASE InFull(k)
  BY <1>6, InFullStays
<1>7. CASE WorksOn(k)
  <2>1. CASE WorkerAction
    <3>1. CASE workerPc' = "idle"
      BY <1>3, <1>7, <2>1, <3>1, WorkerLeaves DEF WorksOn
    <3>2. CASE workerPc' # "idle"
      BY <1>7, <2>1, <3>2, WorkerKeepsJob DEF WorksOn
    <3> QED BY <3>1, <3>2
  <2>2. CASE ~WorkerAction
    BY <1>7, <2>2, WorkerByOthers DEF WorksOn, workerVars, Receive
  <2> QED BY <2>1, <2>2
<1> QED
  BY <1>5, <1>6, <1>7

\* A handle that is read knows of the conversion.
LEMMA ReadStateConverted ==
    ASSUME NEW j \in Handle, NEW d \in Dir, IsConverted(d)
    PROVE  "convert" \in ReadState(j, d).markers
BY DEF ReadState, Handle, IsConverted, HandleMarker, Marker

LEMMA JobByIdUpToDate ==
    ASSUME NEW id \in JobId, jobDir \in [JobId -> Dir], IsConverted(jobDir[id])
    PROVE  "convert" \in JobById(id).markers
<1> DEFINE j == ReadState(NewHandle(id), jobDir[id])
           pages == LoadPages(jobDir[id])
<1>1. j \in Handle /\ "convert" \in j.markers
  BY NewHandleType, ReadStateType, ReadStateConverted
<1>2. JobById(id) = IF IsDone(j) THEN [j EXCEPT !.state = "Done"]
                    ELSE IF j.state = "InProgress" THEN [j EXCEPT !.pages = pages]
                    ELSE j
  BY DEF JobById
<1> HIDE DEF j, pages
<1>3. /\ [j EXCEPT !.state = "Done"].markers = j.markers
      /\ [j EXCEPT !.pages = pages].markers = j.markers
  BY <1>1 DEF Handle
<1> QED
  BY <1>1, <1>2, <1>3

LEMMA ReadBackUpToDate ==
    ASSUME TypeInv, NEW i \in Ingester, ReadBack(i)
    PROVE  UpToDate(ingest[i].job)'
<1> DEFINE id == ingest[i].job.id
           j == ReadState(ingest[i].job, jobDir[id])
           new == [j EXCEPT !.state = "InProgress"]
<1>1. /\ ingest[i] \in [pc : {"addpage", "commit", "readback", "send"}, scan : Scan, job : Handle]
      /\ id \in JobId /\ ingest[i].job \in Handle /\ jobDir[id] \in Dir
  BY IngesterBusy, IngestTyped DEF TypeInv, ReadBack
<1>2. /\ j \in Handle /\ j.id = id
      /\ IsConverted(jobDir[id]) => "convert" \in j.markers
  BY <1>1, ReadStateType, ReadStateConverted
<1>3. ingest' = [ingest EXCEPT ![i].pc = "send", ![i].job = new] /\ UNCHANGED jobDir
  BY DEF ReadBack, queueVars
<1> HIDE DEF j
<1>4. new.id = id /\ new.markers = j.markers
  BY <1>2 DEF Handle
<1> HIDE DEF new
<1>5. ingest'[i].job = new
  BY <1>1, <1>3, IngestTyped
<1> HIDE DEF id
<1> QED
  BY <1>2, <1>3, <1>4, <1>5 DEF UpToDate

LEMMA SendersUpToDateStep ==
    ASSUME TypeInv, ScanInv, WorkerBehindDisk, WorkerSettled, WorkerPages, NoneFailed,
           DeliveredWhole, WorkerDelivers, SendersUpToDate, [Next]_vars, ~Fault
    PROVE  SendersUpToDate'
<1>1. TypeOK /\ jobDir \in [JobId -> Dir]
  BY IngestTyped DEF TypeInv
<1>2. CASE Crash
  BY <1>2, CrashFrees DEF SendersUpToDate
<1>3. CASE ~Crash
  <2>1. ASSUME NEW j \in resumeJobs' PROVE UpToDate(j)'
    <3>1. CASE j \in resumeJobs
      BY <1>1, <1>3, <3>1, UpToDateStays DEF SendersUpToDate, TypeOK
    <3>2. CASE ReadJob /\ j \notin resumeJobs
      <4>1. PICK id \in resumeTodo :
               resumeJobs' = IF JobById(id).state = "Done" THEN resumeJobs
                             ELSE resumeJobs \cup {JobById(id)}
        BY <3>2 DEF ReadJob
      <4>2. id \in JobId /\ UNCHANGED jobDir
        BY <1>1, <3>2 DEF ReadJob, TypeOK, queueVars
      <4>3. j = JobById(id)
        BY <2>1, <3>2, <4>1
      <4>4. j.id = id
        BY <1>1, <4>2, <4>3, JobByIdType
      <4>5. IsConverted(jobDir'[j.id]) => "convert" \in j.markers
        BY <1>1, <4>2, <4>3, <4>4, JobByIdUpToDate
      <4> QED BY <4>5 DEF UpToDate
    <3>3. CASE ~ReadJob
      <4>1. resumeJobs' \subseteq resumeJobs
        BY <3>3 DEF Next, vars, resumeVars, IngestStep, StartJob, AddPage, AddPageError,
           CommitScan, CommitScanError, ReadBack, Enqueue, ResumeStep, WakeUp, ReadJobError,
           EnqueueUnfinished, WorkerAction, UploadAction, Environment, Crash, DeletePDF
      <4> QED BY <2>1, <3>1, <4>1
    <3> QED BY <3>1, <3>2, <3>3
  <2>2. ASSUME NEW i \in Ingester, ingest'[i].pc = "send" PROVE UpToDate(ingest[i].job)'
    <3>1. CASE ReadBack(i)
      BY <3>1, ReadBackUpToDate
    <3>2. CASE ingest'[i] = ingest[i]
      <4>1. PICK j \in Handle : j = ingest[i].job
        BY <1>1, <2>2, <3>2, IngesterBusy
      <4>2. UpToDate(j)'
        BY <1>3, <2>2, <3>2, <4>1, UpToDateStays DEF SendersUpToDate
      <4> QED BY <3>2, <4>1, <4>2 DEF UpToDate
    <3>3. CASE \E s \in Scan : StartJob(i, s)
      BY <2>2, <3>3, IngestTyped DEF StartJob, AfterPages
    <3>4. CASE AddPage(i) \/ CommitScan(i)
      <4>1. ingest[i] \in [pc : {"addpage", "commit", "readback", "send"}, scan : Scan, job : Handle]
        BY <1>1, <3>4, IngesterBusy DEF AddPage, CommitScan
      <4> QED BY <2>2, <3>4, <4>1, IngestTyped DEF AddPage, CommitScan, AfterPages
    <3> QED BY <2>2, <3>1, <3>2, <3>3, <3>4, IngesterKept
  <2> QED BY <2>1, <2>2 DEF SendersUpToDate
<1> QED
  BY <1>2, <1>3

LEMMA NextDelivery ==
    ASSUME TypeInv, ScanInv, SafetyInv, OriginalsInv, PagesInv, DeliveryInv, [Next]_vars
    PROVE  DeliveryInv'
<1>1. SUFFICES ASSUME faults' = 0
               PROVE  (/\ NoneFailed /\ ConvertedReady /\ DeliveredWhole
                       /\ WorkerDelivers /\ SendersUpToDate)'
  BY DEF DeliveryInv
<1>2. faults = 0 /\ ~Fault
  BY <1>1, NoFault
<1>3. NoneFailed /\ ConvertedReady /\ DeliveredWhole /\ WorkerDelivers /\ SendersUpToDate
  BY <1>2 DEF DeliveryInv
<1>4. WorkerBehindDisk /\ WorkerStage /\ WorkerSettled /\ WorkerPages
  BY DEF SafetyInv, HandlesBehindDisk, OriginalsInv, PagesInv
<1>5. NoneFailed' /\ ConvertedReady' /\ DeliveredWhole'
  BY <1>2, <1>3, <1>4, NoneFailedStep, ConvertedReadyStep, DeliveredWholeStep
<1>6. WorkerDelivers'
  BY <1>2, <1>3, <1>4, WorkerDeliversStep
<1>7. SendersUpToDate'
  BY <1>2, <1>3, <1>4, SendersUpToDateStep
<1> QED
  BY <1>5, <1>6, <1>7

LEMMA InitDelivery == Init => DeliveryInv
<1> SUFFICES ASSUME Init PROVE DeliveryInv
  OBVIOUS
<1> USE DEF Init, QueueInit, SinkInit, WorkerInit
<1>1. NoneFailed
  BY DEF NoneFailed, FreeUpload
<1>2. \A id \in JobId : jobDir[id].markers = {}
  BY DEF NoDir
<1>3. ConvertedReady /\ DeliveredWhole
  BY <1>2 DEF ConvertedReady, DeliveredWhole, Delivered, IsConverted
<1>4. WorkerDelivers /\ SendersUpToDate
  BY DEF WorkerDelivers, SendersUpToDate, NoIngest
<1> QED
  BY <1>1, <1>3, <1>4 DEF DeliveryInv

\* As long as nothing fails, COMPLETE.uploadpdf means that a PDF on Drive shows every page
\* of the scan in its place, however often processScan was cut short by a crash or repeated
\* with an old handle (processScan, JobById, UploadPDF).
THEOREM DeliveredInFullHolds ==
    ASSUME ~SameSecond, MaxPages < 10
    PROVE  Spec => []DeliveredInFull
<1>1. TypeInv /\ ScanInv /\ SafetyInv /\ OriginalsInv /\ PagesInv /\ [Next]_vars => PagesInv'
  BY NextPages
<1>2. TypeInv /\ ScanInv /\ SafetyInv /\ OriginalsInv /\ PagesInv /\ DeliveryInv /\ [Next]_vars
         => DeliveryInv'
  BY NextDelivery
<1>3. DeliveryInv => DeliveredInFull
  BY DEF DeliveryInv, DeliveredWhole, DeliveredInFull, Regular, InFull
<1> QED
  BY Invariants, InitPages, InitDelivery, <1>1, <1>2, <1>3, PTL DEF Spec
=============================================================================
