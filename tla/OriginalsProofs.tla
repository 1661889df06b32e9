--------------------------- MODULE OriginalsProofs --------------------------
(***************************************************************************)
(* COMPLETE.scan covers exactly one scan, and COMPLETE.uploadoriginals     *)
(* means that a folder on Drive was given every page of it, provided that  *)
(* no two scans are added within a second (the run same_second shows what  *)
(* happens if two are).                                                    *)
(*                                                                         *)
(* AddJob takes no lock.  What keeps its directory to itself is the name,  *)
(* which is new, and that nobody else writes pages or COMPLETE.scan: so    *)
(* what an ingester has written so far is all there is.                    *)
(*                                                                         *)
(* UploadOriginals lists the files once and never looks back.  That this   *)
(* is enough follows from who is handed to the worker: a job whose scan is *)
(* accepted, so that its pages do not change any more, or one that is in   *)
(* handedPartial.  The worker records the upload only after it has         *)
(* received the result of the goroutine that it started for this job.      *)
(***************************************************************************)
EXTENDS Scan2DriveProofs

Busy(i) == ingest[i].pc # "idle"

\* The first k pages of scan s are on disk, and no other page.
Holds(d, s, k) == d.pages = [n \in 1..MaxPages |-> IF n <= k THEN <<s, n>> ELSE NoFile]

IsAccepted(d) == "scan" \in d.markers

\* What AddJob has on disk when it has come to a step.
WrittenSoFar(i) ==
    LET d == jobDir[ingest[i].job.id]
    IN  /\ d.exists
        /\ ingest[i].pc = "addpage" =>
             Holds(d, ingest[i].scan, Len(ingest[i].job.pages)) /\ ~IsAccepted(d)
        /\ ingest[i].pc = "commit" => HoldsScan(d, ingest[i].scan)

OwnDirectory ==
    \A i, k \in Ingester : Busy(i) /\ Busy(k) /\ ingest[i].job.id = ingest[k].job.id => i = k

NewIsEmpty ==
    \A id \in JobId :
        ~jobDir[id].exists => ~IsAccepted(jobDir[id]) /\ \A n \in 1..MaxPages :
                                                             jobDir[id].pages[n] = NoFile

ScanInv ==
    /\ \A i \in Ingester : Busy(i) => WrittenSoFar(i)
    /\ OwnDirectory /\ NewIsEmpty /\ CompleteScan

-----------------------------------------------------------------------------
(* Which steps touch pages and COMPLETE.scan. *)

\* What CompleteScan depends on is the same in directory k as before.
Kept(k) ==
    /\ jobDir'[k].exists = jobDir[k].exists
    /\ jobDir'[k].pages = jobDir[k].pages
    /\ IsAccepted(jobDir'[k]) <=> IsAccepted(jobDir[k])

LEMMA OtherWritesKeep ==
    ASSUME jobDir \in [JobId -> Dir], NEW id, NEW content,
           \/ UNCHANGED jobDir \/ WritePDF(id, content) \/ WriteDriveId(id, content)
    PROVE  \A k \in JobId : Kept(k)
BY DEF Kept, IsAccepted, WritePDF, WriteDriveId, Dir

LEMMA OtherMarkersKeep ==
    ASSUME jobDir \in [JobId -> Dir], NEW id, NEW m, m # "scan",
           WriteMarker(id, m) \/ CommitFails(id, m)
    PROVE  \A k \in JobId : Kept(k)
BY DEF Kept, IsAccepted, WriteMarker, CommitFails, Dir

\* A write of AddJob touches its own directory only.
LEMMA ScanWritesElsewhere ==
    ASSUME jobDir \in [JobId -> Dir], NEW id, NEW n, NEW content, NEW m,
           \/ UNCHANGED jobDir \/ MakeDir(id) \/ WritePage(id, n, content) \/ WriteMarker(id, m)
    PROVE  \A k \in JobId \ {id} : Kept(k)
BY DEF Kept, IsAccepted, MakeDir, WritePage, WriteMarker, Dir

LEMMA WorkerKeepsScans ==
    ASSUME TypeInv, WorkerAction
    PROVE  \A k \in JobId : Kept(k)
<1>1. jobDir \in [JobId -> Dir]
  BY DEF TypeInv, TypeOK, QueueTypeOK
<1>2. WorkerStep
  BY DEF WorkerAction
<1>3. CASE \/ StartUpload \/ SkipUpload \/ ConvertUndecodable \/ OriginalsFailed
           \/ UploadPDF \/ UploadNoPDF \/ UploadPDFFails
  BY <1>3 DEF StartUpload, SkipUpload, ConvertUndecodable, OriginalsFailed, UploadPDF,
              UploadNoPDF, UploadPDFFails, queueVars, Kept
<1>4. CASE Convert \/ ConvertFails
  BY <1>1, <1>4, OtherWritesKeep DEF Convert, ConvertFails
<1>5. CASE RecordDriveId \/ RecordDriveIdFails
  BY <1>1, <1>5, OtherWritesKeep DEF RecordDriveId, RecordDriveIdFails
<1>6. CASE MarkConverted \/ MarkConvertedFails
  BY <1>1, <1>6, OtherMarkersKeep DEF MarkConverted, MarkConvertedFails
<1>7. CASE MarkOriginals \/ MarkOriginalsFails
  BY <1>1, <1>7, OtherMarkersKeep DEF MarkOriginals, MarkOriginalsFails
<1>8. CASE MarkPDF \/ MarkPDFFails
  BY <1>1, <1>8, OtherMarkersKeep DEF MarkPDF, MarkPDFFails
<1> QED
  BY <1>2, <1>3, <1>4, <1>5, <1>6, <1>7, <1>8 DEF WorkerStep

-----------------------------------------------------------------------------
(* How the invariant is kept. *)

\* A step that leaves pages and COMPLETE.scan alone, and in which ingesters at
\* most go on from commit or return.
LEMMA QuietStep ==
    ASSUME TypeInv, ScanInv, \A k \in JobId : Kept(k),
           \A i \in Ingester :
              ingest'[i].pc # "idle" =>
                 /\ Busy(i)
                 /\ ingest'[i].job.id = ingest[i].job.id
                 /\ ingest'[i].pc \in {"addpage", "commit"} => ingest'[i] = ingest[i]
    PROVE  ScanInv'
<1>1. ASSUME NEW i \in Ingester, ingest'[i].pc # "idle"
      PROVE  WrittenSoFar(i)'
  <2>1. Busy(i) /\ WrittenSoFar(i) /\ ingest'[i].job.id = ingest[i].job.id
    BY <1>1 DEF ScanInv
  <2>2. ingest[i].job.id \in JobId
    BY <2>1, IngesterBusy DEF TypeInv, Busy
  <2>3. Kept(ingest[i].job.id)
    BY <2>2
  <2> QED BY <1>1, <2>1, <2>3 DEF WrittenSoFar, Kept, Holds, HoldsScan
<1>2. OwnDirectory'
  BY DEF ScanInv, OwnDirectory, Busy
<1>3. NewIsEmpty'
  BY DEF ScanInv, NewIsEmpty, Kept
<1>4. CompleteScan'
  BY DEF ScanInv, CompleteScan, Accepted, Kept, IsAccepted, HoldsScan
<1> QED
  BY <1>1, <1>2, <1>3, <1>4 DEF ScanInv, Busy

\* A step of ingester i in directory id, which nobody else is filling.
LEMMA OwnStep ==
    ASSUME TypeInv, ScanInv, NEW i \in Ingester, NEW id \in JobId,
           \A k \in JobId \ {id} : Kept(k),
           \A k \in Ingester \ {i} : ingest'[k] = ingest[k],
           \A k \in Ingester \ {i} : Busy(k) => ingest[k].job.id # id,
           ingest'[i].pc # "idle" => ingest'[i].job.id = id /\ WrittenSoFar(i)',
           jobDir'[id].exists,
           IsAccepted(jobDir'[id]) => \E s \in Scan : HoldsScan(jobDir'[id], s)
    PROVE  ScanInv'
<1>1. ASSUME NEW k \in Ingester \ {i}, ingest'[k].pc # "idle"
      PROVE  WrittenSoFar(k)'
  <2>1. Busy(k) /\ WrittenSoFar(k) /\ ingest'[k] = ingest[k]
    BY <1>1 DEF ScanInv, Busy
  <2>2. ingest[k].job.id \in JobId \ {id}
    BY <2>1, IngesterBusy DEF TypeInv, Busy
  <2>3. Kept(ingest[k].job.id)
    BY <2>2
  <2> QED BY <2>1, <2>3 DEF WrittenSoFar, Kept, Holds, HoldsScan
<1>2. OwnDirectory'
  BY DEF ScanInv, OwnDirectory, Busy
<1>3. NewIsEmpty'
  BY DEF ScanInv, NewIsEmpty, Kept
<1>4. CompleteScan'
  <2> SUFFICES ASSUME NEW k \in JobId, IsAccepted(jobDir'[k])
               PROVE  \E s \in Scan : HoldsScan(jobDir'[k], s)
    BY DEF CompleteScan, Accepted, IsAccepted, HoldsScan
  <2>1. CASE k = id
    BY <2>1
  <2>2. CASE k # id
    BY <2>2 DEF ScanInv, CompleteScan, Accepted, Kept, IsAccepted, HoldsScan
  <2> QED BY <2>1, <2>2
<1> QED
  BY <1>1, <1>2, <1>3, <1>4 DEF ScanInv, Busy

\* Where a busy ingester writes, nobody else is.
LEMMA AloneInDirectory ==
    ASSUME TypeInv, ScanInv, NEW i \in Ingester, Busy(i)
    PROVE  /\ ingest[i].job.id \in JobId /\ jobDir[ingest[i].job.id].exists
           /\ \A k \in Ingester \ {i} : Busy(k) => ingest[k].job.id # ingest[i].job.id
<1>1. ingest[i].job.id \in JobId
  BY IngesterBusy DEF TypeInv, Busy
<1> QED
  BY <1>1 DEF ScanInv, OwnDirectory, WrittenSoFar

-----------------------------------------------------------------------------
(* The steps of AddJob. *)

LEMMA IngestTyped ==
    ASSUME TypeInv
    PROVE  jobDir \in [JobId -> Dir] /\ ingest \in [Ingester -> IngestState]
BY DEF TypeInv, TypeOK, QueueTypeOK

\* Without SameSecond the directory is new.
LEMMA StartJobScans ==
    ASSUME ~SameSecond, TypeInv, ScanInv, NEW i \in Ingester, NEW s \in Scan, StartJob(i, s)
    PROVE  ScanInv'
<1> DEFINE New(id) == [pc |-> AfterPages(s, 0), scan |-> s, job |-> NewHandle(id)]
<1>1. PICK id \in NewIds : MakeDir(id) /\ ingest' = [ingest EXCEPT ![i] = New(id)]
  BY DEF StartJob
<1>2. id \in JobId /\ ~jobDir[id].exists
  BY DEF NewIds, JobDirs, JobId
<1>3. jobDir'[id] = [jobDir[id] EXCEPT !.exists = TRUE]
  BY <1>1, <1>2, IngestTyped DEF MakeDir
<1>4. /\ jobDir'[id].exists /\ ~IsAccepted(jobDir'[id])
      /\ jobDir'[id].pages = [n \in 1..MaxPages |-> NoFile]
  <2>1. /\ jobDir[id] \in Dir /\ ~IsAccepted(jobDir[id])
        /\ \A n \in 1..MaxPages : jobDir[id].pages[n] = NoFile
    BY <1>2, IngestTyped DEF ScanInv, NewIsEmpty
  <2>2. /\ jobDir'[id].exists /\ jobDir'[id].markers = jobDir[id].markers
        /\ jobDir'[id].pages = jobDir[id].pages
    BY <1>3, <2>1 DEF Dir
  <2>3. jobDir[id].pages = [n \in 1..MaxPages |-> NoFile]
    BY <2>1 DEF Dir
  <2> QED BY <2>1, <2>2, <2>3 DEF IsAccepted
<1>5. ingest'[i] = New(id) /\ \A k \in Ingester \ {i} : ingest'[k] = ingest[k]
  BY <1>1, IngestTyped
<1>6. ingest'[i].job.id = id /\ ingest'[i].scan = s /\ ingest'[i].job.pages = <<>>
      /\ ingest'[i].pc = AfterPages(s, 0)
  BY <1>5 DEF NewHandle
<1>7. Holds(jobDir'[id], s, 0)
  BY <1>4, BoundsAssumption DEF Holds
<1>8. ingest'[i].pc = "commit" => HoldsScan(jobDir'[id], s)
  BY <1>6, <1>7 DEF AfterPages, Holds, HoldsScan
<1>9. WrittenSoFar(i)'
  BY <1>4, <1>6, <1>7, <1>8 DEF WrittenSoFar, IsAccepted, Holds, HoldsScan
<1>10. \A k \in Ingester \ {i} : Busy(k) => ingest[k].job.id # id
  BY <1>2, AloneInDirectory
<1>11. \A k \in JobId \ {id} : Kept(k)
  BY <1>1, IngestTyped, ScanWritesElsewhere
<1> QED
  BY <1>2, <1>4, <1>5, <1>6, <1>9, <1>10, <1>11, OwnStep

LEMMA AddPageScans ==
    ASSUME TypeInv, ScanInv, NEW i \in Ingester, AddPage(i)
    PROVE  ScanInv'
<1> DEFINE id == ingest[i].job.id
           s == ingest[i].scan
           n == NextPage(i)
           k0 == Len(ingest[i].job.pages)
<1>1. Busy(i) /\ ingest[i].pc = "addpage"
  BY DEF AddPage, Busy
<1>2. id \in JobId /\ jobDir[id].exists
      /\ \A k \in Ingester \ {i} : Busy(k) => ingest[k].job.id # id
  BY <1>1, AloneInDirectory
<1>3. /\ ingest[i] \in [pc : {"addpage", "commit", "readback", "send"}, scan : Scan, job : Handle]
      /\ s \in Scan /\ ingest[i].job \in Handle /\ ingest[i].job.pages \in Seq(Page)
  BY <1>1, IngesterBusy DEF TypeInv, Busy
<1>4. n \in 1..MaxPages /\ k0 \in Nat /\ n = k0 + 1
  BY <1>1, <1>3, NextPageType DEF TypeInv, NextPage
<1>5. WritePage(id, n, <<s, n>>)
      /\ ingest' = [ingest EXCEPT ![i].pc = AfterPages(s, n),
                                  ![i].job.pages = Append(@, <<s, n>>)]
  BY DEF AddPage
<1>6. Holds(jobDir[id], s, k0) /\ ~IsAccepted(jobDir[id])
  BY <1>1 DEF ScanInv, WrittenSoFar
<1>7. jobDir'[id] = [jobDir[id] EXCEPT !.pages[n] = <<s, n>>]
  BY <1>2, <1>5, IngestTyped DEF WritePage
<1>8. /\ jobDir'[id].exists /\ ~IsAccepted(jobDir'[id])
      /\ jobDir'[id].pages = [jobDir[id].pages EXCEPT ![n] = <<s, n>>]
  BY <1>2, <1>6, <1>7, IngestTyped DEF IsAccepted, Dir
<1>9. Holds(jobDir'[id], s, n)
  <2> HIDE DEF id, s, n, k0
  <2>1. jobDir[id].pages = [m \in 1..MaxPages |-> IF m <= k0 THEN <<s, m>> ELSE NoFile]
    BY <1>6 DEF Holds
  <2>2. \A m \in 1..MaxPages : m <= n <=> m <= k0 \/ m = n
    BY <1>4, BoundsAssumption
  <2> DEFINE before(m) == IF m <= k0 THEN <<s, m>> ELSE NoFile
             now(m) == IF m <= n THEN <<s, m>> ELSE NoFile
  <2>3. jobDir'[id].pages = [m \in 1..MaxPages |-> IF m = n THEN <<s, n>> ELSE before(m)]
    BY <1>4, <1>8, <2>1
  <2>4. \A m \in 1..MaxPages : now(m) = IF m = n THEN <<s, n>> ELSE before(m)
    BY <1>4, <2>2
  <2>5. jobDir'[id].pages = [m \in 1..MaxPages |-> now(m)]
    <3> HIDE DEF before, now
    <3> QED BY <2>3, <2>4
  <2> QED BY <2>5 DEF Holds
<1>10. /\ ingest'[i].pc = AfterPages(s, n) /\ ingest'[i].scan = s
       /\ ingest'[i].job.pages = Append(ingest[i].job.pages, <<s, n>>)
       /\ ingest'[i].job.id = id
  BY <1>3, <1>5, IngestTyped DEF Handle
<1>11. \A k \in Ingester \ {i} : ingest'[k] = ingest[k]
  BY <1>5, IngestTyped
<1>12. Len(ingest'[i].job.pages) = n
  BY <1>3, <1>4, <1>10
<1>13. ingest'[i].pc = "commit" => HoldsScan(jobDir'[id], s)
  BY <1>9, <1>10 DEF AfterPages, Holds, HoldsScan
<1>14. WrittenSoFar(i)'
  <2> HIDE DEF id, s, n, k0
  <2> QED BY <1>8, <1>9, <1>10, <1>12, <1>13 DEF WrittenSoFar, IsAccepted, Holds, HoldsScan
<1>15. \A k \in JobId \ {id} : Kept(k)
  BY <1>5, IngestTyped, ScanWritesElsewhere
<1> HIDE DEF id, s, n, k0
<1> QED
  BY <1>2, <1>8, <1>10, <1>11, <1>14, <1>15, OwnStep

\* A page may be left empty, but the scan is not committed then.
LEMMA AddPageErrorScans ==
    ASSUME TypeInv, ScanInv, NEW i \in Ingester, AddPageError(i)
    PROVE  ScanInv'
<1> DEFINE id == ingest[i].job.id
<1>1. Busy(i) /\ ingest[i].pc = "addpage"
  BY DEF AddPageError, Busy
<1>2. id \in JobId /\ jobDir[id].exists
      /\ \A k \in Ingester \ {i} : Busy(k) => ingest[k].job.id # id
  BY <1>1, AloneInDirectory
<1>3. UNCHANGED jobDir \/ WritePage(id, NextPage(i), Empty)
  BY DEF AddPageError, AddPageFails
<1>4. jobDir'[id].exists /\ ~IsAccepted(jobDir'[id])
  <2>1. ~IsAccepted(jobDir[id])
    BY <1>1 DEF ScanInv, WrittenSoFar
  <2> HIDE DEF id
  <2> QED BY <1>2, <1>3, <2>1, IngestTyped DEF IsAccepted, WritePage, Dir
<1>5. ingest'[i].pc = "idle" /\ \A k \in Ingester \ {i} : ingest'[k] = ingest[k]
  BY IngestTyped DEF AddPageError, GiveUp, NoIngest
<1>6. \A k \in JobId \ {id} : Kept(k)
  BY <1>3, IngestTyped, ScanWritesElsewhere
<1> HIDE DEF id
<1> QED
  BY <1>2, <1>4, <1>5, <1>6, OwnStep

LEMMA CommitScans ==
    ASSUME TypeInv, ScanInv, NEW i \in Ingester, CommitScan(i) \/ CommitScanError(i)
    PROVE  ScanInv'
<1> DEFINE id == ingest[i].job.id
<1>1. Busy(i) /\ ingest[i].pc = "commit"
  BY DEF CommitScan, CommitScanError, Busy
<1>2. id \in JobId /\ jobDir[id].exists
      /\ \A k \in Ingester \ {i} : Busy(k) => ingest[k].job.id # id
  BY <1>1, AloneInDirectory
<1>3. UNCHANGED jobDir \/ WriteMarker(id, "scan")
  BY DEF CommitScan, CommitScanError, CommitFails
<1>4. ingest[i].scan \in Scan /\ HoldsScan(jobDir[id], ingest[i].scan)
  BY <1>1, IngesterBusy DEF ScanInv, WrittenSoFar, TypeInv, Busy
<1>5. jobDir'[id].exists /\ HoldsScan(jobDir'[id], ingest[i].scan)
  BY <1>2, <1>3, <1>4, IngestTyped DEF WriteMarker, HoldsScan, Dir
<1>6. /\ ingest'[i].pc \in {"idle", "readback"}
      /\ ingest'[i].pc # "idle" => ingest'[i].job = ingest[i].job
      /\ \A k \in Ingester \ {i} : ingest'[k] = ingest[k]
  <2>1. CASE CommitScan(i)
    BY <1>1, <2>1, IngestTyped, IngesterBusy DEF CommitScan, TypeInv, Busy
  <2>2. CASE CommitScanError(i)
    BY <2>2, IngestTyped DEF CommitScanError, GiveUp, NoIngest
  <2> QED BY <2>1, <2>2
<1>7. ingest'[i].pc # "idle" => ingest'[i].job.id = id /\ WrittenSoFar(i)'
  BY <1>5, <1>6 DEF WrittenSoFar
<1>8. \A k \in JobId \ {id} : Kept(k)
  BY <1>3, IngestTyped, ScanWritesElsewhere
<1> HIDE DEF id
<1> QED
  BY <1>2, <1>4, <1>5, <1>6, <1>7, <1>8, OwnStep

LEMMA HandOverScans ==
    ASSUME TypeInv, ScanInv, NEW i \in Ingester, ReadBack(i) \/ Enqueue(i)
    PROVE  ScanInv'
<1>1. \A k \in JobId : Kept(k)
  BY DEF ReadBack, Enqueue, queueVars, Kept
<1>2. \A k \in Ingester \ {i} : ingest'[k] = ingest[k]
  BY IngestTyped DEF ReadBack, Enqueue
<1>3. CASE ReadBack(i)
  <2> DEFINE j == ReadState(ingest[i].job, jobDir[ingest[i].job.id])
  <2>1. /\ ingest[i] \in [pc : {"addpage", "commit", "readback", "send"},
                          scan : Scan, job : Handle]
        /\ ingest[i].job \in Handle /\ ingest[i].job.id \in JobId /\ Busy(i)
    BY <1>3, IngesterBusy DEF ReadBack, TypeInv, Busy
  <2>2. jobDir[ingest[i].job.id] \in Dir
    BY <2>1, IngestTyped
  <2>3. j \in Handle /\ j.id = ingest[i].job.id
    BY <2>1, <2>2, ReadStateType
  <2>4. ingest' = [ingest EXCEPT ![i].pc = "send", ![i].job = [j EXCEPT !.state = "InProgress"]]
    BY <1>3 DEF ReadBack
  <2> HIDE DEF j
  <2>5. ingest'[i].pc = "send" /\ ingest'[i].job = [j EXCEPT !.state = "InProgress"]
    BY <2>1, <2>4, IngestTyped
  <2>6. ingest'[i].job.id = ingest[i].job.id
    BY <2>3, <2>5 DEF Handle
  <2> QED BY <1>1, <1>2, <2>1, <2>5, <2>6, QuietStep DEF Busy
<1>4. CASE Enqueue(i)
  <2>1. ingest'[i].pc = "idle"
    BY <1>4, IngestTyped DEF Enqueue, NoIngest
  <2> QED BY <1>1, <1>2, <2>1, QuietStep DEF Busy
<1> QED
  BY <1>3, <1>4

-----------------------------------------------------------------------------
(* Everybody else. *)

\* What a crash tears is a page of a scan that was not yet accepted.
LEMMA CrashScans ==
    ASSUME TypeInv, ScanInv, Crash
    PROVE  ScanInv'
<1>1. \A i \in Ingester : ingest'[i].pc = "idle"
  BY DEF Crash, NoIngest
<1>2. CASE \A k \in JobId : Kept(k)
  BY <1>1, <1>2, QuietStep
<1>3. CASE \E i \in Ingester :
             ingest[i].pc = "addpage" /\ WritePage(ingest[i].job.id, NextPage(i), Empty)
  <2>1. PICK i \in Ingester :
          ingest[i].pc = "addpage" /\ WritePage(ingest[i].job.id, NextPage(i), Empty)
    BY <1>3
  <2> DEFINE id == ingest[i].job.id
  <2>2. id \in JobId /\ jobDir[id].exists /\ ~IsAccepted(jobDir[id])
    BY <2>1, AloneInDirectory DEF Busy, ScanInv, WrittenSoFar
  <2>3. jobDir'[id].exists /\ ~IsAccepted(jobDir'[id])
    BY <2>1, <2>2, IngestTyped DEF WritePage, IsAccepted, Dir
  <2>4. \A k \in JobId \ {id} : Kept(k)
    BY <2>1, IngestTyped, ScanWritesElsewhere
  <2> HIDE DEF id
  <2>5. OwnDirectory' /\ \A k \in Ingester : (Busy(k) => WrittenSoFar(k))'
    BY <1>1 DEF OwnDirectory, Busy
  <2>6. NewIsEmpty'
    BY <2>3, <2>4 DEF ScanInv, NewIsEmpty, Kept
  <2>7. CompleteScan'
    BY <2>3, <2>4 DEF ScanInv, CompleteScan, Accepted, Kept, IsAccepted, HoldsScan
  <2> QED BY <2>5, <2>6, <2>7 DEF ScanInv
<1>4. (\A k \in JobId : Kept(k)) \/ \E i \in Ingester :
             ingest[i].pc = "addpage" /\ WritePage(ingest[i].job.id, NextPage(i), Empty)
  <2>1. TornWrite
    BY DEF Crash
  <2> QED BY <2>1, IngestTyped, OtherWritesKeep DEF TornWrite
<1> QED
  BY <1>2, <1>3, <1>4

LEMMA InitScans == Init => ScanInv
<1> SUFFICES ASSUME Init PROVE ScanInv
  OBVIOUS
<1>1. /\ \A i \in Ingester : ~Busy(i)
      /\ \A id \in JobId : jobDir[id] = NoDir
  BY DEF Init, QueueInit, NoIngest, Busy
<1>2. /\ NoDir.markers = {}
      /\ \A n \in 1..MaxPages : NoDir.pages[n] = NoFile
  BY DEF NoDir
<1>3. ~IsAccepted(NoDir)
  BY <1>2 DEF IsAccepted
<1>4. NewIsEmpty
  BY <1>1, <1>2, <1>3 DEF NewIsEmpty
<1>5. CompleteScan
  BY <1>1, <1>3 DEF CompleteScan, Accepted, IsAccepted
<1>6. OwnDirectory
  BY <1>1 DEF OwnDirectory
<1> QED
  BY <1>1, <1>4, <1>5, <1>6 DEF ScanInv

LEMMA NextScans ==
    ASSUME ~SameSecond, TypeInv, ScanInv, [Next]_vars
    PROVE  ScanInv'
<1>1. CASE UNCHANGED vars
  BY <1>1, QuietStep DEF vars, queueVars, ingestVars, Kept, Busy
<1>2. CASE \E i \in Ingester : IngestStep(i)
  BY <1>2, StartJobScans, AddPageScans, AddPageErrorScans, CommitScans, HandOverScans
     DEF IngestStep
<1>3. CASE ResumeStep
  <2>1. UNCHANGED <<jobDir, ingest>>
    BY <1>3 DEF ResumeStep, WakeUp, ReadJob, ReadJobError, EnqueueUnfinished, queueVars,
                ingestVars
  <2> QED BY <2>1, QuietStep DEF Kept, Busy
<1>4. CASE WorkerAction
  <2>1. UNCHANGED ingest
    BY <1>4 DEF WorkerAction, ingestVars
  <2> QED BY <1>4, <2>1, WorkerKeepsScans, QuietStep DEF Busy
<1>5. CASE \E u \in Upload : UploadAction(u)
  <2>1. UNCHANGED <<jobDir, ingest>>
    BY <1>5 DEF UploadAction, UploadStep, ListFiles, FindFolder, FindFolderFails, TrashFolder,
                TrashFolderFails, CreateFolder, CreateFolderFails, UploadFile, UploadFileFails,
                Fault, queueVars, ingestVars
  <2> QED BY <2>1, QuietStep DEF Kept, Busy
<1>6. CASE \E id \in JobId : DeletePDF(id)
  <2>1. UNCHANGED ingest /\ \A k \in JobId : Kept(k)
    BY <1>6, IngestTyped, OtherWritesKeep DEF DeletePDF, ingestVars
  <2> QED BY <2>1, QuietStep DEF Busy
<1> QED
  BY <1>1, <1>2, <1>3, <1>4, <1>5, <1>6, CrashScans DEF Next, Environment

\* If no two scans are added within the same second, COMPLETE.scan is only in a
\* directory that holds every page of exactly one scan, whatever earlier errors and
\* crashes of addPage left behind, and however many ingesters run (AddJob).
THEOREM CompleteScanHolds ==
    ASSUME ~SameSecond
    PROVE  Spec => []CompleteScan
<1>1. TypeInv /\ ScanInv /\ [Next]_vars => ScanInv'
  BY NextScans
<1>2. ScanInv => CompleteScan
  BY DEF ScanInv
<1> QED
  BY InitScans, <1>1, <1>2, TypeInvariant, PTL DEF Spec

-----------------------------------------------------------------------------
(* The originals. *)

\* The pages of job id do not change any more, unless it was handed over early.
Settled(id) == id \in handedPartial \/ IsAccepted(jobDir[id])

\* Whatever the worker and the goroutines work on is settled, and so is what will
\* be handed to the worker.
WorkerSettled == workerPc # "idle" => Settled(workerJob.id)

UploadsSettled == \A u \in Upload : uploads[u].pc \in Running => Settled(uploads[u].job)

SendersSettled ==
    /\ \A j \in resumeJobs : j.state = "Canceled" \/ IsAccepted(jobDir[j.id])
    /\ \A i \in Ingester :
         ingest[i].pc \in {"readback", "send"} => IsAccepted(jobDir[ingest[i].job.id])

HasOriginals(id) == \E f \in DOMAIN folders[id] : HoldsPages(folders[id][f], jobDir[id])

\* What goroutine u has not uploaded yet is still on its list.
NothingForgotten(u) ==
    LET up == uploads[u]
        d == jobDir[up.job]
    IN  up.job \notin handedPartial =>
            /\ up.pc \in {"find", "trash", "create"} => Loadable(d) \subseteq up.names
            /\ up.pc = "files" /\ ~up.failed =>
                 \A n \in Loadable(d) \ up.names :
                    folders[up.job][up.folder].files[n] = d.pages[n]

UploadsComplete == \A u \in Upload : NothingForgotten(u)

\* When the worker receives a result without an error, the originals are there.
ResultIsTrue ==
    MayAwait /\ uploads[workerUpload].pc = "done" /\ ~uploads[workerUpload].failed =>
        workerJob.id \in handedPartial \/ HasOriginals(workerJob.id)

ArchivedHasOriginals ==
    \A id \in Archived \ handedPartial : IsAccepted(jobDir[id]) /\ HasOriginals(id)

OriginalsInv ==
    /\ WorkerSettled /\ UploadsSettled /\ SendersSettled
    /\ UploadsComplete /\ ResultIsTrue /\ ArchivedHasOriginals

-----------------------------------------------------------------------------
(* What no step may do: change an accepted scan, or take a file off Drive. *)

PagesKept(k) == jobDir'[k].pages = jobDir[k].pages

\* AddJob's writes, and nobody else's, touch pages and COMPLETE.scan.
LEMMA ScanWrites ==
    ASSUME TypeInv, [Next]_vars
    PROVE  \/ \A k \in JobId : Kept(k)
           \/ \E id : MakeDir(id) \/ WriteMarker(id, "scan")
           \/ \E i \in Ingester : \E n, content :
                ingest[i].pc = "addpage" /\ WritePage(ingest[i].job.id, n, content)
<1>1. CASE UNCHANGED vars \/ ResumeStep \/ \E u \in Upload : UploadAction(u)
  <2>1. UNCHANGED jobDir
    BY <1>1 DEF vars, ResumeStep, WakeUp, ReadJob, ReadJobError, EnqueueUnfinished, queueVars,
                UploadAction, UploadStep, ListFiles, FindFolder, FindFolderFails, TrashFolder,
                TrashFolderFails, CreateFolder, CreateFolderFails, UploadFile, UploadFileFails
  <2> QED BY <2>1 DEF Kept
<1>2. CASE \E i \in Ingester : IngestStep(i)
  <2>1. PICK i \in Ingester : IngestStep(i)
    BY <1>2
  <2>2. CASE ReadBack(i) \/ Enqueue(i)
    BY <2>2 DEF ReadBack, Enqueue, queueVars, Kept
  <2>3. CASE AddPage(i) \/ AddPageError(i)
    BY <2>3 DEF AddPage, AddPageError, AddPageFails, Kept
  <2>4. CASE CommitScan(i) \/ CommitScanError(i)
    BY <2>4 DEF CommitScan, CommitScanError, CommitFails, Kept
  <2>5. CASE \E s \in Scan : StartJob(i, s)
    BY <2>5 DEF StartJob
  <2> QED BY <2>1, <2>2, <2>3, <2>4, <2>5 DEF IngestStep
<1>3. CASE WorkerAction
  BY <1>3, WorkerKeepsScans
<1>4. CASE Crash
  <2>1. TornWrite
    BY <1>4 DEF Crash
  <2> QED BY <2>1, IngestTyped, OtherWritesKeep DEF TornWrite
<1>5. CASE \E id \in JobId : DeletePDF(id)
  BY <1>5, IngestTyped, OtherWritesKeep DEF DeletePDF
<1>6. [Next]_vars
  OBVIOUS
<1> QED
  BY <1>1, <1>2, <1>3, <1>4, <1>5, <1>6 DEF Next, Environment

LEMMA AcceptedStays ==
    ASSUME TypeInv, ScanInv, [Next]_vars, NEW k \in JobId, IsAccepted(jobDir[k])
    PROVE  IsAccepted(jobDir'[k]) /\ PagesKept(k)
<1>1. jobDir \in [JobId -> Dir]
  BY IngestTyped
<1>2. CASE \A id \in JobId : Kept(id)
  BY <1>2 DEF Kept, PagesKept
<1>3. CASE \E id : MakeDir(id) \/ WriteMarker(id, "scan")
  <2>1. PICK id : MakeDir(id) \/ WriteMarker(id, "scan")
    BY <1>3
  <2>2. jobDir[k] \in Dir
    BY <1>1
  <2>3. CASE MakeDir(id)
    BY <1>1, <2>2, <2>3 DEF MakeDir, IsAccepted, PagesKept, Dir
  <2>4. CASE WriteMarker(id, "scan")
    BY <1>1, <2>2, <2>4 DEF WriteMarker, IsAccepted, PagesKept, Dir
  <2> QED BY <2>1, <2>3, <2>4
<1>4. CASE \E i \in Ingester : \E n, content :
             ingest[i].pc = "addpage" /\ WritePage(ingest[i].job.id, n, content)
  <2>1. PICK i \in Ingester :
          ingest[i].pc = "addpage" /\ \E n, content : WritePage(ingest[i].job.id, n, content)
    BY <1>4
  <2>2. ~IsAccepted(jobDir[ingest[i].job.id])
    BY <2>1 DEF ScanInv, WrittenSoFar, Busy
  <2>3. k # ingest[i].job.id
    BY <2>2
  <2>4. \A id \in JobId \ {ingest[i].job.id} : Kept(id)
    BY <1>1, <2>1, ScanWritesElsewhere
  <2> QED BY <2>3, <2>4 DEF Kept, PagesKept
<1> QED
  BY <1>2, <1>3, <1>4, ScanWrites

LEMMA PartialStays ==
    ASSUME [Next]_vars
    PROVE  handedPartial \subseteq handedPartial'
<1>1. CASE UNCHANGED handedPartial
  BY <1>1
<1>2. CASE \E j : NoteHandover(j)
  BY <1>2 DEF NoteHandover
<1> QED
  BY <1>1, <1>2 DEF Next, vars, IngestStep, StartJob, AddPage, AddPageError, CommitScan,
     CommitScanError, ReadBack, Enqueue, ResumeStep, WakeUp, ReadJob, ReadJobError,
     EnqueueUnfinished, WorkerAction, UploadAction, Environment, Crash, DeletePDF

LEMMA SettledStays ==
    ASSUME TypeInv, ScanInv, [Next]_vars, NEW k \in JobId, Settled(k)
    PROVE  Settled(k)' /\ (k \notin handedPartial' => IsAccepted(jobDir[k]) /\ PagesKept(k))
BY AcceptedStays, PartialStays DEF Settled

\* Folders only grow, and a file that is stored is the page that is on disk.
Filled(old, new, pages) ==
    \A n \in 1..MaxPages : new.files[n] = old.files[n] \/ new.files[n] = pages[n]

FilesKept ==
    \A id \in JobId : \A f \in DOMAIN folders[id] :
        f \in DOMAIN folders'[id] /\ Filled(folders[id][f], folders'[id][f], jobDir[id].pages)

LEMMA ChangeFolderKeeps ==
    ASSUME folders \in [JobId -> Seq(Folder)], NEW id \in JobId, NEW f \in DOMAIN folders[id],
           NEW new, folders' = [folders EXCEPT ![id][f] = new],
           Filled(folders[id][f], new, jobDir[id].pages)
    PROVE  FilesKept /\ folders'[id][f] = new /\ DOMAIN folders'[id] = DOMAIN folders[id]
<1>1. folders' = [folders EXCEPT ![id] = [folders[id] EXCEPT ![f] = new]]
  OBVIOUS
<1>2. /\ \A k \in JobId \ {id} : folders'[k] = folders[k]
      /\ folders'[id] = [folders[id] EXCEPT ![f] = new]
  BY <1>1
<1>3. /\ DOMAIN folders'[id] = DOMAIN folders[id]
      /\ folders'[id][f] = new
      /\ \A g \in DOMAIN folders[id] \ {f} : folders'[id][g] = folders[id][g]
  BY <1>2
<1> QED
  BY <1>2, <1>3 DEF FilesKept, Filled

LEMMA AppendFolderKeeps ==
    ASSUME folders \in [JobId -> Seq(Folder)], NEW id \in JobId, AppendFolder(id)
    PROVE  FilesKept /\ Len(folders[id]) + 1 \in DOMAIN folders'[id]
<1> DEFINE new == [files |-> NoDir.pages, trashed |-> FALSE]
<1>1. folders' = [folders EXCEPT ![id] = Append(folders[id], new)]
  BY DEF AppendFolder
<1>2. new \in Folder
  BY DEF Folder, NoDir
<1> HIDE DEF new
<1>3. /\ \A k \in JobId \ {id} : folders'[k] = folders[k]
      /\ folders'[id] = Append(folders[id], new)
  BY <1>1
<1>4. folders[id] \in Seq(Folder)
  OBVIOUS
<1>5. /\ DOMAIN folders'[id] = 1..(Len(folders[id]) + 1)
      /\ DOMAIN folders[id] = 1..Len(folders[id]) /\ Len(folders[id]) \in Nat
      /\ \A g \in DOMAIN folders[id] : folders'[id][g] = folders[id][g]
  BY <1>2, <1>3, <1>4
<1>6. FilesKept
  BY <1>3, <1>5 DEF FilesKept, Filled
<1> QED
  BY <1>5, <1>6

LEMMA HasOriginalsStays ==
    ASSUME NEW id \in JobId, FilesKept, PagesKept(id), HasOriginals(id)
    PROVE  HasOriginals(id)'
<1>1. PICK f \in DOMAIN folders[id] : HoldsPages(folders[id][f], jobDir[id])
  BY DEF HasOriginals
<1>2. f \in DOMAIN folders'[id] /\ Loadable(jobDir'[id]) = Loadable(jobDir[id])
  BY DEF FilesKept, Filled, PagesKept, Loadable
<1>3. \A n \in Loadable(jobDir[id]) : folders'[id][f].files[n] = jobDir'[id].pages[n]
  BY <1>1 DEF FilesKept, Filled, PagesKept, HoldsPages, Loadable
<1> QED
  BY <1>2, <1>3 DEF HasOriginals, HoldsPages

-----------------------------------------------------------------------------
(* A step of goroutine u. *)

LEMMA NothingForgottenStays ==
    ASSUME TypeInv, ScanInv, [Next]_vars, FilesKept, UploadsSettled, NEW u \in Upload,
           uploads'[u] = uploads[u], NothingForgotten(u)
    PROVE  NothingForgotten(u)'
<1> DEFINE up == uploads[u]
<1> SUFFICES ASSUME up.pc \in Running, up.job \notin handedPartial'
             PROVE  NothingForgotten(u)'
  BY DEF NothingForgotten, Running
<1>1. up.job \in JobId /\ up.job \notin handedPartial
  BY PartialStays DEF TypeInv, UploadsInRange
<1>2. PagesKept(up.job)
  BY <1>1, SettledStays DEF UploadsSettled
<1>3. Loadable(jobDir'[up.job]) = Loadable(jobDir[up.job])
  BY <1>2 DEF Loadable, PagesKept
<1>4. up.pc = "files" => up.folder \in DOMAIN folders[up.job]
  BY DEF TypeInv, UploadsInRange
<1>5. ASSUME up.pc = "files", ~up.failed, NEW n \in Loadable(jobDir[up.job]) \ up.names
      PROVE  folders'[up.job][up.folder].files[n] = jobDir'[up.job].pages[n]
  <2>1. folders[up.job][up.folder].files[n] = jobDir[up.job].pages[n] /\ n \in 1..MaxPages
    BY <1>1, <1>5 DEF NothingForgotten, Loadable
  <2> QED BY <1>1, <1>2, <1>4, <1>5, <2>1 DEF FilesKept, Filled, PagesKept
<1> QED
  BY <1>1, <1>3, <1>5 DEF NothingForgotten

\* What a step of u does to the files it has yet to upload.
Progress(u) ==
    /\ FilesKept
    /\ \A v \in Upload \ {u} : uploads'[v] = uploads[v]
    /\ uploads'[u].pc \in Running => uploads'[u].job = uploads[u].job
    /\ NothingForgotten(u) => NothingForgotten(u)'
    /\ NothingForgotten(u) /\ uploads'[u].pc = "done" /\ ~uploads'[u].failed =>
         \A id \in JobId \ handedPartial : id = uploads[u].job => HasOriginals(id)'

LEMMA Returned ==
    ASSUME SinkTypeOK, NEW u \in Upload, NEW failed \in BOOLEAN, Return(u, failed)
    PROVE  /\ uploads'[u].pc = "done" /\ uploads'[u].failed = failed
           /\ \A v \in Upload \ {u} : uploads'[v] = uploads[v]
BY DEF Return, SinkTypeOK, FreeUpload

LEMMA GivesUp ==
    ASSUME SinkTypeOK, NEW u \in Upload, Return(u, TRUE), FilesKept
    PROVE  Progress(u)
BY Returned DEF Progress, NothingForgotten, Running

LEMMA SameFiles == ASSUME UNCHANGED folders PROVE FilesKept
BY DEF FilesKept, Filled

LEMMA MarkTrashedKeeps ==
    ASSUME SinkTypeOK, UploadsInRange, NEW u \in Upload, uploads[u].pc = "trash",
           MarkTrashed(u)
    PROVE  FilesKept
<1> DEFINE id == uploads[u].job
           f == uploads[u].folder
           new == [folders[id][f] EXCEPT !.trashed = TRUE]
<1>1. id \in JobId /\ f \in DOMAIN folders[id]
  BY DEF UploadsInRange, Running
<1>2. folders \in [JobId -> Seq(Folder)]
  BY DEF SinkTypeOK
<1>3. folders[id][f] \in Folder
  BY <1>1, <1>2
<1>4. new.files = folders[id][f].files
  BY <1>3 DEF Folder
<1>5. folders' = [folders EXCEPT ![id][f] = new]
  BY <1>1, <1>2 DEF MarkTrashed
<1>6. Filled(folders[id][f], new, jobDir[id].pages)
  BY <1>4 DEF Filled
<1> HIDE DEF id, f, new
<1> QED
  BY <1>1, <1>2, <1>5, <1>6, ChangeFolderKeeps

LEMMA StoreFileKeeps ==
    ASSUME SinkTypeOK, UploadsInRange, NEW u \in Upload, uploads[u].pc = "files",
           NEW n \in uploads[u].names, StoreFile(u, n)
    PROVE  /\ FilesKept
           /\ uploads[u].folder \in DOMAIN folders'[uploads[u].job]
           /\ folders'[uploads[u].job][uploads[u].folder].files[n]
                = jobDir[uploads[u].job].pages[n]
<1> DEFINE id == uploads[u].job
           f == uploads[u].folder
           content == jobDir[id].pages[n]
           new == [folders[id][f] EXCEPT !.files[n] = content]
<1>1. id \in JobId /\ f \in DOMAIN folders[id]
  BY DEF UploadsInRange, Running
<1>2. folders \in [JobId -> Seq(Folder)]
  BY DEF SinkTypeOK
<1>0. n \in 1..MaxPages
  BY DEF SinkTypeOK, UploadState
<1>3. folders[id][f] \in Folder
  BY <1>1, <1>2
<1>4. folders' = [folders EXCEPT ![id][f] = new]
  BY <1>1, <1>2 DEF StoreFile
<1>5. /\ new.files[n] = content
      /\ \A m \in 1..MaxPages \ {n} : new.files[m] = folders[id][f].files[m]
  <2> DEFINE old == folders[id][f]
  <2>1. old \in Folder
    BY <1>3
  <2> HIDE DEF id, f, content, old
  <2>2. old.files \in [1..MaxPages -> Page \cup {NoFile, Empty}]
    BY <2>1 DEF Folder
  <2>3. [old EXCEPT !.files[n] = content].files = [old.files EXCEPT ![n] = content]
    BY <2>1 DEF Folder
  <2>4. new = [old EXCEPT !.files[n] = content]
    BY DEF old
  <2> QED BY <1>0, <2>2, <2>3, <2>4 DEF old
<1>6. Filled(folders[id][f], new, jobDir[id].pages)
  BY <1>5 DEF Filled
<1> HIDE DEF id, f, new, content
<1>7. FilesKept /\ folders'[id][f] = new /\ DOMAIN folders'[id] = DOMAIN folders[id]
  BY <1>1, <1>2, <1>4, <1>6, ChangeFolderKeeps
<1>8. f \in DOMAIN folders'[id]
  BY <1>1, <1>7
<1> QED
  BY <1>5, <1>7, <1>8 DEF id, f, content

\* The end of the upload of a file that is stored, or failed.
LEMMA FileDoneProgress ==
    ASSUME TypeInv, NEW u \in Upload, uploads[u].pc = "files", NEW n \in uploads[u].names,
           NEW failed \in BOOLEAN, FileDone(u, n, failed), FilesKept,
           UNCHANGED <<jobDir, handedPartial>>, ~failed => StoreFile(u, n)
    PROVE  Progress(u)
<1> DEFINE up == uploads[u]
           id == up.job
           f == up.folder
           rest == [up EXCEPT !.names = @ \ {n}, !.failed = @ \/ failed]
<1>1. SinkTypeOK /\ UploadsInRange /\ up \in UploadState
  BY DEF TypeInv, TypeOK, SinkTypeOK
<1>2. id \in JobId /\ f \in DOMAIN folders[id]
  BY <1>1 DEF UploadsInRange, Running
<1>3. ASSUME ~up.failed, ~failed, id \notin handedPartial, NothingForgotten(u)
      PROVE  /\ f \in DOMAIN folders'[id]
             /\ \A m \in Loadable(jobDir[id]) \ (up.names \ {n}) :
                   folders'[id][f].files[m] = jobDir[id].pages[m]
  <2>1. /\ f \in DOMAIN folders'[id]
        /\ folders'[id][f].files[n] = jobDir[id].pages[n]
    BY <1>1, <1>3, StoreFileKeeps
  <2>2. ASSUME NEW m \in Loadable(jobDir[id]) \ up.names
        PROVE  folders'[id][f].files[m] = jobDir[id].pages[m]
    <3>1. m \in 1..MaxPages /\ folders[id][f].files[m] = jobDir[id].pages[m]
      BY <1>3, <2>2 DEF NothingForgotten, Loadable
    <3> QED BY <1>2, <3>1 DEF FilesKept, Filled
  <2> QED BY <2>1, <2>2
<1>4. CASE up.names = {n}
  <2>1. Return(u, up.failed \/ failed) /\ (up.failed \/ failed) \in BOOLEAN
    BY <1>4 DEF FileDone
  <2>2. /\ uploads'[u].pc = "done" /\ uploads'[u].failed = (up.failed \/ failed)
        /\ \A v \in Upload \ {u} : uploads'[v] = uploads[v]
    BY <1>1, <2>1, Returned
  <2>3. ASSUME NothingForgotten(u), ~uploads'[u].failed,
               NEW k \in JobId \ handedPartial, k = uploads[u].job
        PROVE  HasOriginals(k)'
    <3>1. \E g \in DOMAIN folders'[k] :
            \A m \in Loadable(jobDir[k]) : folders'[k][g].files[m] = jobDir[k].pages[m]
      BY <1>3, <1>4, <2>2, <2>3
    <3> QED BY <3>1 DEF HasOriginals, HoldsPages
  <2> QED BY <2>2, <2>3 DEF Progress, NothingForgotten, Running
<1>5. CASE up.names # {n}
  <2>1. uploads' = [uploads EXCEPT ![u] = rest]
    BY <1>1, <1>5 DEF FileDone, SinkTypeOK
  <2>2. /\ rest.pc = "files" /\ rest.job = id /\ rest.folder = f
        /\ rest.names = up.names \ {n} /\ rest.failed = (up.failed \/ failed)
    BY <1>1 DEF UploadState
  <2> HIDE DEF rest
  <2>3. uploads'[u] = rest /\ \A v \in Upload \ {u} : uploads'[v] = uploads[v]
    BY <1>1, <2>1 DEF SinkTypeOK
  <2>4. ASSUME NothingForgotten(u)
        PROVE  NothingForgotten(u)'
    <3> HIDE DEF up, id, f
    <3> SUFFICES ASSUME id \notin handedPartial, ~up.failed, ~failed
                 PROVE  \A m \in Loadable(jobDir[id]) \ (up.names \ {n}) :
                           folders'[id][f].files[m] = jobDir[id].pages[m]
      BY <2>2, <2>3 DEF NothingForgotten
    <3> QED BY <1>3, <2>4
  <2> HIDE DEF up, id, f
  <2>5. uploads'[u].pc = "files" /\ uploads'[u].job = uploads[u].job
    BY <2>2, <2>3 DEF id, up
  <2> QED BY <2>3, <2>4, <2>5 DEF Progress
<1> QED
  BY <1>4, <1>5

LEMMA UploadProgress ==
    ASSUME TypeInv, NEW u \in Upload, UploadAction(u)
    PROVE  Progress(u) /\ uploads[u].pc \in Running /\ UNCHANGED <<jobDir, handedPartial>>
<1> DEFINE up == uploads[u]
           id == up.job
<1>1. SinkTypeOK /\ UploadsInRange /\ up \in UploadState
  BY DEF TypeInv, TypeOK, SinkTypeOK
<1>2. UploadStep(u) /\ UNCHANGED <<jobDir, handedPartial>>
  BY DEF UploadAction, UploadStep, ListFiles, FindFolder, FindFolderFails, TrashFolder,
         TrashFolderFails, CreateFolder, CreateFolderFails, UploadFile, UploadFileFails,
         queueVars
<1>3. up.pc \in Running
  BY <1>2 DEF UploadStep, ListFiles, FindFolder, FindFolderFails, TrashFolder,
         TrashFolderFails, CreateFolder, CreateFolderFails, UploadFile, UploadFileFails, Running
<1>4. id \in JobId /\ folders \in [JobId -> Seq(Folder)] /\ jobDir[id] \in Dir
  BY <1>1, <1>3, IngestTyped DEF UploadsInRange, SinkTypeOK
<1> SUFFICES Progress(u)
  BY <1>2, <1>3
\* A step to find, trash or create that keeps the list, or has just made it.
<1>5. ASSUME NEW new \in UploadState, uploads' = [uploads EXCEPT ![u] = new], FilesKept,
             new.pc \in {"find", "trash", "create"}, new.job = id,
             \/ new.names = up.names /\ up.pc \in {"find", "trash"}
             \/ Loadable(jobDir[id]) \subseteq new.names
      PROVE  Progress(u)
  <2>1. uploads'[u] = new /\ \A v \in Upload \ {u} : uploads'[v] = uploads[v]
    BY <1>1, <1>5 DEF SinkTypeOK
  <2> QED BY <1>2, <1>5, <2>1 DEF Progress, NothingForgotten
<1>6. CASE ListFiles(u)
  <2> DEFINE listed == {n \in 1..MaxPages : jobDir[id].pages[n] # NoFile}
             new == [up EXCEPT !.pc = "find", !.names = listed]
  <2>1. uploads' = [uploads EXCEPT ![u] = new] /\ UNCHANGED folders
    BY <1>1, <1>6 DEF ListFiles, SinkTypeOK
  <2>2. new \in UploadState /\ new.pc = "find" /\ new.job = id
        /\ new.names = listed
    BY <1>1 DEF UploadState
  <2>3. Loadable(jobDir[id]) \subseteq listed
    BY PageAssumption DEF Loadable
  <2> HIDE DEF new, listed
  <2> QED BY <1>5, <2>1, <2>2, <2>3, SameFiles
<1>7. CASE FindFolder(u)
  <2>1. PICK new \in UploadState :
           /\ uploads' = [uploads EXCEPT ![u] = new]
           /\ new.pc \in {"trash", "create"} /\ new.job = id
           /\ new.names = up.names
    <3>1. CASE uploads' = [uploads EXCEPT ![u].pc = "create"]
      <4> DEFINE new == [up EXCEPT !.pc = "create"]
      <4>1. uploads' = [uploads EXCEPT ![u] = new]
        BY <1>1, <3>1 DEF SinkTypeOK
      <4>2. new \in UploadState /\ new.pc = "create" /\ new.job = id
            /\ new.names = up.names
        BY <1>1 DEF UploadState
      <4> HIDE DEF new
      <4> QED BY <4>1, <4>2
    <3>2. ASSUME NEW f \in LiveFolders(id),
                 uploads' = [uploads EXCEPT ![u].pc = "trash", ![u].folder = f]
          PROVE  \E new \in UploadState :
                   /\ uploads' = [uploads EXCEPT ![u] = new]
                   /\ new.pc \in {"trash", "create"} /\ new.job = id
                   /\ new.names = up.names
      <4> DEFINE new == [up EXCEPT !.pc = "trash", !.folder = f]
      <4>1. uploads' = [uploads EXCEPT ![u] = new]
        BY <1>1, <3>2 DEF SinkTypeOK
      <4>2. f \in Nat
        BY <1>4, <3>2 DEF LiveFolders
      <4>3. new \in UploadState /\ new.pc = "trash" /\ new.job = id
            /\ new.names = up.names
        BY <1>1, <4>2 DEF UploadState
      <4> HIDE DEF new
      <4> QED BY <4>1, <4>3
    <3> QED BY <1>7, <3>1, <3>2 DEF FindFolder
  <2>2. UNCHANGED folders /\ up.pc = "find"
    BY <1>7 DEF FindFolder
  <2> QED BY <1>5, <2>1, <2>2, SameFiles
<1>8. CASE FindFolderFails(u)
  BY <1>1, <1>8, GivesUp, SameFiles DEF FindFolderFails, RequestFails
<1>9. CASE TrashFolder(u)
  <2> DEFINE new == [up EXCEPT !.pc = "create", !.folder = 0]
  <2>1. up.pc = "trash" /\ FilesKept
    BY <1>1, <1>9, MarkTrashedKeeps DEF TrashFolder
  <2>2. uploads' = [uploads EXCEPT ![u] = new]
    BY <1>1, <1>9 DEF TrashFolder, SinkTypeOK
  <2>3. new \in UploadState /\ new.pc = "create" /\ new.job = id
        /\ new.names = up.names
    BY <1>1 DEF UploadState
  <2> HIDE DEF new
  <2> QED BY <1>5, <2>1, <2>2, <2>3
<1>10. CASE TrashFolderFails(u)
  <2>1. Return(u, TRUE) /\ FilesKept
    BY <1>1, <1>10, MarkTrashedKeeps, SameFiles DEF TrashFolderFails, RequestFails
  <2> QED BY <1>1, <2>1, GivesUp
<1>11. CASE CreateFolder(u)
  <2>1. FilesKept /\ Len(folders[id]) + 1 \in DOMAIN folders'[id] /\ up.pc = "create"
    BY <1>4, <1>11, AppendFolderKeeps DEF CreateFolder
  <2>2. CASE up.names = {}
    <3>1. Return(u, FALSE)
      BY <1>11, <2>2 DEF CreateFolder
    <3>2. /\ uploads'[u].pc = "done" /\ uploads'[u].failed = FALSE
          /\ \A v \in Upload \ {u} : uploads'[v] = uploads[v]
      BY <1>1, <3>1, Returned
    <3>3. ASSUME NothingForgotten(u), NEW k \in JobId \ handedPartial, k = uploads[u].job
          PROVE  HasOriginals(k)'
      <4>1. Loadable(jobDir[k]) = {} /\ DOMAIN folders'[k] # {}
        BY <2>1, <2>2, <3>3 DEF NothingForgotten
      <4> QED BY <1>2, <4>1 DEF HasOriginals, HoldsPages
    <3> QED BY <2>1, <3>2, <3>3 DEF Progress, NothingForgotten, Running
  <2>3. CASE up.names # {}
    <3> DEFINE k == Len(folders[id]) + 1
               new == [up EXCEPT !.pc = "files", !.folder = k]
    <3>1. uploads' = [uploads EXCEPT ![u] = new]
      BY <1>1, <1>11, <2>3 DEF CreateFolder, SinkTypeOK
    <3>2. new.pc = "files" /\ new.job = id /\ new.failed = up.failed /\ new.names = up.names
      BY <1>1 DEF UploadState
    <3> HIDE DEF new
    <3>3. uploads'[u] = new /\ \A v \in Upload \ {u} : uploads'[v] = uploads[v]
      BY <1>1, <3>1 DEF SinkTypeOK
    <3>4. ASSUME NothingForgotten(u), id \notin handedPartial
          PROVE  Loadable(jobDir[id]) \ up.names = {}
      BY <2>1, <3>4 DEF NothingForgotten
    <3>5. NothingForgotten(u) => NothingForgotten(u)'
      BY <1>2, <3>2, <3>3, <3>4 DEF NothingForgotten
    <3> QED BY <2>1, <3>2, <3>3, <3>5 DEF Progress
  <2> QED BY <2>2, <2>3
<1>12. CASE CreateFolderFails(u)
  <2>1. Return(u, TRUE) /\ FilesKept
    BY <1>4, <1>12, AppendFolderKeeps, SameFiles DEF CreateFolderFails, RequestFails
  <2> QED BY <1>1, <2>1, GivesUp
<1>13. CASE UploadFile(u)
  <2>1. PICK n \in up.names : StoreFile(u, n) /\ FileDone(u, n, FALSE)
    BY <1>13 DEF UploadFile
  <2>2. up.pc = "files"
    BY <1>13 DEF UploadFile
  <2> QED BY <1>1, <1>2, <2>1, <2>2, StoreFileKeeps, FileDoneProgress
<1>14. CASE UploadFileFails(u)
  <2>1. PICK n \in up.names : (UNCHANGED folders \/ StoreFile(u, n)) /\ FileDone(u, n, TRUE)
    BY <1>14 DEF UploadFileFails
  <2>2. up.pc = "files"
    BY <1>14 DEF UploadFileFails
  <2>3. FilesKept
    BY <1>1, <2>1, <2>2, StoreFileKeeps, SameFiles
  <2> QED BY <1>2, <2>1, <2>2, <2>3, FileDoneProgress
<1> QED
  BY <1>2, <1>6, <1>7, <1>8, <1>9, <1>10, <1>11, <1>12, <1>13, <1>14 DEF UploadStep

-----------------------------------------------------------------------------
(* The other steps. *)

LEMMA FoldersOnlyByUpload ==
    ASSUME TypeInv, [Next]_vars
    PROVE  FilesKept
<1>1. CASE \E u \in Upload : UploadAction(u)
  BY <1>1, UploadProgress DEF Progress
<1>2. CASE UNCHANGED folders
  BY <1>2, SameFiles
<1> QED
  BY <1>1, <1>2 DEF Next, vars, sinkVars, IngestStep, StartJob, AddPage, AddPageError,
     CommitScan, CommitScanError, ReadBack, Enqueue, ResumeStep, WakeUp, ReadJob, ReadJobError,
     EnqueueUnfinished, Environment, Crash, DeletePDF, WorkerAction, WorkerStep, StartUpload,
     SkipUpload, Convert, ConvertUndecodable, ConvertFails, MarkConverted, MarkConvertedFails,
     MarkOriginals, MarkOriginalsFails, OriginalsFailed, UploadPDF, UploadNoPDF,
     UploadPDFFails, RecordDriveId, RecordDriveIdFails, MarkPDF, MarkPDFFails

LEMMA ReadStateKeepsPages ==
    ASSUME NEW j \in Handle, NEW d
    PROVE  ReadState(j, d).pages = j.pages
BY DEF ReadState, Handle

\* Which of the worker's fields a step changes.
LEMMA WorkerKeepsJob ==
    ASSUME TypeInv, WorkerAction
    PROVE  /\ workerPc # "idle"
           /\ workerPc' # "idle" =>
                workerJob'.id = workerJob.id /\ workerJob'.pages = workerJob.pages
           /\ workerPc' # "start" /\ UNCHANGED handedPartial
<1>1. WorkerTypeOK /\ jobDir \in [JobId -> Dir] /\ UNCHANGED handedPartial /\ WorkerStep
  BY DEF TypeInv, TypeOK, QueueTypeOK, WorkerAction
<1>2. workerPc # "idle"
  BY <1>1 DEF WorkerStep, StartUpload, SkipUpload, Convert, ConvertUndecodable, ConvertFails,
              MarkConverted, MarkConvertedFails, MarkOriginals, MarkOriginalsFails,
              OriginalsFailed, UploadPDF, UploadNoPDF, UploadPDFFails, RecordDriveId,
              RecordDriveIdFails, MarkPDF, MarkPDFFails, AwaitsResult
<1>3. workerJob \in Handle /\ workerJob.id \in JobId
  BY <1>1, <1>2, WorkerBusy
<1> DEFINE Same(j) == j.id = workerJob.id /\ j.pages = workerJob.pages
<1>4. /\ Same(Committed(workerJob, "convert"))
      /\ Same(Committed(workerJob, "uploadoriginals"))
      /\ Same(ReadState(workerJob, jobDir[workerJob.id]))
  <2>1. /\ Committed(workerJob, "convert").id = workerJob.id
        /\ Committed(workerJob, "uploadoriginals").id = workerJob.id
        /\ ReadState(workerJob, jobDir[workerJob.id]).id = workerJob.id
    BY <1>1, <1>3, CommittedType, ReadStateType DEF Marker
  <2> QED BY <1>3, <2>1, ReadStateKeepsPages DEF Committed
<1>5. \E pc, j, u : Continue(pc, j, u) /\ pc # "start" /\ (Same(j) \/ pc = "idle")
  <2>1. CASE StartUpload \/ SkipUpload
    BY <2>1, SkippedSteps DEF StartUpload, SkipUpload
  <2>2. CASE ConvertUndecodable \/ ConvertFails
    BY <2>2 DEF ConvertUndecodable, ConvertFails, ConvertError
  <2>3. CASE MarkConverted
    <3>1. AfterConvert(Committed(workerJob, "convert")) # "start"
      BY SkippedSteps
    <3> QED BY <1>4, <2>3, <3>1 DEF MarkConverted
  <2>4. CASE MarkOriginals
    <3>1. AfterOriginals(Committed(workerJob, "uploadoriginals")) # "start"
      BY SkippedSteps
    <3> QED BY <1>4, <2>4, <3>1 DEF MarkOriginals
  <2>5. CASE Convert \/ UploadPDF \/ UploadNoPDF \/ RecordDriveId
    BY <1>4, <2>5 DEF Convert, UploadPDF, UploadNoPDF, RecordDriveId
  <2>6. CASE \/ MarkConvertedFails \/ MarkOriginalsFails \/ OriginalsFailed \/ UploadPDFFails
             \/ RecordDriveIdFails \/ MarkPDF \/ MarkPDFFails
    BY <2>6 DEF MarkConvertedFails, MarkOriginalsFails, OriginalsFailed, UploadPDFFails,
                RecordDriveIdFails, MarkPDF, MarkPDFFails, ReturnFromProcessScan
  <2> QED BY <1>1, <2>1, <2>2, <2>3, <2>4, <2>5, <2>6 DEF WorkerStep
<1> QED
  BY <1>1, <1>2, <1>5 DEF Continue

\* What the worker does to the goroutines: it starts one, and takes results.
LEMMA WorkerUploads ==
    ASSUME TypeInv, WorkerAction, NEW u \in Upload
    PROVE  \/ uploads'[u] = uploads[u]
           \/ uploads'[u].pc = "free"
           \/ workerPc = "start" /\ uploads'[u].pc = "list" /\ uploads'[u].job = workerJob.id
<1>1. SinkTypeOK /\ WorkerStep
  BY DEF TypeInv, TypeOK, WorkerAction
<1>2. CASE StartUpload
  BY <1>1, <1>2 DEF StartUpload, SinkTypeOK, FreeUpload
<1>3. CASE MarkOriginals \/ MarkOriginalsFails \/ OriginalsFailed
  BY <1>1, <1>3 DEF MarkOriginals, MarkOriginalsFails, OriginalsFailed, Join, SinkTypeOK,
                    FreeUpload
<1>4. CASE UNCHANGED uploads
  BY <1>4
<1> QED
  BY <1>1, <1>2, <1>3, <1>4 DEF WorkerStep, sinkVars, SkipUpload, Convert, ConvertUndecodable,
     ConvertFails, MarkConverted, MarkConvertedFails, UploadPDF, UploadNoPDF, UploadPDFFails,
     RecordDriveId, RecordDriveIdFails, MarkPDF, MarkPDFFails

\* All other steps leave the goroutines alone, but for a crash.
LEMMA UploadsByOthers ==
    ASSUME [Next]_vars, ~WorkerAction, \A u \in Upload : ~UploadAction(u)
    PROVE  UNCHANGED uploads \/ Crash
BY DEF Next, vars, sinkVars, IngestStep, StartJob, AddPage, AddPageError, CommitScan,
       CommitScanError, ReadBack, Enqueue, ResumeStep, WakeUp, ReadJob, ReadJobError,
       EnqueueUnfinished, Environment, DeletePDF

LEMMA CrashFrees ==
    ASSUME Crash
    PROVE  /\ workerPc' = "idle" /\ resumeJobs' = {}
           /\ \A u \in Upload : uploads'[u].pc = "free"
           /\ \A i \in Ingester : ingest'[i].pc = "idle"
BY DEF Crash, FreeUpload, NoIngest

\* The worker is given a job, or left alone.
LEMMA WorkerByOthers ==
    ASSUME [Next]_vars, ~WorkerAction
    PROVE  \/ UNCHANGED workerVars
           \/ Crash
           \/ \E j \in resumeJobs : Receive(j) /\ NoteHandover(j)
           \/ \E i \in Ingester : /\ ingest[i].pc = "send"
                                  /\ Receive(ingest[i].job) /\ NoteHandover(ingest[i].job)
BY DEF Next, vars, IngestStep, StartJob, AddPage, AddPageError, CommitScan, CommitScanError,
       ReadBack, Enqueue, ResumeStep, WakeUp, ReadJob, ReadJobError, EnqueueUnfinished,
       Environment, DeletePDF, UploadAction

-----------------------------------------------------------------------------
(* Whoever gets a job gets a settled one. *)

LEMMA HandedSettled ==
    ASSUME TypeInv, ScanInv, [Next]_vars, NEW j \in Handle, Receive(j), NoteHandover(j),
           j.state = "Canceled" \/ IsAccepted(jobDir[j.id])
    PROVE  WorkerSettled'
<1>1. workerJob' = j /\ j.id \in JobId
  BY DEF Receive, Continue, Handle
<1>2. CASE j.state = "Canceled"
  BY <1>1, <1>2 DEF NoteHandover, WorkerSettled, Settled
<1>3. CASE IsAccepted(jobDir[j.id])
  <2>1. IsAccepted(jobDir'[j.id])
    BY <1>1, <1>3, AcceptedStays
  <2> QED BY <1>1, <2>1 DEF WorkerSettled, Settled
<1> QED
  BY <1>2, <1>3

LEMMA WorkerSettledStep ==
    ASSUME TypeInv, ScanInv, WorkerSettled, SendersSettled, [Next]_vars
    PROVE  WorkerSettled'
<1>1. TypeOK /\ WorkerTypeOK
  BY DEF TypeInv, TypeOK
<1>2. ASSUME NEW k \in JobId, Settled(k)
      PROVE  k \in handedPartial' \/ IsAccepted(jobDir'[k])
  BY <1>2, SettledStays DEF Settled
<1>3. CASE workerPc # "idle" /\ (workerPc' # "idle" => workerJob'.id = workerJob.id)
  <2>1. workerJob.id \in JobId
    BY <1>1, <1>3, WorkerBusy
  <2>2. Settled(workerJob.id)
    BY <1>3 DEF WorkerSettled
  <2>3. workerJob.id \in handedPartial' \/ IsAccepted(jobDir'[workerJob.id])
    BY <1>2, <2>1, <2>2
  <2> QED BY <1>3, <2>3 DEF WorkerSettled, Settled
<1>4. CASE workerPc' = "idle"
  BY <1>4 DEF WorkerSettled
<1>5. ASSUME NEW j \in resumeJobs, Receive(j), NoteHandover(j)
      PROVE  WorkerSettled'
  BY <1>1, <1>5, HandedSettled DEF SendersSettled, TypeOK
<1>6. ASSUME NEW i \in Ingester, ingest[i].pc = "send", Receive(ingest[i].job),
             NoteHandover(ingest[i].job)
      PROVE  WorkerSettled'
  BY <1>1, <1>6, IngesterBusy, HandedSettled DEF SendersSettled
<1>7. CASE WorkerAction
  BY <1>3, <1>7, WorkerKeepsJob
<1>8. CASE UNCHANGED workerVars
  BY <1>3, <1>4, <1>8 DEF workerVars
<1> QED
  BY <1>4, <1>5, <1>6, <1>7, <1>8, CrashFrees, WorkerByOthers

LEMMA UploadsSettledStep ==
    ASSUME TypeInv, ScanInv, WorkerSettled, UploadsSettled, [Next]_vars
    PROVE  UploadsSettled'
<1>1. TypeOK /\ WorkerTypeOK /\ UploadsInRange
  BY DEF TypeInv, TypeOK
<1>2. ASSUME NEW k \in JobId, Settled(k)
      PROVE  k \in handedPartial' \/ IsAccepted(jobDir'[k])
  BY <1>2, SettledStays DEF Settled
<1>3. ASSUME NEW v \in Upload, uploads'[v].pc \in Running,
             uploads[v].pc \in Running /\ uploads'[v].job = uploads[v].job
      PROVE  Settled(uploads[v].job)'
  <2>1. uploads[v].job \in JobId /\ Settled(uploads[v].job)
    BY <1>1, <1>3 DEF UploadsInRange, UploadsSettled
  <2>2. uploads[v].job \in handedPartial' \/ IsAccepted(jobDir'[uploads[v].job])
    BY <1>2, <2>1
  <2> QED BY <1>3, <2>2 DEF Settled
<1>4. SUFFICES ASSUME NEW v \in Upload, uploads'[v].pc \in Running
               PROVE  Settled(uploads[v].job)'
  BY DEF UploadsSettled
<1>5. CASE uploads'[v] = uploads[v]
  BY <1>3, <1>4, <1>5
<1>6. CASE WorkerAction
  <2>1. CASE workerPc = "start" /\ uploads'[v].job = workerJob.id
    <3>1. workerJob.id \in JobId
      BY <1>1, <2>1, WorkerBusy
    <3>2. Settled(workerJob.id)
      BY <2>1 DEF WorkerSettled
    <3>3. workerJob.id \in handedPartial' \/ IsAccepted(jobDir'[workerJob.id])
      BY <1>2, <3>1, <3>2
    <3> QED BY <2>1, <3>3 DEF Settled
  <2> QED BY <1>4, <1>5, <1>6, <2>1, WorkerUploads DEF Running
<1>7. CASE \E u \in Upload : UploadAction(u)
  <2>1. PICK u \in Upload : UploadAction(u)
    BY <1>7
  <2>2. Progress(u) /\ uploads[u].pc \in Running
    BY <2>1, UploadProgress
  <2>3. CASE v = u
    BY <1>3, <1>4, <2>2, <2>3 DEF Progress
  <2>4. CASE v # u
    BY <1>5, <2>2, <2>4 DEF Progress
  <2> QED BY <2>3, <2>4
<1>8. CASE Crash
  BY <1>4, <1>8, CrashFrees DEF Running
<1> QED
  BY <1>5, <1>6, <1>7, <1>8, UploadsByOthers

\* A job that the resume loop does not drop is accepted, or known to be incomplete.
LEMMA ReadIsSettled ==
    ASSUME NEW id \in JobId, jobDir \in [JobId -> Dir], JobById(id).state # "Done"
    PROVE  JobById(id).state = "Canceled" \/ IsAccepted(jobDir[id])
<1> DEFINE j == ReadState(NewHandle(id), jobDir[id])
<1>1. j \in Handle /\ (j.state = "InProgress" => IsAccepted(jobDir[id]))
      /\ j.state \in {"Canceled", "InProgress"}
  BY NewHandleType, ReadStateType DEF ReadState, NewHandle, IsAccepted
<1>2. JobById(id) = IF IsDone(j) THEN [j EXCEPT !.state = "Done"]
                    ELSE IF j.state = "InProgress"
                      THEN [j EXCEPT !.pages = LoadPages(jobDir[id])]
                    ELSE j
  BY DEF JobById
<1> HIDE DEF j
<1>3. [j EXCEPT !.state = "Done"].state = "Done"
  BY <1>1 DEF Handle
<1> QED
  BY <1>1, <1>2, <1>3

LEMMA SendersSettledStep ==
    ASSUME TypeInv, ScanInv, SendersSettled, [Next]_vars
    PROVE  SendersSettled'
<1>1. TypeOK /\ jobDir \in [JobId -> Dir] /\ ingest \in [Ingester -> IngestState]
  BY IngestTyped DEF TypeInv
<1>2. ASSUME NEW j \in resumeJobs
      PROVE  j.state = "Canceled" \/ IsAccepted(jobDir'[j.id])
  <2>1. j.id \in JobId
    BY <1>1 DEF TypeOK, Handle
  <2> QED BY <2>1, AcceptedStays DEF SendersSettled
<1>3. ASSUME NEW j \in resumeJobs'
      PROVE  j.state = "Canceled" \/ IsAccepted(jobDir'[j.id])
  <2>1. CASE ReadJob
    <3>1. PICK id \in resumeTodo :
             resumeJobs' = IF JobById(id).state = "Done" THEN resumeJobs
                           ELSE resumeJobs \cup {JobById(id)}
      BY <2>1 DEF ReadJob
    <3>2. id \in JobId /\ UNCHANGED jobDir
      BY <1>1, <2>1 DEF ReadJob, TypeOK, queueVars
    <3>3. CASE j = JobById(id) /\ JobById(id).state # "Done"
      BY <1>1, <3>2, <3>3, JobByIdType, ReadIsSettled
    <3> QED BY <1>2, <1>3, <3>1, <3>3
  <2>2. CASE ~ReadJob
    <3>1. resumeJobs' \subseteq resumeJobs
      BY <2>2 DEF Next, vars, resumeVars, IngestStep, StartJob, AddPage, AddPageError,
         CommitScan, CommitScanError, ReadBack, Enqueue, ResumeStep, WakeUp, ReadJobError,
         EnqueueUnfinished, WorkerAction, UploadAction, Environment, Crash, DeletePDF
    <3> QED BY <1>2, <1>3, <3>1
  <2> QED BY <2>1, <2>2
<1>4. ASSUME NEW i \in Ingester, ingest'[i].pc \in {"readback", "send"}
      PROVE  IsAccepted(jobDir'[ingest'[i].job.id])
  <2>1. CASE ingest[i].pc \in {"readback", "send"} /\ ingest'[i].job.id = ingest[i].job.id
    <3>1. ingest[i].job.id \in JobId /\ IsAccepted(jobDir[ingest[i].job.id])
      BY <1>1, <2>1, IngesterBusy DEF SendersSettled
    <3>2. IsAccepted(jobDir'[ingest[i].job.id])
      BY <3>1, AcceptedStays
    <3> QED BY <2>1, <3>2
  <2>2. CASE CommitScan(i)
    <3>1. ingest[i].job.id \in JobId /\ ingest[i] \in [pc : {"addpage", "commit", "readback", "send"},
                             scan : Scan, job : Handle]
      BY <1>1, <2>2, IngesterBusy DEF CommitScan
    <3>2. ingest'[i].job = ingest[i].job
      BY <1>1, <2>2, <3>1 DEF CommitScan
    <3>3. jobDir[ingest[i].job.id] \in Dir
      BY <1>1, <3>1
    <3>4. jobDir'[ingest[i].job.id].markers = jobDir[ingest[i].job.id].markers \cup {"scan"}
      BY <1>1, <2>2, <3>1, <3>3 DEF CommitScan, WriteMarker, Dir
    <3> QED BY <3>2, <3>4 DEF IsAccepted
  <2>3. CASE ReadBack(i)
    <3>1. ingest[i].job \in Handle /\ ingest[i].job.id \in JobId /\ ingest[i].pc = "readback"
          /\ ingest[i] \in [pc : {"addpage", "commit", "readback", "send"},
                             scan : Scan, job : Handle]
      BY <1>1, <2>3, IngesterBusy DEF ReadBack
    <3> DEFINE j == ReadState(ingest[i].job, jobDir[ingest[i].job.id])
               new == [j EXCEPT !.state = "InProgress"]
    <3>2. j \in Handle /\ j.id = ingest[i].job.id
      BY <1>1, <3>1, ReadStateType
    <3>3. ingest' = [ingest EXCEPT ![i].pc = "send", ![i].job = new]
      BY <2>3 DEF ReadBack
    <3> HIDE DEF j
    <3>4. new.id = ingest[i].job.id
      BY <3>2 DEF Handle
    <3> HIDE DEF new
    <3>5. ingest'[i].job = new
      BY <1>1, <3>1, <3>3
    <3> QED BY <2>1, <3>1, <3>4, <3>5
  <2>4. CASE ~CommitScan(i) /\ ~ReadBack(i)
    <3>1. ingest'[i] = ingest[i] \/ ingest'[i].pc \notin {"readback", "send"}
      <4>1. CASE \E k \in Ingester \ {i} : IngestStep(k)
        BY <1>1, <4>1 DEF IngestStep, StartJob, AddPage, AddPageError, CommitScan, GiveUp,
           CommitScanError, ReadBack, Enqueue
      <4>2. CASE \E s \in Scan : StartJob(i, s)
        <5>1. PICK s \in Scan, id \in NewIds :
                 ingest' = [ingest EXCEPT ![i] = [pc |-> AfterPages(s, 0), scan |-> s,
                                                  job |-> NewHandle(id)]]
          BY <4>2 DEF StartJob
        <5> QED BY <1>1, <5>1 DEF AfterPages
      <4>3. CASE AddPage(i)
        <5>1. ingest[i] \in [pc : {"addpage", "commit", "readback", "send"},
                             scan : Scan, job : Handle]
          BY <1>1, <4>3, IngesterBusy DEF AddPage
        <5>2. ingest'[i].pc = AfterPages(ingest[i].scan, NextPage(i))
          BY <1>1, <4>3, <5>1 DEF AddPage
        <5> QED BY <5>2 DEF AfterPages
      <4>4. CASE AddPageError(i) \/ CommitScanError(i) \/ Enqueue(i)
        BY <1>1, <4>4 DEF AddPageError, CommitScanError, Enqueue, GiveUp, NoIngest
      <4>5. CASE Crash
        BY <4>5, CrashFrees
      <4>6. CASE UNCHANGED ingest
        BY <4>6
      <4> QED BY <2>4, <4>1, <4>2, <4>3, <4>4, <4>5, <4>6 DEF Next, vars, ingestVars,
             IngestStep, ResumeStep, WakeUp, ReadJob, ReadJobError, EnqueueUnfinished,
             WorkerAction, UploadAction, Environment, DeletePDF
    <3> QED BY <1>4, <2>1, <3>1
  <2> QED BY <2>2, <2>3, <2>4
<1> QED
  BY <1>3, <1>4 DEF SendersSettled

LEMMA UploadsCompleteStep ==
    ASSUME TypeInv, ScanInv, UploadsSettled, UploadsComplete, [Next]_vars
    PROVE  UploadsComplete'
<1>1. FilesKept
  BY FoldersOnlyByUpload
<1>2. SUFFICES ASSUME NEW v \in Upload PROVE NothingForgotten(v)'
  BY DEF UploadsComplete
<1>3. NothingForgotten(v)
  BY DEF UploadsComplete
<1>4. CASE uploads'[v] = uploads[v]
  BY <1>1, <1>3, <1>4, NothingForgottenStays
<1>5. CASE uploads'[v].pc \in {"free", "list"}
  BY <1>5 DEF NothingForgotten
<1>6. CASE \E u \in Upload : UploadAction(u)
  <2>1. PICK u \in Upload : UploadAction(u) /\ Progress(u)
    BY <1>6, UploadProgress
  <2> QED BY <1>3, <1>4, <2>1 DEF Progress
<1> QED
  BY <1>4, <1>5, <1>6, WorkerUploads, UploadsByOthers, CrashFrees

-----------------------------------------------------------------------------
(* The result that the worker receives, and the marker it writes then. *)

LEMMA TruthStays ==
    ASSUME TypeInv, ScanInv, [Next]_vars, NEW k \in JobId, Settled(k),
           k \in handedPartial \/ HasOriginals(k)
    PROVE  k \in handedPartial' \/ HasOriginals(k)'
<1>1. CASE k \in handedPartial
  BY <1>1, PartialStays
<1>2. CASE k \notin handedPartial' /\ HasOriginals(k)
  <2>1. PagesKept(k)
    BY <1>2, SettledStays
  <2> QED BY <1>2, <2>1, FoldersOnlyByUpload, HasOriginalsStays
<1> QED
  BY <1>1, <1>2

\* The worker comes to wait for a goroutine that it has just started, or for the
\* same one as before.
LEMMA WorkerAwaits ==
    ASSUME TypeInv, WorkerAction, MayAwait'
    PROVE  \/ uploads'[workerUpload'].pc = "list"
           \/ /\ MayAwait
              /\ workerUpload' = workerUpload /\ workerJob'.id = workerJob.id
              /\ UNCHANGED uploads
<1>1. WorkerTypeOK /\ SinkTypeOK /\ WorkerStep
  BY DEF TypeInv, TypeOK, WorkerAction
<1>2. workerPc' \in {"originals", "failing", "convert", "markconvert"}
  BY DEF MayAwait
<1>3. workerJob'.id = workerJob.id
  BY <1>2, WorkerKeepsJob
<1>4. CASE StartUpload
  <2>1. PICK u \in Upload :
          /\ uploads' = [uploads EXCEPT ![u] = [FreeUpload EXCEPT !.pc = "list",
                                                                  !.job = workerJob.id]]
          /\ Continue(AfterSpawn(workerJob), workerJob, u)
    BY <1>4 DEF StartUpload
  <2>2. workerUpload' = u
    BY <1>2, <2>1 DEF Continue
  <2>3. uploads'[u].pc = "list"
    BY <1>1, <2>1 DEF SinkTypeOK, FreeUpload
  <2> QED BY <2>2, <2>3
<1>5. CASE SkipUpload
  <2>1. Continue(AfterSpawn(workerJob), workerJob, NoUpload)
    BY <1>5 DEF SkipUpload
  <2>2. "uploadoriginals" \in workerJob.markers /\ AfterSpawn(workerJob) \in {"idle", "pdf", "convert"}
    BY <1>5 DEF SkipUpload, AfterSpawn, AfterConvert, AfterOriginals
  <2> QED BY <2>1, <2>2 DEF Continue, MayAwait
<1>6. CASE Convert \/ ConvertUndecodable \/ ConvertFails
  <2>1. UNCHANGED uploads /\ workerJob' = workerJob /\ workerUpload' = workerUpload
    BY <1>2, <1>6 DEF Convert, ConvertUndecodable, ConvertFails, ConvertError, Continue, sinkVars
  <2>2. "uploadoriginals" \notin workerJob.markers /\ workerPc = "convert"
    BY <1>6 DEF Convert, ConvertUndecodable, ConvertFails, ConvertError, Continue, MayAwait
  <2> QED BY <2>1, <2>2 DEF MayAwait
<1>7. CASE MarkConverted
  <2> DEFINE j == Committed(workerJob, "convert")
             u == IF "uploadoriginals" \in j.markers THEN NoUpload ELSE workerUpload
  <2>1. Continue(AfterConvert(j), j, u) /\ UNCHANGED uploads /\ workerPc = "markconvert"
    BY <1>7 DEF MarkConverted, sinkVars
  <2>2. /\ AfterConvert(j) \in {"idle", "pdf", "originals"}
        /\ AfterConvert(j) = "originals" <=> "uploadoriginals" \notin j.markers
    BY SkippedSteps
  <2>3. workerJob \in Handle /\ jobDir \in [JobId -> Dir]
    BY <1>1, <2>1, WorkerBusy, IngestTyped
  <2>4. workerJob.markers \subseteq j.markers
    BY <2>3, CommittedType DEF Committed, ReadState, Handle, Marker
  <2> HIDE DEF j
  <2>5. workerPc' = "originals" /\ "uploadoriginals" \notin j.markers
    BY <1>2, <2>1, <2>2 DEF Continue
  <2>6. workerUpload' = workerUpload
    BY <2>1, <2>5 DEF Continue
  <2> QED BY <1>3, <2>1, <2>4, <2>5, <2>6 DEF MayAwait
<1>8. CASE ~(\/ StartUpload \/ SkipUpload \/ Convert \/ ConvertUndecodable \/ ConvertFails
             \/ MarkConverted)
  <2>1. workerPc' \in {"idle", "pdf", "driveid", "markpdf"}
    BY <1>1, <1>8, SkippedSteps DEF WorkerStep, MarkConvertedFails, MarkOriginals,
          MarkOriginalsFails, OriginalsFailed, UploadPDF, UploadNoPDF, UploadPDFFails,
          RecordDriveId, RecordDriveIdFails, MarkPDF, MarkPDFFails, ReturnFromProcessScan,
          Continue
  <2> QED BY <1>2, <2>1
<1> QED
  BY <1>4, <1>5, <1>6, <1>7, <1>8

LEMMA ResultIsTrueStep ==
    ASSUME TypeInv, ScanInv, UploadAwaited, WorkerSettled, UploadsComplete, ResultIsTrue,
           [Next]_vars
    PROVE  ResultIsTrue'
<1>1. WorkerTypeOK
  BY DEF TypeInv, TypeOK
<1>2. ASSUME MayAwait, uploads'[workerUpload] = uploads[workerUpload],
             uploads[workerUpload].pc = "done", ~uploads[workerUpload].failed
      PROVE  \A k \in JobId :
                k = workerJob.id => k \in handedPartial' \/ HasOriginals(k)'
  BY <1>2, TruthStays DEF ResultIsTrue, WorkerSettled, MayAwait
<1>3. SUFFICES ASSUME MayAwait', uploads'[workerUpload'].pc = "done",
                      ~uploads'[workerUpload'].failed
               PROVE  (workerJob.id \in handedPartial \/ HasOriginals(workerJob.id))'
  BY DEF ResultIsTrue
\* It is enough to look at jobs that are as they were.
<1>4. ASSUME NEW k \in JobId, workerJob'.id = k, k \in handedPartial' \/ HasOriginals(k)'
      PROVE  (workerJob.id \in handedPartial \/ HasOriginals(workerJob.id))'
  BY <1>4 DEF HasOriginals
<1>5. ASSUME MayAwait, workerUpload' = workerUpload, workerJob'.id = workerJob.id,
             UNCHANGED uploads
      PROVE  (workerJob.id \in handedPartial \/ HasOriginals(workerJob.id))'
  <2>1. workerJob.id \in JobId
    BY <1>1, <1>5, WorkerBusy DEF MayAwait
  <2> QED BY <1>2, <1>3, <1>4, <1>5, <2>1
<1>6. CASE WorkerAction
  BY <1>3, <1>5, <1>6, WorkerAwaits
<1>7. CASE \E u \in Upload : UploadAction(u)
  <2>1. PICK u \in Upload : UploadAction(u)
    BY <1>7
  <2>2. /\ Progress(u) /\ uploads[u].pc \in Running /\ UNCHANGED <<workerVars, handedPartial>>
    BY <2>1, UploadProgress DEF UploadAction
  <2>3. MayAwait /\ workerJob'.id = workerJob.id /\ workerUpload' = workerUpload
    BY <1>3, <2>2 DEF MayAwait, workerVars
  <2>4. OwnUpload(workerUpload, workerJob.id) /\ workerJob.id \in JobId
    BY <1>1, <2>3, WorkerBusy DEF UploadAwaited, MayAwait
  <2>5. CASE workerUpload = u
    <3>1. uploads[u].job = workerJob.id /\ NothingForgotten(u)
      BY <2>2, <2>4, <2>5 DEF OwnUpload, Running, UploadsComplete
    <3>2. uploads'[u].pc = "done" /\ ~uploads'[u].failed
      BY <1>3, <2>3, <2>5
    <3>3. \A id \in JobId \ handedPartial : id = uploads[u].job => HasOriginals(id)'
      BY <2>2, <3>1, <3>2 DEF Progress
    <3>4. \A id \in JobId : id = workerJob.id => id \in handedPartial' \/ HasOriginals(id)'
      BY <2>2, <3>1, <3>3
    <3> QED BY <1>4, <2>3, <2>4, <3>4
  <2>6. CASE workerUpload # u
    <3>1. uploads'[workerUpload] = uploads[workerUpload]
      BY <2>2, <2>4, <2>6 DEF Progress, OwnUpload
    <3> QED BY <1>2, <1>3, <1>4, <2>3, <2>4, <3>1
  <2> QED BY <2>5, <2>6
<1>8. CASE UNCHANGED workerVars /\ UNCHANGED uploads
  <2>1. MayAwait /\ workerUpload' = workerUpload /\ workerJob'.id = workerJob.id
    BY <1>3, <1>8 DEF MayAwait, workerVars
  <2> QED BY <1>5, <1>8, <2>1
<1>9. workerPc' \notin {"idle", "start"}
  BY <1>3 DEF MayAwait
<1> QED
  BY <1>6, <1>7, <1>8, <1>9, UploadsByOthers, OthersAndWorker, CrashFrees

\* Every write but that of COMPLETE.uploadoriginals itself.
LEMMA OtherWritesArchiveNothing ==
    ASSUME jobDir \in [JobId -> Dir], NEW id, NEW n, NEW content,
           NEW m, m # "uploadoriginals",
           \/ UNCHANGED jobDir \/ MakeDir(id) \/ WritePage(id, n, content)
           \/ WritePDF(id, content) \/ WriteDriveId(id, content)
           \/ WriteMarker(id, m) \/ CommitFails(id, m) \/ AddPageFails(id, n)
    PROVE  Archived' \subseteq Archived
<1>1. CASE WriteMarker(id, m)
  BY <1>1, MarkerWrite DEF Recorded, Archived
<1>2. CASE UNCHANGED jobDir
  BY <1>2 DEF Archived
<1>3. CASE AddPageFails(id, n)
  <2>1. UNCHANGED jobDir \/ WritePage(id, n, Empty)
    BY <1>3 DEF AddPageFails
  <2>2. NothingRecorded
    BY <2>1, QuietWrites
  <2> QED BY <2>2 DEF NothingRecorded, Archived
<1>4. CASE MakeDir(id) \/ WritePage(id, n, content) \/ WritePDF(id, content)
           \/ WriteDriveId(id, content)
  <2>1. NothingRecorded
    BY <1>4, QuietWrites
  <2> QED BY <2>1 DEF NothingRecorded, Archived
<1> QED
  BY <1>1, <1>2, <1>3, <1>4 DEF CommitFails

LEMMA WhoArchives ==
    ASSUME TypeInv, [Next]_vars, NEW id \in JobId, id \in Archived', id \notin Archived
    PROVE  AwaitsResult /\ ~uploads[workerUpload].failed /\ id = workerJob.id
<1>1. jobDir \in [JobId -> Dir]
  BY IngestTyped
<1>2. CASE MarkOriginals \/ MarkOriginalsFails
  <2>1. AwaitsResult /\ ~uploads[workerUpload].failed
    BY <1>2 DEF MarkOriginals, MarkOriginalsFails
  <2>2. NothingRecorded \/ Recorded(workerJob.id, "uploadoriginals")
    BY <1>1, <1>2, MarkerWrite, CommitFailsEffect DEF MarkOriginals, MarkOriginalsFails
  <2> QED BY <2>1, <2>2 DEF NothingRecorded, Recorded, Archived
<1>3. CASE ~(MarkOriginals \/ MarkOriginalsFails)
  <2>1. CASE UNCHANGED jobDir
    BY <2>1 DEF Archived
  <2>2. CASE WorkerAction
    <3>1. WorkerStep
      BY <2>2 DEF WorkerAction
    <3>2. CASE Convert \/ ConvertFails
      BY <1>1, <3>2, OtherWritesArchiveNothing DEF Convert, ConvertFails
    <3>3. CASE MarkConverted \/ MarkConvertedFails
      BY <1>1, <3>3, OtherWritesArchiveNothing DEF MarkConverted, MarkConvertedFails
    <3>4. CASE RecordDriveId \/ RecordDriveIdFails
      BY <1>1, <3>4, OtherWritesArchiveNothing DEF RecordDriveId, RecordDriveIdFails
    <3>5. CASE MarkPDF \/ MarkPDFFails
      BY <1>1, <3>5, OtherWritesArchiveNothing DEF MarkPDF, MarkPDFFails
    <3> QED BY <1>3, <2>1, <3>1, <3>2, <3>3, <3>4, <3>5 DEF WorkerStep, StartUpload,
       SkipUpload, ConvertUndecodable, OriginalsFailed, UploadPDF, UploadNoPDF, UploadPDFFails,
       queueVars
  <2>3. CASE \E i \in Ingester : IngestStep(i)
    <3>1. PICK i \in Ingester : IngestStep(i)
      BY <2>3
    <3>2. CASE \E s \in Scan : StartJob(i, s)
      BY <1>1, <3>2, OtherWritesArchiveNothing DEF StartJob
    <3>3. CASE AddPage(i) \/ AddPageError(i)
      BY <1>1, <3>3, OtherWritesArchiveNothing DEF AddPage, AddPageError
    <3>4. CASE CommitScan(i) \/ CommitScanError(i)
      BY <1>1, <3>4, OtherWritesArchiveNothing DEF CommitScan, CommitScanError
    <3> QED BY <2>1, <3>1, <3>2, <3>3, <3>4 DEF IngestStep, ReadBack, Enqueue, queueVars
  <2>4. CASE Environment
    <3>1. CASE \E k \in JobId : DeletePDF(k)
      <4>1. PICK k \in JobId : WritePDF(k, NoFile)
        BY <3>1 DEF DeletePDF
      <4>2. NothingRecorded
        BY <1>1, <4>1, QuietWrites
      <4> QED BY <4>2 DEF NothingRecorded, Archived
    <3>2. CASE TornWrite
      <4>1. \E k, n, content : \/ UNCHANGED jobDir \/ WritePDF(k, content)
                               \/ WriteDriveId(k, content) \/ WritePage(k, n, content)
        BY <3>2 DEF TornWrite
      <4> QED BY <1>1, <4>1, QuietWrites DEF NothingRecorded, Archived
    <3> QED BY <2>4, <3>1, <3>2 DEF Environment, Crash
  <2>5. CASE ResumeStep \/ \E u \in Upload : UploadAction(u)
    <3>1. UNCHANGED jobDir
      BY <2>5, UploadProgress DEF ResumeStep, WakeUp, ReadJob, ReadJobError,
         EnqueueUnfinished, queueVars
    <3> QED BY <2>1, <3>1
  <2> QED BY <2>1, <2>2, <2>3, <2>4, <2>5 DEF Next, vars, queueVars
<1> QED
  BY <1>2, <1>3

LEMMA ArchivedStep ==
    ASSUME TypeInv, ScanInv, WorkerSettled, ResultIsTrue, ArchivedHasOriginals, [Next]_vars
    PROVE  ArchivedHasOriginals'
<1>1. ASSUME NEW id \in JobId, id \in Archived', id \notin handedPartial'
      PROVE  IsAccepted(jobDir'[id]) /\ HasOriginals(id)'
  <2>1. id \notin handedPartial
    BY <1>1, PartialStays
  <2>2. IsAccepted(jobDir[id]) /\ HasOriginals(id)
    <3>1. CASE id \in Archived
      BY <2>1, <3>1 DEF ArchivedHasOriginals
    <3>2. CASE id \notin Archived
      <4>1. AwaitsResult /\ ~uploads[workerUpload].failed /\ id = workerJob.id
        BY <1>1, <3>2, WhoArchives
      <4>2. MayAwait /\ uploads[workerUpload].pc = "done" /\ workerPc # "idle"
        BY <4>1 DEF AwaitsResult, MayAwait
      <4>3. IsAccepted(jobDir[id])
        BY <2>1, <4>1, <4>2 DEF WorkerSettled, Settled
      <4>4. HasOriginals(workerJob.id)
        BY <2>1, <4>1, <4>2 DEF ResultIsTrue
      <4> QED BY <4>1, <4>3, <4>4
    <3> QED BY <3>1, <3>2
  <2>3. IsAccepted(jobDir'[id]) /\ PagesKept(id)
    BY <2>2, AcceptedStays
  <2> QED BY <2>2, <2>3, FoldersOnlyByUpload, HasOriginalsStays
<1> QED
  BY <1>1 DEF ArchivedHasOriginals, Archived

-----------------------------------------------------------------------------

LEMMA InitOriginals == Init => OriginalsInv
<1> SUFFICES ASSUME Init PROVE OriginalsInv
  OBVIOUS
<1> USE DEF Init, QueueInit, SinkInit, WorkerInit
<1>1. WorkerSettled /\ ResultIsTrue
  BY DEF WorkerSettled, ResultIsTrue, MayAwait
<1>2. UploadsSettled /\ UploadsComplete
  BY DEF UploadsSettled, UploadsComplete, NothingForgotten, Running, FreeUpload
<1>3. SendersSettled
  BY DEF SendersSettled, NoIngest
<1>4. \A id \in JobId : jobDir[id].markers = {}
  BY DEF NoDir
<1> QED
  BY <1>1, <1>2, <1>3, <1>4 DEF OriginalsInv, ArchivedHasOriginals, Archived

LEMMA NextOriginals ==
    ASSUME TypeInv, ScanInv, UploadAwaited, OriginalsInv, [Next]_vars
    PROVE  OriginalsInv'
BY WorkerSettledStep, UploadsSettledStep, SendersSettledStep, UploadsCompleteStep,
   ResultIsTrueStep, ArchivedStep DEF OriginalsInv

\* What the proofs about one scan per second know of a reachable state.
LEMMA Invariants ==
    ASSUME ~SameSecond
    PROVE  Spec => [](TypeInv /\ ScanInv /\ SafetyInv /\ OriginalsInv)
<1>1. TypeInv /\ ScanInv /\ [Next]_vars => ScanInv'
  BY NextScans
<1>2. TypeInv /\ ScanInv /\ SafetyInv /\ OriginalsInv /\ [Next]_vars => OriginalsInv'
  BY NextOriginals DEF SafetyInv
<1> QED
  BY InitScans, InitOriginals, <1>1, <1>2, TypeInvariant, SafetyInvariant, PTL DEF Spec

\* If no two scans are added within the same second, COMPLETE.uploadoriginals is only
\* in the directory of a job all of whose pages were put into one folder on Drive,
\* through errors, crashes and resumes, for every job that the worker was not given
\* before its scan was complete (UploadOriginals, processScan).
THEOREM OriginalsKeptHolds ==
    ASSUME ~SameSecond
    PROVE  Spec => []OriginalsKept
<1>1. OriginalsInv => OriginalsKept
  BY DEF OriginalsInv, ArchivedHasOriginals, HasOriginals, OriginalsKept
<1> QED
  BY Invariants, <1>1, PTL
=============================================================================
