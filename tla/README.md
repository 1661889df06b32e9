# scan2drive in TLA+

scan2drive takes scans from document scanners, converts them to PDF and stores
the originals and the PDF on Google Drive.  This directory holds a formal model
of the program, the TLC configurations that check it on small instances, and
proofs, checked by TLAPS, for every value of the model's constants.  Paths
below are relative to the repository.

The core of the program is a persistent job queue: a scan is a directory with
page files and empty `COMPLETE.*` files, and everything else (converting,
uploading, retrying every hour, restarting after a crash) is organised around
what these files say.  Around it are the user store and the web interface that
changes it, a display that starts scans over MQTT, and the USB scanner.  Each of
these is a model of its own, with its own instance and its own proofs.

## 1. Inventory

| Component | State it keeps | Operations | Correct when |
|---|---|---|---|
| Job queue, `internal/jobqueue` | a directory per job: pages, `scan.pdf`, `pdf.drive_id`, `COMPLETE.*`; in memory a `Job` with the markers and pages last read | `AddJob`, `Scans`, `JobById`, `CommitMarker`, `AddDerivedFile`, `WritePDFDriveID` | `COMPLETE.scan` means one whole scan; nothing recorded is lost; a job read back has its pages, in order |
| Google Drive sink, `internal/sink/drivesink` | none of its own; folders and files on Drive | `UploadOriginals`, `UploadPDF`, `getCurrentParentDir` | a recorded upload is really there; only partial uploads are trashed |
| Queue worker, `processScan` and `convert` in `cmd/scan2drive`, `internal/legacyconvert` | the handle it works on, the goroutine it started | receive from `workJobs`; convert; await the originals; upload the PDF; commit a marker after each step | markers in order, each one truthful; never blocked for good; every scan that can be converted delivered in the end |
| Ingestion callback, resume loop, `cmd/scan2drive`, `internal/scaningest` | handles read from disk; the channel `workJobs` | `ingesterFor`, the hourly round over all users and jobs | each complete scan reaches the worker, also after a crash; the caller returns |
| User store, `internal/user` | `users/<sub>/` with `token.json`, `drive_folder.json`, `is_default`; map of accounts in memory under a lock | `UpdateFromDir` (reads file by file without the lock, asks Google about each token, then replaces the map), lookups | an update that no write has overtaken makes memory equal to the disk; the refresh token, which Google sends once, is never lost |
| Web UI, `internal/webui` | sessions, files of the user store | OAuth login, sign-out, default user, drive folder, each a file change followed by `UpdateFromDir`; scan, rename | an undisturbed request takes effect; who signs out can log in again |
| Setup mode, `internal/webui/setup.go` | `client_secret.json` | store the secret, re-exec | the secret is whole or absent |
| HTTP ingest API, `internal/httpscaningest` | `currentJobs`, a slice of pages per job | new job, addpage, ingest | each page added once; ingested once |
| MQTT, `internal/mayqtt` | `lastStatus` without a lock, two channels, one request pending at most | publish a status unless it is the last one; hand on a scan request | what is held back is a duplicate; one request is pending at most |
| Display, `_m5stack/*.ino` | source, menu, status, brightness, what the screen shows | two tasks: buttons, and messages; both redraw, without a lock | a redraw that is alone leaves what is current on the screen; after any disturbance it shows the retained status |
| AirScan source, `internal/source/airscan` | scanners seen by zeroconf, a lock each | discovery, `ScanTo` | one scan at a time per device |
| FSS500 source, `internal/source/fss500` | USB device with a lock per opening, button loop; per side a row buffer and an encoder goroutine | `findDevice`, `ScanTo`, `scan1` | pages complete and in order; one scan at a time; a scan ends |
| FSS500 driver, `internal/fss500` | state of the device | commands, RIC retries | end of paper is not an error |
| G3 encoder, `internal/g3` | bit buffer | `Encode` | output decodes to the input |
| PDF writer, `internal/pdf`, `writepdf.go` | objects and offsets | `Encode` | ids and offsets match the objects |
| Binarization, `internal/page`, `binarize.go` | none | pixel arithmetic | used only for its verdict: blank or not |
| Supervision, `cmd/scan2drive` | the errgroup over listeners and worker | start, wait | an ended listener is noticed |
| Others | | `httperr`, the TurboJPEG binding, the browser client | I/O and presentation, not modelled |

How they interact:

- **Calls.**  A scan source, the web UI, MQTT or the HTTP API calls an *ingester*
  (a callback) with the pages of one scan.  The callback calls `AddJob`, which
  writes to disk, and then sends the `Job` over the unbuffered channel
  `workJobs` to the single worker.
- **Shared state.**  The disk is shared by the ingesters, the worker and the
  resume loop without a lock.  Each of them holds a `Job`, a copy of what it
  last read: these copies go stale.
  The accounts in memory are a second such copy: handlers of the web UI write
  files and then build a new map from them, concurrently.
- **Concurrency.**  Ingesters and the resume loop compete to send to the worker;
  the worker converts while a goroutine of its own uploads the originals, and
  does not always wait for it.  Publishers of a status share a variable without a
  lock.  The USB device is used by the button loop and by requests over the
  network; two goroutines encode while a third one reads.  The display draws from
  two cores.
- **Failure.**  The process may die anywhere; Drive, Google and the disk may fail
  any request, with or without effect; MQTT connections break with messages in
  flight; the scanner may be unplugged.  The recovery is the resume loop, which
  reads everything back from disk, the update at startup, and the message the
  broker retains.

The hazards that follow from this are listed, with the line each one bites at
and the property that covers it, in `PROJECT.json`.

## 2. The model

There are four models.  The modules of each build on each other by EXTENDS, and
each module owns its variables.

| Module | Models | Variables |
|---|---|---|
| *the job queue* | | |
| `JobQueue` | job directories, handles, reading and writing them | `jobDir`, `faults` |
| `DriveSink` | `UploadOriginals` request by request; Drive | `folders`, `pdfs`, `uploads` |
| `ProcessScan` | the worker: one action per step and per error return | `workerPc`, `workerJob`, `workerUpload` |
| `Scan2Drive` | ingesters, resume loop, crash and restart, fairness, properties | `ingest`, `scanned`, `resumePc`, `resumeTodo`, `resumeJobs`, `crashes`, `deleted`, `handedPartial` |
| `JobLifecycle` | the abstract specification: what the markers promise | `done`, `delivered`, `withdrawn` |
| `MCScan2Drive` | instances for TLC | |
| `DirOrderProofs`, `Scan2DriveTypes`, `Scan2DriveProofs`, `OriginalsProofs`, `DeliveryProofs` | theorems and proofs | |
| *the user store* | | |
| `UserStore` | `users/<sub>/`, `UpdateFromDir` file by file, Google's grants | `files`, `accounts`, `loads`, `grant`, `issued`, `errors`, `fresh` |
| `WebUI` | the handlers that change it, startup, crashes, properties | `reqs`, `sessions`, `up`, `requests`, `crashes` |
| `MCWebUI`, `WebUIProofs` | instance; theorems and proofs | |
| *remote control* | | |
| `Broker` | the MQTT broker and its connections | `online`, `subscribed`, `inbox`, `retained`, `losses` |
| `Mayqtt` | `Publishf`, `mqttLoop` and its callbacks | `lastStatus`, `calls`, `mqttLoop`, `publish`, `scanRequests`, `handed` |
| `Display` | the display: two tasks, buttons, redraw | `source`, `destSubmenu`, `statusbuffer`, `brightness`, `buttons`, `canvas`, `pc`, `read`, `overlap` |
| `Remote` | who reports, who dispatches requests, crashes, properties | `dispatchPc`, `reports`, `presses` |
| `MCRemote`, `RemoteProofs` | instances; theorems and proofs | |
| *the USB scanner* | | |
| `Feeder` | `scan1`: a stack of sheets, two sides, two encoder goroutines | `hopper`, `drawn`, `window`, `scans` |
| `Fss500` | `findDevice`, `ScanTo` and its lock, plugging, properties | `plugs`, `plugged`, `finderPc`, `opens`, `devs`, `locks`, `source`, `uses`, `asked` |
| `Fss500Proofs` | theorems and proofs | |

They meet in places that each model leaves open for the other: what an ingester
is given (`Ingest` in `Fss500`, `StartJob` in `Scan2Drive`), when the worker takes
a job (`IngestReturns` says that it does), what the worker and the scanner
report (`Follows` in `Remote`).

How state and actions of the job queue correspond to the code:

- `jobDir[id]` is the directory of a job.  A page file is the page it holds,
  `Empty` (created, never written) or `NoFile`.  Names are times in seconds, so
  a job id is a number and a later job has a larger one.  `JobId` is their order.
- A *handle* is a `Job` in memory: `state`, the `CompletionMarkers`, the pages.
  `ReadState` is `readStateFromDir`, which only ever switches a marker on and
  computes the state anew; `JobById` drops the pages of a job that is done or
  not yet scanned and loads the others in the order of the file names
  (`NameKey`, `DirOrder`: `page10.jpg` sorts before `page2.jpg`).
- `AddJob` is `StartJob` (the directory), one `AddPage` per page, `CommitScan`
  (the marker), `ReadBack` (the rest of `commit`) and `Enqueue` (the channel
  send).  Other goroutines run between these steps.
- `processScan` is `StartUpload`/`SkipUpload`, `Convert`, `MarkConverted`,
  `MarkOriginals`, `UploadPDF`, `RecordDriveId`, `MarkPDF`.  `workerPc` is the
  step it does next.  Each way to fail is an action of its own.
- `uploads[u]` is one run of `UploadOriginals`.  It lists the files once
  (`Filenames`), finds and trashes one folder of the job's name, creates a new
  one, and its errgroup uploads the files in any order.  A goroutine whose
  result is not awaited runs on.
- The resume loop is `WakeUp`, one `ReadJob` per directory, `EnqueueUnfinished`.
  What is done is dropped when it is read, not when it is enqueued: the code
  does it in this order, and much of what is interesting follows from it.
- A write that fails or is cut short by a crash may leave the file empty
  (`os.WriteFile` truncates before it writes).  A Drive request that fails may
  have taken effect all the same.
- `handedPartial` is a history variable: the jobs that the resume loop found
  while `AddJob` was still writing them.

`JobLifecycle` is the promise of the markers without any of this: steps are
recorded once and for ever; a PDF is only delivered when the document is
converted and its originals are uploaded; a job is finished only after a PDF was
delivered, unless the user took `scan.pdf` away.  `Scan2Drive` refines it with
`done` the markers on disk, `delivered` the number of PDFs on Drive, `withdrawn`
the jobs whose PDF the user deleted.

The user store:

- A token is the pair of grants that issued its access and its refresh token.
  Google has at most one grant per user and sends a refresh token with the first
  login under it only (`Issue`); a user or a sign-out may revoke it.
- `loads[p]` is a call of `UpdateFromDir` by the process `p`: `ListUsers`, then per
  user in the order of the listing `ReadToken`, `ReadFolder`, `ReadDefault`,
  `Userinfo`, and at last `Install`, the only step under the lock.  Everybody else
  may run between any two of them.
- A handler is `reqs[h]`.  Writing a file is `Truncate` and `WriteContent`;
  `storeDefaultUser` works on the map it has fetched (`users`), which may have been
  replaced since (`current`).  A login without a refresh token takes it from the
  account in memory (`LoginMerge`).
- `ReadDefaultFails` is the error of `os.Stat` that `LoadFromDir` drops: the account
  is loaded as not the default, and the update succeeds.
- History variables: `flagRead` of an account (`is_default` could be looked at), `fresh`
  and `clean` (no file or account has changed since the
  update in memory, or one that is under way, began to read), `alone` (no other
  request has overlapped with this one).

Remote control:

- A call of `Publishf` is four steps: compare, an assignment of two words, which
  another goroutine may see half done (`Torn`), and the offer to `mqttLoop`, which
  is dropped unless it is taken at once.
- QoS 0: messages of one sender keep their order, and what is in flight is lost
  with the connection.  A new subscriber is sent the retained status.
- `redraw` runs in either task, or in both at once: `ResetCanvas`, `ReadMenu`,
  `ShowButtons`, `ReadSource`, `Println`, `ReadStatus`, `Println`.  `destSubmenu`, `source`
  and `statusbuffer` are read in one step and drawn in the next, and the other task
  may change them, or draw, in between.  The copy of a message to `statusbuffer`
  is two steps as well (`CopyStatus`, `EndStatus`).
- The request of a user that is not logged in ends the process
  (`DispatchUnknownUser`): the code evaluates `user.Sub` of nil.
- What is reported (`Follows`): the worker may publish any of its statuses at any time,
  for markers and errors decide how much of `processScan` runs; the loop over USB
  devices its two, and a start of a scan while it has a device; whoever else calls
  `Publishf` only starts scans.  "processing %d pages" stands for two statuses.
- History variables: `handed`, the last status that `mqttLoop` was given, and `overlap`,
  whether the last redraw began while the other task was drawing.

The USB scanner:

- Sheet `k` is the k-th drawn in; a row is its page and its number, so a row that is
  lost, repeated or of another page can be told.  `window` holds what the
  scanner has read of the sheet and not yet handed out.
- A response is at most `ReadRows` rows; its end is told with the last rows or by
  an empty response.  `ReadData` appends to the rest of the side and cuts off whole
  blocks, `Send` hands them to the goroutine of the side over a channel
  without a buffer, `SendRest` and `AddPage` flush and close it, first the front's and
  then the back's.
- `devs` and `locks` grow by one each time the device is opened.  A thread in
  `ScanTo` first waits for the lock of the device it was given, then looks whether
  that is still open.

Definitions named `Bug...` are mutations of the definition after them, used to
show that the properties can fail.  No action uses them.

## 3. What TLC checks

| Run | Instance | Checks |
|---|---|---|
| `crashes` | one scan, two pages, the first one blank; one I/O error anywhere, one crash; one goroutine slot | `OriginalsKept`, `DeliveredInFull`, `PagesInOrder`, `EveryScanDelivered`, `ImplementsLifecycle` |
| `faults` | one page; one I/O error anywhere; two crashes; `scan.pdf` deleted once; two goroutine slots, interchangeable | `TypeOK`, `MarkersInOrder`, `AwaitsOwnUpload`, `DoneIsDelivered`, `CompleteScan`, `OriginalsKept` |
| `two_jobs` | two scans of one page, one of which cannot be decoded; no errors | `EveryScanDelivered`, `IngestReturns` |
| `originals_safe` | one page, no error, no crash | `OriginalsSafe`: violated |
| `trash_only_partial` | the same | `TrashOnlyPartial`: violated |
| `pages_in_order` | one scan of ten pages | `PagesInOrder`: violated |
| `same_second` | two scans in the same second, two ingesters | `CompleteScan`: violated |
| `accounts` | two users, two requests at the same time; one failure, one crash; two grants per user | `TypeOK`, `RefreshTokenKept`, `FreshIsDisk`, `AloneTakesEffect` |
| `login_again` | two users, three requests one after the other; no failure | `SignedOutCanLogIn`: violated |
| `remote_control` | two callers of `Publishf`; one report, two presses, one broken connection or crash, one message in flight; one of the three users is logged in | `TypeOK`, `ScreenCurrent`, `DisplayCaughtUp` |
| `status_withheld` | the finder and the worker, no losses | `OnlyDuplicatesHeldBack`: violated |
| `scanner` | two sheets of ten rows; a button and one request; the device plugged in and opened twice, any request, encoder or added page failing | `TypeOK`, `DocumentInOrder`, `WholeBlocksEncoded`, `ScansAlone`, `ScanEnds` |

The passing runs visit about 350,000 (`crashes`), 2,900,000 (`faults`), 330,000
(`two_jobs`), 3,100,000 (`accounts`), 2,300,000 (`remote_control`) and 60,000
(`scanner`) distinct states and take each action of their models.  Those of the job
queue find no deadlock.  The others say `CHECK_DEADLOCK FALSE`: once their bounds
on requests, reports, presses or scans are used up, nothing needs to happen.

What the runs of the job queue show: whatever handles the worker gets, in whatever
order and however old, the markers on disk mean what they should.  `COMPLETE.scan`
means that each page of one scan is there; `COMPLETE.uploadoriginals` that some
folder on Drive (perhaps in the trash) has all of them; `COMPLETE.uploadpdf` that a
PDF is on Drive, and, without I/O errors, one with all printed pages in order.  A
complete scan that can be converted comes back to the worker after crashes and
errors until it has that marker and a PDF on Drive (`EveryScanDelivered`), and a job that
can never be converted blocks nobody.

There are exceptions, and the properties name them.  A job that the resume loop
found while `AddJob` was writing it (`handedPartial`) may end with nothing on
Drive, for which see `originals_safe` below.  A job whose `scan.pdf` was deleted ends
without a PDF, as `UploadPDF` finds no file and returns no error.  And after an I/O
error a PDF on Drive need not be whole: a stale handle may convert once more, and a
crash cut `scan.pdf` short, when `COMPLETE.convert` is on disk already.

`accounts`: logins, sign-outs and changes of the settings may interleave with
updates in any way, and still every token that is stored has a refresh token; an
update during which nothing was written leaves in memory what is on disk;
and a request that ran alone and whose update succeeded has taken effect.  In both
cases the flag of the default user may be missing, and nothing else, if
`os.Stat` failed on `is_default` (`user.go:89`): the update succeeds all the same.
The run does not show that memory is up to date at other times, for it is not: of two
updates, the one that read first may be the last to replace the map.  Nor that a
refresh token is still good: Google may have revoked it.

`remote_control`: a redraw that no other one has overlapped with leaves on the screen
the labels of the current menu, the current source and the current status, although
the other task may change each of them between its being read and its being drawn:
who changes them redraws.  Redraws that do overlap promise nothing until the
next one (hazard at `.ino:115`): `taskmqtt` reads `destSubmenu`, `loop()` handles
"exit" and redraws, then `taskmqtt` draws the labels of the submenu, and they stay.
However messages are lost, a display that is connected and has nothing left to
read shows what the broker retains.

`scanner`: a document that is ingested has all pages of the sheets its scan drew in,
each row once and in its place, in document order, although two sides are read
in turns and encoded concurrently; one thread at a time uses the device, although
each opening has a lock of its own; each call of `ScanTo` ends.

### Bounds, and why they are enough

- *Pages* (`MaxPages`): two pages tell apart order, loss and repetition and let
  the uploads of one folder overlap; the order of file names needs ten, which
  `pages_in_order` has.  `DirOrderListsPages` is proved for all counts below 1000
  (`NameKey` pads to three digits), `DirOrderOfPages` for those below ten.
- *Jobs* (`MaxJobs`): jobs share only the worker and the goroutine slots, and
  `two_jobs` has two.  The interesting interference, two handles on one job, needs
  one: the ingester and the resume loop both hold it.
- *Errors* (`MaxFaults`) are bounded, as nothing can be promised while every
  request fails; one error shows every error path from each state.  *Crashes*
  (`MaxCrashes`): two, in `faults`, for a crash during the recovery from a crash;
  `crashes` has one, besides an error, as it checks liveness too.
- *Goroutines* (`Upload`): with two slots one goroutine can be left behind while
  the worker waits for another; with one, `StartUpload` waits for it, which
  only removes behaviours and is why `faults` has two.
- *Deletions* (`MaxDeletes`): a PDF deleted once per job; README.md lets the
  user delete any file.
- *Users and handlers:* two users, because one user's failure makes the update of
  all others fail; two handlers, because the hazards are between two requests, or
  a request and the update of another one.  One failure and one crash; two
  grants, so that a token may be of a grant that was revoked since
  (`MaxGrants`, `MaxErrors`, `MaxRequests`, `MaxCrashes`).
- *Messages:* one in flight per client (`MaxInFlight`; a full inbox delays the
  sender), one loss (`MaxLosses`), one report besides those of dispatched scans
  (`MaxReports`), two presses (`MaxPresses`): a press may come while the redraw of
  the one before overlaps with that of a message.  The theorems of section 4 lift these bounds.
- *Rows:* a page has 7016 rows, a response 17 and a block 16.  The instance has 10, 5
  and 4 (`Rows`, `ReadRows`, `Block`), which keep what matters: responses are longer
  than a block and no multiple of it, and the rest of a page is half a block
  (7016 % 16 = 8, 10 % 4 = 2), the case in which padding by `height % 16` is right;
  `FeederBounds` names it.  Two sheets tell apart the order of pages and sheets and
  leave one for the next scan (`MaxSheets`); two openings give an old and a new
  lock (`MaxOpens`, `MaxPlugs`); one request besides the button (`MaxScans`).
- Symmetry is used for the goroutine slots of `faults` and for the handlers of
  `accounts` only, which check no liveness.

### Fairness

`FairSpec` assumes weak fairness of the worker, of each upload, of the steps of
an ingester that has begun and of the resume loop's timer and reads: they are
goroutines that the Go scheduler runs and requests that are answered, with
success or not.  The sends to `workJobs` need more.  They are enabled only while
the worker is receiving, and two senders compete, so weak fairness would let one
of them wait for ever.  A Go channel queues blocked senders and serves them in
order: that is strong fairness of `Enqueue` and `EnqueueUnfinished`.
No fairness is assumed of starting a scan, of errors, crashes or deletions.
The error actions of the worker, of an upload or of the resume loop may always be
left out: they are disjuncts of the same fair action, and bounded by `MaxFaults`.

`Fss500` assumes weak fairness of what a thread does in a scan (`Works`): its
goroutines run, requests to the scanner are answered, and the worker takes the
job, which is `IngestReturns`.  It assumes strong fairness of two things.  A mutex
that is free again and again is at last given to who waits for it.  And since
`ErrTemporaryNoData` for the back sends the loop back to the front, the answer with
data for the back is not enabled all the time; that it comes at last means that the
scanner does not report for ever that it has no data.  `WebUI` and `Remote` have
safety properties only and assume nothing.

### Where the code disagrees with what it says

1. **`originals_safe`.**  The resume loop lists a directory that `AddJob` is still
   writing, and enqueues it because it is not done (`scan2drive.go:404`).  The worker
   uploads the originals that are there, in the trace none: an empty folder; it
   writes `COMPLETE.uploadoriginals`, and the page and `COMPLETE.scan` come after that.
   No folder on Drive has the page, and no later run uploads it, as the marker is
   present.  README.md:72-74 says that deleting the scan is safe then.
2. **`trash_only_partial`.**  The ingester and the resume loop have both enqueued a job
   (`scan2drive.go:410`).  When the second handle is processed, `UploadOriginals` trashes
   the complete folder of the first run although `COMPLETE.uploadoriginals` is on disk;
   until the new upload is through, or for good if it fails, no copy is left outside the
   trash.  The comment at `drivesink.go:75` speaks of partial uploads.
3. **`pages_in_order`.**  A job of ten or more pages that is converted after it
   was read back from disk has page 10 after page 1 (`jobqueue.go:130`).
4. **`same_second`.**  Two scans that are added within a second share a
   directory (`jobqueue.go:73`) and COMPLETE.scan covers a mixture of both.
5. **`login_again`.**  One user withdraws the permission at Google, so that
   `UpdateFromDir` fails for everyone (`user.go:185`).  Another one's login writes
   `token.json`, with the only copy of a refresh token, but no account gets into
   memory; the sign-out then finds no token to revoke (`web.go:352`) and removes the file.
   The grant stays, the next login gets no refresh token and is refused, which is
   what the comment at `web.go:356` says the revocation is there to prevent.
6. **`status_withheld`.**  `Publishf` remembers a status before it offers it to
   `mqttLoop` (`mayqtt.go:104`), which may not take it.  Reported again, the status is
   held back as a duplicate (`mayqtt.go:100`), although it was never published.

## 4. What TLAPS proves

All theorems hold for every value of the constants: any number of scans, jobs,
ingesters, goroutines, users, handlers, messages, threads and openings of the device,
of errors, crashes and lost connections, any height of a page of which
no rows or half a block are left over, any response longer than a block, and for page counts below 1000.  They rest on
the named assumptions on the constants, which TLC evaluates in each run: the bounds
are natural numbers (`BoundsAssumption`, `ScanAssumption`, `AccountBounds`, `WebBounds`,
`BrokerBounds`, `RemoteBounds`, `FeederBounds`, `Fss500Bounds`), users are ordered
(`SubAssumption`), blank and broken pages are pages (`PageKindAssumption`), the finder is a thread (`FinderAssumption`), and the values that stand for "nothing" differ from
what they stand beside (`FileAssumption`, `PageAssumption`, `PDFAssumption`,
`NoUploadAssumption`, `MainAssumption`, `NothingAssumption`, `StatusAssumption`,
`NobodyAssumption`).

The job queue:

- `DirOrderListsPages` (`DirOrderProofs`): the order in which `JobById` reads the
  page files is a permutation of them, so no page is lost or read twice.  The
  argument: file names differ, so the number of names before a page is injective;
  it is bounded by the number of pages; hence it is onto.  For at most nine
  pages it is the order of the pages (`DirOrderOfPages`); from ten on page 10 is always
  the second (`TenthPageIsSecond`), so that bound is sharp.
- `TypeCorrect`, from `TypeInvariant` (`Scan2DriveTypes`).  `TypeOK` is not
  inductive: writing a page needs that there is one left (`PagesInRange`), and
  filling a folder that it exists (`UploadsInRange`).
- `SafetyInvariant` (`Scan2DriveProofs`), the inductive invariant.  `processScan`
  decides by its handle while the properties are about the disk, so the two have
  to be related: no handle claims a marker that is not on disk
  (`HandlesBehindDisk`), and the step the worker is at implies what is on disk and
  on Drive by then (`WorkerStage`, `ConvertedHasPDF`, `WorkerHasPDF`,
  `UploadAwaited`).  The proof first sorts all actions by what they do to markers,
  PDFs and deletions (`Effect`), then takes the conjuncts one by one.
- From it `MarkersAlwaysInOrder`, `DoneIsAlwaysDelivered`,
  `AlwaysAwaitsOwnUpload`, and `Refinement`: `Spec => ImplementsLifecycle`.
- `CompleteScanHolds` (`OriginalsProofs`): `COMPLETE.scan` covers one whole scan,
  if no two scans are added within a second (`~SameSecond`; the run `same_second` shows
  that this is needed).  `AddJob` takes no lock.  Its directory is its own because the
  name is new, and the pages in it are those it has written so far
  (`WrittenSoFar`, `OwnDirectory`, `NewIsEmpty`), as nobody else writes pages or
  `COMPLETE.scan`.
- `OriginalsKeptHolds` (`OriginalsProofs`), under the same assumption:
  `COMPLETE.uploadoriginals` means that one folder on Drive was given every page.
  `UploadOriginals` lists the files once, so its pages must not change any more: whatever
  is handed to the worker is accepted, or in `handedPartial` (`SendersSettled`,
  `WorkerSettled`, `UploadsSettled`).  What a goroutine has not uploaded yet is still on
  its list (`UploadsComplete`), so that a result without an error is true
  (`ResultIsTrue`), also when it is received by a worker that has read
  the job anew in between; and files are never taken off Drive (`FilesKept`).
- `PagesInOrderHolds` (`DeliveryProofs`), under the same assumption and for scans of at
  most nine pages (`MaxPages < 10`; the run `pages_in_order` shows that ten are too many):
  what the resume loop has read back of a whole scan has its pages in order, also
  when it is enqueued much later.  The invariant `PagesInv` says the same of
  ingesters and of the worker's handle (`IngestPages`, `WorkerPages`); the
  pages of an accepted job never change (`AcceptedStays` in `OriginalsProofs`), which is
  why a handle that was right when it was read stays right.
- `DeliveredInFullHolds` (`DeliveryProofs`), under both assumptions: without I/O errors a job
  recorded as delivered has its whole document on Drive.  The danger is a stale
  handle: it converts again and writes `scan.pdf` anew while a crash may cut the write
  short, and the marker of the first conversion is on disk all the same.  `DeliveryInv`
  shows why this does no harm.  A job with `COMPLETE.convert` has a whole `scan.pdf`
  or a whole PDF on Drive (`ConvertedReady`); without errors `processScan` gives up a job
  only if it cannot be converted, so whoever holds a handle that does not know of
  the conversion finds it uploaded already, or in the worker's hands (`SendersUpToDate`,
  `WorkerDelivers`).  With an I/O error this fails, which is why the property has
  `faults = 0`.

The user store (`WebUIProofs`):

- `TypeCorrect`, with what an update has read so far (`AccountRead`) and the map that
  a request for a new default walks through (`MapInUse`).
- `RefreshTokenKeptHolds`.  A refresh token is copied from the login to the file, from
  the file to an update's own map, from there to the accounts and from the accounts to
  the next login; the invariant follows it through all of them (`FilesKept`,
  `LoadsKept`, `AccountsKept`, `RequestsKept`).
- `FreshIsDiskHolds`.  A clean update has built what is on disk for the users it is
  done with, nothing for those to come, and knows of the current user what it has
  read (`LoadsFollow`); and it looks at every user who has a token (`TokensListed`).
  "What is on disk" allows for a default flag that could not be looked at, and only for
  that (`Shows`).
- `AloneTakesEffectHolds`, for which it is not enough to know what the update reads.
  The invariant says where a request is (`RequestSteps`), that it is the one that updates
  (`OneUpdates`), and what it has made of the files by then if it ran alone: its
  token, its folder, and `is_default` for every user it is done with (`Written`).
  Its update then began after its last write and is clean (`AloneWrites`), and
  `FreshIsDisk` carries the files over to memory.

Remote control (`RemoteProofs`), all from one invariant, `RemoteInv`:

- `RemoteTypeCorrect`: among others, at most one scan request is pending and a client
  gets only what it has subscribed to.
- `DisplayCaughtUpHolds`: the last message on the way to the display, or the last one it
  has got if none is, is the retained one (`FollowsRetained`).  A subscription establishes
  this and every publication keeps it.
- `ScreenCurrentHolds`: while one task draws alone, what it has read and drawn is
  current unless what it depends on has changed since, and then the other task is about to
  redraw (`Drawn`, `LoopDone`, `TaskDone`); the same holds of the whole screen when nobody
  draws (`Complete`).  `Screen` joins the two.  It says nothing once redraws overlap, and
  the next reset of the canvas that is alone establishes it again.
- What a message is about to become, and the brightness, are followed through
  `callback` (`CopiesStatus`, `DarkInPowersave`).

The USB scanner (`Fss500Proofs`):

- `ScansAloneHolds`, from `LockInv`: who scans holds the lock of a device that is open,
  and of all devices that were ever opened only the last one can be.  So two threads in a
  scan would hold the same lock, although each opening makes a new one.
- `DocumentInOrderHolds`, `WholeBlocksHold` and `TypeHolds`, from `ScanInv`.  At any time a
  side of the sheet in hand is its rows from 1 to `Rows`, split by four counts: what is
  encoded, what has been given to the goroutine, what `ReadData` has cut off in whole
  blocks, and what has been got from the scanner (`SideTo`, `OnSheet`); the window of
  the scanner holds the rest (`Ahead`), unless it was plugged in again since, and
  then the handle reads no more.  `Paces` relates the counts to the point `scan1` is at:
  chunks are whole blocks until the rest is flushed, and the back is never
  ahead of the front (`InTurns`), which is why the end of the back is the end of the sheet
  (`fss500scan_arm64.go:234`).  Pages that are done are the last ones of the
  document, in reverse (`Stack`).  All this is said of who scans, and `LockInv` says
  that this is one thread: others cannot move the window.

Only model-checked: `EveryScanDelivered`, `IngestReturns` and `ScanEnds`, because liveness
is beyond this prover.  Each invariant and each other action property of a passing run
is a theorem.  `PagesInOrder` and `CompleteScan` are violated by one run each and proved
under the assumption that run breaks; what the other violation runs refute has no
such assumption in the code, so there is nothing to prove.

## 5. What is left out

- `thumb.png`, renaming, and the text of `pdf.drive_id` in a handle: only read by
  web pages.  The id itself is kept on disk.
- The folder of the year is taken to be the same all the time.
- In the job queue, one user account; accounts share the worker only.
- Writes are whole or empty.  A power failure that reorders them is not modelled;
  the crashes are those of the process.
- I/O errors that never go away.
- Deleting files other than `scan.pdf`; deleting `scan.pdf` between listing and
  opening it, which ends as `UploadPDFFails` does.
- A goroutine that nobody awaits holds its slot only until its upload is through;
  in the program it then blocks for good.  How many pile up is not counted.
- Of an account, its name, picture and Drive client; of the web UI, the pages
  and the files it serves.  Sessions do not expire.
- Of the display, Wi-Fi and power-on, the edge of its buffer of 140 bytes (`.ino:65`), and
  the topic `scan2drive/ui/user`, to which nothing reacts.
- Of `Fss500`, whose paper is scanned, how bright a pixel is and what JPEG makes of
  it; the requests before the first sheet are one step; how often the driver
  asks again (`Ric`) is any number of `NoDataYet`.  A source whose ingester is nil
  ends the process, a single fact listed as a hazard.

Not modelled at all (`not_modelled` in `PROJECT.json`), and why:

- *HTTP ingest API*, `internal/httpscaningest`: requests that share a slice without a lock.
  It would be the next model; its hazards are listed.
- *AirScan source*: mostly the external zeroconf library and a protocol of one request per
  page.  Its lock per source is the one of `Fss500`.
- *G3 encoder, PDF writer*: pure functions of bits and bytes.  What the queue depends on,
  which pages are printed and in which order, is in `ProcessScan`.
- *Supervision*: one `errgroup`, in which the worker never returns: a fact to be read off,
  not a behaviour.
- *Setup mode*: runs before the program proper, alone, and then re-executes it.
- *Error responses, the browser client*: no state of their own.
- *JPEG encoder binding*: a cgo call.  The headers under `_bundled_turbojpeg` are those of
  libjpeg-turbo: declarations of a vendored library whose code is not part of the
  repository.  They make up almost all lines of C in the repository; the rest, the
  sketch of the display, is modelled by `Display`.

## 6. Plan

What would come next, in order of importance:

1. `HttpScanIngest`: concurrent requests on one job, a retried ingest, and a job that
   stays in the map after it was ingested; composed with `StartJob`.
2. Abstract specifications of the user store (a map from users to accounts, changed in
   one step per request) and of the scanner (a stack that is turned into documents),
   which `WebUI` without overlapping requests and `Fss500` implement; `FreshIsDisk`,
   `AloneTakesEffect` and `DocumentInOrder` are what a refinement would rest on.
3. The folder of the year in `DriveSink` (`drivesink.go:35`): an upload that is repeated
   after New Year does not find the partial folder.
4. `AirScan`: discovery, with scanners that come and go during a scan, and
   `ingesterForDefault`.
5. `G3` and `PDFWriter`: pure algorithms against a reference decoder and a reference
   layout, checked over bounded inputs.
