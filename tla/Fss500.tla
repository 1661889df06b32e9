------------------------------- MODULE Fss500 -------------------------------
(***************************************************************************)
(* The USB scanner as a source of scans: internal/source/fss500/fss500.go. *)
(*                                                                         *)
(* A goroutine looks for the device, opens it, and polls its button, which *)
(* starts a scan by the same goroutine.  Meanwhile the web interface and   *)
(* the MQTT dispatcher scan from the source it has announced.  Each time   *)
(* the device is opened it gets a lock of its own, and who waits for the   *)
(* lock may wait for a device that is closed by then.                      *)
(***************************************************************************)
EXTENDS Feeder

CONSTANTS
    finder,     \* the thread of findDevice
    MaxOpens,   \* bound: times the device is opened
    MaxPlugs,   \* bound: times the device is plugged in
    MaxScans,   \* bound: scans asked for over the network
    Nobody      \* no thread holds the lock

ASSUME FinderAssumption == finder \in Thread

ASSUME NobodyAssumption == Nobody \notin Thread

ASSUME Fss500Bounds == MaxOpens \in Nat /\ MaxPlugs \in Nat /\ MaxScans \in Nat

VARIABLES
    plugs,      \* times the device was plugged in
    plugged,    \* whether it is now
    finderPc,   \* where findDevice is
    opens,      \* times the device was opened: lockedDev values made
    devs,       \* per lockedDev: the plug its open handle belongs to, or Closed
    locks,      \* per lockedDev: who holds mu
    source,     \* the lockedDev of the source that is announced, or None
    uses,       \* the lockedDev each thread scans from
    asked       \* scans asked for

deviceVars == <<plugs, plugged>>
finderVars == <<finderPc, opens, devs, locks, source>>
vars == <<feederVars, deviceVars, finderVars, uses, asked>>

None == 0
Closed == 0

Handle(d) == plugged /\ devs[d] = plugs

-----------------------------------------------------------------------------
(* The device and its user. *)

Insert ==
    /\ hopper = 0
    /\ \E n \in 1..(MaxSheets - drawn) : hopper' = n
    /\ UNCHANGED <<drawn, window, scans, deviceVars, finderVars, uses, asked>>

Plug ==
    /\ ~plugged /\ plugs < MaxPlugs
    /\ plugged' = TRUE /\ plugs' = plugs + 1
    /\ UNCHANGED <<feederVars, finderVars, uses, asked>>

Unplug ==
    /\ plugged
    /\ plugged' = FALSE
    /\ window' = [side \in Side |-> <<>>]
    /\ UNCHANGED <<hopper, drawn, scans, plugs, finderVars, uses, asked>>

-----------------------------------------------------------------------------
(* ScanTo: first the lock, then the check that the device is still there. *)

CallScanTo(t, d) ==
    /\ scans' = [scans EXCEPT ![t].pc = "lock"]
    /\ uses' = [uses EXCEPT ![t] = d]

\* The web interface or the dispatcher finds the source and scans from it.
RequestScan(t) ==
    /\ t # finder
    /\ asked < MaxScans /\ asked' = asked + 1
    /\ scans[t].pc = "idle" /\ source # None
    /\ CallScanTo(t, source)
    /\ UNCHANGED <<hopper, drawn, window, deviceVars, finderVars>>

Lock(t) ==
    /\ locks[uses[t]] = Nobody
    /\ locks' = [locks EXCEPT ![uses[t]] = t]

\* (Mutation of Unlock: no deferred Unlock.)
BugKeepsLock(t) == UNCHANGED locks

Unlock(t) == locks' = [locks EXCEPT ![uses[t]] = Nobody]

BeginScan(t) ==
    /\ scans[t].pc = "lock"
    /\ devs[uses[t]] # Closed
    /\ Lock(t)
    /\ scans' = [scans EXCEPT ![t] = StartScanning]
    /\ UNCHANGED <<hopper, drawn, window, deviceVars, finderPc, opens, devs, source, uses, asked>>

\* "scanner disappeared"
Disappeared(t) ==
    /\ scans[t].pc = "lock"
    /\ devs[uses[t]] = Closed
    /\ locks[uses[t]] = Nobody
    /\ scans' = [scans EXCEPT ![t] = NotScanning]
    /\ UNCHANGED <<hopper, drawn, window, deviceVars, finderVars, uses, asked>>

\* What takes requests of the device works on a handle that is still good.
Request(t) ==
    /\ Scanning(t) /\ Handle(uses[t])
    /\ FeedSheet(t) \/ HopperEmpty(t) \/ ReadData(t) \/ NoDataYet(t)
    /\ UNCHANGED <<deviceVars, finderVars, uses, asked>>

Inside(t) ==
    /\ Send(t) \/ SendRest(t) \/ AddPage(t)
    /\ UNCHANGED <<deviceVars, finderVars, uses, asked>>

Encoding(t) ==
    /\ \E side \in Side : Encode(t, side)
    /\ UNCHANGED <<deviceVars, finderVars, uses, asked>>

\* The scan fails, and the deferred Unlock runs.
ScanFails(t) ==
    /\ Scanning(t)
    /\ RequestFails(t) \/ (Handle(uses[t]) /\ NoDocument(t))
    /\ Unlock(t)
    /\ UNCHANGED <<deviceVars, finderPc, opens, devs, source, uses, asked>>

\* The lock is held until the worker has taken the job.
Ingest(t) ==
    /\ scans[t].pc = "ingest"
    /\ scans' = [scans EXCEPT ![t] = NotScanning]
    /\ Unlock(t)
    /\ UNCHANGED <<hopper, drawn, window, deviceVars, finderPc, opens, devs, source, uses, asked>>

-----------------------------------------------------------------------------
(* findDevice, called again and again. *)

OpenDevice ==
    /\ finderPc = "find"
    /\ plugged /\ opens < MaxOpens
    /\ opens' = opens + 1
    /\ devs' = Append(devs, plugs)
    /\ locks' = Append(locks, Nobody)
    /\ source' = opens + 1
    /\ finderPc' = "poll"
    /\ UNCHANGED <<feederVars, deviceVars, uses, asked>>

\* GetHardwareStatus, under the lock, sees the button pressed.
ButtonPressed ==
    /\ finderPc = "poll" /\ scans[finder].pc = "idle"
    /\ locks[opens] = Nobody
    /\ Handle(opens)
    /\ CallScanTo(finder, opens)
    /\ UNCHANGED <<hopper, drawn, window, deviceVars, finderVars, asked>>

\* It fails, and the loop ends.
StatusFails ==
    /\ finderPc = "poll" /\ scans[finder].pc = "idle"
    /\ locks[opens] = Nobody
    /\ finderPc' = "close"
    /\ UNCHANGED <<feederVars, deviceVars, opens, devs, locks, source, uses, asked>>

\* (Mutation of CloseDevice: the device is closed without its lock.)
BugClosesUnlocked ==
    /\ finderPc = "close"
    /\ devs' = [devs EXCEPT ![opens] = Closed]
    /\ finderPc' = "forget"
    /\ UNCHANGED <<feederVars, deviceVars, opens, locks, source, uses, asked>>

CloseDevice ==
    /\ finderPc = "close"
    /\ locks[opens] = Nobody
    /\ devs' = [devs EXCEPT ![opens] = Closed]
    /\ finderPc' = "forget"
    /\ UNCHANGED <<feederVars, deviceVars, opens, locks, source, uses, asked>>

\* The deferred function runs last: until then a closed source is announced.
ForgetSource ==
    /\ finderPc = "forget"
    /\ source' = None
    /\ finderPc' = "find"
    /\ UNCHANGED <<feederVars, deviceVars, opens, devs, locks, uses, asked>>

Finder == OpenDevice \/ ButtonPressed \/ StatusFails \/ CloseDevice \/ ForgetSource

ScanTo(t) ==
    \/ BeginScan(t) \/ Disappeared(t)
    \/ Request(t) \/ Inside(t) \/ Encoding(t) \/ ScanFails(t) \/ Ingest(t)

Init ==
    /\ FeederInit
    /\ plugs = 0 /\ plugged = FALSE
    /\ finderPc = "find" /\ opens = 0 /\ devs = <<>> /\ locks = <<>> /\ source = None
    /\ uses = [t \in Thread |-> None]
    /\ asked = 0

Next ==
    \/ Insert \/ Plug \/ Unplug
    \/ Finder
    \/ \E t \in Thread : RequestScan(t) \/ ScanTo(t)

\* Goroutines run, an unlocked mutex is given to who waits, the worker takes the
\* job, and the scanner does not report for ever that a side has no data yet.
Answer(t, side) == scans[t].side = side /\ ReadData(t) /\ Request(t)

Works(t) ==
    \/ scans[t].pc = "position" /\ (Request(t) \/ ScanFails(t))
    \/ ScanFails(t) /\ ~Handle(uses[t])
    \/ Answer(t, front) \/ Inside(t) \/ Encoding(t) \/ Ingest(t)

Fairness ==
    \A t \in Thread :
        WF_vars(Works(t)) /\ SF_vars(Answer(t, back)) /\ SF_vars(BeginScan(t) \/ Disappeared(t))

Spec == Init /\ [][Next]_vars /\ Fairness

-----------------------------------------------------------------------------
(* Properties. *)

\* What is kept of a side is less than a block, a scan has the pages of whole
\* sheets and of a front at most, and what a thread scans from was opened once.
TypeOK ==
    /\ FeederTypeOK
    /\ plugs \in 0..MaxPlugs /\ plugged \in BOOLEAN
    /\ finderPc \in {"find", "poll", "close", "forget"}
    /\ opens \in 0..MaxOpens /\ source \in 0..opens
    /\ devs \in Seq(0..plugs) /\ Len(devs) = opens
    /\ locks \in Seq(Thread \cup {Nobody}) /\ Len(locks) = opens
    /\ uses \in [Thread -> 0..opens] /\ asked \in 0..MaxScans
    /\ \A t \in Thread :
        /\ scans[t].side \in Side /\ scans[t].paper <= drawn
        /\ Len(scans[t].pages) \in {2 * scans[t].paper, 2 * scans[t].paper + 1}
        /\ scans[t].state # <<>> =>
              \A side \in Side : Len(scans[t].state[side].rest) < Block

\* The comment in scan1: the feeder "scans the last page first, so we need to reverse
\* the order".  A job that is ingested holds the pages of all sheets drawn in by its
\* scan and of no other, in document order, each with every row of its side once.
DocumentInOrder ==
    \A t \in Thread : scans[t].pc = "ingest" =>
        LET pages == scans[t].pages IN
        /\ Len(pages) = 2 * scans[t].paper
        /\ \A i \in DOMAIN pages : IsPage(pages[i], PageNumber(drawn, back) + 1 - i)

\* The encoder is given whole blocks, although the responses of the scanner are no
\* multiple of a block and the padding, height % 16, suits half a block only.
WholeBlocksEncoded ==
    \A t \in Thread : scans[t].state # <<>> =>
        \A side \in Side : ReadsPixels(scans[t].state[side]) % Block = 0

\* Although each opening of the device has a lock of its own, one thread at a time
\* scans, and from a device that is not closed under it.
ScansAlone ==
    \A t \in Thread : Scanning(t) =>
        /\ devs[uses[t]] # Closed /\ uses[t] = opens
        /\ \A u \in Thread \ {t} : ~Scanning(u)

\* A scan ends, with success or not: its goroutine, those that encode and those that
\* wait for the device never wait for each other in a circle.
ScanEnds == \A t \in Thread : scans[t].pc # "idle" ~> scans[t].pc = "idle"
=============================================================================
