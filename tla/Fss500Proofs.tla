---------------------------- MODULE Fss500Proofs ----------------------------
(***************************************************************************)
(* Proofs about Fss500, for any number of threads, sheets, rows, times the *)
(* device is opened and scans: one thread at a time scans, the document it *)
(* makes is in order and complete, and the encoder gets whole blocks.      *)
(***************************************************************************)
EXTENDS Fss500, SequenceTheorems, TLAPS

-----------------------------------------------------------------------------
(* Who scans holds the lock of a device that is open, and only the device  *)
(* that was opened last can be open.                                       *)

\* The calls of scan are records of which only the program counter matters here.
ScansShape ==
    /\ scans = [t \in Thread |-> scans[t]]
    /\ \A t \in Thread : "pc" \in DOMAIN scans[t]

DevicesType ==
    /\ plugs \in Nat /\ plugged \in BOOLEAN /\ (plugged => plugs > 0)
    /\ opens \in Nat /\ source \in 0..opens
    /\ finderPc \in {"find", "poll", "close", "forget"}
    /\ finderPc \in {"poll", "close"} => opens > 0
    /\ devs \in [1..opens -> Nat]
    /\ locks \in [1..opens -> Thread \cup {Nobody}]
    /\ uses \in [Thread -> 0..opens]

OldOnesClosed ==
    \A d \in 1..opens : d < opens \/ finderPc \in {"find", "forget"} => devs[d] = Closed

UsesOpened == \A t \in Thread : scans[t].pc # "idle" => uses[t] \in 1..opens

HoldsOpen ==
    \A t \in Thread : Scanning(t) => locks[uses[t]] = t /\ devs[uses[t]] # Closed

LockInv == ScansShape /\ DevicesType /\ OldOnesClosed /\ UsesOpened /\ HoldsOpen

-----------------------------------------------------------------------------
(* What the steps of a thread change. *)

devices == <<deviceVars, finderVars, uses>>

\* A scan that goes on.
GoesOn(t) ==
    /\ UNCHANGED devices
    /\ ScansShape'
    /\ \A u \in Thread \ {t} : scans'[u] = scans[u]
    /\ scans'[t].pc \in {"idle", "lock"} <=> scans[t].pc \in {"idle", "lock"}
    /\ scans'[t].pc # "idle" => scans[t].pc # "idle"

LEMMA ReadDataSends ==
    ASSUME ScansShape, NEW t \in Thread, ReadData(t)
    PROVE  \E s : scans' = [scans EXCEPT ![t] = s] /\ "pc" \in DOMAIN s /\ s.pc = "send"
<1> DEFINE side == scans[t].side
           left == window[side]
           n    == IF Len(left) < ReadRows THEN Len(left) ELSE ReadRows
           buf  == scans[t].state[side].rest \o SubSeq(left, 1, n)
           cut  == WholeBlocks(buf)
           s(eop) == [scans[t] EXCEPT !.pc = "send", !.eop = eop, !.chunk = SubSeq(buf, 1, cut),
                                      !.state[side].rest = SubSeq(buf, cut + 1, Len(buf))]
<1>1. PICK eop \in BOOLEAN : scans' = [scans EXCEPT ![t] = s(eop)]
  BY DEF ReadData, ScansShape
<1>2. "pc" \in DOMAIN s(eop) /\ s(eop).pc = "send"
  BY DEF ScansShape
<1>3. QED
  BY <1>1, <1>2, Zenon

LEMMA RequestGoesOn ==
    ASSUME ScansShape, NEW t \in Thread, Request(t)
    PROVE  GoesOn(t)
<1> USE DEF ScansShape, GoesOn, devices, Scanning
<1>0. UNCHANGED devices /\ Scanning(t)
  BY DEF Request, deviceVars, finderVars
<1>1. CASE FeedSheet(t)
  BY <1>0, <1>1 DEF FeedSheet
<1>2. CASE HopperEmpty(t)
  BY <1>0, <1>2 DEF HopperEmpty
<1>3. CASE ReadData(t)
  BY <1>0, <1>3, ReadDataSends
<1>4. CASE NoDataYet(t)
  BY <1>0, <1>4 DEF NoDataYet
<1>5. QED
  BY <1>1, <1>2, <1>3, <1>4 DEF Request

LEMMA InsideGoesOn ==
    ASSUME ScansShape, NEW t \in Thread, Inside(t)
    PROVE  GoesOn(t)
<1> USE DEF ScansShape, GoesOn, devices, Scanning
<1>0. UNCHANGED devices
  BY DEF Inside, deviceVars, finderVars
<1>1. CASE Send(t)
  BY <1>0, <1>1 DEF Send
<1>2. CASE SendRest(t)
  BY <1>0, <1>2 DEF SendRest
<1>3. CASE AddPage(t)
  BY <1>0, <1>3 DEF AddPage
<1>4. QED
  BY <1>1, <1>2, <1>3 DEF Inside

LEMMA EncodingGoesOn ==
    ASSUME ScansShape, NEW t \in Thread, Encoding(t)
    PROVE  GoesOn(t)
BY DEF ScansShape, GoesOn, devices, Scanning, Encoding, Encode, deviceVars, finderVars

LEMMA GoesOnKeeps ==
    ASSUME LockInv, NEW t \in Thread, GoesOn(t)
    PROVE  LockInv'
<1>1. UNCHANGED <<plugs, plugged, finderPc, opens, devs, locks, source, uses>> /\ ScansShape'
  BY DEF GoesOn, devices, deviceVars, finderVars
<1>2. DevicesType' /\ OldOnesClosed'
  BY <1>1 DEF LockInv, DevicesType, OldOnesClosed
<1>3. UsesOpened'
  BY <1>1 DEF LockInv, UsesOpened, GoesOn
<1>4. HoldsOpen'
  BY <1>1 DEF LockInv, HoldsOpen, GoesOn, Scanning
<1>5. QED
  BY <1>1, <1>2, <1>3, <1>4 DEF LockInv

\* A scan that ends, and gives the lock back.
LEMMA EndKeeps ==
    ASSUME LockInv, NEW t \in Thread, Scanning(t),
           scans' = [scans EXCEPT ![t] = NotScanning], Unlock(t),
           UNCHANGED <<deviceVars, finderPc, opens, devs, source, uses>>
    PROVE  LockInv'
<1> USE DEF LockInv
<1>1. /\ uses[t] \in 1..opens /\ locks' = [locks EXCEPT ![uses[t]] = Nobody]
      /\ locks[uses[t]] = t
  BY DEF UsesOpened, HoldsOpen, Scanning, Unlock
<1>2. ScansShape' /\ \A u \in Thread \ {t} : scans'[u] = scans[u]
  BY DEF ScansShape, NotScanning
<1>3. scans'[t].pc = "idle"
  BY DEF ScansShape, NotScanning
<1>4. DevicesType' /\ OldOnesClosed'
  BY <1>1 DEF DevicesType, OldOnesClosed, deviceVars
<1>5. UsesOpened'
  BY <1>2, <1>3 DEF UsesOpened
<1>6. HoldsOpen'
  BY <1>1, <1>2, <1>3 DEF HoldsOpen, UsesOpened, DevicesType, Scanning
<1>7. QED
  BY <1>2, <1>4, <1>5, <1>6

-----------------------------------------------------------------------------
(* The steps of a thread. *)

LEMMA ScanToKeeps ==
    ASSUME LockInv, NEW t \in Thread, ScanTo(t)
    PROVE  LockInv'
<1> USE DEF LockInv
<1>1. CASE BeginScan(t)
  <2>1. /\ scans[t].pc = "lock" /\ uses[t] \in 1..opens
        /\ devs[uses[t]] # Closed /\ locks[uses[t]] = Nobody
        /\ locks' = [locks EXCEPT ![uses[t]] = t]
        /\ scans' = [scans EXCEPT ![t] = StartScanning]
        /\ UNCHANGED <<plugs, plugged, finderPc, opens, devs, source, uses>>
    BY <1>1 DEF BeginScan, Lock, UsesOpened, deviceVars
  <2>2. ScansShape' /\ \A u \in Thread \ {t} : scans'[u] = scans[u]
    BY <2>1 DEF ScansShape, StartScanning, NotScanning
  <2>3. scans'[t].pc = "position"
    BY <2>1 DEF ScansShape, StartScanning, NotScanning
  <2>4. DevicesType' /\ OldOnesClosed'
    BY <2>1 DEF DevicesType, OldOnesClosed
  <2>5. UsesOpened'
    BY <2>1, <2>2 DEF UsesOpened
  <2>6. HoldsOpen'
    BY <2>1, <2>2, <2>3, NobodyAssumption DEF HoldsOpen, UsesOpened, DevicesType, Scanning
  <2>7. QED
    BY <2>2, <2>4, <2>5, <2>6
<1>2. CASE Disappeared(t)
  <2>1. /\ scans' = [scans EXCEPT ![t] = NotScanning]
        /\ UNCHANGED <<plugs, plugged, finderPc, opens, devs, locks, source, uses>>
    BY <1>2 DEF Disappeared, deviceVars, finderVars
  <2>2. ScansShape' /\ \A u \in Thread \ {t} : scans'[u] = scans[u]
    BY <2>1 DEF ScansShape, NotScanning
  <2>3. scans'[t].pc = "idle"
    BY <2>1 DEF ScansShape, NotScanning
  <2>4. QED
    BY <2>1, <2>2, <2>3 DEF DevicesType, OldOnesClosed, UsesOpened, HoldsOpen, Scanning
<1>3. CASE Request(t) \/ Inside(t) \/ Encoding(t)
  BY <1>3, RequestGoesOn, InsideGoesOn, EncodingGoesOn, GoesOnKeeps
<1>4. CASE ScanFails(t)
  <2>1. scans' = [scans EXCEPT ![t] = NotScanning]
    BY <1>4 DEF ScanFails, RequestFails, NoDocument
  <2>2. Scanning(t) /\ Unlock(t) /\ UNCHANGED <<deviceVars, finderPc, opens, devs, source, uses>>
    BY <1>4, Zenon DEF ScanFails
  <2>3. QED
    BY <2>1, <2>2, EndKeeps, Zenon
<1>5. CASE Ingest(t)
  <2>1. Scanning(t)
    BY <1>5 DEF Ingest, Scanning
  <2>2. /\ scans' = [scans EXCEPT ![t] = NotScanning]
        /\ Unlock(t) /\ UNCHANGED <<deviceVars, finderPc, opens, devs, source, uses>>
    BY <1>5, Zenon DEF Ingest
  <2>3. QED
    BY <2>1, <2>2, EndKeeps, Zenon
<1>6. QED
  BY <1>1, <1>2, <1>3, <1>4, <1>5 DEF ScanTo

\* Calls that begin to wait for a lock.
LEMMA CallKeeps ==
    ASSUME LockInv, NEW t \in Thread, NEW d \in 1..opens, scans[t].pc = "idle", CallScanTo(t, d),
           UNCHANGED <<deviceVars, finderVars>>
    PROVE  LockInv'
<1> USE DEF LockInv
<1>1. /\ scans' = [scans EXCEPT ![t].pc = "lock"] /\ uses' = [uses EXCEPT ![t] = d]
      /\ UNCHANGED <<plugs, plugged, finderPc, opens, devs, locks, source>>
  BY DEF CallScanTo, deviceVars, finderVars
<1>2. ScansShape' /\ scans'[t].pc = "lock" /\ \A u \in Thread \ {t} : scans'[u] = scans[u]
  BY <1>1 DEF ScansShape
<1>3. DevicesType' /\ OldOnesClosed'
  BY <1>1 DEF DevicesType, OldOnesClosed
<1>4. UsesOpened'
  BY <1>1, <1>2 DEF UsesOpened, DevicesType
<1>5. HoldsOpen'
  BY <1>1, <1>2 DEF HoldsOpen, DevicesType, Scanning
<1>6. QED
  BY <1>2, <1>3, <1>4, <1>5

-----------------------------------------------------------------------------
(* The goroutine that looks for the device. *)

LEMMA FinderKeeps ==
    ASSUME LockInv, Finder
    PROVE  LockInv'
<1> USE DEF LockInv
<1>1. CASE OpenDevice
  <2>1. /\ plugs \in Nat /\ plugs > 0 /\ opens' = opens + 1 /\ source' = opens + 1
        /\ finderPc = "find" /\ finderPc' = "poll"
        /\ devs' = Append(devs, plugs) /\ locks' = Append(locks, Nobody)
        /\ UNCHANGED <<plugs, plugged, scans, uses>>
    BY <1>1 DEF OpenDevice, DevicesType, feederVars, deviceVars
  <2>2. devs \in Seq(Nat) /\ Len(devs) = opens
    BY DEF DevicesType
  <2>3. locks \in Seq(Thread \cup {Nobody}) /\ Len(locks) = opens
    BY DEF DevicesType
  <2>4. /\ devs' \in [1..opens' -> Nat] /\ \A d \in 1..opens : devs'[d] = devs[d]
        /\ devs'[opens'] = plugs
    <3>1. devs' \in Seq(Nat) /\ Len(devs') = opens + 1
      BY <2>1, <2>2, AppendProperties
    <3>2. /\ \A d \in 1..opens : devs'[d] = devs[d]
          /\ devs'[opens + 1] = plugs
      BY <2>1, <2>2, AppendProperties
    <3>3. QED
      BY <2>1, <3>1, <3>2, LenProperties
  <2>5. /\ locks' \in [1..opens' -> Thread \cup {Nobody}]
        /\ \A d \in 1..opens : locks'[d] = locks[d]
    <3>1. locks' \in Seq(Thread \cup {Nobody}) /\ Len(locks') = opens + 1
      BY <2>1, <2>3, AppendProperties
    <3>2. \A d \in 1..opens : locks'[d] = locks[d]
      BY <2>1, <2>3, AppendProperties
    <3>3. QED
      BY <2>1, <3>1, <3>2, LenProperties
  <2>6. DevicesType'
    BY <2>1, <2>4, <2>5 DEF DevicesType
  <2>7. OldOnesClosed'
    BY <2>1, <2>4 DEF OldOnesClosed, DevicesType
  <2>8. ScansShape' /\ UsesOpened' /\ HoldsOpen'
    BY <2>1, <2>4, <2>5 DEF ScansShape, UsesOpened, HoldsOpen, DevicesType, Scanning
  <2>9. QED
    BY <2>6, <2>7, <2>8
<1>2. CASE ButtonPressed
  <2>1. finder \in Thread /\ opens \in 1..opens
    BY <1>2, FinderAssumption DEF ButtonPressed, DevicesType
  <2>2. QED
    BY <1>2, <2>1, CallKeeps DEF ButtonPressed
<1>3. CASE StatusFails
  <2>1. /\ finderPc = "poll" /\ finderPc' = "close"
        /\ UNCHANGED <<plugs, plugged, scans, opens, devs, locks, source, uses>>
    BY <1>3 DEF StatusFails, feederVars, deviceVars
  <2>2. QED
    BY <2>1 DEF ScansShape, DevicesType, OldOnesClosed, UsesOpened, HoldsOpen, Scanning
<1>4. CASE CloseDevice
  <2>1. /\ finderPc = "close" /\ finderPc' = "forget" /\ locks[opens] = Nobody
        /\ devs' = [devs EXCEPT ![opens] = Closed]
        /\ UNCHANGED <<plugs, plugged, scans, opens, locks, source, uses>>
    BY <1>4 DEF CloseDevice, feederVars, deviceVars
  <2>2. DevicesType'
    BY <2>1 DEF DevicesType, Closed
  <2>3. OldOnesClosed'
    BY <2>1 DEF OldOnesClosed, DevicesType
  <2>4. HoldsOpen'
    BY <2>1, NobodyAssumption DEF HoldsOpen, UsesOpened, DevicesType, Scanning
  <2>5. QED
    BY <2>1, <2>2, <2>3, <2>4 DEF ScansShape, UsesOpened
<1>5. CASE ForgetSource
  <2>1. /\ finderPc = "forget" /\ finderPc' = "find" /\ source' = 0
        /\ UNCHANGED <<plugs, plugged, scans, opens, devs, locks, uses>>
    BY <1>5 DEF ForgetSource, None, feederVars, deviceVars
  <2>2. QED
    BY <2>1 DEF ScansShape, DevicesType, OldOnesClosed, UsesOpened, HoldsOpen, Scanning
<1>6. QED
  BY <1>1, <1>2, <1>3, <1>4, <1>5 DEF Finder

-----------------------------------------------------------------------------
LEMMA LockInit == Init => LockInv
<1> SUFFICES ASSUME Init PROVE LockInv
  OBVIOUS
<1>1. ScansShape /\ \A t \in Thread : scans[t].pc = "idle"
  BY DEF Init, FeederInit, ScansShape, NotScanning
<1>2. DevicesType
  <2>1. opens = 0 /\ devs = <<>> /\ locks = <<>>
    BY DEF Init
  <2>2. devs \in [1..opens -> Nat] /\ locks \in [1..opens -> Thread \cup {Nobody}]
    BY <2>1
  <2>3. plugs = 0 /\ source = 0 /\ finderPc = "find" /\ uses \in [Thread -> 0..opens]
    BY <2>1 DEF Init, None
  <2>4. plugged \in BOOLEAN /\ ~plugged
    BY Zenon DEF Init
  <2>5. QED
    BY <2>1, <2>2, <2>3, <2>4 DEF DevicesType
<1>3. OldOnesClosed
  BY DEF Init, OldOnesClosed
<1>4. QED
  BY <1>1, <1>2, <1>3 DEF LockInv, UsesOpened, HoldsOpen, Scanning

LEMMA LockStep == LockInv /\ [Next]_vars => LockInv'
<1> SUFFICES ASSUME LockInv, [Next]_vars PROVE LockInv'
  OBVIOUS
<1> USE DEF LockInv
<1>1. CASE Insert \/ Unplug
  <2>1. UNCHANGED <<plugs, scans, finderVars, uses>> /\ plugged' \in {plugged, FALSE}
    BY <1>1 DEF Insert, Unplug, deviceVars
  <2>2. plugged' \in BOOLEAN /\ (plugged' => plugs' > 0)
    <3>1. CASE plugged' = plugged
      BY <2>1, <3>1 DEF DevicesType
    <3>2. CASE plugged' = FALSE
      BY <3>2
    <3>3. QED
      BY <2>1, <3>1, <3>2
  <2>3. DevicesType'
    BY <2>1, <2>2 DEF finderVars, DevicesType
  <2>4. QED
    BY <2>1, <2>3 DEF finderVars, ScansShape, OldOnesClosed, UsesOpened, HoldsOpen, Scanning
<1>2. CASE Plug
  BY <1>2 DEF Plug, feederVars, finderVars, ScansShape, DevicesType, OldOnesClosed, UsesOpened,
              HoldsOpen, Scanning
<1>3. CASE Finder
  BY <1>3, FinderKeeps
<1>4. ASSUME NEW t \in Thread, RequestScan(t)
      PROVE  LockInv'
  <2>1. source \in 1..opens /\ CallScanTo(t, source) /\ scans[t].pc = "idle"
        /\ UNCHANGED <<deviceVars, finderVars>>
    BY <1>4 DEF RequestScan, DevicesType, None
  <2>2. QED
    BY <2>1, CallKeeps
<1>5. ASSUME NEW t \in Thread, ScanTo(t)
      PROVE  LockInv'
  BY <1>5, ScanToKeeps
<1>6. CASE UNCHANGED vars
  BY <1>6 DEF vars, feederVars, deviceVars, finderVars, ScansShape, DevicesType, OldOnesClosed,
              UsesOpened, HoldsOpen, Scanning
<1>7. QED
  BY <1>1, <1>2, <1>3, <1>4, <1>5, <1>6 DEF Next

-----------------------------------------------------------------------------
(* The rows of a page that a goroutine has, and those it has encoded. *)

\* Rows a + 1 to b of a page, as the scanner has sent them or will.
Strip(p, a, b) == [i \in 1..(b - a) |-> <<p, a + i>>]

LEMMA StripLen ==
    \A p, a, b : a \in Nat /\ b \in Nat /\ a <= b =>
        Len(Strip(p, a, b)) = b - a
BY DEF Strip

LEMMA StripTop ==
    ASSUME NEW p, NEW a \in Nat, NEW b \in Nat, a <= b
    PROVE  /\ Len(Strip(p, 0, a)) = a
           /\ Strip(p, 0, a) \o Strip(p, a, b) = Strip(p, 0, b)
BY DEF Strip

\* SubSeq and \o, by names of their own: a lemma about them is found as it is written.
Cut(rows, i, j) == SubSeq(rows, i, j)

Joined(rows, more) == rows \o more

LEMMA StripCut ==
    \A p, a, b, i, j :
        a \in Nat /\ b \in Nat /\ i \in Nat /\ j \in Nat /\ 1 <= i /\ i <= j + 1 /\ a + j <= b =>
            Cut(Strip(p, a, b), i, j) = Strip(p, a + (i - 1), a + j)
BY DEF Cut, Strip

LEMMA StripJoined ==
    \A p, a, b, c :
        a \in Nat /\ b \in Nat /\ c \in Nat /\ a <= b /\ b <= c =>
            Joined(Strip(p, a, b), Strip(p, b, c)) = Strip(p, a, c)
BY DEF Joined, Strip

LEMMA StripNone ==
    ASSUME NEW p, NEW a \in Nat
    PROVE  Strip(p, a, a) = <<>>
BY DEF Strip

\* The binarized page and the encoded one, with the first e rows of the scan.
FilledTo(p, e) == [n \in 1..Rows |-> IF Rotated(n) <= e THEN <<p, Rotated(n)>> ELSE Blank]

PageTo(p, e) == [jpeg |-> Strip(p, 0, e), bin |-> FilledTo(p, e)]

\* Pages with all their rows, by descending number of the sheet once they are reversed.
Stack(first, n) == [i \in 1..n |-> PageTo(first + i, Rows)]

LEMMA StackAppend ==
    ASSUME NEW first \in Nat, NEW n \in Nat, NEW p \in Nat, p = first + n + 1
    PROVE  Append(Stack(first, n), PageTo(p, Rows)) = Stack(first, n + 1)
BY DEF Stack

LEMMA StackLen ==
    ASSUME NEW first \in Nat, NEW n \in Nat
    PROVE  Len(Stack(first, n)) = n /\ DOMAIN Stack(first, n) = 1..n
BY DEF Stack

LEMMA StackReversed ==
    ASSUME NEW first \in Nat, NEW n \in Nat, NEW pages, pages = Reverse(Stack(first, n))
    PROVE  /\ Len(pages) = n /\ DOMAIN pages = 1..n
           /\ \A i \in 1..n : pages[i] = PageTo(first + (n - i + 1), Rows)
BY DEF Reverse, Stack

LEMMA WholePage == ASSUME NEW p \in Nat PROVE IsPage(PageTo(p, Rows), p)
<1>1. Rows \in Nat BY FeederBounds
<1>2. FilledTo(p, Rows) = [n \in 1..Rows |-> <<p, Rotated(n)>>] BY <1>1 DEF FilledTo, Rotated
<1>3. Strip(p, 0, Rows) = RowsOf(p) BY <1>1 DEF Strip, RowsOf
<1>4. QED BY <1>2, <1>3 DEF IsPage, PageTo

-----------------------------------------------------------------------------
(* Blocks. *)

Multiple(n) == \E q \in Nat : n = q * Block

\* What ReadData cuts off is a multiple of a block, and less than one stays.
LEMMA WholeArith ==
    ASSUME NEW c \in Nat, NEW L \in Nat, Multiple(c)
    PROVE  LET m == (L \div Block) * Block IN
           m \in Nat /\ m <= L /\ L - m < Block /\ Multiple(c + m)
<1>1. PICK q \in Nat : c = q * Block BY DEF Multiple
<1>2. Block \in Nat /\ Block > 0 BY FeederBounds
<1> DEFINE d == L \div Block
<1>3. d \in Nat BY <1>2
<1>4. L = d * Block + (L % Block) /\ L % Block \in 0..(Block-1) BY <1>2
<1>5. d * Block \in Nat BY <1>3, <1>2
<1>6. c + d * Block = (q + d) * Block BY <1>1, <1>3, <1>2
<1>7. Multiple(c + d * Block) BY <1>6, <1>3 DEF Multiple
<1>8. QED BY <1>3,<1>4,<1>5,<1>7, <1>2

LEMMA Remainder ==
    ASSUME NEW q \in Nat, NEW r \in Nat, r < Block
    PROVE  (q * Block + r) % Block = r
<1>1. Block \in Nat /\ Block > 0 BY FeederBounds
<1>2. QED BY <1>1

LEMMA MultipleMod ==
    ASSUME NEW a \in Nat, NEW b \in Nat, a <= b, Multiple(a), Multiple(b)
    PROVE  (b - a) % Block = 0
<1>1. Block \in Nat /\ Block > 0 BY FeederBounds
<1>2. PICK q \in Nat : a = q * Block BY DEF Multiple
<1>3. PICK r \in Nat : b = r * Block BY DEF Multiple
<1>4. b - a = (r - q) * Block BY <1>2, <1>3, <1>1
<1>5. r - q \in Nat BY <1>2, <1>3, <1>1
<1>6. QED BY <1>4, <1>5, <1>1, Remainder

-----------------------------------------------------------------------------
(* Where a scan is, told by how far each side has come: rows that were read *)
(* (got), cut off for the encoder (cut), handed to it (given), encoded.      *)

Counts == [pc : {"receive", "encode", "done"}, encoded : 0..Rows, given : 0..Rows,
           cut : 0..Rows, got : 0..Rows]

\* A side of page p, as far as k says.
SideTo(p, k) ==
    [rest |-> Strip(p, k.cut, k.got), pc |-> k.pc, chunk |-> Strip(p, k.encoded, k.given),
     page |-> PageTo(p, k.encoded)]

Waiting(s) == s \in {NotScanning, [NotScanning EXCEPT !.pc = "lock"]}

\* Between two sheets, and after the last one.
Between(s, d) ==
    /\ s.paper \in 0..d /\ s.side \in Side /\ s.eop \in BOOLEAN
    /\ LET pages == Stack(2 * (d - s.paper) + 1, 2 * s.paper) IN
        \/ s.pc = "position" /\ s.pages = pages
        \/ s.pc = "ingest" /\ s.pages = Reverse(pages)
    /\ s = [pc |-> s.pc, paper |-> s.paper, side |-> s.side, eop |-> s.eop, chunk |-> <<>>,
            state |-> <<>>, pages |-> s.pages]

\* Where SendRest has sent the last rows: at this point of scan1, and of that side.
Flushed(pc, at, side) ==
    \/ pc = "close" /\ (at = back \/ side = front)
    \/ pc = "flush" /\ at = back /\ side = front

\* How far the rows of a side are.  Before the last ones, whole blocks go to the encoder.
Progress(pc, at, c, side) ==
    /\ c.encoded <= c.given /\ c.cut <= c.got
    /\ c.pc # "encode" => c.encoded = c.given
    /\ Multiple(c.cut) /\ c.got - c.cut < Block
    /\ Flushed(pc, at, side) =>
        /\ c.given = Rows /\ c.got = Rows
        /\ c.encoded \in {c.cut, Rows}
    /\ ~Flushed(pc, at, side) =>
        /\ Multiple(c.encoded) /\ Multiple(c.given)
        /\ c.given <= c.cut
        /\ c.given = c.cut \/ (pc = "send" /\ at = side)

\* Front and back are read in turns, so that the back ends last.
InTurns(pc, at, eop, f, b) ==
    /\ b.got <= f.got
    /\ (pc = "read" /\ at = back) \/ (pc = "send" /\ at = front) =>
           f.got = Rows \/ b.got + ReadRows <= f.got
    /\ pc \in {"flush", "close"} \/ (pc = "send" /\ at = back /\ eop) =>
           f.got = Rows /\ b.got = Rows

Paces(s, k) ==
    /\ \A side \in Side : Progress(s.pc, s.side, k[side], side)
    /\ InTurns(s.pc, s.side, s.eop, k[front], k[back])

PagesDone(s) == 2 * s.paper + IF s.pc \in {"flush", "close"} THEN s.side ELSE 0

InHand(s, d, k) ==
    IF s.pc = "send" THEN Strip(PageNumber(d, s.side), k[s.side].given, k[s.side].cut) ELSE <<>>

\* On the sheet that was drawn in last, whose pages are to follow those of the sheets before.
OnSheet(s, d, k) ==
    /\ d > 0 /\ s.paper \in 0..(d - 1)
    /\ s.pc \in {"read", "send", "flush", "close"} /\ s.side \in Side /\ s.eop \in BOOLEAN
    /\ s = [pc |-> s.pc, paper |-> s.paper, side |-> s.side, eop |-> s.eop,
            chunk |-> InHand(s, d, k),
            state |-> [side \in Side |-> SideTo(PageNumber(d, side), k[side])],
            pages |-> Stack(2 * (d - 1 - s.paper) + 1, PagesDone(s))]
    /\ Paces(s, k)

\* The scanner has the rest of both sides, while it is the one the scan began with.
Ahead(s, d, w, k) ==
    s.pc \in {"read", "send"} =>
        w = [side \in Side |-> Strip(PageNumber(d, side), k[side].got, Rows)]

Orderly(s, d, w, good) ==
    \/ Waiting(s)
    \/ Between(s, d)
    \/ \E k \in [Side -> Counts] : OnSheet(s, d, k) /\ (good => Ahead(s, d, w, k))

LEMMA Sides ==
    /\ front \in Side /\ back \in Side /\ front # back /\ Side = {front, back}
    /\ \A side \in Side :
        /\ 1 - side \in Side /\ 1 - side # side
        /\ (1 - side = front <=> side = back) /\ (1 - side = back <=> side = front)
BY DEF Side, front, back

LEMMA CountsType ==
    ASSUME NEW c \in Counts
    PROVE  /\ c.encoded \in Nat /\ c.given \in Nat /\ c.cut \in Nat /\ c.got \in Nat
           /\ c.got <= Rows /\ c.cut <= Rows /\ c.given <= Rows /\ c.encoded <= Rows
           /\ Rows \in Nat /\ Block \in Nat /\ Block > 0
           /\ ReadRows \in Nat /\ ReadRows > Block
BY FeederBounds DEF Counts

LEMMA SheetFields ==
    ASSUME NEW s, NEW d \in Nat, NEW k, OnSheet(s, d, k)
    PROVE  /\ s.side \in Side /\ s.eop \in BOOLEAN /\ s.paper \in Nat /\ s.paper < d
           /\ s.chunk = InHand(s, d, k)
           /\ s.state = [side \in Side |-> SideTo(PageNumber(d, side), k[side])]
           /\ \A side \in Side : s.state[side] = SideTo(PageNumber(d, side), k[side])
           /\ s.pages = Stack(2 * (d - 1 - s.paper) + 1, PagesDone(s))
           /\ Paces(s, k)
<1>1. s.state = [side \in Side |-> SideTo(PageNumber(d, side), k[side])]
  BY DEF OnSheet
<1>2. \A side \in Side : s.state[side] = SideTo(PageNumber(d, side), k[side])
  BY <1>1
<1>3. QED
  BY <1>1, <1>2 DEF OnSheet

LEMMA SheetScans ==
    ASSUME NEW s, NEW d, NEW k, OnSheet(s, d, k)
    PROVE  s.pc \in {"read", "send", "flush", "close"}
BY DEF OnSheet

LEMMA BetweenFields ==
    ASSUME NEW s, NEW d \in Nat, Between(s, d)
    PROVE  /\ s.paper \in Nat /\ s.paper <= d /\ s.side \in Side /\ s.eop \in BOOLEAN
           /\ s.chunk = <<>> /\ s.state = <<>>
           /\ s.pc = "position" => s.pages = Stack(2 * (d - s.paper) + 1, 2 * s.paper)
           /\ s.pc = "ingest" => s.pages = Reverse(Stack(2 * (d - s.paper) + 1, 2 * s.paper))
           /\ s.pc \in {"position", "ingest"}
BY DEF Between

LEMMA OrderlyFields ==
    ASSUME NEW s, NEW d \in Nat, NEW w, NEW good, Orderly(s, d, w, good)
    PROVE  /\ s.pc \in {"idle", "lock"} <=> Waiting(s)
           /\ s.pc = "idle" => s = NotScanning
           /\ s.pc \in {"position", "ingest"} => Between(s, d)
           /\ s.pc \in {"read", "send", "flush", "close"} =>
                \E k \in [Side -> Counts] : OnSheet(s, d, k) /\ (good => Ahead(s, d, w, k))
<1>1. Waiting(s) => s.pc \in {"idle", "lock"} /\ (s.pc = "idle" => s = NotScanning)
  BY DEF Waiting, NotScanning
<1>2. Between(s, d) => s.pc \in {"position", "ingest"}
  BY BetweenFields
<1>3. \A k : OnSheet(s, d, k) => s.pc \in {"read", "send", "flush", "close"}
  BY SheetScans
<1>4. QED
  BY <1>1, <1>2, <1>3 DEF Orderly

LEMMA FirstSide ==
    ASSUME NEW p
    PROVE NewSide = SideTo(p, [pc |-> "receive", encoded |-> 0, given |-> 0, cut |-> 0, got |-> 0])
<1>1. Rows \in Nat BY FeederBounds
<1>2. [n \in 1..Rows |-> Blank] = FilledTo(p, 0) BY <1>1 DEF FilledTo, Rotated
<1>3. Strip(p, 0, 0) = <<>> BY StripNone
<1>4. QED BY <1>2, <1>3 DEF NewSide, NewPage, SideTo, PageTo

LEMMA EncodedSide ==
    ASSUME NEW p \in Nat, NEW k \in [pc : {"receive", "encode", "done"}, encoded : 0..Rows,
                                   given : 0..Rows, cut : 0..Rows, got : 0..Rows],
           k.encoded <= k.given
    PROVE  Encoded(SideTo(p, k)) = SideTo(p, [k EXCEPT !.pc = "receive", !.encoded = k.given])
<1>1. Rows \in Nat
  BY FeederBounds
<1>2. PICK e \in Nat, g \in Nat : k.encoded = e /\ k.given = g /\ e <= g /\ g <= Rows
  BY <1>1
<1>3. Len(Strip(p, 0, e)) = e /\ Len(Strip(p, e, g)) = g - e
  BY <1>2, StripLen, StripTop
<1>4. Strip(p, 0, e) \o Strip(p, e, g) = Strip(p, 0, g) /\ Strip(p, g, g) = <<>>
  BY <1>2, StripTop, StripNone
<1>5. [n \in 1..Rows |-> IF Rotated(n) - e \in 1..(g - e)
                         THEN Strip(p, e, g)[Rotated(n) - e] ELSE FilledTo(p, e)[n]]
      = FilledTo(p, g)
  BY <1>1, <1>2 DEF Strip, FilledTo, Rotated
<1> DEFINE last == [rest |-> Strip(p, k.cut, k.got), pc |-> "receive", chunk |-> <<>>,
                    page |-> PageTo(p, g)]
<1>6. Encoded(SideTo(p, k)) = last
  <2> DEFINE ps == SideTo(p, k)
  <2>1. /\ ps = [rest |-> Strip(p, k.cut, k.got), pc |-> k.pc, chunk |-> Strip(p, e, g),
                 page |-> [jpeg |-> Strip(p, 0, e), bin |-> FilledTo(p, e)]]
    BY <1>2 DEF SideTo, PageTo
  <2> HIDE DEF ps
  <2>2. Encoded(ps) = [ps EXCEPT !.pc = "receive", !.chunk = <<>>, !.page.jpeg = Strip(p, 0, g),
                                 !.page.bin = FilledTo(p, g)]
    BY <2>1, <1>3, <1>4, <1>5 DEF Encoded
  <2>3. Encoded(ps) = last
    BY <2>1, <2>2 DEF PageTo
  <2>4. QED
    BY <2>3 DEF ps
<1>7. SideTo(p, [k EXCEPT !.pc = "receive", !.encoded = k.given]) = last
  BY <1>2, <1>4 DEF SideTo
<1>8. QED
  BY <1>6, <1>7

\* The number of pages before the ones of the sheet in hand.
LEMMA Numbers ==
    ASSUME NEW d \in Nat, NEW n \in Nat, n < d
    PROVE  LET first == 2 * (d - 1 - n) + 1 IN
           /\ first \in Nat /\ 2 * n \in Nat /\ 2 * n + 1 \in Nat
           /\ PageNumber(d, front) = first + 2 * n + 1
           /\ PageNumber(d, back) = first + (2 * n + 1) + 1
           /\ first = 2 * (d - (n + 1)) + 1 /\ 2 * (n + 1) = (2 * n + 1) + 1
BY DEF PageNumber, front, back

-----------------------------------------------------------------------------
(* The steps of scan1 on a sheet: each leads from one such state to another. *)

Goes(t, k) ==
    \E k2 \in [Side -> Counts] :
        /\ OnSheet(scans'[t], drawn', k2)
        /\ Ahead(scans[t], drawn, window, k) => Ahead(scans'[t], drawn', window', k2)

\* What the encoder is given, and how far the side is then.
LEMMA ReceivedSide ==
    ASSUME NEW p, NEW c, NEW c2, NEW rows, c2.pc = "encode", c2.encoded = c.encoded, c2.cut = c.cut,
           c2.got = c.got, rows = Strip(p, c2.encoded, c2.given),
           NEW ps, ps = SideTo(p, c), NEW ps2, ps2 = Receive(ps, rows)
    PROVE  ps2 = SideTo(p, c2)
BY DEF Receive, SideTo

LEMMA SentProgress ==
    ASSUME NEW at \in Side, NEW pc, pc = "read" \/ (pc = "flush" /\ at = back),
           NEW c \in Counts, NEW c2 \in Counts, Progress("send", at, c, at), c.encoded = c.given,
           c2.pc = "encode", c2.encoded = c.encoded, c2.given = c.cut,
           c2.cut = c.cut, c2.got = c.got
    PROVE  Progress(pc, 1 - at, c2, at)
<1>1. ~Flushed("send", at, at) /\ ~Flushed(pc, 1 - at, at)
  BY Sides DEF Flushed
<1>2. QED
  BY <1>1, CountsType DEF Progress

LEMMA SendGoes ==
    ASSUME ScansShape, NEW t \in Thread, NEW k \in [Side -> Counts],
           OnSheet(scans[t], drawn, k), Send(t), drawn \in Nat
    PROVE  Goes(t, k)
<1> DEFINE s  == scans[t]
           s2 == scans'[t]
           sd == s.side
           p(side) == PageNumber(drawn, side)
           c == [k[sd] EXCEPT !.pc = "encode", !.given = k[sd].cut]
           k2 == [k EXCEPT ![sd] = c]
           done == s.eop /\ sd = back
<1>1. /\ sd \in Side /\ s.pc = "send" /\ k[sd] \in Counts
      /\ s.state = [side \in Side |-> SideTo(p(side), k[side])]
      /\ s.chunk = Strip(p(sd), k[sd].given, k[sd].cut)
      /\ s.state[sd].pc = "receive"
  BY DEF Send, OnSheet, InHand
<1>2. k[sd].pc = "receive" /\ k[sd].encoded = k[sd].given
  BY <1>1 DEF OnSheet, Paces, Progress, SideTo
<1>3. /\ c \in Counts /\ k2 \in [Side -> Counts]
      /\ c.pc = "encode" /\ c.encoded = k[sd].encoded /\ c.given = k[sd].cut
      /\ c.cut = k[sd].cut /\ c.got = k[sd].got
  BY <1>1 DEF Counts
<1> HIDE DEF c
<1>4. Receive(SideTo(p(sd), k[sd]), s.chunk) = SideTo(p(sd), c)
  BY <1>1, <1>2, <1>3, ReceivedSide
<1>5. /\ s2 = [s EXCEPT !.state = [s.state EXCEPT ![sd] = Receive(@, s.chunk)], !.chunk = <<>>,
                        !.pc = IF done THEN "flush" ELSE "read", !.side = 1 - sd]
      /\ UNCHANGED <<drawn, window>>
  BY <1>1 DEF Send, ScansShape
<1>6. /\ s2.pc = IF done THEN "flush" ELSE "read" 
      /\ s2.side = 1 - sd /\ s2.paper = s.paper /\ s2.eop = s.eop
      /\ s2.chunk = <<>> /\ s2.pages = s.pages
      /\ s2.state = [s.state EXCEPT ![sd] = Receive(@, s.chunk)]
      /\ s2 = [pc |-> s2.pc, paper |-> s2.paper, side |-> s2.side, eop |-> s2.eop,
              chunk |-> s2.chunk, state |-> s2.state, pages |-> s2.pages]
  BY <1>5 DEF OnSheet
<1>7. s2.state = [side \in Side |-> SideTo(p(side), k2[side])]
  BY <1>1, <1>4, <1>6
<1>8. s2.pages = Stack(2 * (drawn - 1 - s2.paper) + 1, PagesDone(s2))
  BY <1>1, <1>6, Sides DEF PagesDone, OnSheet, front
<1>9. Paces(s2, k2)
  <2>1. /\ Progress(s.pc, sd, k[sd], sd) /\ Progress(s.pc, sd, k[1-sd], 1-sd)
        /\ InTurns(s.pc, sd, s.eop, k[front], k[back])
    BY <1>1, Sides DEF OnSheet, Paces
  <2>2. Progress(s2.pc, s2.side, c, sd)
    BY <1>1, <1>2, <1>3, <1>6, <2>1, SentProgress
  <2>3. Progress(s2.pc, s2.side, k[1-sd], 1-sd)
    BY <1>1, <1>2, <1>6, <2>1, Sides DEF Progress, Flushed
  <2>4. k2[front].got = k[front].got /\ k2[back].got = k[back].got
    BY <1>1, <1>3, Sides
  <2>5. InTurns(s2.pc, s2.side, s2.eop, k[front], k[back])
    BY <1>1, <1>6, <2>1, Sides, CountsType DEF InTurns
  <2>6. QED
    BY <1>1, <2>2, <2>3, <2>4, <2>5, Sides DEF Paces, InTurns
<1>10. OnSheet(s2, drawn, k2)
  BY <1>1, <1>6, <1>7, <1>8, <1>9, Sides DEF OnSheet, InHand
<1>11. Ahead(s, drawn, window, k) => Ahead(s2, drawn, window, k2)
  BY <1>1, <1>3, <1>5 DEF Ahead
<1>12. QED
  BY <1>3, <1>5, <1>10, <1>11 DEF Goes

LEMMA SendRestGoes ==
    ASSUME ScansShape, NEW t \in Thread, NEW k \in [Side -> Counts],
           OnSheet(scans[t], drawn, k), SendRest(t), drawn \in Nat
    PROVE  Goes(t, k)
<1> DEFINE s  == scans[t]
           s2 == scans'[t]
           sd == s.side
           p(side) == PageNumber(drawn, side)
           c == [k[sd] EXCEPT !.pc = "encode", !.given = k[sd].got]
           k2 == [k EXCEPT ![sd] = c]
           ps2 == Receive(s.state[sd], s.state[sd].rest)
<1>1. /\ sd \in Side /\ s.pc = "flush" /\ k[sd] \in Counts
      /\ s.state = [side \in Side |-> SideTo(p(side), k[side])]
      /\ s.state[sd] = SideTo(p(sd), k[sd])
      /\ s.state[sd].pc = "receive" /\ s.chunk = <<>>
  BY DEF SendRest, OnSheet, InHand
<1>2. /\ k[sd].pc = "receive" /\ k[sd].encoded = k[sd].cut
      /\ s.state[sd].rest = Strip(p(sd), k[sd].encoded, k[sd].got)
  <2>1. k[sd].pc = "receive" /\ s.state[sd].rest = Strip(p(sd), k[sd].cut, k[sd].got)
    BY <1>1 DEF SideTo
  <2>2. Progress("flush", sd, k[sd], sd) /\ ~Flushed("flush", sd, sd)
    BY <1>1, Sides DEF OnSheet, Paces, Flushed
  <2>3. QED
    BY <2>1, <2>2 DEF Progress
<1>3. /\ c \in Counts /\ k2 \in [Side -> Counts]
      /\ c.pc = "encode" /\ c.encoded = k[sd].encoded /\ c.given = k[sd].got
      /\ c.cut = k[sd].cut /\ c.got = k[sd].got
  BY <1>1 DEF Counts
<1> HIDE DEF c
<1>4. ps2 = SideTo(p(sd), c)
  BY <1>1, <1>2, <1>3, ReceivedSide
<1>5. /\ s2 = [s EXCEPT !.state = [s.state EXCEPT ![sd] = ps2], !.pc = "close"]
      /\ UNCHANGED <<drawn, window>>
  BY <1>1 DEF SendRest, ScansShape
<1>6. /\ s2.pc = "close"
      /\ s2.side = sd /\ s2.paper = s.paper /\ s2.eop = s.eop
      /\ s2.chunk = <<>> /\ s2.pages = s.pages
      /\ s2.state = [s.state EXCEPT ![sd] = ps2]
      /\ s2 = [pc |-> s2.pc, paper |-> s2.paper, side |-> s2.side, eop |-> s2.eop,
              chunk |-> s2.chunk, state |-> s2.state, pages |-> s2.pages]
  BY <1>1, <1>5 DEF OnSheet
<1>7. s2.state = [side \in Side |-> SideTo(p(side), k2[side])]
  BY <1>1, <1>4, <1>6
<1>8. s2.pages = Stack(2 * (drawn - 1 - s2.paper) + 1, PagesDone(s2))
  BY <1>1, <1>6 DEF PagesDone, OnSheet
<1>9. Paces(s2, k2)
  <2>1. /\ Progress("flush", sd, k[sd], sd) /\ Progress("flush", sd, k[1-sd], 1-sd)
        /\ InTurns("flush", sd, s.eop, k[front], k[back])
    BY <1>1, Sides DEF OnSheet, Paces
  <2>2. k[sd].got = Rows
    BY <1>1, <2>1, Sides DEF InTurns
  <2>3. Progress("close", sd, c, sd)
    BY <1>1, <1>2, <1>3, <2>1, <2>2, Sides, CountsType DEF Progress, Flushed
  <2>4. Progress("close", sd, k[1-sd], 1-sd)
    BY <1>1, <2>1, Sides DEF Progress, Flushed
  <2>5. k2[front].got = k[front].got /\ k2[back].got = k[back].got
    BY <1>1, <1>3, Sides
  <2>6. QED
    BY <1>1, <1>6, <2>1, <2>3, <2>4, <2>5, Sides DEF Paces, InTurns
<1>10. OnSheet(s2, drawn, k2)
  BY <1>1, <1>6, <1>7, <1>8, <1>9, Sides DEF OnSheet, InHand
<1>11. Ahead(s2, drawn, window, k2)
  BY <1>6 DEF Ahead
<1>12. QED
  BY <1>3, <1>5, <1>10, <1>11 DEF Goes

LEMMA EncodeGoes ==
    ASSUME ScansShape, NEW t \in Thread, NEW k \in [Side -> Counts], OnSheet(scans[t], drawn, k),
           NEW sd \in Side, Encode(t, sd), drawn \in Nat
    PROVE  Goes(t, k)
<1> DEFINE s  == scans[t]
           s2 == scans'[t]
           p(side) == PageNumber(drawn, side)
           c == [k[sd] EXCEPT !.pc = "receive", !.encoded = k[sd].given]
           k2 == [k EXCEPT ![sd] = c]
<1>1. /\ k[sd] \in Counts
      /\ s.state = [side \in Side |-> SideTo(p(side), k[side])]
      /\ s.state[sd] = SideTo(p(sd), k[sd]) /\ p(sd) \in Nat
      /\ \A side \in Side : Progress(s.pc, s.side, k[side], side)
  BY DEF OnSheet, Paces, PageNumber, Side, front, back
<1>2. /\ c \in Counts /\ k2 \in [Side -> Counts]
      /\ c.pc = "receive" /\ c.encoded = k[sd].given /\ c.given = k[sd].given
      /\ c.cut = k[sd].cut /\ c.got = k[sd].got
  BY <1>1 DEF Counts
<1>3. Encoded(SideTo(p(sd), k[sd])) = SideTo(p(sd), c)
  <2>1. k[sd].encoded <= k[sd].given
    BY <1>1 DEF Progress
  <2>2. QED
    BY <1>1, <2>1, EncodedSide DEF Counts
<1> HIDE DEF c
<1>4. /\ s2 = [s EXCEPT !.state = [s.state EXCEPT ![sd] = Encoded(@)]]
      /\ UNCHANGED <<drawn, window>>
  BY <1>1 DEF Encode, ScansShape
<1>5. s2.state = [side \in Side |-> SideTo(p(side), k2[side])]
  BY <1>1, <1>3, <1>4 DEF OnSheet
<1>6. /\ s2.pc = s.pc /\ s2.side = s.side /\ s2.paper = s.paper /\ s2.eop = s.eop
      /\ s2.chunk = s.chunk /\ s2.pages = s.pages
      /\ s2 = [pc |-> s2.pc, paper |-> s2.paper, side |-> s2.side, eop |-> s2.eop,
              chunk |-> s2.chunk, state |-> s2.state, pages |-> s2.pages]
  BY <1>4 DEF OnSheet
<1>7. InHand(s2, drawn, k2) = InHand(s, drawn, k)
  BY <1>1, <1>2, <1>6 DEF InHand
<1>8. Paces(s2, k2)
  <2>1. Progress(s.pc, s.side, c, sd)
    BY <1>1, <1>2, CountsType DEF Progress
  <2>2. k2[front].got = k[front].got /\ k2[back].got = k[back].got
    BY <1>1, <1>2, Sides
  <2>3. QED
    BY <1>1, <1>2, <1>6, <2>1, <2>2 DEF OnSheet, Paces, InTurns
<1>9. OnSheet(s2, drawn, k2)
  BY <1>5, <1>6, <1>7, <1>8 DEF OnSheet, PagesDone
<1>10. Ahead(s, drawn, window, k) => Ahead(s2, drawn, window, k2)
  BY <1>1, <1>2, <1>4, <1>6 DEF Ahead
<1>11. QED
  BY <1>2, <1>4, <1>9, <1>10 DEF Goes

LEMMA NoDataYetGoes ==
    ASSUME ScansShape, NEW t \in Thread, NEW k \in [Side -> Counts],
           OnSheet(scans[t], drawn, k), NoDataYet(t), drawn \in Nat
    PROVE  Goes(t, k)
<1> DEFINE s  == scans[t]
           s2 == scans'[t]
<1>1. s.pc = "read" /\ s2 = [s EXCEPT !.side = front] /\ UNCHANGED <<drawn, window>>
  BY DEF NoDataYet, ScansShape
<1>2. /\ s2.pc = "read" /\ s2.side = front /\ s2.paper = s.paper /\ s2.eop = s.eop
      /\ s2.chunk = s.chunk /\ s2.pages = s.pages /\ s2.state = s.state
      /\ s2 = [pc |-> s2.pc, paper |-> s2.paper, side |-> s2.side, eop |-> s2.eop,
              chunk |-> s2.chunk, state |-> s2.state, pages |-> s2.pages]
  BY <1>1 DEF OnSheet
<1>3. Paces(s2, k)
  BY <1>1, <1>2, Sides DEF OnSheet, Paces, Progress, Flushed, InTurns
<1>4. OnSheet(s2, drawn, k)
  <2>1. InHand(s2, drawn, k) = InHand(s, drawn, k) /\ PagesDone(s2) = PagesDone(s)
    BY <1>1, <1>2 DEF InHand, PagesDone
  <2>2. QED
    BY <1>1, <1>2, <1>3, <2>1, Sides DEF OnSheet
<1>5. QED
  BY <1>1, <1>2, <1>4 DEF Goes, Ahead

\* The page of the front is added, and the back is due.
LEMMA FrontAdded ==
    ASSUME NEW d \in Nat, NEW s, NEW k \in [Side -> Counts], OnSheet(s, d, k),
           s.pc = "close", s.side = front, s.state[front].pc = "receive",
           NEW s2, s2 = [s EXCEPT !.pages = Append(@, s.state[front].page),
                                  !.state = [@ EXCEPT ![front].pc = "done"],
                                  !.pc = "flush", !.paper = @, !.side = back]
    PROVE  \E k2 \in [Side -> Counts] : OnSheet(s2, d, k2)
<1> DEFINE p(side) == PageNumber(d, side)
           c == [k[front] EXCEPT !.pc = "done"]
           k2 == [k EXCEPT ![front] = c]
           n == 2 * (d - 1 - s.paper) + 1
<1>1. Paces(s, k) /\ s.chunk = InHand(s, d, k) /\ s.pages = Stack(n, PagesDone(s))
  BY SheetFields
<1>2. /\ k[front] \in Counts
      /\ s.state[front] = SideTo(p(front), k[front])
      /\ s.state = [side \in Side |-> SideTo(p(side), k[side])]
      /\ s.paper \in Nat /\ s.paper < d
  BY SheetFields, Sides
<1>3. s.pages = Stack(n, 2 * s.paper) /\ s.chunk = <<>>
  <2>1. PagesDone(s) = 2 * s.paper /\ InHand(s, d, k) = <<>>
    BY <1>2 DEF PagesDone, front, InHand
  <2>2. QED
    BY <1>1, <2>1
<1>4. k[front].pc = "receive" /\ s.state[front].page = PageTo(p(front), k[front].encoded)
  BY <1>2 DEF SideTo
<1>5. /\ Progress("close", front, k[front], front) /\ Progress("close", front, k[back], back)
      /\ InTurns("close", front, s.eop, k[front], k[back])
  BY <1>1, Sides DEF Paces
<1>6. k[front].encoded = k[front].given /\ k[front].given = Rows
  BY <1>4, <1>5, Sides DEF Progress, Flushed
<1>7. /\ c \in Counts /\ k2 \in [Side -> Counts]
      /\ c.pc = "done" /\ c.encoded = k[front].encoded /\ c.given = k[front].given
      /\ c.cut = k[front].cut /\ c.got = k[front].got
  BY <1>2 DEF Counts
<1> HIDE DEF c
<1>8. /\ s2.pc = "flush" /\ s2.side = back /\ s2.paper = s.paper /\ s2.eop = s.eop
      /\ s2.chunk = s.chunk /\ s2.pages = Append(s.pages, PageTo(p(front), Rows))
      /\ s2.state = [s.state EXCEPT ![front].pc = "done"]
      /\ s2 = [pc |-> s2.pc, paper |-> s2.paper, side |-> s2.side, eop |-> s2.eop,
              chunk |-> s2.chunk, state |-> s2.state, pages |-> s2.pages]
  BY <1>4, <1>6 DEF OnSheet
<1>9. s2.state = [side \in Side |-> SideTo(p(side), k2[side])]
  <2>1. ASSUME NEW ps, ps = SideTo(p(front), k[front]), NEW ps2, ps2 = [ps EXCEPT !.pc = "done"]
        PROVE  ps2 = SideTo(p(front), c)
    BY <2>1, <1>7 DEF SideTo
  <2>2. [s.state[front] EXCEPT !.pc = "done"] = SideTo(p(front), c)
    BY <1>2, <2>1
  <2>3. s2.state = [s.state EXCEPT ![front] = SideTo(p(front), c)]
    BY <1>2, <1>8, <2>2, Sides
  <2>4. QED
    BY <1>2, <2>3, Sides
<1>10. s2.pages = Stack(n, 2 * s2.paper + 1)
  <2>1. n \in Nat /\ 2 * s.paper \in Nat /\ p(front) = n + 2 * s.paper + 1
    BY <1>2, Numbers
  <2>2. QED
    BY <1>3, <1>8, <2>1, StackAppend
<1>11. Paces(s2, k2)
  <2>1. Progress("flush", back, c, front)
    BY <1>5, <1>6, <1>7, Sides DEF Progress, Flushed
  <2>2. Progress("flush", back, k[back], back)
    BY <1>5, Sides DEF Progress, Flushed
  <2>3. k2[front] = c /\ k2[back] = k[back]
    BY Sides
  <2>4. QED
    BY <1>5, <1>7, <1>8, <2>1, <2>2, <2>3, Sides DEF Paces, InTurns
<1>12. OnSheet(s2, d, k2)
  <2>1. PagesDone(s2) = 2 * s2.paper + 1 /\ InHand(s2, d, k2) = <<>> /\ s2.chunk = <<>>
    BY <1>3, <1>8 DEF PagesDone, InHand, back
  <2>2. s2.eop \in BOOLEAN /\ d > 0 /\ s2.paper \in 0..(d - 1)
    BY <1>2, <1>8, SheetFields
  <2>3. QED
    BY <1>8, <1>9, <1>10, <1>11, <2>1, <2>2, Sides DEF OnSheet
<1>13. QED
  BY <1>7, <1>12

\* The page of the back is added, and the next sheet is due.
LEMMA BackAdded ==
    ASSUME NEW d \in Nat, NEW s, NEW k \in [Side -> Counts], OnSheet(s, d, k),
           s.pc = "close", s.side = back, s.state[back].pc = "receive",
           NEW s2, s2 = [s EXCEPT !.pages = Append(@, s.state[back].page), !.state = <<>>,
                                  !.pc = "position", !.paper = @ + 1, !.side = front]
    PROVE  Between(s2, d)
<1> DEFINE p(side) == PageNumber(d, side)
           n == 2 * (d - 1 - s.paper) + 1
<1>1. Paces(s, k) /\ s.chunk = InHand(s, d, k) /\ s.pages = Stack(n, PagesDone(s))
  BY SheetFields
<1>2. /\ k[back] \in Counts
      /\ s.state[back] = SideTo(p(back), k[back])
      /\ s.paper \in Nat /\ s.paper < d /\ s.eop \in BOOLEAN
  BY SheetFields, Sides
<1>3. s.pages = Stack(n, 2 * s.paper + 1) /\ s.chunk = <<>>
  <2>1. PagesDone(s) = 2 * s.paper + 1 /\ InHand(s, d, k) = <<>>
    BY <1>2 DEF PagesDone, InHand, back
  <2>2. QED
    BY <1>1, <2>1
<1>4. s.state[back].page = PageTo(p(back), Rows)
  <2>1. k[back].pc = "receive" /\ s.state[back].page = PageTo(p(back), k[back].encoded)
    BY <1>2 DEF SideTo
  <2>2. Progress("close", back, k[back], back)
    BY <1>1, Sides DEF Paces
  <2>3. QED
    BY <2>1, <2>2 DEF Progress, Flushed
<1>5. /\ s2.pc = "position" /\ s2.side = front /\ s2.paper = s.paper + 1 /\ s2.eop = s.eop
      /\ s2.chunk = <<>> /\ s2.pages = Append(s.pages, PageTo(p(back), Rows)) /\ s2.state = <<>>
      /\ s2 = [pc |-> s2.pc, paper |-> s2.paper, side |-> s2.side, eop |-> s2.eop,
              chunk |-> s2.chunk, state |-> s2.state, pages |-> s2.pages]
  BY <1>3, <1>4 DEF OnSheet
<1>6. s2.pages = Stack(2 * (d - s2.paper) + 1, 2 * s2.paper)
  <2>1. /\ n \in Nat /\ 2 * s.paper + 1 \in Nat /\ p(back) = n + (2 * s.paper + 1) + 1
        /\ n = 2 * (d - s2.paper) + 1 /\ 2 * s2.paper = (2 * s.paper + 1) + 1
    BY <1>2, <1>5, Numbers
  <2>2. PICK m \in Nat : /\ n \in Nat /\ m = 2 * s.paper + 1 /\ p(back) = n + m + 1
                         /\ n = 2 * (d - s2.paper) + 1 /\ 2 * s2.paper = m + 1
    BY <2>1
  <2>3. s2.pages = Stack(n, m + 1)
    BY <1>3, <1>5, <2>2, StackAppend
  <2>4. QED
    BY <1>3, <1>5, <2>2, <2>3
<1>7. s2.paper \in 0..d
  BY <1>2, <1>5
<1>8. QED
  BY <1>2, <1>5, <1>6, <1>7, Sides DEF Between

LEMMA AddPageGoes ==
    ASSUME ScansShape, NEW t \in Thread, NEW k \in [Side -> Counts], OnSheet(scans[t], drawn, k),
           AddPage(t), drawn \in Nat
    PROVE  Between(scans'[t], drawn') \/ Goes(t, k)
<1> DEFINE s == scans[t]
<1>1. /\ s.pc = "close" /\ s.state[s.side].pc = "receive" /\ s.side \in Side
      /\ drawn' = drawn
      /\ scans'[t] = [s EXCEPT
              !.pages = Append(@, s.state[s.side].page),
              !.state = IF s.side = front THEN [@ EXCEPT ![front].pc = "done"] ELSE <<>>,
              !.pc = IF s.side = front THEN "flush" ELSE "position",
              !.paper = Papers(s),
              !.side = 1 - @]
  BY SheetFields DEF AddPage, ScansShape
<1>2. CASE s.side = front
  <2>1. scans'[t] = [s EXCEPT !.pages = Append(@, s.state[front].page),
                              !.state = [@ EXCEPT ![front].pc = "done"],
                              !.pc = "flush", !.paper = @, !.side = back]
    BY <1>1, <1>2 DEF Papers, front, back
  <2>2. \E k2 \in [Side -> Counts] : OnSheet(scans'[t], drawn, k2)
    BY <1>1, <1>2, <2>1, FrontAdded
  <2>3. scans'[t].pc = "flush"
    BY <2>1 DEF OnSheet
  <2>4. QED
    BY <1>1, <2>2, <2>3 DEF Goes, Ahead
<1>3. CASE s.side = back
  <2>1. scans'[t] = [s EXCEPT !.pages = Append(@, s.state[back].page), !.state = <<>>,
                              !.pc = "position", !.paper = @ + 1, !.side = front]
    BY <1>1, <1>3 DEF Papers, front, back
  <2>2. Between(scans'[t], drawn)
    BY <1>1, <1>3, <2>1, BackAdded
  <2>3. QED
    BY <1>1, <2>2
<1>4. QED
  BY <1>1, <1>2, <1>3, Sides

LEMMA FeedSheetGoes ==
    ASSUME ScansShape, NEW t \in Thread, Between(scans[t], drawn), FeedSheet(t), drawn \in Nat
    PROVE  \E k \in [Side -> Counts] :
             OnSheet(scans'[t], drawn', k) /\ Ahead(scans'[t], drawn', window', k)
<1> DEFINE s  == scans[t]
           s2 == scans'[t]
           d == drawn + 1
           p(side) == PageNumber(d, side)
           c == [pc |-> "receive", encoded |-> 0, given |-> 0, cut |-> 0, got |-> 0]
           k == [side \in Side |-> c]
<1>1. k \in [Side -> Counts] /\ c \in Counts
  BY FeederBounds DEF Counts
<1>2. /\ s2 = [s EXCEPT !.pc = "read", !.side = front, !.eop = FALSE,
                        !.state = [side \in Side |-> NewSide]]
      /\ s.pc = "position" /\ drawn' = d
      /\ window' = [side \in Side |-> RowsOf(p(side))]
  BY DEF FeedSheet, ScansShape
<1>3. /\ s2.pc = "read" /\ s2.side = front /\ s2.paper = s.paper /\ s2.eop = FALSE
      /\ s2.chunk = s.chunk /\ s2.pages = s.pages
      /\ s2.state = [side \in Side |-> NewSide]
      /\ s2 = [pc |-> s2.pc, paper |-> s2.paper, side |-> s2.side, eop |-> s2.eop,
              chunk |-> s2.chunk, state |-> s2.state, pages |-> s2.pages]
  <2>1. s = [pc |-> s.pc, paper |-> s.paper, side |-> s.side, eop |-> s.eop, chunk |-> <<>>,
            state |-> <<>>, pages |-> s.pages]
    BY DEF Between
  <2> HIDE DEF s, s2
  <2>2. QED
    BY <1>2, <2>1
<1>4. s2.state = [side \in Side |-> SideTo(p(side), k[side])]
  BY <1>3, FirstSide
<1>5. Paces(s2, k)
  <2>1. Multiple(0)
    BY FeederBounds DEF Multiple
  <2>2. \A side \in Side : Progress("read", front, c, side)
    BY <2>1, FeederBounds, Sides DEF Progress, Flushed
  <2>3. InTurns("read", front, FALSE, c, c)
    BY Sides DEF InTurns
  <2>4. QED
    BY <1>3, <2>2, <2>3, Sides DEF Paces
<1>6. OnSheet(s2, d, k)
  <2>1. /\ InHand(s2, d, k) = <<>> /\ s2.chunk = <<>>
        /\ s2.paper \in 0..(d - 1) /\ d > 0
    BY <1>3, BetweenFields DEF InHand
  <2>2. s2.eop \in BOOLEAN
    BY <1>3, Zenon
  <2>3. s2.pages = Stack(2 * (d - 1 - s2.paper) + 1, PagesDone(s2))
    <3>1. PagesDone(s2) = 2 * s2.paper
      BY <1>3, BetweenFields DEF PagesDone
    <3>2. d - 1 - s2.paper = drawn - s.paper
      BY <1>3, BetweenFields
    <3>3. QED
      BY <1>2, <1>3, <3>1, <3>2, BetweenFields
  <2>4. QED
    BY <1>3, <1>4, <1>5, <2>1, <2>2, <2>3, Sides DEF OnSheet
<1>7. Ahead(s2, d, window', k)
  <2>1. \A side \in Side : RowsOf(p(side)) = Strip(p(side), 0, Rows)
    BY FeederBounds DEF RowsOf, Strip
  <2>2. QED
    BY <1>2, <2>1 DEF Ahead
<1>8. QED
  BY <1>1, <1>2, <1>6, <1>7

\* A response of the scanner, cut into whole blocks and a rest.
LEMMA RowsRead ==
    ASSUME NEW p, NEW cut \in Nat, NEW got \in Nat, NEW all \in Nat,
           cut <= got, got <= all, Multiple(cut),
           NEW left, left = Strip(p, got, all),
           NEW n, n = IF Len(left) < ReadRows THEN Len(left) ELSE ReadRows,
           NEW buf, buf = Joined(Strip(p, cut, got), Cut(left, 1, n)),
           NEW w, w = WholeBlocks(buf)
    PROVE  \E c1 \in Nat, g1 \in Nat :
             /\ cut <= c1 /\ c1 <= g1 /\ g1 - c1 < Block /\ Multiple(c1)
             /\ got <= g1 /\ g1 <= all /\ g1 <= got + ReadRows
             /\ g1 = all \/ g1 = got + ReadRows
             /\ n = Len(left) => g1 = all
             /\ Cut(buf, 1, w) = Strip(p, cut, c1)
             /\ Cut(buf, w + 1, Len(buf)) = Strip(p, c1, g1)
             /\ Cut(left, n + 1, Len(left)) = Strip(p, g1, all)
<1>1. PICK M \in Nat : M = all - got /\ Len(left) = M
  BY StripLen
<1>2. PICK g1 \in Nat :
          /\ g1 = got + n /\ n \in Nat /\ got <= g1 /\ g1 <= all
          /\ g1 <= got + ReadRows
          /\ g1 = all \/ g1 = got + ReadRows
          /\ n = Len(left) => g1 = all
  <2>1. n = IF M < ReadRows THEN M ELSE ReadRows
    BY <1>1
  <2>2. M \in Nat /\ M = all - got /\ ReadRows \in Nat
    BY <1>1, FeederBounds
  <2>3. PICK m \in Nat : m = n /\ m <= M /\ m <= ReadRows /\ m \in {M, ReadRows}
    BY <2>1, <2>2
  <2>4. PICK g1 \in Nat : g1 = got + m
    OBVIOUS
  <2>5. /\ got <= g1 /\ g1 <= all /\ g1 <= got + ReadRows
        /\ g1 = all \/ g1 = got + ReadRows
        /\ m = M => g1 = all
    BY <2>2, <2>3, <2>4
  <2>6. QED
    BY <1>1, <2>3, <2>4, <2>5
<1>3. PICK m \in Nat : m = n
  BY <1>2
<1>4. buf = Strip(p, cut, g1)
  <2>1. Cut(Strip(p, got, all), 1, m) = Strip(p, got, got + m)
    <3>1. got + m <= all
      BY <1>2, <1>3
    <3>2. QED
      BY <3>1, StripCut
  <2>2. Cut(left, 1, n) = Strip(p, got, g1)
    BY <1>2, <1>3, <2>1
  <2>3. QED
    BY <1>2, <2>2, StripJoined
<1>5. PICK L \in Nat : L = g1 - cut /\ Len(buf) = L
  BY <1>2, <1>4, StripLen
<1>6. PICK v \in Nat : v = w /\ v <= L /\ L - v < Block /\ Multiple(cut + v)
  BY <1>5, WholeArith DEF WholeBlocks
<1>7. PICK c1 \in Nat : c1 = cut + v /\ cut <= c1 /\ c1 <= g1 /\ g1 - c1 < Block /\ Multiple(c1)
  <2>1. L = g1 - cut /\ v <= L
    BY <1>5, <1>6
  <2>2. cut + v \in Nat /\ cut <= cut + v /\ cut + v <= g1 /\ g1 - (cut + v) = L - v
    BY <2>1
  <2>3. QED
    BY <1>6, <2>2
<1>8. Cut(buf, 1, w) = Strip(p, cut, c1)
  <2>1. Cut(Strip(p, cut, g1), 1, v) = Strip(p, cut, cut + v)
    BY <1>7, StripCut
  <2>2. QED
    BY <1>4, <1>6, <1>7, <2>1
<1>9. Cut(buf, w + 1, Len(buf)) = Strip(p, c1, g1)
  <2>1. v + 1 \in Nat /\ v + 1 <= L + 1 /\ cut + L = g1 /\ (v + 1) - 1 = v
    BY <1>5, <1>6
  <2>2. Cut(Strip(p, cut, g1), v + 1, L) = Strip(p, cut + v, g1)
    BY <2>1, StripCut
  <2>3. QED
    BY <1>4, <1>5, <1>6, <1>7, <2>2
<1>10. Cut(left, n + 1, Len(left)) = Strip(p, g1, all)
  <2>1. g1 = got + m
    BY <1>2, <1>3
  <2>2. m + 1 \in Nat /\ m + 1 <= M + 1 /\ got + M = all /\ (m + 1) - 1 = m
    BY <1>1, <1>2, <2>1
  <2>3. Cut(Strip(p, got, all), m + 1, M) = Strip(p, got + m, all)
    BY <2>2, StripCut
  <2>4. QED
    BY <1>1, <1>3, <2>1, <2>3
<1>11. QED
  BY <1>2, <1>7, <1>8, <1>9, <1>10

\* The sides stay in turns: a side is ahead of the other by a response, or at its end.
LEMMA SentTurns ==
    ASSUME NEW at \in Side, NEW f \in Counts, NEW b \in Counts,
           NEW f2 \in Counts, NEW b2 \in Counts,
           NEW before, NEW eop, InTurns("read", at, before, f, b),
           NEW old \in Counts, NEW new \in Counts,
           at = front => old = f /\ new = f2 /\ b2 = b,
           at = back => old = b /\ new = b2 /\ f2 = f,
           old.got <= new.got, new.got <= old.got + ReadRows,
           new.got = Rows \/ new.got = old.got + ReadRows,
           eop => new.got = Rows
    PROVE  InTurns("send", at, eop, f2, b2)
<1>1. CASE at = front
  <2>1. PICK f0 \in Nat, f1 \in Nat, b0 \in Nat :
            /\ f.got = f0 /\ f2.got = f1 /\ b.got = b0 /\ b2.got = b0
            /\ b0 <= f0 /\ f0 <= f1 /\ (f1 = Rows \/ f1 = f0 + ReadRows)
    BY <1>1, CountsType DEF InTurns
  <2>2. b0 <= f1 /\ (f1 = Rows \/ b0 + ReadRows <= f1)
    BY <2>1, FeederBounds
  <2>3. QED
    BY <1>1, <2>1, <2>2, Sides DEF InTurns
<1>2. CASE at = back
  <2>1. PICK f0 \in Nat, b0 \in Nat, b1 \in Nat :
            /\ f.got = f0 /\ f2.got = f0 /\ b.got = b0 /\ b2.got = b1
            /\ f0 = Rows \/ b0 + ReadRows <= f0
            /\ f0 <= Rows /\ b1 <= Rows /\ b1 <= b0 + ReadRows
            /\ eop => b1 = Rows
    BY <1>2, CountsType DEF InTurns
  <2>2. b1 <= f0 /\ (eop => f0 = Rows /\ b1 = Rows)
    BY <2>1, FeederBounds
  <2>3. QED
    BY <1>2, <2>1, <2>2, Sides DEF InTurns
<1>3. QED
  BY <1>1, <1>2, Sides

Kept(ps, rows) == [ps EXCEPT !.rest = rows]

LEMMA KeptSide ==
    ASSUME NEW p, NEW c, NEW c2, c2.pc = c.pc, c2.encoded = c.encoded, c2.given = c.given,
           NEW ps, ps = SideTo(p, c), NEW ps2, ps2 = Kept(ps, Strip(p, c2.cut, c2.got))
    PROVE  ps2 = SideTo(p, c2)
BY DEF SideTo, Kept

\* What scan1 has after a response, and what the scanner has left.
LEMMA RowsSent ==
    ASSUME NEW d \in Nat, NEW s, NEW k \in [Side -> Counts], NEW w, OnSheet(s, d, k),
           Ahead(s, d, w, k), s.pc = "read",
           NEW c1 \in Nat, NEW g1 \in Nat, NEW eop \in BOOLEAN,
           k[s.side].cut <= c1, c1 <= g1, g1 - c1 < Block, Multiple(c1),
           k[s.side].got <= g1, g1 <= Rows, g1 <= k[s.side].got + ReadRows,
           g1 = Rows \/ g1 = k[s.side].got + ReadRows, eop => g1 = Rows,
           NEW s2, s2 = [pc |-> "send", paper |-> s.paper, side |-> s.side, eop |-> eop,
                         chunk |-> Strip(PageNumber(d, s.side), k[s.side].cut, c1),
                         state |-> [s.state EXCEPT ![s.side] =
                                       Kept(@, Strip(PageNumber(d, s.side), c1, g1))],
                         pages |-> s.pages],
           NEW w2, w2 = [w EXCEPT ![s.side] = Strip(PageNumber(d, s.side), g1, Rows)]
    PROVE  \E k2 \in [Side -> Counts] : OnSheet(s2, d, k2) /\ Ahead(s2, d, w2, k2)
<1> DEFINE sd == s.side
           p(side) == PageNumber(d, side)
           c  == [k[sd] EXCEPT !.cut = c1, !.got = g1]
           k2 == [k EXCEPT ![sd] = c]
<1>1. sd \in Side /\ k[sd] \in Counts /\ k[1 - sd] \in Counts /\ Paces(s, k)
  BY SheetFields, Sides
<1>2. /\ s.state = [side \in Side |-> SideTo(p(side), k[side])]
      /\ s.state[sd] = SideTo(p(sd), k[sd])
      /\ s.pages = Stack(2 * (d - 1 - s.paper) + 1, PagesDone(s))
      /\ w = [side \in Side |-> Strip(p(side), k[side].got, Rows)]
  <2>1. s.state = [side \in Side |-> SideTo(p(side), k[side])]
    BY SheetFields
  <2>2. s.pages = Stack(2 * (d - 1 - s.paper) + 1, PagesDone(s))
    BY SheetFields
  <2>3. w = [side \in Side |-> Strip(p(side), k[side].got, Rows)]
    BY DEF Ahead
  <2>4. s.state[sd] = SideTo(p(sd), k[sd])
    BY <1>1, <2>1
  <2>5. QED
    BY <2>1, <2>2, <2>3, <2>4
<1>3. /\ Progress("read", sd, k[sd], sd) /\ Progress("read", sd, k[1 - sd], 1 - sd)
      /\ InTurns("read", sd, s.eop, k[front], k[back])
  BY <1>1, Sides DEF Paces
<1>4. /\ c \in Counts /\ k2 \in [Side -> Counts]
      /\ c.pc = k[sd].pc /\ c.encoded = k[sd].encoded /\ c.given = k[sd].given
      /\ c.cut = c1 /\ c.got = g1
  <2>1. c1 \in 0..Rows /\ g1 \in 0..Rows
    BY FeederBounds
  <2>2. QED
    BY <1>1, <2>1 DEF Counts
<1> HIDE DEF c
<1>5. k[sd].given = k[sd].cut
  BY <1>3 DEF Progress, Flushed
<1>6. /\ s2.pc = "send" /\ s2.side = sd /\ s2.paper = s.paper /\ s2.eop = eop
      /\ s2.pages = s.pages /\ s2.chunk = Strip(p(sd), k[sd].cut, c1)
      /\ s2.state = [s.state EXCEPT ![sd] = Kept(@, Strip(p(sd), c1, g1))]
      /\ s2 = [pc |-> s2.pc, paper |-> s2.paper, side |-> s2.side, eop |-> s2.eop,
               chunk |-> s2.chunk, state |-> s2.state, pages |-> s2.pages]
  OBVIOUS
<1>7. s2.state = [side \in Side |-> SideTo(p(side), k2[side])]
  <2>1. Kept(s.state[sd], Strip(p(sd), c1, g1)) = SideTo(p(sd), c)
    BY <1>2, <1>4, KeptSide
  <2>2. s2.state = [s.state EXCEPT ![sd] = SideTo(p(sd), c)]
    BY <1>6, <2>1
  <2>3. QED
    BY <1>1, <1>2, <2>2
<1>8. Paces(s2, k2)
  <2>1. Progress("send", sd, c, sd)
    BY <1>3, <1>4, <1>5, Sides DEF Progress, Flushed
  <2>2. Progress("send", sd, k[1 - sd], 1 - sd)
    BY <1>3, Sides DEF Progress, Flushed
  <2>3. InTurns("send", sd, eop, k2[front], k2[back])
    <3>1. /\ k[front] \in Counts /\ k[back] \in Counts
          /\ k2[front] \in Counts /\ k2[back] \in Counts
          /\ sd = front => k2[front] = c /\ k2[back] = k[back]
          /\ sd = back => k2[back] = c /\ k2[front] = k[front]
      BY <1>1, <1>4, Sides
    <3>2. /\ k[sd].got <= c.got /\ c.got <= k[sd].got + ReadRows
          /\ c.got = Rows \/ c.got = k[sd].got + ReadRows
          /\ eop => c.got = Rows
      BY <1>4
    <3>3. /\ sd = front => k[sd] = k[front] /\ c = k2[front] /\ k2[back] = k[back]
          /\ sd = back => k[sd] = k[back] /\ c = k2[back] /\ k2[front] = k[front]
      BY <3>1
    <3>4. QED
      BY <1>1, <1>3, <1>4, <3>1, <3>2, <3>3, SentTurns
  <2>4. \A side \in Side : Progress("send", sd, k2[side], side)
    BY <1>1, <2>1, <2>2, Sides
  <2>5. QED
    BY <1>6, <2>3, <2>4 DEF Paces
<1>9. OnSheet(s2, d, k2)
  <2>1. InHand(s2, d, k2) = s2.chunk
    <3>1. k2[sd].given = k[sd].cut /\ k2[sd].cut = c1
      BY <1>1, <1>4, <1>5
    <3>2. QED
      BY <1>6, <3>1 DEF InHand
  <2>2. s2.pages = Stack(2 * (d - 1 - s2.paper) + 1, PagesDone(s2))
    <3>1. PagesDone(s2) = PagesDone(s)
      BY <1>6 DEF PagesDone
    <3>2. QED
      BY <1>2, <1>6, <3>1
  <2>3. d > 0 /\ s2.paper \in 0..(d - 1)
    BY <1>6 DEF OnSheet
  <2>4. QED
    BY <1>1, <1>6, <1>7, <1>8, <2>1, <2>2, <2>3 DEF OnSheet
<1>10. Ahead(s2, d, w2, k2)
  <2>1. w2 = [side \in Side |-> Strip(p(side), k2[side].got, Rows)]
    BY <1>1, <1>2, <1>4
  <2>2. QED
    BY <1>6, <2>1 DEF Ahead
<1>11. QED
  BY <1>4, <1>9, <1>10

LEMMA ReadDataGoes ==
    ASSUME ScansShape, NEW t \in Thread, NEW k \in [Side -> Counts], OnSheet(scans[t], drawn, k),
           Ahead(scans[t], drawn, window, k), ReadData(t), drawn \in Nat
    PROVE  \E k2 \in [Side -> Counts] :
             OnSheet(scans'[t], drawn', k2) /\ Ahead(scans'[t], drawn', window', k2)
<1> DEFINE s    == scans[t]
           sd   == s.side
           p    == PageNumber(drawn, sd)
           left == window[sd]
           n    == IF Len(left) < ReadRows THEN Len(left) ELSE ReadRows
           buf  == Joined(s.state[sd].rest, Cut(left, 1, n))
           cut  == WholeBlocks(buf)
           next(eop) == [s EXCEPT !.pc = "send", !.eop = eop, !.chunk = Cut(buf, 1, cut),
                                  !.state[sd].rest = Cut(buf, cut + 1, Len(buf))]
<1>1. PICK eop \in BOOLEAN :
          /\ eop => n = Len(left)
          /\ scans' = [scans EXCEPT ![t] = next(eop)]
          /\ window' = [window EXCEPT ![sd] = Cut(left, n + 1, Len(left))]
          /\ s.pc = "read" /\ drawn' = drawn
  BY DEF ReadData, ScansShape, Cut, Joined
<1>2. /\ sd \in Side /\ k[sd] \in Counts /\ Paces(s, k)
      /\ s.state[sd] = SideTo(p, k[sd])
  <2>1. sd \in Side /\ Paces(s, k)
    BY SheetFields
  <2>2. \A side \in Side : s.state[side] = SideTo(PageNumber(drawn, side), k[side])
    BY DEF OnSheet
  <2>3. QED
    BY <2>1, <2>2
<1>3. left = Strip(p, k[sd].got, Rows)
  BY <1>1, <1>2 DEF Ahead
<1>4. /\ k[sd].cut \in Nat /\ k[sd].got \in Nat /\ Rows \in Nat
      /\ k[sd].cut <= k[sd].got /\ k[sd].got <= Rows /\ Multiple(k[sd].cut)
  BY <1>2, CountsType DEF Paces, Progress
<1>5. buf = Joined(Strip(p, k[sd].cut, k[sd].got), Cut(left, 1, n))
  <2>1. ASSUME NEW ps, ps = SideTo(p, k[sd])
        PROVE  ps.rest = Strip(p, k[sd].cut, k[sd].got)
    BY <2>1 DEF SideTo
  <2>2. QED
    BY <1>2, <2>1
<1>6. scans'[t] = [pc |-> "send", paper |-> s.paper, side |-> sd, eop |-> eop,
                   chunk |-> Cut(buf, 1, cut),
                   state |-> [s.state EXCEPT ![sd] = Kept(@, Cut(buf, cut + 1, Len(buf)))],
                   pages |-> s.pages]
  <2>1. scans'[t] = next(eop)
    BY <1>1 DEF ScansShape
  <2>2. s = [pc |-> s.pc, paper |-> s.paper, side |-> s.side, eop |-> s.eop, chunk |-> s.chunk,
             state |-> s.state, pages |-> s.pages]
    BY DEF OnSheet
  <2> HIDE DEF s, cut, buf
  <2>3. QED
    BY <2>1, <2>2 DEF Kept
<1> HIDE DEF left, n, buf, cut
<1>7. n = IF Len(left) < ReadRows THEN Len(left) ELSE ReadRows
  BY DEF n
<1>8. cut = WholeBlocks(buf)
  BY DEF cut
<1>9. PICK c1 \in Nat, g1 \in Nat :
          /\ k[sd].cut <= c1 /\ c1 <= g1 /\ g1 - c1 < Block /\ Multiple(c1)
          /\ k[sd].got <= g1 /\ g1 <= Rows /\ g1 <= k[sd].got + ReadRows
          /\ g1 = Rows \/ g1 = k[sd].got + ReadRows
          /\ n = Len(left) => g1 = Rows
          /\ Cut(buf, 1, cut) = Strip(p, k[sd].cut, c1)
          /\ Cut(buf, cut + 1, Len(buf)) = Strip(p, c1, g1)
          /\ Cut(left, n + 1, Len(left)) = Strip(p, g1, Rows)
  <2>1. PICK c0 \in Nat, g0 \in Nat, all \in Nat :
           /\ k[sd].cut = c0 /\ k[sd].got = g0 /\ Rows = all
           /\ c0 <= g0 /\ g0 <= all /\ Multiple(c0)
    BY <1>4
  <2>2. left = Strip(p, g0, all) /\ buf = Joined(Strip(p, c0, g0), Cut(left, 1, n))
    BY <1>3, <1>5, <2>1
  <2>3. \E c1 \in Nat, g1 \in Nat :
          /\ c0 <= c1 /\ c1 <= g1 /\ g1 - c1 < Block /\ Multiple(c1)
          /\ g0 <= g1 /\ g1 <= all /\ g1 <= g0 + ReadRows
          /\ g1 = all \/ g1 = g0 + ReadRows
          /\ n = Len(left) => g1 = all
          /\ Cut(buf, 1, cut) = Strip(p, c0, c1)
          /\ Cut(buf, cut + 1, Len(buf)) = Strip(p, c1, g1)
          /\ Cut(left, n + 1, Len(left)) = Strip(p, g1, all)
    BY <1>7, <1>8, <2>1, <2>2, RowsRead
  <2>4. QED
    BY <2>1, <2>3
<1>10. scans'[t] = [pc |-> "send", paper |-> s.paper, side |-> sd, eop |-> eop,
                   chunk |-> Strip(p, k[sd].cut, c1),
                   state |-> [s.state EXCEPT ![sd] = Kept(@, Strip(p, c1, g1))],
                   pages |-> s.pages]
  BY <1>6, <1>9
<1>11. window' = [window EXCEPT ![sd] = Strip(p, g1, Rows)]
  BY <1>1, <1>9
<1>12. \E k2 \in [Side -> Counts] :
         OnSheet(scans'[t], drawn, k2) /\ Ahead(scans'[t], drawn, window', k2)
  <2>1. eop => g1 = Rows
    BY <1>1, <1>9
  <2>2. s.pc = "read"
    BY <1>1
  <2>3. QED
    BY <1>9, <1>10, <1>11, <2>1, <2>2, RowsSent
<1>13. QED
  BY <1>1, <1>12

\* The hopper is empty: the pages are put into the order of the document.
LEMMA PagesReversed ==
    ASSUME NEW d \in Nat, NEW s, Between(s, d), s.pc = "position",
           NEW pages, pages = ReversePages(s.pages),
           NEW s2, s2 = [pc |-> "ingest", paper |-> s.paper, side |-> s.side, eop |-> s.eop,
                         chunk |-> s.chunk, state |-> s.state, pages |-> pages]
    PROVE  Between(s2, d)
<1>1. s.chunk = <<>> /\ s.state = <<>>
  BY BetweenFields
<1>2. /\ s2.pc = "ingest" /\ s2.pages = pages /\ s2.paper = s.paper
      /\ s2.side = s.side /\ s2.eop = s.eop
      /\ s2 = [pc |-> s2.pc, paper |-> s2.paper, side |-> s2.side, eop |-> s2.eop,
               chunk |-> <<>>, state |-> <<>>, pages |-> s2.pages]
  BY <1>1
<1>3. s2.pages = Reverse(Stack(2 * (d - s.paper) + 1, 2 * s.paper))
  <2>1. s.pages = Stack(2 * (d - s.paper) + 1, 2 * s.paper)
    BY BetweenFields
  <2>2. QED
    BY <1>2, <2>1, Zenon DEF ReversePages
<1>4. s.paper \in 0..d /\ s.side \in Side /\ s.eop \in BOOLEAN
  BY DEF Between
<1>5. QED
  BY <1>2, <1>3, <1>4 DEF Between

LEMMA HopperEmptyGoes ==
    ASSUME ScansShape, NEW t \in Thread, Between(scans[t], drawn), HopperEmpty(t), drawn \in Nat
    PROVE  Between(scans'[t], drawn')
<1> DEFINE s == scans[t]
<1>1. /\ s.pc = "position" /\ drawn' = drawn
      /\ scans'[t] = [s EXCEPT !.pc = "ingest", !.pages = ReversePages(@)]
  BY DEF HopperEmpty, ScansShape
<1>2. scans'[t] = [pc |-> "ingest", paper |-> s.paper, side |-> s.side, eop |-> s.eop,
                   chunk |-> s.chunk, state |-> s.state, pages |-> ReversePages(s.pages)]
  <2>1. s = [pc |-> s.pc, paper |-> s.paper, side |-> s.side, eop |-> s.eop, chunk |-> <<>>,
             state |-> <<>>, pages |-> s.pages]
    BY DEF Between
  <2> HIDE DEF s
  <2>2. QED
    BY <1>1, <2>1
<1>3. QED
  BY <1>1, <1>2, PagesReversed

-----------------------------------------------------------------------------
(* The invariant, and who keeps it.  A handle tells devices apart: one that *)
(* was plugged in again is another device, without the rows of the sheet.    *)

HandlesMade == \A d \in 1..opens : devs[d] <= plugs

OrderInv == \A t \in Thread : Orderly(scans[t], drawn, window, Handle(uses[t]))

BoundsInv ==
    /\ FeederTypeOK
    /\ plugs <= MaxPlugs /\ opens <= MaxOpens /\ asked \in 0..MaxScans

\* The inductive invariant.
ScanInv == LockInv /\ HandlesMade /\ OrderInv /\ BoundsInv

LEMMA HandlesMadeStep ==
    ASSUME LockInv, HandlesMade, [Next]_vars
    PROVE  HandlesMade'
<1> USE DEF LockInv
<1>1. CASE UNCHANGED <<plugs, opens, devs>>
  BY <1>1 DEF HandlesMade
<1>2. CASE Plug
  BY <1>2 DEF Plug, HandlesMade, DevicesType, finderVars
<1>3. CASE OpenDevice
  <2>1. /\ opens' = opens + 1 /\ devs' = Append(devs, plugs) /\ plugs' = plugs
        /\ devs \in Seq(Nat) /\ Len(devs) = opens /\ plugs \in Nat /\ opens \in Nat
    BY <1>3 DEF OpenDevice, DevicesType, deviceVars
  <2>2. \A d \in 1..(opens + 1) : devs'[d] = IF d \in 1..opens THEN devs[d] ELSE plugs
    BY <2>1, AppendProperties
  <2>3. QED
    BY <2>1, <2>2 DEF HandlesMade
<1>4. CASE CloseDevice
  <2>1. /\ opens' = opens /\ devs' = [devs EXCEPT ![opens] = 0] /\ plugs' = plugs
        /\ plugs \in Nat /\ opens \in Nat
    BY <1>4 DEF CloseDevice, DevicesType, deviceVars, Closed
  <2>2. QED
    BY <2>1 DEF HandlesMade, DevicesType
<1>5. CASE \E t \in Thread : RequestScan(t) \/ ScanTo(t)
  BY <1>1, <1>5 DEF RequestScan, ScanTo, BeginScan, Disappeared, Request, Inside, Encoding,
                    ScanFails, Ingest, deviceVars, finderVars
<1>6. CASE Insert \/ Unplug \/ ButtonPressed \/ StatusFails \/ ForgetSource \/ UNCHANGED vars
  BY <1>1, <1>6 DEF Insert, Unplug, ButtonPressed, StatusFails, ForgetSource, vars, deviceVars,
                    finderVars
<1>7. QED
  BY <1>2, <1>3, <1>4, <1>5, <1>6 DEF Next, Finder

LEMMA LockScansAlone ==
    ASSUME LockInv
    PROVE  ScansAlone
<1> SUFFICES ASSUME NEW t \in Thread, Scanning(t)
             PROVE  /\ devs[uses[t]] # Closed /\ uses[t] = opens
                    /\ \A u \in Thread \ {t} : ~Scanning(u)
  BY DEF ScansAlone
<1>1. \A u \in Thread : Scanning(u) =>
        /\ devs[uses[u]] # Closed /\ locks[uses[u]] = u /\ uses[u] = opens
  BY DEF LockInv, HoldsOpen, UsesOpened, OldOnesClosed, DevicesType, Scanning
<1>2. QED
  BY <1>1

LEMMA OthersWait ==
    ASSUME LockInv, OrderInv, drawn \in Nat, NEW t \in Thread, Scanning(t)
    PROVE  \A u \in Thread \ {t} : Waiting(scans[u])
BY LockScansAlone, OrderlyFields DEF ScansAlone, OrderInv, Scanning

\* A step of the thread that scans.
LEMMA ScannerKeeps ==
    ASSUME LockInv, OrderInv, drawn \in Nat, NEW t \in Thread, Scanning(t),
           \A u \in Thread \ {t} : scans'[u] = scans[u],
           Orderly(scans'[t], drawn', window', Handle(uses[t])')
    PROVE  OrderInv'
<1>1. \A u \in Thread \ {t} : Waiting(scans'[u])
  BY OthersWait
<1>2. QED
  BY <1>1 DEF OrderInv, Orderly

\* What happens beside a scan.
LEMMA BesideKeeps ==
    ASSUME OrderInv, drawn \in Nat, drawn' = drawn,
           \A u \in Thread :
             \/ Waiting(scans'[u]) \/ Between(scans'[u], drawn)
             \/ /\ scans'[u] = scans[u]
                /\ Scanning(u) /\ Handle(uses[u])' => Handle(uses[u]) /\ window' = window
    PROVE  OrderInv'
<1> SUFFICES ASSUME NEW u \in Thread
             PROVE  Orderly(scans'[u], drawn', window', Handle(uses[u])')
  BY DEF OrderInv
<1>1. CASE Waiting(scans'[u]) \/ Between(scans'[u], drawn)
  BY <1>1 DEF Orderly
<1>2. CASE /\ scans'[u] = scans[u]
           /\ Scanning(u) /\ Handle(uses[u])' => Handle(uses[u]) /\ window' = window
  <2>1. Orderly(scans[u], drawn, window, Handle(uses[u]))
    BY DEF OrderInv
  <2>2. CASE Scanning(u) /\ Handle(uses[u])'
    BY <1>2, <2>1, <2>2 DEF Orderly
  <2>3. CASE Scanning(u) /\ ~Handle(uses[u])'
    BY <1>2, <2>1, <2>3 DEF Orderly
  <2>4. CASE ~Scanning(u)
    BY <1>2, <2>1, <2>4, OrderlyFields DEF Scanning, Orderly
  <2>5. QED
    BY <2>2, <2>3, <2>4
<1>3. QED
  BY <1>1, <1>2

LEMMA CallOrder ==
    ASSUME LockInv, OrderInv, drawn \in Nat, NEW t \in Thread, NEW d, scans[t].pc = "idle",
           CallScanTo(t, d), UNCHANGED <<drawn, window, deviceVars, devs>>
    PROVE  OrderInv'
<1>1. scans[t] = NotScanning
  BY OrderlyFields DEF OrderInv
<1>2. Waiting(scans'[t])
  BY <1>1 DEF CallScanTo, LockInv, ScansShape, Waiting
<1>3. ASSUME NEW u \in Thread \ {t}
      PROVE  scans'[u] = scans[u] /\ (Handle(uses[u])' <=> Handle(uses[u]))
  BY <1>3 DEF CallScanTo, LockInv, ScansShape, DevicesType, Handle, deviceVars
<1>4. QED
  BY <1>2, <1>3, BesideKeeps

LEMMA DeviceOrder ==
    ASSUME LockInv, HandlesMade, OrderInv, drawn \in Nat,
           Insert \/ Plug \/ Unplug \/ OpenDevice \/ StatusFails \/ CloseDevice \/ ForgetSource
    PROVE  OrderInv'
<1> USE DEF LockInv
<1>1. UNCHANGED <<drawn, scans, uses>>
  BY DEF Insert, Plug, Unplug, OpenDevice, StatusFails, CloseDevice, ForgetSource, feederVars
<1>2. ASSUME NEW u \in Thread, Scanning(u), Handle(uses[u])'
      PROVE  Handle(uses[u]) /\ window' = window
  <2>1. PICK d \in 1..opens : uses[u] = d
    BY <1>2 DEF UsesOpened, Scanning
  <2>2. opens \in Nat /\ plugs \in Nat /\ devs[d] \in Nat /\ devs[d] <= plugs
    BY DEF DevicesType, HandlesMade
  <2>3. plugged' /\ devs'[d] = plugs'
    BY <1>1, <1>2, <2>1 DEF Handle
  <2>4. CASE Insert \/ StatusFails \/ ForgetSource
    BY <1>1, <2>1, <2>3, <2>4 DEF Insert, StatusFails, ForgetSource, Handle, feederVars,
                                  deviceVars, finderVars
  <2>5. CASE Plug
    <3>1. devs'[d] = devs[d] /\ plugs' = plugs + 1
      BY <2>5 DEF Plug, finderVars
    <3>2. devs[d] = plugs + 1
      BY <2>3, <3>1
    <3>3. QED
      BY <2>2, <3>2
  <2>6. ~Unplug
    BY <2>3 DEF Unplug
  <2>7. CASE OpenDevice
    <3>1. /\ devs' = Append(devs, plugs) /\ plugs' = plugs /\ plugged' = plugged /\ window' = window
          /\ devs \in Seq(Nat) /\ Len(devs) = opens
      BY <2>7 DEF OpenDevice, deviceVars, feederVars, DevicesType
    <3>2. devs'[d] = devs[d]
      BY <2>1, <3>1, AppendProperties
    <3>3. QED
      BY <2>1, <2>3, <3>1, <3>2 DEF Handle
  <2>8. CASE CloseDevice
    <3>1. /\ devs' = [devs EXCEPT ![opens] = 0] /\ plugs' = plugs /\ plugged' = plugged
          /\ window' = window
      BY <2>8 DEF CloseDevice, deviceVars, feederVars, Closed
    <3>2. plugs > 0
      BY <2>3, <3>1 DEF DevicesType
    <3>3. devs'[d] = devs[d]
      BY <2>2, <2>3, <3>1, <3>2 DEF DevicesType
    <3>4. QED
      BY <2>1, <2>3, <3>1, <3>3 DEF Handle
  <2>9. QED
    BY <2>4, <2>5, <2>6, <2>7, <2>8
<1>3. QED
  BY <1>1, <1>2, BesideKeeps

LEMMA BeginOrder ==
    ASSUME LockInv, OrderInv, drawn \in Nat, NEW t \in Thread, BeginScan(t) \/ Disappeared(t)
    PROVE  OrderInv'
<1>1. /\ UNCHANGED <<drawn, window, plugs, plugged, devs, uses>>
      /\ scans' = [scans EXCEPT ![t] = StartScanning] \/ scans' = [scans EXCEPT ![t] = NotScanning]
  BY DEF BeginScan, Disappeared, deviceVars, finderVars
<1>2. Waiting(scans'[t]) \/ Between(scans'[t], drawn)
  <2>1. CASE scans'[t] = NotScanning
    BY <2>1 DEF Waiting
  <2>2. CASE scans'[t] = StartScanning
    <3>1. Stack(2 * (drawn - 0) + 1, 2 * 0) = <<>>
      BY DEF Stack
    <3>2. ASSUME NEW q, q = NotScanning, NEW s, s = [q EXCEPT !.pc = "position"]
          PROVE  Between(s, drawn)
      <4>1. /\ s.pc = "position" /\ s.paper = 0 /\ s.side \in Side /\ s.pages = <<>>
            /\ s = [pc |-> s.pc, paper |-> s.paper, side |-> s.side, eop |-> s.eop, chunk |-> <<>>,
                    state |-> <<>>, pages |-> s.pages]
        BY <3>2, Sides DEF NotScanning
      <4>2. s.eop \in BOOLEAN
        <5>1. s.eop = FALSE
          BY <3>2 DEF NotScanning
        <5>2. QED
          BY <5>1, Zenon
      <4>3. QED
        BY <3>1, <4>1, <4>2 DEF Between
    <3>3. Between(StartScanning, drawn)
      BY <3>2, Zenon DEF StartScanning
    <3>4. QED
      BY <2>2, <3>3
  <2>3. QED
    BY <1>1, <2>1, <2>2 DEF LockInv, ScansShape
<1>3. ASSUME NEW u \in Thread \ {t}
      PROVE  scans'[u] = scans[u] /\ (Handle(uses[u])' <=> Handle(uses[u]))
  BY <1>1 DEF LockInv, ScansShape, Handle
<1>4. QED
  BY <1>1, <1>2, <1>3, BesideKeeps

LEMMA EndOrder ==
    ASSUME LockInv, OrderInv, drawn \in Nat, NEW t \in Thread, ScanFails(t) \/ Ingest(t)
    PROVE  OrderInv'
<1>1. scans' = [scans EXCEPT ![t] = NotScanning] /\ Scanning(t)
  BY DEF ScanFails, RequestFails, NoDocument, Ingest, Scanning
<1>2. QED
  BY <1>1, ScannerKeeps DEF LockInv, ScansShape, Orderly, Waiting

LEMMA ScanOrder ==
    ASSUME LockInv, OrderInv, drawn \in Nat, NEW t \in Thread,
           Request(t) \/ Inside(t) \/ Encoding(t)
    PROVE  OrderInv'
<1>1. Orderly(scans[t], drawn, window, Handle(uses[t])) /\ ScansShape
  BY DEF OrderInv, LockInv
<1>2. GoesOn(t) /\ Scanning(t)
  <2>1. GoesOn(t)
    BY <1>1, RequestGoesOn, InsideGoesOn, EncodingGoesOn
  <2>2. CASE Request(t)
    BY <2>1, <2>2 DEF Request
  <2>3. CASE Inside(t)
    BY <2>1, <2>3 DEF Inside, Send, SendRest, AddPage, Scanning
  <2>4. CASE Encoding(t)
    <3>1. scans[t].state # <<>>
      BY <2>4 DEF Encoding, Encode
    <3>2. ~Waiting(scans[t])
      BY <3>1 DEF Waiting, NotScanning
    <3>3. QED
      BY <1>1, <2>1, <3>2, OrderlyFields DEF Scanning
  <2>5. QED
    BY <2>2, <2>3, <2>4
<1>3. Handle(uses[t])' <=> Handle(uses[t])
  BY <1>2 DEF GoesOn, devices, deviceVars, finderVars, Handle
<1>4. ASSUME NEW k \in [Side -> Counts], OnSheet(scans[t], drawn, k), Goes(t, k),
             Handle(uses[t]) => Ahead(scans[t], drawn, window, k)
      PROVE  Orderly(scans'[t], drawn', window', Handle(uses[t]))
  BY <1>4 DEF Goes, Orderly
<1>5. Orderly(scans'[t], drawn', window', Handle(uses[t]))
  <2>1. CASE FeedSheet(t)
    BY <1>1, <2>1, OrderlyFields, FeedSheetGoes DEF FeedSheet, Orderly
  <2>2. CASE HopperEmpty(t)
    BY <1>1, <2>2, OrderlyFields, HopperEmptyGoes DEF HopperEmpty, Orderly
  <2>3. CASE ReadData(t) /\ Handle(uses[t])
    BY <1>1, <2>3, OrderlyFields, ReadDataGoes DEF ReadData, Orderly
  <2>4. CASE NoDataYet(t)
    BY <1>1, <1>4, <2>4, OrderlyFields, NoDataYetGoes DEF NoDataYet
  <2>5. CASE Send(t)
    BY <1>1, <1>4, <2>5, OrderlyFields, SendGoes DEF Send
  <2>6. CASE SendRest(t)
    BY <1>1, <1>4, <2>6, OrderlyFields, SendRestGoes DEF SendRest
  <2>7. CASE AddPage(t)
    BY <1>1, <1>4, <2>7, OrderlyFields, AddPageGoes DEF AddPage, Orderly
  <2>8. ASSUME NEW side \in Side, Encode(t, side)
        PROVE  Orderly(scans'[t], drawn', window', Handle(uses[t]))
    <3>1. scans[t].pc \in {"read", "send", "flush", "close"}
      <4>1. scans[t].state # <<>>
        BY <2>8 DEF Encode
      <4>2. QED
        BY <1>1, <4>1, BetweenFields, SheetScans DEF Orderly, Waiting, NotScanning
    <3>2. QED
      BY <1>1, <1>4, <2>8, <3>1, OrderlyFields, EncodeGoes
  <2>9. QED
    BY <2>1, <2>2, <2>3, <2>4, <2>5, <2>6, <2>7, <2>8 DEF Request, Inside, Encoding
<1>6. Orderly(scans'[t], drawn', window', Handle(uses[t])')
  BY <1>3, <1>5 DEF Orderly
<1>7. QED
  BY <1>2, <1>6, ScannerKeeps DEF GoesOn

LEMMA OrderStep ==
    ASSUME LockInv, HandlesMade, OrderInv, drawn \in Nat, [Next]_vars
    PROVE  OrderInv'
<1>1. CASE ButtonPressed
  BY <1>1, CallOrder, FinderAssumption DEF ButtonPressed, finderVars
<1>2. ASSUME NEW t \in Thread, RequestScan(t)
      PROVE  OrderInv'
  BY <1>2, CallOrder DEF RequestScan, finderVars
<1>3. ASSUME NEW t \in Thread, ScanTo(t)
      PROVE  OrderInv'
  BY <1>3, BeginOrder, EndOrder, ScanOrder DEF ScanTo
<1>4. CASE UNCHANGED vars
  BY <1>4 DEF vars, feederVars, deviceVars, finderVars, OrderInv, Handle
<1>5. QED
  BY <1>1, <1>2, <1>3, <1>4, DeviceOrder DEF Next, Finder

\* The rows of a sheet, and the rest of them after a response.
LEMMA FreshRows ==
    ASSUME NEW d \in Nat, d < MaxSheets, NEW side \in Side
    PROVE  /\ RowsOf(PageNumber(d + 1, side)) \in Seq(Row)
           /\ Len(RowsOf(PageNumber(d + 1, side))) = Rows
<1>1. PICK p \in Page : p = PageNumber(d + 1, side)
  BY FeederBounds, Sides DEF Page, PageNumber, Side, front, back
<1>2. RowsOf(p) \in Seq(Row) /\ Len(RowsOf(p)) = Rows
  BY FeederBounds DEF RowsOf, Row
<1>3. QED
  BY <1>1, <1>2

LEMMA RowsLeft ==
    ASSUME NEW w \in Seq(Row), Len(w) <= Rows, NEW n \in Nat
    PROVE  SubSeq(w, n + 1, Len(w)) \in Seq(Row) /\ Len(SubSeq(w, n + 1, Len(w))) <= Rows
<1>1. Len(w) \in Nat /\ Rows \in Nat
  BY FeederBounds
<1>2. CASE n + 1 <= Len(w)
  BY <1>1, <1>2, SubSeqProperties
<1>3. CASE ~(n + 1 <= Len(w))
  BY <1>1, <1>3
<1>4. QED
  BY <1>2, <1>3

LEMMA FeederKeeps ==
    ASSUME ScanInv, [Next]_vars
    PROVE  FeederTypeOK'
<1> USE DEF ScanInv, BoundsInv
<1>1. CASE UNCHANGED <<hopper, drawn, window>>
  BY <1>1 DEF FeederTypeOK
<1>2. CASE Insert
  BY <1>2, FeederBounds DEF Insert, FeederTypeOK
<1>3. CASE UNCHANGED <<hopper, drawn>> /\ window' = [side \in Side |-> <<>>]
  BY <1>3, FeederBounds DEF FeederTypeOK
<1>4. ASSUME NEW t \in Thread, FeedSheet(t)
      PROVE  FeederTypeOK'
  <2>1. /\ hopper > 0 /\ hopper' = hopper - 1 /\ drawn' = drawn + 1
        /\ window' = [side \in Side |-> RowsOf(PageNumber(drawn + 1, side))]
    BY <1>4 DEF FeedSheet
  <2>2. drawn \in Nat /\ drawn < MaxSheets
    BY <2>1, FeederBounds DEF FeederTypeOK
  <2>3. hopper' \in 0..MaxSheets /\ drawn' \in 0..MaxSheets /\ hopper' + drawn' <= MaxSheets
    BY <2>1, FeederBounds DEF FeederTypeOK
  <2>4. QED
    BY <2>1, <2>2, <2>3, FreshRows, FeederBounds DEF FeederTypeOK
<1>5. ASSUME NEW t \in Thread, ReadData(t), Handle(uses[t])
      PROVE  FeederTypeOK'
  <2> DEFINE sd == scans[t].side
             left == window[sd]
             n == IF Len(left) < ReadRows THEN Len(left) ELSE ReadRows
  <2>1. /\ UNCHANGED <<hopper, drawn>> /\ scans[t].pc = "read"
        /\ window' = [window EXCEPT ![sd] = SubSeq(left, n + 1, Len(left))]
    BY <1>5 DEF ReadData
  <2>2. PICK k \in [Side -> Counts] :
            OnSheet(scans[t], drawn, k) /\ Ahead(scans[t], drawn, window, k)
    <3>1. drawn \in Nat /\ Orderly(scans[t], drawn, window, Handle(uses[t]))
      BY DEF OrderInv, FeederTypeOK
    <3>2. QED
      BY <1>5, <2>1, <3>1, OrderlyFields
  <2>3. sd \in Side /\ DOMAIN window = Side
    BY <2>1, <2>2 DEF OnSheet, Ahead
  <2>4. \A side \in Side : window'[side] =
          IF side = sd THEN SubSeq(left, n + 1, Len(left)) ELSE window[side]
    BY <2>1, <2>3
  <2>5. left \in Seq(Row) /\ Len(left) <= Rows /\ n \in Nat
    BY <2>3, FeederBounds DEF FeederTypeOK
  <2> HIDE DEF n, left
  <2>6. SubSeq(left, n + 1, Len(left)) \in Seq(Row) /\ Len(SubSeq(left, n + 1, Len(left))) <= Rows
    BY <2>5, RowsLeft
  <2>7. \A side \in Side : window'[side] \in Seq(Row) /\ Len(window'[side]) <= Rows
    BY <2>4, <2>6 DEF FeederTypeOK
  <2>8. QED
    BY <2>1, <2>7 DEF FeederTypeOK
<1>6. ASSUME NEW t \in Thread, ScanTo(t)
      PROVE  FeederTypeOK'
  <2>1. CASE BeginScan(t) \/ Disappeared(t) \/ Inside(t) \/ Encoding(t) \/ Ingest(t)
    BY <1>1, <2>1 DEF BeginScan, Disappeared, Inside, Encoding, Ingest, Send, SendRest, AddPage,
                      Encode, feederVars
  <2>2. CASE Request(t)
    BY <1>1, <1>4, <1>5, <2>2 DEF Request, HopperEmpty, NoDataYet
  <2>3. CASE ScanFails(t)
    BY <1>1, <1>3, <2>3 DEF ScanFails, RequestFails, NoDocument
  <2>4. QED
    BY <1>6, <2>1, <2>2, <2>3 DEF ScanTo
<1>7. ASSUME NEW t \in Thread, RequestScan(t)
      PROVE  FeederTypeOK'
  BY <1>1, <1>7 DEF RequestScan
<1>8. CASE Unplug
  BY <1>3, <1>8 DEF Unplug
<1>9. CASE Plug \/ Finder \/ UNCHANGED vars
  BY <1>1, <1>9 DEF Plug, Finder, OpenDevice, ButtonPressed, StatusFails, CloseDevice, ForgetSource,
                    vars, feederVars
<1>10. QED
  BY <1>2, <1>6, <1>7, <1>8, <1>9 DEF Next

LEMMA CountersKeep ==
    ASSUME ScanInv, [Next]_vars
    PROVE  plugs' <= MaxPlugs /\ opens' <= MaxOpens /\ asked' \in 0..MaxScans
<1> USE DEF ScanInv, BoundsInv
<1>1. plugs \in Nat /\ opens \in Nat
  BY DEF LockInv, DevicesType
<1>2. CASE UNCHANGED <<plugs, opens, asked>>
  BY <1>2
<1>3. CASE Plug
  BY <1>1, <1>3, Fss500Bounds DEF Plug, finderVars
<1>4. CASE OpenDevice
  BY <1>1, <1>4, Fss500Bounds DEF OpenDevice, deviceVars
<1>5. ASSUME NEW t \in Thread, RequestScan(t)
      PROVE  plugs' <= MaxPlugs /\ opens' <= MaxOpens /\ asked' \in 0..MaxScans
  BY <1>5, Fss500Bounds DEF RequestScan, deviceVars, finderVars
<1>6. ASSUME NEW t \in Thread, ScanTo(t)
      PROVE  UNCHANGED <<plugs, opens, asked>>
  BY <1>6 DEF ScanTo, BeginScan, Disappeared, Request, Inside, Encoding, ScanFails, Ingest,
              deviceVars, finderVars
<1>7. CASE \/ Insert \/ Unplug \/ ButtonPressed \/ StatusFails \/ CloseDevice \/ ForgetSource
           \/ UNCHANGED vars
  BY <1>2, <1>7 DEF Insert, Unplug, ButtonPressed, StatusFails, CloseDevice, ForgetSource, vars,
                    deviceVars, finderVars
<1>8. QED
  BY <1>2, <1>3, <1>4, <1>5, <1>6, <1>7 DEF Next, Finder

LEMMA ScanInit == Init => ScanInv
<1> SUFFICES ASSUME Init PROVE ScanInv
  OBVIOUS
<1>1. LockInv
  BY LockInit
<1>2. HandlesMade
  BY DEF Init, HandlesMade
<1>3. OrderInv
  BY DEF Init, FeederInit, OrderInv, Orderly, Waiting
<1>4. BoundsInv
  BY FeederBounds, Fss500Bounds DEF Init, FeederInit, BoundsInv, FeederTypeOK
<1>5. QED
  BY <1>1, <1>2, <1>3, <1>4 DEF ScanInv

LEMMA ScanStep == ScanInv /\ [Next]_vars => ScanInv'
<1> SUFFICES ASSUME ScanInv, [Next]_vars PROVE ScanInv'
  OBVIOUS
<1>1. drawn \in Nat
  BY DEF ScanInv, BoundsInv, FeederTypeOK
<1>2. QED
  BY <1>1, LockStep, HandlesMadeStep, OrderStep, FeederKeeps, CountersKeep DEF ScanInv, BoundsInv

-----------------------------------------------------------------------------
(* What the invariant says of a scan. *)

LEMMA ScanShape ==
    ASSUME NEW s, NEW d \in Nat, NEW w, NEW good, Orderly(s, d, w, good)
    PROVE  /\ s.side \in Side /\ s.paper \in Nat /\ s.paper <= d
           /\ Len(s.pages) \in {2 * s.paper, 2 * s.paper + 1}
           /\ s.state # <<>> =>
                \A side \in Side :
                   Len(s.state[side].rest) < Block /\ ReadsPixels(s.state[side]) % Block = 0
<1>1. CASE Waiting(s)
  BY <1>1, Sides DEF Waiting, NotScanning
<1>2. CASE Between(s, d)
  <2>1. PICK n \in Nat, first \in Nat : n = 2 * s.paper /\ first = 2 * (d - s.paper) + 1
    BY <1>2, BetweenFields
  <2>2. Len(s.pages) = n
    <3>1. s.pages = Stack(first, n) \/ s.pages = Reverse(Stack(first, n))
      BY <1>2, <2>1, BetweenFields
    <3>2. QED
      BY <3>1, StackLen, StackReversed
  <2>3. QED
    BY <1>2, <2>1, <2>2, BetweenFields
<1>3. ASSUME NEW k \in [Side -> Counts], OnSheet(s, d, k)
      PROVE  /\ s.side \in Side /\ s.paper \in Nat /\ s.paper <= d
             /\ Len(s.pages) \in {2 * s.paper, 2 * s.paper + 1}
             /\ \A side \in Side :
                   Len(s.state[side].rest) < Block /\ ReadsPixels(s.state[side]) % Block = 0
  <2>1. s.side \in Side /\ s.paper \in Nat /\ s.paper < d
    BY <1>3, SheetFields
  <2>2. Len(s.pages) \in {2 * s.paper, 2 * s.paper + 1}
    <3>1. PICK n \in Nat, first \in Nat : n = PagesDone(s) /\ first = 2 * (d - 1 - s.paper) + 1
      BY <2>1, Sides DEF PagesDone, Side, front, back
    <3>2. s.pages = Stack(first, n)
      BY <1>3, <3>1, SheetFields
    <3>3. n \in {2 * s.paper, 2 * s.paper + 1}
      BY <2>1, <3>1 DEF PagesDone, Side, front, back
    <3>4. QED
      BY <3>2, <3>3, StackLen
  <2>3. ASSUME NEW side \in Side
        PROVE  Len(s.state[side].rest) < Block /\ ReadsPixels(s.state[side]) % Block = 0
    <3>1. PICK ps : ps = s.state[side] /\ ps = SideTo(PageNumber(d, side), k[side])
      BY <1>3 DEF OnSheet
    <3>2. Progress(s.pc, s.side, k[side], side) /\ k[side] \in Counts
      BY <1>3, SheetFields DEF Paces
    <3>3. PICK e \in Nat, g \in Nat, c \in Nat, r \in Nat :
              /\ k[side].encoded = e /\ k[side].given = g /\ k[side].cut = c /\ k[side].got = r
              /\ e <= g /\ c <= r
      BY <3>2, CountsType DEF Progress
    <3>4. Len(ps.rest) = r - c /\ Len(ps.chunk) = g - e
      BY <3>1, <3>3, StripLen DEF SideTo
    <3>5. Block \in Nat /\ Block > 0 /\ Rows \in Nat /\ 2 * (Rows % Block) \in {0, Block}
      BY FeederBounds
    <3>6. PICK h \in Nat : h = g - e
      BY <3>3
    <3>7. (h + (h % Block)) % Block = 0
      <4>1. CASE Flushed(s.pc, s.side, side)
        <5>1. g = Rows /\ r = Rows /\ e \in {c, Rows} /\ Multiple(c) /\ r - c < Block
          BY <3>2, <3>3, <4>1 DEF Progress
        <5>2. CASE e = Rows
          <6>1. h = 0
            BY <3>5, <3>6, <5>1, <5>2
          <6>2. QED
            BY <3>5, <6>1
        <5>3. CASE e = c
          <6>1. PICK q \in Nat : c = q * Block
            BY <5>1 DEF Multiple
          <6>2. h < Block /\ Rows = q * Block + h
            BY <3>5, <3>6, <5>1, <5>3, <6>1
          <6>3. Rows % Block = h
            BY <6>2, Remainder
          <6>4. (0 * Block + h) % Block = h /\ 0 * Block + h = h
            BY <3>5, <6>2, Remainder
          <6>5. h + h = 0 \/ h + h = Block
            BY <3>5, <6>3
          <6>6. QED
            BY <3>5, <6>4, <6>5
        <5>4. QED
          BY <5>1, <5>2, <5>3
      <4>2. CASE ~Flushed(s.pc, s.side, side)
        <5>1. Multiple(e) /\ Multiple(g)
          BY <3>2, <3>3, <4>2 DEF Progress
        <5>2. h % Block = 0
          BY <3>3, <3>6, <5>1, MultipleMod
        <5>3. h + (h % Block) = h
          BY <5>2
        <5>4. QED
          BY <5>2, <5>3
      <4>3. QED
        BY <4>1, <4>2
    <3>8. Len(ps.rest) < Block
      BY <3>2, <3>3, <3>4 DEF Progress
    <3>9. ReadsPixels(ps) = h + (h % Block)
      BY <3>4, <3>6 DEF ReadsPixels, Padding
    <3>10. QED
      BY <3>1, <3>7, <3>8, <3>9
  <2>4. QED
    BY <2>1, <2>2, <2>3
<1>4. QED
  BY <1>1, <1>2, <1>3 DEF Orderly

LEMMA InvTypeOK ==
    ASSUME ScanInv
    PROVE  TypeOK
<1> USE DEF ScanInv, BoundsInv
<1>1. /\ plugs \in 0..MaxPlugs /\ plugged \in BOOLEAN
      /\ finderPc \in {"find", "poll", "close", "forget"}
      /\ opens \in 0..MaxOpens /\ source \in 0..opens
      /\ uses \in [Thread -> 0..opens] /\ asked \in 0..MaxScans
  BY Fss500Bounds DEF LockInv, DevicesType
<1>2. /\ opens \in Nat /\ devs \in [1..opens -> 0..plugs]
      /\ locks \in [1..opens -> Thread \cup {Nobody}]
  BY DEF LockInv, DevicesType, HandlesMade
<1>3. devs \in Seq(0..plugs) /\ Len(devs) = opens
  <2>1. PICK S : S = 0..plugs
    OBVIOUS
  <2>2. devs \in [1..opens -> S]
    BY <1>2, <2>1
  <2>3. devs \in Seq(S) /\ Len(devs) = opens
    BY <1>2, <2>2
  <2>4. QED
    BY <2>1, <2>3
<1>4. locks \in Seq(Thread \cup {Nobody}) /\ Len(locks) = opens
  BY <1>2
<1>5. ASSUME NEW t \in Thread
      PROVE  /\ scans[t].side \in Side /\ scans[t].paper <= drawn
             /\ Len(scans[t].pages) \in {2 * scans[t].paper, 2 * scans[t].paper + 1}
             /\ scans[t].state # <<>> =>
                   \A side \in Side : Len(scans[t].state[side].rest) < Block
  BY ScanShape DEF OrderInv, FeederTypeOK
<1>6. QED
  BY <1>1, <1>3, <1>4, <1>5 DEF TypeOK

LEMMA InvInOrder ==
    ASSUME ScanInv
    PROVE  DocumentInOrder
<1> SUFFICES ASSUME NEW t \in Thread, scans[t].pc = "ingest"
             PROVE  /\ Len(scans[t].pages) = 2 * scans[t].paper
                    /\ \A i \in DOMAIN scans[t].pages :
                         IsPage(scans[t].pages[i], PageNumber(drawn, back) + 1 - i)
  BY DEF DocumentInOrder
<1> DEFINE s == scans[t]
<1>1. drawn \in Nat /\ Between(s, drawn)
  BY OrderlyFields DEF ScanInv, BoundsInv, FeederTypeOK, OrderInv
<1>2. PICK n \in Nat, first \in Nat : n = 2 * s.paper /\ first = 2 * (drawn - s.paper) + 1
  BY <1>1, BetweenFields
<1>3. s.pages = Reverse(Stack(first, n))
  BY <1>1, <1>2, BetweenFields
<1>4. /\ Len(s.pages) = n /\ DOMAIN s.pages = 1..n
      /\ \A i \in 1..n : s.pages[i] = PageTo(first + (n - i + 1), Rows)
  BY <1>3, StackReversed
<1>5. ASSUME NEW i \in 1..n
      PROVE  IsPage(s.pages[i], PageNumber(drawn, back) + 1 - i)
  <2>1. PICK p \in Nat : p = first + (n - i + 1)
    BY <1>2
  <2>2. PICK m \in Nat : m = s.paper
    BY <1>1, BetweenFields
  <2>3. PageNumber(drawn, back) + 1 - i = p
    BY <1>1, <1>2, <2>1, <2>2 DEF PageNumber, back
  <2>4. QED
    BY <1>4, <2>1, <2>3, WholePage
<1>6. QED
  BY <1>2, <1>4, <1>5

LEMMA InvWholeBlocks ==
    ASSUME ScanInv
    PROVE  WholeBlocksEncoded
<1> SUFFICES ASSUME NEW t \in Thread, scans[t].state # <<>>, NEW side \in Side
             PROVE  ReadsPixels(scans[t].state[side]) % Block = 0
  BY DEF WholeBlocksEncoded
<1>1. drawn \in Nat /\ Orderly(scans[t], drawn, window, Handle(uses[t]))
  BY DEF ScanInv, BoundsInv, OrderInv, FeederTypeOK
<1>2. QED
  BY <1>1, ScanShape

-----------------------------------------------------------------------------
\* The device is opened again and again, each time with a lock of its own
\* (fss500.go:60), and those who wait hold on to the lock they found (fss500.go:167):
\* for any number of threads and of openings, one thread scans at a time, and from
\* the device that was opened last.
THEOREM ScansAloneHolds == Spec => []ScansAlone
BY LockInit, LockStep, LockScansAlone, PTL DEF Spec

\* For any length of a page and of a response, whatever fails and whoever unplugs
\* the device: a side never keeps a block or more (fss500scan_arm64.go:246), a scan
\* has two pages per sheet, and the front of the one in hand.
THEOREM TypeHolds == Spec => []TypeOK
BY ScanInit, ScanStep, InvTypeOK, PTL DEF Spec

\* A document that is handed over (fss500scan_arm64.go:281) has the pages of all sheets
\* its scan has drawn in, and of no other, in the order of the document, and each
\* page has every row of its side once, in the JPEG and in the binarized page.
THEOREM DocumentInOrderHolds == Spec => []DocumentInOrder
BY ScanInit, ScanStep, InvInOrder, PTL DEF Spec

\* The pixels the encoder reads are whole blocks, also for the last rows of a page,
\* whose padding is no block (fss500scan_arm64.go:211): for any height of a page of which
\* no rows, or half a block of them, are left over.
THEOREM WholeBlocksHold == Spec => []WholeBlocksEncoded
BY ScanInit, ScanStep, InvWholeBlocks, PTL DEF Spec
=============================================================================
