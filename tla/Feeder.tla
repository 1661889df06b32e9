------------------------------- MODULE Feeder -------------------------------
(***************************************************************************)
(* Scanning a stack of paper with the ScanSnap iX500: scan1 in             *)
(* internal/source/fss500/fss500scan_arm64.go, with the requests of        *)
(* internal/fss500 it makes and the scanner that answers them.             *)
(*                                                                         *)
(* A sheet is read front and back in turns.  Each side has a goroutine     *)
(* that encodes it in blocks of rows, fed over a channel without a buffer. *)
(* The scanner feeds the last page first: sheet k is the k-th it draws in, *)
(* its front is page 2k and its back page 2k + 1, and the document is in   *)
(* order when its pages descend.                                           *)
(***************************************************************************)
EXTENDS Integers, Sequences, SequencesExt

CONSTANTS
    Thread,     \* callers of ScanTo: the loop that polls the button, and requests
    Rows,       \* rows of a page: 7016
    ReadRows,   \* rows of a full response of the scanner: 17
    Block,      \* rows the encoder takes at once: 16
    MaxSheets,  \* bound: sheets ever put into the feeder
    Blank       \* a row of the binarized page that nothing was written to

ASSUME FeederBounds ==
    /\ Rows \in Nat \ {0} /\ Block \in Nat \ {0} /\ MaxSheets \in Nat
    /\ ReadRows \in Nat /\ ReadRows > Block
    /\ 2 * (Rows % Block) \in {0, Block}

VARIABLES
    hopper,     \* sheets in the feeder
    drawn,      \* sheets drawn in so far
    window,     \* the rows of the sheet below each sensor that were not read yet
    scans       \* the calls of scan, by thread

feederVars == <<hopper, drawn, window, scans>>

front == 0
back == 1
Side == {front, back}

Page == 0..(2 * MaxSheets + 1)
Row == Page \X (1..Rows)

PageNumber(sheet, side) == 2 * sheet + side
RowsOf(page) == [n \in 1..Rows |-> <<page, n>>]

-----------------------------------------------------------------------------
(* The goroutine of a side: blocks of pixels in, an encoded page out. *)

NewPage == [jpeg |-> <<>>, bin |-> [n \in 1..Rows |-> Blank]]

NewSide == [rest |-> <<>>, pc |-> "receive", chunk |-> <<>>, page |-> NewPage]

Receive(ps, rows) == [ps EXCEPT !.pc = "encode", !.chunk = rows]

\* (Mutation of Padding: the last rows are not padded.)
BugNoPadding(height) == 0

Padding(height) == height % Block

\* binarizeRotated writes the rows from the last one up.
Rotated(n) == Rows + 1 - n

\* The encoder reads whole blocks: the rows it gets past the last one are padding.
ReadsPixels(ps) == Len(ps.chunk) + Padding(Len(ps.chunk))

\* EncodePixels and binarizeRotated, for the rows below those that are done.
Encoded(ps) ==
    LET offset == Len(ps.page.jpeg)
        height == Len(ps.chunk)
    IN  [ps EXCEPT
          !.pc = "receive",
          !.chunk = <<>>,
          !.page.jpeg = @ \o ps.chunk,
          !.page.bin = [n \in 1..Rows |->
              IF Rotated(n) - offset \in 1..height THEN ps.chunk[Rotated(n) - offset] ELSE @[n]]]

-----------------------------------------------------------------------------
(* scan1. *)

NotScanning == [pc |-> "idle", paper |-> 0, side |-> front, eop |-> FALSE, chunk |-> <<>>,
                state |-> <<>>, pages |-> <<>>]

Scanning(t) == scans[t].pc \notin {"idle", "lock"}

StartScanning == [NotScanning EXCEPT !.pc = "position"]

\* ObjectPosition draws the next sheet in, and the scanner reads it.
FeedSheet(t) ==
    /\ scans[t].pc = "position"
    /\ hopper > 0
    /\ hopper' = hopper - 1
    /\ drawn' = drawn + 1
    /\ window' = [side \in Side |-> RowsOf(PageNumber(drawn + 1, side))]
    /\ scans' = [scans EXCEPT
          ![t].pc = "read", ![t].side = front, ![t].eop = FALSE,
          ![t].state = [side \in Side |-> NewSide]]

\* "no document inserted"
NoDocument(t) ==
    /\ scans[t].pc = "position"
    /\ hopper = 0 /\ scans[t].paper = 0
    /\ scans' = [scans EXCEPT ![t] = NotScanning]
    /\ UNCHANGED <<hopper, drawn, window>>

\* (Mutation of ReversePages.)
BugKeepsOrder(pages) == pages

ReversePages(pages) == Reverse(pages)

HopperEmpty(t) ==
    /\ scans[t].pc = "position"
    /\ hopper = 0 /\ scans[t].paper > 0
    /\ scans' = [scans EXCEPT ![t].pc = "ingest", ![t].pages = ReversePages(@)]
    /\ UNCHANGED <<hopper, drawn, window>>

\* ErrTemporaryNoData: sleep, and begin again with the front.
NoDataYet(t) ==
    /\ scans[t].pc = "read"
    /\ scans' = [scans EXCEPT ![t].side = front]
    /\ UNCHANGED <<hopper, drawn, window>>

WholeBlocks(rows) == (Len(rows) \div Block) * Block

\* A response holds ReadRows rows, or the last ones, of which the scanner tells
\* the end with them or, if the response is full, with an empty one.
ReadData(t) ==
    /\ scans[t].pc = "read"
    /\ LET side == scans[t].side
           left == window[side]
           n    == IF Len(left) < ReadRows THEN Len(left) ELSE ReadRows
           buf  == scans[t].state[side].rest \o SubSeq(left, 1, n)
           cut  == WholeBlocks(buf)
       IN  /\ \E eop \in BOOLEAN :
                /\ eop => n = Len(left)
                /\ n < ReadRows => eop
                /\ scans' = [scans EXCEPT ![t] =
                      [@ EXCEPT !.pc = "send", !.eop = eop,
                                !.chunk = SubSeq(buf, 1, cut),
                                !.state[side].rest = SubSeq(buf, cut + 1, Len(buf))]]
           /\ window' = [window EXCEPT ![side] = SubSeq(left, n + 1, Len(left))]
    /\ UNCHANGED <<hopper, drawn>>

\* The channel has no buffer: the goroutine must be waiting.
Send(t) ==
    /\ scans[t].pc = "send"
    /\ LET s == scans[t]
           done == s.eop /\ s.side = back
       IN  /\ s.state[s.side].pc = "receive"
           /\ scans' = [scans EXCEPT
                 ![t].state[s.side] = Receive(@, s.chunk),
                 ![t].chunk = <<>>,
                 ![t].pc = IF done THEN "flush" ELSE "read",
                 ![t].side = 1 - @]
    /\ UNCHANGED <<hopper, drawn, window>>

\* ps.ch <- ps.rest
SendRest(t) ==
    /\ scans[t].pc = "flush"
    /\ scans[t].state[scans[t].side].pc = "receive"
    /\ scans' = [scans EXCEPT
          ![t].state[scans[t].side] = Receive(@, @.rest),
          ![t].pc = "close"]
    /\ UNCHANGED <<hopper, drawn, window>>

\* (Mutation of Papers: every side counts.)
BugCountsSides(s) == s.paper + 1

Papers(s) == IF s.side = back THEN s.paper + 1 ELSE s.paper

\* close(ps.ch): the goroutine, once it receives again, ends its loop, and <-ps.done
\* lets both go on.  The page is added, and the other side or the next sheet is due.
AddPage(t) ==
    /\ scans[t].pc = "close"
    /\ LET s == scans[t] IN
        /\ s.state[s.side].pc = "receive"
        /\ scans' = [scans EXCEPT
              ![t].pages = Append(@, s.state[s.side].page),
              ![t].state = IF s.side = front THEN [@ EXCEPT ![front].pc = "done"] ELSE <<>>,
              ![t].pc = IF s.side = front THEN "flush" ELSE "position",
              ![t].paper = Papers(s),
              ![t].side = 1 - @]
    /\ UNCHANGED <<hopper, drawn, window>>

Encode(t, side) ==
    /\ scans[t].state # <<>>
    /\ scans[t].state[side].pc = "encode"
    /\ scans' = [scans EXCEPT ![t].state[side] = Encoded(@)]
    /\ UNCHANGED <<hopper, drawn, window>>

\* scan1 returns an error: a request fails (a jam, a cover opened, two sheets at once,
\* the cable pulled out), no encoder can be made, or, once the goroutine of a side has
\* ended, its encoder or AddPage fails.  Goroutines that still run wait for ever.
RequestFails(t) ==
    /\ \/ scans[t].pc \in {"position", "read"}
       \/ scans[t].pc = "close" /\ scans[t].state[scans[t].side].pc = "receive"
    /\ scans' = [scans EXCEPT ![t] = NotScanning]
    /\ window' = [side \in Side |-> <<>>]
    /\ UNCHANGED <<hopper, drawn>>

-----------------------------------------------------------------------------
(* The pages of a document. *)

IsPage(page, number) ==
    /\ page.jpeg = RowsOf(number)
    /\ page.bin = [n \in 1..Rows |-> <<number, Rotated(n)>>]

FeederTypeOK ==
    /\ hopper \in 0..MaxSheets
    /\ drawn \in 0..MaxSheets /\ hopper + drawn <= MaxSheets
    /\ \A side \in Side : window[side] \in Seq(Row) /\ Len(window[side]) <= Rows

FeederInit ==
    /\ hopper = 0 /\ drawn = 0
    /\ window = [side \in Side |-> <<>>]
    /\ scans = [t \in Thread |-> NotScanning]
=============================================================================
