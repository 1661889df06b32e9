---------------------------- MODULE RemoteProofs ----------------------------
(***************************************************************************)
(* Proofs about Remote, for any set of callers and of users, any number of *)
(* messages in flight, broken connections, reports and pressed buttons.    *)
(***************************************************************************)
EXTENDS Remote, SequenceTheorems, TLAPS

-----------------------------------------------------------------------------
(* The broker.  What is on the way to a client that has not subscribed is  *)
(* nothing, and to one that has, what it has subscribed to.                *)

BrokerType ==
    /\ online \subseteq Client /\ subscribed \subseteq online
    /\ inbox \in [Client -> Seq(Status \cup ScanRequest)]
    /\ inbox["display"] \in Seq(Status) /\ inbox["scan2drive"] \in Seq(ScanRequest)
    /\ \A c \in Client : Len(inbox[c]) <= MaxInFlight
    /\ \A c \in Client \ subscribed : inbox[c] = <<>>
    /\ retained \in Seq(Status) /\ Len(retained) <= 1
    /\ losses \in 0..MaxLosses

\* The last message on the way to the display, or the last one it has got.
LastOf(msgs, got) == IF msgs = <<>> THEN got ELSE msgs[Len(msgs)]

\* The status that callback() has got, also while it copies it.
Received == IF pc["taskmqtt"] = "strncpy" THEN read["taskmqtt"] ELSE statusbuffer

LastStatus == LastOf(inbox["display"], Received)

\* Each subscription brings the retained status, and each later one follows it.
FollowsRetained ==
    "display" \in subscribed /\ retained # <<>> => retained = <<LastStatus>>

\* The display subscribes before it polls, and once per connection.
SubscribesFirst ==
    /\ "display" \in online => pc["taskmqtt"] = "subscribe" \/ "display" \in subscribed
    /\ pc["taskmqtt"] = "subscribe" => "display" \notin subscribed

CopiesStatus == pc["taskmqtt"] = "strncpy" => read["taskmqtt"] \in Status

DarkInPowersave ==
    pc["taskmqtt"] # "strncpy" => (brightness = 0 <=> statusbuffer = "powersave")

TaskInv == SubscribesFirst /\ CopiesStatus /\ DarkInPowersave

-----------------------------------------------------------------------------
(* The other types, and the screen. *)

CallsHaveStatus ==
    /\ \A c \in Caller : calls[c].pc # "idle" => calls[c].status \in Status
    /\ mqttLoop = "publish" => publish \in Status

RequestsType == scanRequests \in Seq(ScanRequest) /\ Len(scanRequests) <= 1

RestType ==
    /\ MqttTypeOK /\ CallsHaveStatus /\ RequestsType
    /\ dispatchPc \in {"receive", "dispatch", "scan"}
    /\ reports \in 0..MaxReports /\ presses \in 0..MaxPresses

Menu == IF destSubmenu THEN DestMenu ELSE MainMenu

\* No redraw is due on account of what loop() or callback() has changed.
LoopDone == pc["loop"] # "reset"
TaskDone == pc["taskmqtt"] \notin {"strncpy", "reset"}

Labelled == {"source", "print source", "status", "print status"}
Titled == {"status", "print status"}

\* What a task that draws alone has read and drawn is right, unless what it depends
\* on has changed since, and then a redraw is due.
Drawn(t) ==
    /\ pc[t] \notin Titled => canvas = <<>>
    /\ pc[t] \in Titled => \E l : canvas = <<l>> /\ (LoopDone => l = SourceLabel(source))
    /\ LoopDone => /\ pc[t] = "main menu" => ~destSubmenu
                   /\ pc[t] = "dest menu" => destSubmenu
                   /\ pc[t] \in Labelled => buttons = Menu
                   /\ pc[t] = "print source" => read[t] = SourceLabel(source)
    /\ TaskDone => (pc[t] = "print status" => read[t] = statusbuffer)

\* So is the whole screen, when nobody draws.
Complete ==
    /\ \E l, st : /\ canvas = <<l, st>>
                  /\ LoopDone => l = SourceLabel(source)
                  /\ TaskDone => st = statusbuffer
    /\ LoopDone => buttons = Menu

Screen ==
    ~overlap =>
        /\ \A t \in Tasks : Drawing(t) => Drawn(t) /\ \A u \in Tasks \ {t} : ~Drawing(u)
        /\ (\A t \in Tasks : ~Drawing(t)) => Complete

DisplayInv == DisplayTypeOK /\ Screen

RemoteInv ==
    /\ BrokerType /\ FollowsRetained /\ TaskInv /\ RestType /\ DisplayInv

-----------------------------------------------------------------------------
(* Sequences. *)

LEMMA Empty == ASSUME NEW S PROVE <<>> \in Seq(S) /\ Len(<<>>) = 0
BY EmptySeq

LEMMA One ==
    ASSUME NEW S, NEW x \in S
    PROVE  <<x>> \in Seq(S) /\ Len(<<x>>) = 1 /\ <<x>>[1] = x /\ <<x>> # <<>>
OBVIOUS

LEMMA LastAppended ==
    ASSUME NEW S, NEW s \in Seq(S), NEW x \in S, NEW got
    PROVE  /\ Append(s, x) \in Seq(S) /\ Len(Append(s, x)) = Len(s) + 1
           /\ LastOf(Append(s, x), got) = x
BY AppendProperties DEF LastOf

LEMMA LastOfTail ==
    ASSUME NEW S, NEW s \in Seq(S), s # <<>>, NEW got
    PROVE  /\ Head(s) \in S /\ Tail(s) \in Seq(S) /\ Len(Tail(s)) <= Len(s)
           /\ LastOf(Tail(s), Head(s)) = LastOf(s, got)
<1> DEFINE h == Head(s)
           t == Tail(s)
<1>1. h \in S /\ t \in Seq(S) /\ Len(t) = Len(s) - 1 /\ \A i \in 1..Len(t) : t[i] = s[i + 1]
  BY HeadTailProperties
<1>2. h = s[1]
  OBVIOUS
<1> HIDE DEF h, t
<1>3. Len(s) \in Nat /\ Len(s) > 0 /\ Len(t) \in Nat
  BY EmptySeq, LenProperties, <1>1
<1>4. CASE t = <<>>
  <2>1. Len(t) = 0
    BY <1>4, EmptySeq, Zenon
  <2>2. Len(s) = 1
    BY <1>1, <1>3, <2>1
  <2>3. LastOf(t, h) = h /\ LastOf(s, got) = s[1]
    BY <1>4, <2>2 DEF LastOf
  <2>4. QED
    BY <1>1, <1>2, <1>3, <2>3 DEF h, t
<1>5. CASE t # <<>>
  <2>1. Len(t) > 0
    BY <1>1, <1>3, <1>5, EmptySeq
  <2>2. t[Len(t)] = s[Len(s)]
    BY <1>1, <1>3, <2>1
  <2>3. LastOf(t, h) = LastOf(s, got)
    BY <1>5, <2>2 DEF LastOf
  <2>4. QED
    BY <1>1, <1>3, <2>3 DEF h, t
<1>6. QED
  BY <1>4, <1>5

\* What is retained is nothing or one status.
LEMMA RetainedOne ==
    ASSUME BrokerType, retained # <<>>
    PROVE  retained = <<retained[1]>> /\ Len(retained) = 1 /\ retained[1] \in Status
<1>1. retained \in Seq(Status) /\ Len(retained) \in Nat \ {0} /\ Len(retained) <= 1
  BY EmptySeq DEF BrokerType
<1>2. Len(retained) = 1
  <2>1. \A n \in Nat \ {0} : n <= 1 => n = 1
    OBVIOUS
  <2>2. QED
    BY <1>1, <2>1, Zenon
<1>3. retained[1] \in Status
  BY <1>1, <1>2, ElementOfSeq
<1>4. <<retained[1]>> \in Seq(Status) /\ Len(<<retained[1]>>) = 1
      /\ <<retained[1]>>[1] = retained[1]
  BY <1>3, One
<1>5. QED
  BY <1>1, <1>2, <1>3, <1>4, SeqEqual

-----------------------------------------------------------------------------
(* What the operations of the broker do. *)

BrokerInv == BrokerType /\ FollowsRetained

LEMMA SubscribeKeeps ==
    ASSUME BrokerInv, NEW c \in Client, c \notin subscribed, Subscribe(c),
           Received' = Received
    PROVE  BrokerInv' /\ online' = online /\ subscribed' = subscribed \cup {c}
<1> USE DEF BrokerInv
<1>0. /\ online' = online /\ subscribed' = subscribed \cup {c} /\ UNCHANGED <<retained, losses>>
      /\ inbox[c] = <<>> /\ c \in online
      /\ inbox' = [inbox EXCEPT ![c] = IF c = "display" THEN @ \o retained ELSE @]
  BY DEF Subscribe, BrokerType
<1>1. CASE c = "display"
  <2>1. inbox[c] \o retained = retained
    BY <1>0, ConcatEmptySeq DEF BrokerType
  <2>2. inbox' = [inbox EXCEPT !["display"] = retained]
    BY <1>0, <1>1, <2>1
  <2>3. inbox'["display"] = retained /\ inbox'["scan2drive"] = inbox["scan2drive"]
        /\ inbox' \in [Client -> Seq(Status \cup ScanRequest)]
    BY <2>2 DEF BrokerType, Client
  <2>4. BrokerType'
    BY <1>0, <1>1, <2>3, BrokerBounds DEF BrokerType, Client
  <2>5. FollowsRetained'
    <3> SUFFICES ASSUME retained # <<>> PROVE retained = <<LastStatus'>>
      BY <1>0 DEF FollowsRetained
    <3>1. LastStatus' = retained[1]
      BY <2>3, RetainedOne DEF LastStatus, LastOf
    <3>2. QED
      BY <3>1, RetainedOne
  <2>6. QED
    BY <1>0, <2>4, <2>5
<1>2. CASE c # "display"
  <2>1. inbox' = inbox
    BY <1>0, <1>2 DEF BrokerType
  <2>2. QED
    BY <1>0, <1>2, <2>1 DEF BrokerType, FollowsRetained, LastStatus
<1>3. QED
  BY <1>1, <1>2

\* A connection of c that is gone, with what was on its way.
LEMMA GoneKeeps ==
    ASSUME BrokerInv, NEW c \in Client, online' = online \ {c}, subscribed' = subscribed \ {c},
           inbox' = [inbox EXCEPT ![c] = <<>>], UNCHANGED retained, Received' = Received,
           losses' \in 0..MaxLosses
    PROVE  BrokerInv'
<1> USE DEF BrokerInv
<1>1. \A d \in Client : inbox'[d] = IF d = c THEN <<>> ELSE inbox[d]
  BY DEF BrokerType
<1>2. BrokerType'
  BY <1>1, Empty, BrokerBounds DEF BrokerType, Client
<1>3. FollowsRetained'
  BY <1>1 DEF FollowsRetained, LastStatus, Client
<1>4. QED
  BY <1>2, <1>3

LEMMA ConnectKeeps ==
    ASSUME BrokerInv, NEW c \in Client, Connect(c), Received' = Received
    PROVE  BrokerInv' /\ online' = online \cup {c} /\ subscribed' = subscribed
BY DEF BrokerInv, Connect, BrokerType, FollowsRetained, LastStatus

LEMMA PublishStatusKeeps ==
    ASSUME BrokerInv, NEW st \in Status, PublishStatus(st), Received' = Received
    PROVE  BrokerInv' /\ online' = online /\ subscribed' = subscribed
<1> USE DEF BrokerInv
<1>1. CASE "scan2drive" \notin online
  BY <1>1 DEF PublishStatus, brokerVars, BrokerType, FollowsRetained, LastStatus
<1>2. CASE "scan2drive" \in online
  <2>1. /\ retained' = <<st>> /\ Forward("display", st)
        /\ online' = online /\ subscribed' = subscribed /\ losses' = losses
    BY <1>2 DEF PublishStatus, Retain
  <2>2. retained' \in Seq(Status) /\ Len(retained') <= 1
    BY <2>1, One
  <2>3. CASE "display" \in subscribed
    <3>1. /\ Len(inbox["display"]) < MaxInFlight
          /\ inbox' = [inbox EXCEPT !["display"] = Append(@, st)]
      BY <2>1, <2>3 DEF Forward
    <3>2. inbox'["display"] = Append(inbox["display"], st)
          /\ inbox'["scan2drive"] = inbox["scan2drive"]
      BY <3>1 DEF BrokerType, Client
    <3>3. inbox'["display"] \in Seq(Status) /\ Len(inbox'["display"]) <= MaxInFlight
          /\ LastOf(inbox'["display"], Received') = st
      BY <3>1, <3>2, LastAppended, LenProperties, BrokerBounds DEF BrokerType
    <3>4. inbox' \in [Client -> Seq(Status \cup ScanRequest)]
      <4>1. inbox'["display"] \in Seq(Status \cup ScanRequest)
        BY <3>2, AppendProperties DEF BrokerType, Client
      <4>2. QED
        BY <3>1, <3>2, <4>1 DEF BrokerType, Client
    <3>5. BrokerType'
      BY <2>1, <2>2, <2>3, <3>2, <3>3, <3>4 DEF BrokerType, Client
    <3>6. FollowsRetained'
      BY <2>1, <3>3 DEF FollowsRetained, LastStatus
    <3>7. QED
      BY <2>1, <3>5, <3>6
  <2>4. CASE "display" \notin subscribed
    <3>1. inbox' = inbox
      BY <2>1, <2>4 DEF Forward
    <3>2. QED
      BY <2>1, <2>2, <2>4, <3>1 DEF BrokerType, FollowsRetained
  <2>5. QED
    BY <2>3, <2>4
<1>3. QED
  BY <1>1, <1>2

LEMMA PublishRequestKeeps ==
    ASSUME BrokerInv, NEW r \in ScanRequest, PublishRequest(r), Received' = Received
    PROVE  BrokerInv' /\ online' = online /\ subscribed' = subscribed
<1> USE DEF BrokerInv
<1>1. CASE UNCHANGED brokerVars
  BY <1>1 DEF brokerVars, BrokerType, FollowsRetained, LastStatus
<1>2. CASE Forward("scan2drive", r) /\ UNCHANGED <<online, subscribed, retained, losses>>
  <2>1. CASE "scan2drive" \in subscribed
    <3>1. /\ Len(inbox["scan2drive"]) < MaxInFlight
          /\ inbox' = [inbox EXCEPT !["scan2drive"] = Append(@, r)]
      BY <1>2, <2>1 DEF Forward
    <3>2. inbox'["scan2drive"] = Append(inbox["scan2drive"], r)
          /\ inbox'["display"] = inbox["display"]
      BY <3>1 DEF BrokerType, Client
    <3>3. inbox'["scan2drive"] \in Seq(ScanRequest) /\ Len(inbox'["scan2drive"]) <= MaxInFlight
      BY <3>1, <3>2, AppendProperties, LenProperties, BrokerBounds DEF BrokerType
    <3>4. inbox' \in [Client -> Seq(Status \cup ScanRequest)]
      <4>1. inbox'["scan2drive"] \in Seq(Status \cup ScanRequest)
        BY <3>2, AppendProperties DEF BrokerType, Client
      <4>2. QED
        BY <3>1, <3>2, <4>1 DEF BrokerType, Client
    <3>5. BrokerType'
      BY <1>2, <2>1, <3>2, <3>3, <3>4 DEF BrokerType, Client
    <3>6. QED
      BY <1>2, <3>2, <3>5 DEF FollowsRetained, LastStatus
  <2>2. CASE "scan2drive" \notin subscribed
    <3>1. inbox' = inbox
      BY <1>2, <2>2 DEF Forward
    <3>2. QED
      BY <1>2, <3>1 DEF BrokerType, FollowsRetained, LastStatus
  <2>3. QED
    BY <2>1, <2>2
<1>3. QED
  BY <1>1, <1>2 DEF PublishRequest

\* The display takes a message, which is the status it has got now.
LEMMA DisplayTakes ==
    ASSUME BrokerInv, Take("display"), Received' = Head(inbox["display"])
    PROVE  /\ BrokerInv' /\ online' = online /\ subscribed' = subscribed
           /\ Received' \in Status
<1> USE DEF BrokerInv
<1>0. /\ inbox["display"] # <<>> /\ inbox' = [inbox EXCEPT !["display"] = Tail(@)]
      /\ UNCHANGED <<online, subscribed, retained, losses>>
      /\ inbox["display"] \in Seq(Status)
  BY DEF Take, BrokerType
<1>1. inbox'["display"] = Tail(inbox["display"]) /\ inbox'["scan2drive"] = inbox["scan2drive"]
  BY <1>0 DEF BrokerType, Client
<1>2. /\ Received' \in Status /\ inbox'["display"] \in Seq(Status)
      /\ Len(inbox'["display"]) <= Len(inbox["display"])
      /\ LastStatus' = LastStatus
  BY <1>0, <1>1, LastOfTail DEF LastStatus
<1>3. inbox' \in [Client -> Seq(Status \cup ScanRequest)]
  <2>1. inbox'["display"] \in Seq(Status \cup ScanRequest)
    BY <1>0, <1>1, HeadTailProperties DEF BrokerType, Client
  <2>2. QED
    BY <1>0, <1>1, <2>1 DEF BrokerType, Client
<1>4. BrokerType'
  <2>1. "display" \in subscribed /\ Len(inbox'["display"]) <= MaxInFlight
    BY <1>0, <1>2, LenProperties, BrokerBounds DEF BrokerType, Client
  <2>2. QED
    BY <1>0, <1>1, <1>2, <1>3, <2>1 DEF BrokerType, Client
<1>5. FollowsRetained'
  BY <1>0, <1>2 DEF FollowsRetained
<1>6. QED
  BY <1>0, <1>2, <1>4, <1>5

LEMMA ServerTakes ==
    ASSUME BrokerInv, Take("scan2drive"), Received' = Received
    PROVE  /\ BrokerInv' /\ online' = online /\ subscribed' = subscribed
           /\ Head(inbox["scan2drive"]) \in ScanRequest
<1> USE DEF BrokerInv
<1>0. /\ inbox["scan2drive"] # <<>> /\ inbox' = [inbox EXCEPT !["scan2drive"] = Tail(@)]
      /\ UNCHANGED <<online, subscribed, retained, losses>>
      /\ inbox["scan2drive"] \in Seq(ScanRequest)
  BY DEF Take, BrokerType
<1>1. inbox'["scan2drive"] = Tail(inbox["scan2drive"]) /\ inbox'["display"] = inbox["display"]
  BY <1>0 DEF BrokerType, Client
<1>2. /\ Head(inbox["scan2drive"]) \in ScanRequest /\ inbox'["scan2drive"] \in Seq(ScanRequest)
      /\ Len(inbox'["scan2drive"]) <= Len(inbox["scan2drive"])
  BY <1>0, <1>1, LastOfTail
<1>3. inbox' \in [Client -> Seq(Status \cup ScanRequest)]
  <2>1. inbox'["scan2drive"] \in Seq(Status \cup ScanRequest)
    BY <1>0, <1>1, HeadTailProperties DEF BrokerType, Client
  <2>2. QED
    BY <1>0, <1>1, <2>1 DEF BrokerType, Client
<1>4. BrokerType'
  <2>1. "scan2drive" \in subscribed /\ Len(inbox'["scan2drive"]) <= MaxInFlight
    BY <1>0, <1>2, LenProperties, BrokerBounds DEF BrokerType, Client
  <2>2. QED
    BY <1>0, <1>1, <1>2, <1>3, <2>1 DEF BrokerType, Client
<1>5. FollowsRetained'
  BY <1>0, <1>1 DEF FollowsRetained, LastStatus
<1>6. QED
  BY <1>0, <1>2, <1>4, <1>5

-----------------------------------------------------------------------------
(* What does not concern the broker and the display. *)

Others == <<brokerVars, displayVars>>

LEMMA ScreenSame ==
    ASSUME DisplayInv, UNCHANGED displayVars
    PROVE  DisplayInv'
<1>1. UNCHANGED <<source, destSubmenu, statusbuffer, brightness, buttons, canvas, overlap, pc, read>>
  BY DEF displayVars, screenVars
<1>2. DisplayTypeOK'
  BY <1>1 DEF DisplayInv, DisplayTypeOK
<1>3. (LoopDone' <=> LoopDone) /\ (TaskDone' <=> TaskDone) /\ Menu' = Menu
  BY <1>1 DEF LoopDone, TaskDone, Menu
<1>4. Complete' <=> Complete
  BY <1>1, <1>3 DEF Complete
<1>5. \A t : (Drawing(t)' <=> Drawing(t)) /\ (Drawn(t)' <=> Drawn(t))
  BY <1>1, <1>3 DEF Drawing, Drawn
<1>6. Screen'
  BY <1>1, <1>4, <1>5 DEF DisplayInv, Screen
<1>7. QED
  BY <1>2, <1>6 DEF DisplayInv

LEMMA OthersSame ==
    ASSUME RemoteInv, UNCHANGED Others, RestType'
    PROVE  RemoteInv'
<1>1. UNCHANGED <<online, subscribed, inbox, retained, losses, source, destSubmenu,
                  statusbuffer, brightness, buttons, canvas, overlap, pc, read>>
  BY DEF Others, brokerVars, displayVars, screenVars
<1>2. BrokerType' /\ FollowsRetained' /\ TaskInv'
  BY <1>1 DEF RemoteInv, BrokerType, FollowsRetained, LastStatus, Received, TaskInv,
              SubscribesFirst, CopiesStatus, DarkInPowersave
<1>3. DisplayInv'
  BY <1>1, ScreenSame DEF RemoteInv, displayVars, screenVars
<1>4. QED
  BY <1>2, <1>3 DEF RemoteInv

LEMMA CallType ==
    ASSUME RestType, NEW c, NEW st \in Status, CallPublishf(c, st)
    PROVE  MqttTypeOK' /\ CallsHaveStatus' /\ RequestsType'
<1>1. [pc |-> "compare", status |-> st] \in Call
  BY DEF Call
<1>2. MqttTypeOK'
  BY <1>1 DEF RestType, MqttTypeOK, CallPublishf
<1>3. CallsHaveStatus' /\ RequestsType'
  BY DEF RestType, MqttTypeOK, CallsHaveStatus, RequestsType, CallPublishf
<1>4. QED
  BY <1>2, <1>3

LEMMA PublishfType ==
    ASSUME RestType, NEW c \in Caller, Publishf(c)
    PROVE  MqttTypeOK' /\ CallsHaveStatus' /\ RequestsType'
<1> USE DEF RestType, MqttTypeOK, Call
<1>0. calls[c] \in Call /\ calls[c].status \in Status \cup {NoStatus}
  OBVIOUS
<1>1. CASE Duplicate(c)
  BY <1>0, <1>1 DEF Duplicate, Step, CallsHaveStatus, RequestsType
<1>2. CASE NewStatus(c)
  BY <1>0, <1>2 DEF NewStatus, Step, CallsHaveStatus, RequestsType
<1>3. CASE Assign(c)
  BY <1>0, <1>3 DEF Assign, Step, CallsHaveStatus, RequestsType
<1>4. CASE Store(c)
  BY <1>0, <1>4 DEF Store, Step, CallsHaveStatus, RequestsType
<1>5. CASE Send(c)
  BY <1>0, <1>5 DEF Send, Step, CallsHaveStatus, RequestsType
<1>6. QED
  BY <1>1, <1>2, <1>3, <1>4, <1>5 DEF Publishf

LEMMA ReportKeeps ==
    ASSUME RemoteInv, NEW c \in Caller, Report(c) \/ ReportStep(c)
    PROVE  RemoteInv'
<1>0. RestType
  BY DEF RemoteInv
<1>1. CASE Report(c)
  <2>1. PICK st \in Follows(c, calls[c].status) : CallPublishf(c, st)
    BY <1>1 DEF Report
  <2>2. Follows(c, calls[c].status) \subseteq Status
    BY DEF Follows, Status
  <2>3. st \in Status
    BY <2>1, <2>2
  <2>4. MqttTypeOK' /\ CallsHaveStatus' /\ RequestsType'
    BY <1>0, <2>1, <2>3, CallType
  <2>5. RestType'
    BY <1>0, <1>1, <2>4, RemoteBounds DEF Report, RestType
  <2>6. UNCHANGED Others
    BY <1>1 DEF Report, Others
  <2>7. QED
    BY <2>5, <2>6, OthersSame
<1>2. CASE ReportStep(c)
  <2>1. MqttTypeOK' /\ CallsHaveStatus' /\ RequestsType'
    BY <1>0, <1>2, PublishfType DEF ReportStep
  <2>2. RestType'
    BY <1>0, <1>2, <2>1 DEF ReportStep, RestType, counters
  <2>3. UNCHANGED Others
    BY <1>2 DEF ReportStep, Publishf, Others
  <2>4. QED
    BY <2>2, <2>3, OthersSame
<1>3. QED
  BY <1>1, <1>2

LEMMA DispatchKeeps ==
    ASSUME RemoteInv, Dispatch \/ BeginScan \/ EndDispatch
    PROVE  RemoteInv'
<1>0. RestType
  BY DEF RemoteInv
<1>1. CASE Dispatch
  <2>1. RestType'
    BY <1>0, <1>1, Empty DEF Dispatch, RestType, MqttTypeOK, CallsHaveStatus, RequestsType, counters
  <2>2. QED
    BY <1>1, <2>1, OthersSame DEF Dispatch, Others
<1>2. CASE BeginScan
  <2>1. MqttTypeOK' /\ CallsHaveStatus' /\ RequestsType'
    BY <1>0, <1>2, CallType DEF BeginScan, Status, ScanStatus
  <2>2. RestType'
    BY <1>0, <1>2, <2>1 DEF BeginScan, RestType, counters
  <2>3. QED
    BY <1>2, <2>2, OthersSame DEF BeginScan, Others
<1>3. CASE EndDispatch
  <2>1. RestType'
    BY <1>0, <1>3 DEF EndDispatch, RestType, MqttTypeOK, CallsHaveStatus, RequestsType,
                      mqttVars, counters
  <2>2. QED
    BY <1>3, <2>1, OthersSame DEF EndDispatch, Others
<1>4. QED
  BY <1>1, <1>2, <1>3

-----------------------------------------------------------------------------
(* What concerns the broker, but not the display. *)

LEMMA DisplaySame ==
    ASSUME RemoteInv, UNCHANGED displayVars, BrokerInv', RestType',
           "display" \in online' => "display" \in online,
           "display" \in online' => ("display" \in subscribed => "display" \in subscribed'),
           "display" \in subscribed' => "display" \in subscribed
    PROVE  RemoteInv'
<1>1. UNCHANGED <<statusbuffer, brightness, pc, read>>
  BY DEF displayVars
<1>2. TaskInv'
  BY <1>1 DEF RemoteInv, TaskInv, SubscribesFirst, CopiesStatus, DarkInPowersave
<1>3. DisplayInv'
  BY ScreenSame DEF RemoteInv
<1>4. QED
  BY <1>2, <1>3 DEF RemoteInv, BrokerInv

LEMMA RestSame ==
    ASSUME RestType, UNCHANGED <<mqttVars, dispatchPc, counters>>
    PROVE  RestType'
BY DEF RestType, MqttTypeOK, CallsHaveStatus, RequestsType, mqttVars, counters

LEMMA MqttKeeps ==
    ASSUME RemoteInv, Mqtt
    PROVE  RemoteInv'
<1>0. /\ RestType /\ BrokerInv /\ UNCHANGED displayVars /\ Received' = Received
      /\ UNCHANGED <<dispatchPc, counters>>
  BY DEF RemoteInv, BrokerInv, Mqtt, displayVars, Received
<1>1. CASE Connected
  <2>1. RestType'
    BY <1>0, <1>1 DEF Connected, RestType, MqttTypeOK, CallsHaveStatus, RequestsType, counters
  <2>2. QED
    BY <1>0, <1>1, <2>1, OthersSame DEF Connected, Others
<1>2. CASE OnConnect
  <2>1. BrokerInv' /\ online' = online /\ subscribed' = subscribed \cup {"scan2drive"}
    BY <1>0, <1>2, SubscribeKeeps DEF OnConnect, Client
  <2>2. RestType'
    BY <1>0, <1>2, RestSame DEF OnConnect
  <2>3. QED
    BY <1>0, <2>1, <2>2, DisplaySame
<1>3. CASE PublishReceived
  <2>1. publish \in Status /\ PublishStatus(publish)
    BY <1>0, <1>3 DEF PublishReceived, RestType, CallsHaveStatus
  <2>2. BrokerInv' /\ online' = online /\ subscribed' = subscribed
    BY <1>0, <2>1, PublishStatusKeeps
  <2>3. RestType'
    BY <1>0, <1>3 DEF PublishReceived, RestType, MqttTypeOK, CallsHaveStatus, RequestsType, counters
  <2>4. QED
    BY <1>0, <2>2, <2>3, DisplaySame
<1>4. CASE OnRequest
  <2>1. /\ BrokerInv' /\ online' = online /\ subscribed' = subscribed
        /\ Head(inbox["scan2drive"]) \in ScanRequest
    BY <1>0, <1>4, ServerTakes DEF OnRequest
  <2>2. RequestsType'
    BY <1>0, <1>4, <2>1, One DEF OnRequest, RestType, RequestsType
  <2>3. RestType'
    BY <1>0, <1>4, <2>2 DEF OnRequest, RestType, MqttTypeOK, CallsHaveStatus, counters
  <2>4. QED
    BY <1>0, <2>1, <2>3, DisplaySame
<1>5. QED
  BY <1>1, <1>2, <1>3, <1>4 DEF Mqtt, MqttStep

LEMMA RestartKeeps ==
    ASSUME RemoteInv, Restart, losses' \in 0..MaxLosses
    PROVE  RemoteInv'
<1>0. RestType /\ BrokerInv /\ UNCHANGED displayVars /\ Received' = Received
  BY DEF RemoteInv, BrokerInv, Restart, displayVars, Received
<1>1. BrokerInv'
  BY <1>0, GoneKeeps DEF Restart, Client
<1>2. online' = online \ {"scan2drive"} /\ subscribed' = subscribed \ {"scan2drive"}
  BY DEF Restart
<1>3. RequestsType'
  BY Empty DEF Restart, RequestsType
<1>4. [pc |-> "idle", status |-> NoStatus] \in Call
  BY DEF Call
<1>5. MqttTypeOK' /\ CallsHaveStatus'
  BY <1>4 DEF Restart, MqttTypeOK, CallsHaveStatus
<1>6. RestType'
  BY <1>0, <1>3, <1>5 DEF RestType, Restart, counters
<1>7. QED
  BY <1>0, <1>1, <1>2, <1>6, DisplaySame

LEMMA NetworkKeeps ==
    ASSUME RemoteInv, ServerConnects \/ Network
    PROVE  RemoteInv'
<1>0. RestType /\ BrokerInv /\ UNCHANGED displayVars /\ Received' = Received
      /\ UNCHANGED <<mqttVars, dispatchPc, counters>>
  BY DEF RemoteInv, BrokerInv, ServerConnects, Network, displayVars, Received
<1>1. RestType'
  BY <1>0, RestSame
<1>2. CASE ServerConnects
  <2>1. BrokerInv' /\ online' = online \cup {"scan2drive"} /\ subscribed' = subscribed
    BY <1>0, <1>2, ConnectKeeps DEF ServerConnects, Client
  <2>2. QED
    BY <1>0, <1>1, <2>1, DisplaySame
<1>3. CASE Network
  <2>1. PICK c \in Client : ConnectionLost(c)
    BY <1>3 DEF Network
  <2>2. losses' \in 0..MaxLosses
    BY <1>0, <2>1, BrokerBounds DEF ConnectionLost, BrokerInv, BrokerType
  <2>3. /\ online' = online \ {c} /\ subscribed' = subscribed \ {c}
        /\ inbox' = [inbox EXCEPT ![c] = <<>>] /\ retained' = retained
    BY <2>1 DEF ConnectionLost
  <2>4. BrokerInv'
    BY <1>0, <2>2, <2>3, GoneKeeps
  <2>5. QED
    BY <1>0, <1>1, <2>3, <2>4, DisplaySame
<1>4. QED
  BY <1>2, <1>3

-----------------------------------------------------------------------------
(* The display. *)

LEMMA GoTo ==
    ASSUME DisplayTypeOK, NEW t \in Tasks, NEW from, NEW to, Go(t, from, to)
    PROVE  /\ pc[t] = from /\ pc'[t] = to /\ \A u \in Tasks \ {t} : pc'[u] = pc[u]
           /\ to \in {"poll", "subscribe", "strncpy", "reset", "menu"} \cup RedrawSteps =>
                pc' \in [Tasks -> {"poll", "subscribe", "strncpy", "reset", "menu"} \cup RedrawSteps]
BY DEF Go, DisplayTypeOK

Texts == Label \cup Status \cup {NoStatus, Torn}

LEMMA Printed ==
    /\ \A x : Append(<<>>, x) = <<x>>
    /\ \A l, x : Append(<<l>>, x) = <<l, x>>
    /\ \A s \in Seq(Texts), x \in Texts : Append(s, x) \in Seq(Texts)
<1>1. \A x : Append(<<>>, x) = <<x>>
  OBVIOUS
<1>2. ASSUME NEW l, NEW x
      PROVE  Append(<<l>>, x) = <<l, x>>
  <2> DEFINE S == {l, x}
  <2>1. <<l>> \in Seq(S) /\ Len(<<l>>) = 1 /\ <<l>>[1] = l
    OBVIOUS
  <2>2. /\ <<l, x>> \in Seq(S) /\ Len(<<l, x>>) = 2
        /\ <<l, x>>[1] = l /\ <<l, x>>[2] = x
    OBVIOUS
  <2>3. /\ Append(<<l>>, x) \in Seq(S) /\ Len(Append(<<l>>, x)) = 2
        /\ Append(<<l>>, x)[1] = l /\ Append(<<l>>, x)[2] = x
    BY <2>1, AppendProperties
  <2> HIDE DEF S
  <2>4. \A i \in 1..Len(<<l, x>>) : Append(<<l>>, x)[i] = <<l, x>>[i]
    BY <2>2, <2>3
  <2>5. QED
    BY <2>2, <2>3, <2>4, SeqEqual
<1>3. \A s \in Seq(Texts), x \in Texts : Append(s, x) \in Seq(Texts)
  BY AppendProperties
<1>4. QED
  BY <1>1, <1>2, <1>3

\* A button is pressed while loop() does not draw: a redraw is due.
LEMMA PressScreen ==
    ASSUME DisplayInv, Go("loop", "poll", "reset"),
           source' \in 0..1, destSubmenu' \in BOOLEAN,
           UNCHANGED <<statusbuffer, brightness, screenVars, read>>
    PROVE  DisplayInv'
<1>1. /\ pc["loop"] = "poll" /\ pc'["loop"] = "reset" /\ pc'["taskmqtt"] = pc["taskmqtt"]
      /\ pc' \in [Tasks -> {"poll", "subscribe", "strncpy", "reset", "menu"} \cup RedrawSteps]
  BY GoTo DEF Tasks, DisplayInv
<1>2. DisplayTypeOK'
  BY <1>1 DEF DisplayInv, DisplayTypeOK, screenVars
<1>3. ~LoopDone' /\ (TaskDone' <=> TaskDone)
  BY <1>1 DEF LoopDone, TaskDone
<1>4. \A t \in Tasks : Drawing(t)' <=> Drawing(t)
  BY <1>1 DEF Drawing, Tasks, RedrawSteps
<1>5. ASSUME Drawing("taskmqtt"), Drawn("taskmqtt")
      PROVE  Drawn("taskmqtt")'
  BY <1>1, <1>3, <1>5 DEF Drawn, screenVars
<1>6. Complete => Complete'
  BY <1>3 DEF Complete, screenVars
<1>7. Screen'
  <2>1. ~Drawing("loop")
    BY <1>1 DEF Drawing, RedrawSteps
  <2>2. QED
    BY <1>4, <1>5, <1>6, <2>1 DEF DisplayInv, Screen, screenVars, Tasks
<1>8. QED
  BY <1>2, <1>7 DEF DisplayInv

LEMMA PressKeeps ==
    ASSUME RemoteInv, Press
    PROVE  RemoteInv'
<1>0. /\ RestType /\ BrokerInv /\ DisplayInv /\ DisplayTypeOK /\ PressButton
      /\ UNCHANGED <<mqttVars, statusbuffer, brightness, screenVars, read, dispatchPc, reports>>
  BY DEF RemoteInv, BrokerInv, DisplayInv, Press, PressButton
<1>1. RestType'
  BY <1>0, RemoteBounds DEF Press, RestType, MqttTypeOK, CallsHaveStatus, RequestsType, mqttVars
<1>2. Go("loop", "poll", "reset")
  BY <1>0 DEF PressButton, PressSource, PressDest, PressExit, PressUser, Pressed, AfterScan
<1>3. pc["loop"] = "poll" /\ pc'["loop"] = "reset" /\ pc'["taskmqtt"] = pc["taskmqtt"]
  BY <1>0, <1>2, GoTo DEF Tasks
<1>4. Received' = Received
  BY <1>0, <1>3 DEF Received
<1>5. source' \in 0..1 /\ destSubmenu' \in BOOLEAN
      /\ BrokerInv' /\ online' = online /\ subscribed' = subscribed
  <2>0. source \in 0..1 /\ destSubmenu \in BOOLEAN
    BY <1>0 DEF DisplayTypeOK
  <2>1. CASE PressSource \/ PressDest \/ PressExit
    <3>1. UNCHANGED brokerVars
      BY <2>1 DEF PressSource, PressDest, PressExit
    <3>2. BrokerInv' /\ online' = online /\ subscribed' = subscribed
      BY <1>0, <1>4, <3>1 DEF brokerVars, BrokerInv, BrokerType, FollowsRetained, LastStatus
    <3>3. source' = source \/ source' = (source + 1) % 2
      BY <2>1 DEF PressSource, PressDest, PressExit
    <3>4. source' \in 0..1
      BY <2>0, <3>3
    <3>5. destSubmenu' \in BOOLEAN
      BY <2>0, <2>1, Zenon DEF PressSource, PressDest, PressExit
    <3>6. QED
      BY <3>2, <3>4, <3>5
  <2>2. CASE PressUser
    <3>1. PICK b \in {"Lea", "M Privat", "M Verein"} :
            PublishRequest([user |-> User(b), source |-> SourceIdentifier(source)])
      BY <2>2 DEF PressUser
    <3>2. [user |-> User(b), source |-> SourceIdentifier(source)] \in ScanRequest
      BY DEF User, SourceIdentifier, ScanRequest
    <3>3. BrokerInv' /\ online' = online /\ subscribed' = subscribed
      BY <1>0, <1>4, <3>1, <3>2, PublishRequestKeeps
    <3>4. QED
      BY <2>0, <2>2, <3>3 DEF PressUser
  <2>3. QED
    BY <1>0, <2>1, <2>2 DEF PressButton
<1>6. DisplayInv'
  BY <1>0, <1>2, <1>5, PressScreen
<1>7. TaskInv'
  BY <1>0, <1>3, <1>5 DEF RemoteInv, TaskInv, SubscribesFirst, CopiesStatus, DarkInPowersave
<1>8. QED
  BY <1>1, <1>5, <1>6, <1>7 DEF RemoteInv, BrokerInv

\* Of a task that draws alone, each step keeps what it has drawn; a reset forgets
\* what was drawn before.
LEMMA RedrawScreen ==
    ASSUME DisplayInv, NEW t \in Tasks, RedrawStep(t)
    PROVE  /\ DisplayInv' /\ pc[t] \in {"reset", "menu"} \cup RedrawSteps
           /\ pc'[t] \in {"menu", "poll"} \cup RedrawSteps
           /\ \A u \in Tasks \ {t} : pc'[u] = pc[u] /\ read'[u] = read[u]
<1>0. /\ DisplayTypeOK /\ Screen /\ UNCHANGED <<source, destSubmenu, statusbuffer, brightness>>
      /\ pc \in [Tasks -> {"poll", "subscribe", "strncpy", "reset", "menu"} \cup RedrawSteps]
      /\ read \in [Tasks -> Texts] /\ canvas \in Seq(Texts)
  BY DEF DisplayInv, DisplayTypeOK, RedrawStep, Texts
<1>1. CASE ResetCanvas(t)
  <2>1. /\ pc[t] = "reset" /\ pc'[t] = "menu" /\ \A u \in Tasks \ {t} : pc'[u] = pc[u]
        /\ pc' \in [Tasks -> {"poll", "subscribe", "strncpy", "reset", "menu"} \cup RedrawSteps]
        /\ canvas' = <<>> /\ UNCHANGED <<buttons, read>>
        /\ overlap' = \E u \in Tasks \ {t} : Drawing(u)
    BY <1>0, <1>1, GoTo DEF ResetCanvas
  <2>2. canvas' \in Seq(Texts) /\ overlap' \in BOOLEAN
    BY <2>1, EmptySeq
  <2>3. DisplayTypeOK'
    BY <1>0, <2>1, <2>2 DEF DisplayTypeOK, Texts
  <2>4. Drawing(t)' /\ Drawn(t)'
    BY <2>1 DEF Drawing, Drawn, Titled, Labelled
  <2>5. \A u \in Tasks \ {t} : Drawing(u)' <=> Drawing(u)
    BY <2>1 DEF Drawing
  <2>6. Screen'
    BY <2>1, <2>4, <2>5 DEF Screen
  <2>7. QED
    BY <2>1, <2>3, <2>6 DEF DisplayInv
<1>2. ASSUME NEW from \in {"menu"} \cup RedrawSteps, NEW to \in {"poll"} \cup RedrawSteps,
             Go(t, from, to), buttons' \in {MainMenu, DestMenu}, canvas' \in Seq(Texts),
             read' \in [Tasks -> Texts], \A u \in Tasks \ {t} : read'[u] = read[u],
             UNCHANGED overlap,
             Drawn(t) /\ (LoopDone' <=> LoopDone) /\ (TaskDone' <=> TaskDone)
                => IF to = "poll" THEN Complete' ELSE Drawn(t)'
      PROVE  /\ DisplayInv' /\ pc[t] \in {"reset", "menu"} \cup RedrawSteps
             /\ pc'[t] \in {"menu", "poll"} \cup RedrawSteps
             /\ \A u \in Tasks \ {t} : pc'[u] = pc[u] /\ read'[u] = read[u]
  <2>1. /\ pc[t] = from /\ pc'[t] = to /\ \A u \in Tasks \ {t} : pc'[u] = pc[u]
        /\ pc' \in [Tasks -> {"poll", "subscribe", "strncpy", "reset", "menu"} \cup RedrawSteps]
    BY <1>0, <1>2, GoTo
  <2>2. DisplayTypeOK'
    BY <1>0, <1>2, <2>1 DEF DisplayTypeOK, Texts
  <2>3. (LoopDone' <=> LoopDone) /\ (TaskDone' <=> TaskDone)
    BY <1>2, <2>1 DEF LoopDone, TaskDone, Tasks, RedrawSteps
  <2>4. Drawing(t) /\ (Drawing(t)' <=> to # "poll")
    BY <1>2, <2>1 DEF Drawing, RedrawSteps
  <2>5. \A u \in Tasks \ {t} : Drawing(u)' <=> Drawing(u)
    BY <2>1 DEF Drawing
  <2>6. Screen'
    BY <1>0, <1>2, <2>3, <2>4, <2>5 DEF Screen
  <2>7. QED
    BY <1>2, <2>1, <2>2, <2>6 DEF DisplayInv
<1>3. CASE ReadMenu(t)
  <2>1. PICK to \in {"dest menu", "main menu"} :
          Go(t, "menu", to) /\ to = IF destSubmenu THEN "dest menu" ELSE "main menu"
    BY <1>3 DEF ReadMenu
  <2>2. pc[t] = "menu" /\ pc'[t] = to /\ UNCHANGED <<buttons, canvas, overlap, read>>
    BY <1>0, <1>3, <2>1, GoTo DEF ReadMenu, screenVars
  <2>3. Drawn(t) => Drawn(t)'
    BY <1>0, <2>1, <2>2 DEF Drawn, Titled, Labelled
  <2>4. buttons \in {MainMenu, DestMenu} /\ to \in RedrawSteps /\ to # "poll"
    BY <1>0 DEF DisplayTypeOK, RedrawSteps
  <2>5. QED
    BY <1>0, <1>2, <2>1, <2>2, <2>3, <2>4
<1>4. CASE ShowButtons(t)
  <2>1. PICK from \in {"main menu", "dest menu"} :
          /\ Go(t, from, "source")
          /\ buttons' = IF from = "dest menu" THEN DestMenu ELSE MainMenu
    BY <1>4 DEF ShowButtons
  <2>2. pc[t] = from /\ pc'[t] = "source" /\ UNCHANGED <<canvas, overlap, read>>
    BY <1>0, <1>4, <2>1, GoTo DEF ShowButtons
  <2>3. ASSUME Drawn(t), LoopDone' <=> LoopDone
        PROVE  Drawn(t)'
    BY <1>0, <2>1, <2>2, <2>3 DEF Drawn, Titled, Labelled, Menu
  <2>4. from \in RedrawSteps /\ "source" \in RedrawSteps /\ buttons' \in {MainMenu, DestMenu}
    BY <2>1 DEF RedrawSteps
  <2>5. QED
    BY <1>0, <1>2, <2>1, <2>2, <2>3, <2>4
<1>5. CASE ReadSource(t)
  <2>1. /\ Go(t, "source", "print source") /\ read' = [read EXCEPT ![t] = SourceLabel(source)]
        /\ UNCHANGED <<buttons, canvas, overlap>>
    BY <1>5 DEF ReadSource, screenVars
  <2>2. pc[t] = "source" /\ pc'[t] = "print source"
    BY <1>0, <2>1, GoTo
  <2>3. SourceLabel(source) \in Texts
    BY DEF SourceLabel, Label, Texts
  <2>4. /\ read' \in [Tasks -> Texts] /\ read'[t] = SourceLabel(source)
        /\ \A u \in Tasks \ {t} : read'[u] = read[u]
    BY <1>0, <2>1, <2>3
  <2>5. ASSUME Drawn(t), LoopDone' <=> LoopDone
        PROVE  Drawn(t)'
    BY <1>0, <2>1, <2>2, <2>4, <2>5 DEF Drawn, Titled, Labelled, Menu
  <2>6. buttons \in {MainMenu, DestMenu} /\ "source" \in RedrawSteps /\ "print source" \in RedrawSteps
    BY <1>0 DEF DisplayTypeOK, RedrawSteps
  <2>7. QED
    BY <1>0, <1>2, <2>1, <2>4, <2>5, <2>6
<1>6. CASE ReadStatus(t)
  <2>1. /\ Go(t, "status", "print status") /\ read' = [read EXCEPT ![t] = statusbuffer]
        /\ UNCHANGED <<buttons, canvas, overlap>>
    BY <1>6 DEF ReadStatus, screenVars
  <2>2. pc[t] = "status" /\ pc'[t] = "print status"
    BY <1>0, <2>1, GoTo
  <2>3. statusbuffer \in Texts
    BY <1>0 DEF DisplayTypeOK, Texts
  <2>4. /\ read' \in [Tasks -> Texts] /\ read'[t] = statusbuffer
        /\ \A u \in Tasks \ {t} : read'[u] = read[u]
    BY <1>0, <2>1, <2>3
  <2>5. ASSUME Drawn(t), LoopDone' <=> LoopDone
        PROVE  Drawn(t)'
    BY <1>0, <2>1, <2>2, <2>4, <2>5 DEF Drawn, Titled, Labelled, Menu
  <2>6. buttons \in {MainMenu, DestMenu} /\ "status" \in RedrawSteps /\ "print status" \in RedrawSteps
    BY <1>0 DEF DisplayTypeOK, RedrawSteps
  <2>7. QED
    BY <1>0, <1>2, <2>1, <2>4, <2>5, <2>6
<1>7. CASE Println(t)
  <2>1. /\ Go(t, "print source", "status") \/ Go(t, "print status", "poll")
        /\ canvas' = Append(canvas, read[t]) /\ read' = [read EXCEPT ![t] = NoStatus]
        /\ UNCHANGED <<buttons, overlap>>
    BY <1>7 DEF Println
  <2>0. /\ read \in [Tasks -> Texts] /\ canvas \in Seq(Texts) /\ buttons \in {MainMenu, DestMenu}
        /\ NoStatus \in Texts
    BY <1>0 DEF DisplayTypeOK, Texts
  <2>2. /\ read' \in [Tasks -> Texts] /\ \A u \in Tasks \ {t} : read'[u] = read[u]
        /\ canvas' \in Seq(Texts) /\ buttons' \in {MainMenu, DestMenu}
    BY <2>0, <2>1, Printed
  <2>3. CASE Go(t, "print source", "status")
    <3>1. pc[t] = "print source" /\ pc'[t] = "status"
      BY <1>0, <2>3, GoTo
    <3>2. ASSUME Drawn(t), LoopDone' <=> LoopDone
          PROVE  Drawn(t)'
      <4>1. canvas = <<>>
        BY <3>1, <3>2 DEF Drawn, Titled
      <4>2. canvas' = <<read[t]>>
        BY <2>1, <4>1, Printed
      <4>3. LoopDone => read[t] = SourceLabel(source)
        BY <3>1, <3>2 DEF Drawn
      <4>4. \E l : canvas' = <<l>> /\ (LoopDone => l = SourceLabel(source))
        BY <4>2, <4>3
      <4>5. LoopDone => buttons = Menu
        BY <3>1, <3>2 DEF Drawn, Labelled
      <4>6. QED
        BY <1>0, <2>1, <3>1, <3>2, <4>4, <4>5 DEF Drawn, Titled, Labelled, Menu
    <3>3. "print source" \in RedrawSteps /\ "status" \in RedrawSteps
      BY DEF RedrawSteps
    <3>4. QED
      BY <1>2, <2>1, <2>2, <2>3, <3>2, <3>3
  <2>4. CASE Go(t, "print status", "poll")
    <3>1. pc[t] = "print status" /\ pc'[t] = "poll"
      BY <1>0, <2>4, GoTo
    <3>2. ASSUME Drawn(t), LoopDone' <=> LoopDone, TaskDone' <=> TaskDone
          PROVE  Complete'
      <4>1. PICK l : canvas = <<l>> /\ (LoopDone => l = SourceLabel(source))
        BY <3>1, <3>2 DEF Drawn, Titled
      <4>2. canvas' = <<l, read[t]>>
        BY <2>1, <4>1, Printed
      <4>3. (TaskDone => read[t] = statusbuffer) /\ (LoopDone => buttons = Menu)
        BY <3>1, <3>2 DEF Drawn, Labelled
      <4>4. QED
        BY <1>0, <2>1, <3>2, <4>1, <4>2, <4>3 DEF Complete, Menu
    <3>3. "print status" \in RedrawSteps
      BY DEF RedrawSteps
    <3>4. QED
      BY <1>2, <2>1, <2>2, <2>4, <3>2, <3>3
  <2>5. QED
    BY <2>1, <2>3, <2>4
<1>8. QED
  BY <1>1, <1>3, <1>4, <1>5, <1>6, <1>7 DEF RedrawStep

LEMMA RedrawKeeps ==
    ASSUME RemoteInv, Redraw
    PROVE  RemoteInv'
<1>0. PICK t \in Tasks : RedrawStep(t)
  BY DEF Redraw
<1>1. /\ RestType /\ BrokerInv /\ DisplayInv
      /\ UNCHANGED <<mqttVars, dispatchPc, counters>> /\ UNCHANGED brokerVars
      /\ UNCHANGED <<statusbuffer, brightness>>
  BY <1>0 DEF RemoteInv, BrokerInv, Redraw, RedrawStep
<1>2. /\ DisplayInv' /\ pc[t] \in {"reset", "menu"} \cup RedrawSteps
      /\ pc'[t] \in {"menu", "poll"} \cup RedrawSteps
      /\ \A u \in Tasks \ {t} : pc'[u] = pc[u] /\ read'[u] = read[u]
  BY <1>0, <1>1, RedrawScreen
<1>3. \/ pc'["taskmqtt"] = pc["taskmqtt"] /\ read'["taskmqtt"] = read["taskmqtt"]
      \/ pc["taskmqtt"] \notin {"subscribe", "strncpy"} /\ pc'["taskmqtt"] \notin {"subscribe", "strncpy"}
  BY <1>2 DEF Tasks, RedrawSteps
<1>4. RestType'
  BY <1>1, RestSame
<1>5. Received' = Received /\ TaskInv'
  BY <1>1, <1>3 DEF brokerVars, Received, RemoteInv, TaskInv, SubscribesFirst, CopiesStatus,
                    DarkInPowersave
<1>6. BrokerInv'
  BY <1>1, <1>5 DEF brokerVars, BrokerInv, BrokerType, FollowsRetained, LastStatus
<1>7. QED
  BY <1>2, <1>4, <1>5, <1>6 DEF RemoteInv, BrokerInv

\* taskmqtt does not draw: what loop() has drawn stays, and if the status may have
\* changed, a redraw is due.
LEMMA TaskScreen ==
    ASSUME DisplayInv, NEW from \in {"poll", "subscribe", "strncpy"},
           NEW to \in {"poll", "subscribe", "strncpy", "reset"}, Go("taskmqtt", from, to),
           statusbuffer' \in Status \cup {NoStatus, Torn}, brightness' \in {0, 100},
           read' \in [Tasks -> Texts], read'["loop"] = read["loop"],
           \/ to \in {"strncpy", "reset"}
           \/ from # "strncpy" /\ statusbuffer' = statusbuffer,
           UNCHANGED <<source, destSubmenu, screenVars>>
    PROVE  DisplayInv'
<1>1. /\ pc["taskmqtt"] = from /\ pc'["taskmqtt"] = to /\ pc'["loop"] = pc["loop"]
      /\ pc' \in [Tasks -> {"poll", "subscribe", "strncpy", "reset", "menu"} \cup RedrawSteps]
  BY GoTo DEF Tasks, DisplayInv
<1>2. DisplayTypeOK'
  BY <1>1 DEF DisplayInv, DisplayTypeOK, screenVars, Texts
<1>3. /\ LoopDone' <=> LoopDone
      /\ TaskDone' => TaskDone /\ statusbuffer' = statusbuffer
  BY <1>1 DEF LoopDone, TaskDone
<1>4. ~Drawing("taskmqtt") /\ ~Drawing("taskmqtt")' /\ (Drawing("loop")' <=> Drawing("loop"))
  BY <1>1 DEF Drawing, RedrawSteps
<1>5. Drawn("loop") => Drawn("loop")'
  BY <1>1, <1>3 DEF Drawn, Menu, screenVars
<1>6. Complete => Complete'
  BY <1>3 DEF Complete, Menu, screenVars
<1>7. Screen'
  BY <1>4, <1>5, <1>6 DEF DisplayInv, Screen, screenVars, Tasks
<1>8. QED
  BY <1>2, <1>7 DEF DisplayInv

LEMMA TaskKeeps ==
    ASSUME RemoteInv, Task
    PROVE  RemoteInv'
<1>0. /\ RestType /\ BrokerInv /\ DisplayInv /\ DisplayTypeOK
      /\ SubscribesFirst /\ CopiesStatus /\ DarkInPowersave
      /\ UNCHANGED <<mqttVars, dispatchPc, counters>>
      /\ UNCHANGED <<source, destSubmenu, screenVars>>
      /\ statusbuffer \in Status \cup {NoStatus, Torn} /\ brightness \in {0, 100}
      /\ read \in [Tasks -> Texts]
  BY DEF RemoteInv, BrokerInv, DisplayInv, DisplayTypeOK, TaskInv, Task, TaskStep, Texts
<1>1. RestType'
  BY <1>0, RestSame
<1>2. \A from, to : Go("taskmqtt", from, to) => pc["taskmqtt"] = from /\ pc'["taskmqtt"] = to
  BY <1>0, GoTo DEF Tasks
<1>3. CASE Reconnect
  <2>1. /\ pc["taskmqtt"] = "poll" /\ pc'["taskmqtt"] = "subscribe" /\ Connect("display")
        /\ UNCHANGED <<statusbuffer, brightness, read>>
    BY <1>2, <1>3 DEF Reconnect
  <2>2. Received' = Received
    BY <2>1 DEF Received
  <2>3. BrokerInv' /\ online' = online \cup {"display"} /\ subscribed' = subscribed
    BY <1>0, <2>1, <2>2, ConnectKeeps DEF Client
  <2>4. TaskInv'
    BY <1>0, <2>1, <2>3 DEF Connect, BrokerInv, BrokerType, TaskInv, SubscribesFirst,
                            CopiesStatus, DarkInPowersave
  <2>5. DisplayInv'
    BY <1>0, <1>3, <2>1, TaskScreen DEF Reconnect
  <2>6. QED
    BY <1>1, <2>3, <2>4, <2>5 DEF RemoteInv, BrokerInv
<1>4. CASE SubscribeStatus
  <2>1. /\ pc["taskmqtt"] = "subscribe" /\ pc'["taskmqtt"] = "poll"
        /\ UNCHANGED <<statusbuffer, brightness, read>>
    BY <1>2, <1>4 DEF SubscribeStatus
  <2>2. Received' = Received
    BY <2>1 DEF Received
  <2>3. BrokerInv' /\ online' = online /\ ("display" \in online => "display" \in subscribed')
    <3>1. CASE "display" \in online /\ "display" \notin subscribed
      BY <1>0, <1>4, <2>2, <3>1, SubscribeKeeps DEF SubscribeStatus, Client
    <3>2. CASE "display" \notin online
      BY <1>0, <1>4, <2>2, <3>2 DEF SubscribeStatus, brokerVars, BrokerInv, BrokerType,
                                    FollowsRetained, LastStatus
    <3>3. "display" \notin subscribed
      BY <1>0, <2>1 DEF SubscribesFirst
    <3>4. QED
      BY <3>1, <3>2, <3>3
  <2>4. TaskInv'
    BY <1>0, <2>1, <2>3 DEF TaskInv, SubscribesFirst, CopiesStatus, DarkInPowersave
  <2>5. DisplayInv'
    BY <1>0, <1>4, <2>1, TaskScreen DEF SubscribeStatus
  <2>6. QED
    BY <1>1, <2>3, <2>4, <2>5 DEF RemoteInv, BrokerInv
<1>5. CASE CopyStatus
  <2>1. /\ pc["taskmqtt"] = "poll" /\ pc'["taskmqtt"] = "strncpy" /\ Take("display")
        /\ read' = [read EXCEPT !["taskmqtt"] = Head(inbox["display"])]
        /\ statusbuffer' = Torn /\ brightness' = brightness
    BY <1>2, <1>5 DEF CopyStatus
  <2>2. read'["taskmqtt"] = Head(inbox["display"]) /\ read'["loop"] = read["loop"]
    BY <1>0, <2>1 DEF Tasks
  <2>3. Received' = Head(inbox["display"])
    BY <2>1, <2>2 DEF Received
  <2>4. BrokerInv' /\ online' = online /\ subscribed' = subscribed /\ Received' \in Status
    BY <1>0, <2>1, <2>3, DisplayTakes
  <2>5. read' \in [Tasks -> Texts]
    BY <1>0, <2>1, <2>3, <2>4 DEF Texts
  <2>6. TaskInv'
    BY <1>0, <2>1, <2>2, <2>3, <2>4 DEF TaskInv, SubscribesFirst, CopiesStatus, DarkInPowersave
  <2>7. DisplayInv'
    BY <1>0, <1>5, <2>1, <2>2, <2>5, TaskScreen DEF CopyStatus
  <2>8. QED
    BY <1>1, <2>4, <2>6, <2>7 DEF RemoteInv, BrokerInv
<1>6. CASE EndStatus
  <2>1. /\ pc["taskmqtt"] = "strncpy" /\ pc'["taskmqtt"] = "reset" /\ UNCHANGED brokerVars
        /\ read' = [read EXCEPT !["taskmqtt"] = NoStatus]
        /\ statusbuffer' = read["taskmqtt"]
        /\ brightness' = IF read["taskmqtt"] = "powersave" THEN 0 ELSE 100
    BY <1>2, <1>6 DEF EndStatus
  <2>2. read' \in [Tasks -> Texts] /\ read'["loop"] = read["loop"] /\ read["taskmqtt"] \in Status
    BY <1>0, <2>1 DEF Tasks, Texts, CopiesStatus
  <2>3. Received' = Received
    BY <2>1 DEF Received
  <2>4. BrokerInv'
    BY <1>0, <2>1, <2>3 DEF brokerVars, BrokerInv, BrokerType, FollowsRetained, LastStatus
  <2>5. TaskInv'
    BY <1>0, <2>1 DEF brokerVars, TaskInv, SubscribesFirst, CopiesStatus, DarkInPowersave
  <2>6. DisplayInv'
    BY <1>0, <1>6, <2>1, <2>2, TaskScreen DEF EndStatus
  <2>7. QED
    BY <1>1, <2>4, <2>5, <2>6 DEF RemoteInv, BrokerInv
<1>7. QED
  BY <1>3, <1>4, <1>5, <1>6 DEF Task, TaskStep

-----------------------------------------------------------------------------
LEMMA RemoteInit == Init => RemoteInv
<1> SUFFICES ASSUME Init PROVE RemoteInv
  OBVIOUS
<1> USE DEF Init, BrokerInit, MqttInit, DisplayInit
<1>1. BrokerType
  <2>1. \A c \in Client : inbox[c] = <<>>
    OBVIOUS
  <2>2. /\ \A c \in Client : inbox[c] \in Seq(Status \cup ScanRequest) /\ Len(inbox[c]) = 0
        /\ inbox["display"] \in Seq(Status) /\ inbox["scan2drive"] \in Seq(ScanRequest)
        /\ retained \in Seq(Status) /\ Len(retained) = 0
    BY <2>1, Empty DEF Client
  <2>3. inbox \in [Client -> Seq(Status \cup ScanRequest)]
    BY <2>2
  <2>4. QED
    BY <2>1, <2>2, <2>3, BrokerBounds DEF BrokerType
<1>2. FollowsRetained /\ TaskInv
  <2>1. NoStatus # "powersave"
    BY StatusAssumption DEF Status, FinderStatus
  <2>2. pc["taskmqtt"] = "poll" /\ brightness = 100 /\ statusbuffer = NoStatus /\ online = {}
        /\ retained = <<>>
    BY DEF Tasks
  <2>3. FollowsRetained
    BY <2>2 DEF FollowsRetained
  <2>4. TaskInv
    BY <2>1, <2>2 DEF TaskInv, SubscribesFirst, CopiesStatus, DarkInPowersave
  <2>5. QED
    BY <2>3, <2>4
<1>3. RestType
  <2>1. RequestsType
    BY Empty DEF RequestsType
  <2>2. [pc |-> "idle", status |-> NoStatus] \in Call
    BY DEF Call
  <2>3. QED
    BY <2>1, <2>2, RemoteBounds DEF RestType, MqttTypeOK, CallsHaveStatus
<1>4. DisplayInv
  <2>1. ~destSubmenu /\ destSubmenu \in BOOLEAN /\ ~overlap /\ overlap \in BOOLEAN
    BY Zenon
  <2>2. /\ canvas = <<SourceLabel(0), NoStatus>> /\ statusbuffer = NoStatus /\ source = 0
        /\ brightness = 100 /\ buttons = MainMenu
        /\ pc = [t \in Tasks |-> "poll"] /\ read = [t \in Tasks |-> NoStatus]
    BY Zenon
  <2>3. canvas \in Seq(Texts)
    <3>1. SourceLabel(0) \in Texts /\ NoStatus \in Texts
      BY DEF Texts, Label
    <3>2. QED
      BY <2>2, <3>1
  <2>4. DisplayTypeOK
    BY <2>1, <2>2, <2>3 DEF DisplayTypeOK, Texts
  <2>5. Complete
    BY <2>1, <2>2 DEF Complete, Menu
  <2>6. Screen
    BY <2>2, <2>5 DEF Screen, Drawing, RedrawSteps
  <2>7. QED
    BY <2>4, <2>6 DEF DisplayInv
<1>5. QED
  BY <1>1, <1>2, <1>3, <1>4 DEF RemoteInv

LEMMA RemoteStep == RemoteInv /\ [Next]_vars => RemoteInv'
<1> SUFFICES ASSUME RemoteInv, [Next]_vars PROVE RemoteInv'
  OBVIOUS
<1>1. ASSUME NEW c \in Caller, Report(c) \/ ReportStep(c)
      PROVE  RemoteInv'
  BY <1>1, ReportKeeps
<1>2. CASE Dispatch \/ BeginScan \/ EndDispatch
  BY <1>2, DispatchKeeps
<1>3. CASE DispatchUnknownUser \/ Crash
  <2>1. Restart
    BY <1>3 DEF DispatchUnknownUser, Crash
  <2>2. losses' \in 0..MaxLosses
    BY <1>3, BrokerBounds DEF DispatchUnknownUser, Crash, RemoteInv, BrokerType
  <2>3. QED
    BY <2>1, <2>2, RestartKeeps
<1>4. CASE Mqtt
  BY <1>4, MqttKeeps
<1>5. CASE ServerConnects \/ Network
  BY <1>5, NetworkKeeps
<1>6. CASE Press
  BY <1>6, PressKeeps
<1>7. CASE Redraw
  BY <1>7, RedrawKeeps
<1>8. CASE Task
  BY <1>8, TaskKeeps
<1>9. CASE UNCHANGED vars
  <2>1. RestType'
    BY <1>9, RestSame DEF RemoteInv, vars
  <2>2. QED
    BY <1>9, <2>1, OthersSame DEF vars, Others
<1>10. QED
  BY <1>1, <1>2, <1>3, <1>4, <1>5, <1>6, <1>7, <1>8, <1>9 DEF Next

\* Every variable of the display, the broker and the MQTT client keeps its type: at
\* most one scan request is pending (mayqtt.go:61), and no request and no status ever
\* reaches a client that has not asked for it.
THEOREM RemoteTypeCorrect == Spec => []TypeOK
<1>1. RemoteInv => TypeOK
  <2> SUFFICES ASSUME RemoteInv PROVE TypeOK
    OBVIOUS
  <2>1. \A S : \A s \in Seq(S) : \A i \in DOMAIN s : s[i] \in S
    BY LenProperties, ElementOfSeq
  <2>2. BrokerType /\ RestType /\ DisplayTypeOK
    BY DEF RemoteInv, DisplayInv
  <2>3. /\ \A m \in {inbox["display"][i] : i \in DOMAIN inbox["display"]} : m \in Status
        /\ \A m \in {inbox["scan2drive"][i] : i \in DOMAIN inbox["scan2drive"]} : m \in ScanRequest
        /\ \A i \in DOMAIN retained : retained[i] \in Status
    BY <2>1, <2>2 DEF BrokerType
  <2>4. QED
    BY <2>2, <2>3 DEF TypeOK, BrokerType, RestType, RequestsType
<1>2. QED
  BY <1>1, RemoteInit, RemoteStep, PTL DEF Spec

\* loop() and callback() draw the screen from two cores, each from variables the other
\* one may change (scan2drive-ui-m5stack.ino:110).  A redraw that no other one overlaps
\* is enough: whatever was changed meanwhile, the screen is current when nobody draws.
THEOREM ScreenCurrentHolds == Spec => []ScreenCurrent
<1>1. RemoteInv => ScreenCurrent
  <2> SUFFICES ASSUME RemoteInv, Polling, pc["loop"] = "poll", ~overlap
               PROVE  /\ buttons = Menu
                      /\ canvas = <<SourceLabel(source), statusbuffer>>
    BY DEF ScreenCurrent, Menu
  <2>1. LoopDone /\ TaskDone /\ \A t \in Tasks : ~Drawing(t)
    BY DEF LoopDone, TaskDone, Drawing, Tasks, RedrawSteps, Polling
  <2>2. Complete
    BY <2>1 DEF RemoteInv, DisplayInv, Screen
  <2>3. QED
    BY <2>1, <2>2 DEF Complete
<1>2. QED
  BY <1>1, RemoteInit, RemoteStep, PTL DEF Spec

\* However connections break, scan2drive is started again and messages are on the
\* way: a connected display that has taken its messages has the retained status.
THEOREM DisplayCaughtUpHolds == Spec => []DisplayCaughtUp
<1>1. RemoteInv => DisplayCaughtUp
  BY DEF RemoteInv, FollowsRetained, LastStatus, LastOf, Received, TaskInv, SubscribesFirst,
         DarkInPowersave, DisplayCaughtUp, Polling
<1>2. QED
  BY <1>1, RemoteInit, RemoteStep, PTL DEF Spec
=============================================================================
