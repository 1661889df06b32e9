------------------------------- MODULE Remote -------------------------------
(***************************************************************************)
(* Scanning by remote control: the display, the broker, and in scan2drive  *)
(* the MQTT client, the goroutines that publish a status and the one that  *)
(* dispatches scan requests (cmd/scan2drive/scan2drive.go).                *)
(***************************************************************************)
EXTENDS Display

CONSTANTS
    KnownUser,  \* names of the users that are logged in
    MaxReports, \* bound: status reports, other than those of dispatched scans
    MaxPresses  \* bound: buttons pressed

ASSUME RemoteBounds == MaxReports \in Nat /\ MaxPresses \in Nat

VARIABLES
    dispatchPc, \* what the dispatching goroutine does next
    reports,    \* status reports so far
    presses     \* buttons pressed so far

counters == <<reports, presses>>
vars == <<brokerVars, mqttVars, displayVars, dispatchPc, counters>>

-----------------------------------------------------------------------------
(* The callers of Publishf. *)

\* What a caller may publish after the status st.  The markers of a job and failures
\* decide how much of processScan the worker runs.  The loop over USB devices finds
\* the scanner or not; its button starts scans until the scanner is lost.  All
\* others only start scans.
Follows(c, st) ==
    CASE c = "worker" -> WorkerStatus
      [] c = "finder" -> FinderStatus \cup IF st \in {"scanner ready", "scanning..."}
                                             THEN ScanStatus ELSE {}
      [] OTHER        -> ScanStatus

Report(c) ==
    /\ c \in Caller \ {"dispatcher"}
    /\ reports < MaxReports /\ reports' = reports + 1
    /\ \E st \in Follows(c, calls[c].status) : CallPublishf(c, st)
    /\ UNCHANGED <<brokerVars, displayVars, dispatchPc, presses>>

ReportStep(c) == Publishf(c) /\ UNCHANGED <<displayVars, dispatchPc, counters>>

-----------------------------------------------------------------------------
(* Impulse/Trigger: MQTT. *)

Idle(c) == calls[c].pc = "idle"

\* The goroutine takes the pending request of a user that is logged in.
Dispatch ==
    /\ dispatchPc = "receive"
    /\ scanRequests # <<>> /\ scanRequests[1].user \in KnownUser
    /\ scanRequests' = <<>>
    /\ dispatchPc' = "dispatch"
    /\ UNCHANGED <<brokerVars, lastStatus, calls, mqttLoop, publish, handed, displayVars, counters>>

\* A source accepts it, and ScanTo begins with a call of Publishf.
BeginScan ==
    /\ dispatchPc = "dispatch"
    /\ CallPublishf("dispatcher", "scanning...")
    /\ dispatchPc' = "scan"
    /\ UNCHANGED <<brokerVars, displayVars, counters>>

\* No source was found, or the scan has ended, with success or not.
EndDispatch ==
    /\ dispatchPc \in {"dispatch", "scan"} /\ Idle("dispatcher")
    /\ dispatchPc' = "receive"
    /\ UNCHANGED <<brokerVars, mqttVars, displayVars, counters>>

-----------------------------------------------------------------------------
(* The process, and the network. *)

\* The process dies and is started again; the display and the broker go on.
Restart ==
    /\ lastStatus' = NoStatus
    /\ calls' = [c \in Caller |-> [pc |-> "idle", status |-> NoStatus]]
    /\ mqttLoop' = "connect"
    /\ publish' = NoStatus
    /\ scanRequests' = <<>>
    /\ handed' = NoStatus
    /\ dispatchPc' = "receive"
    /\ online' = online \ {"scan2drive"}
    /\ subscribed' = subscribed \ {"scan2drive"}
    /\ inbox' = [inbox EXCEPT !["scan2drive"] = <<>>]
    /\ UNCHANGED <<retained, displayVars, counters>>

\* UserByName returns nil for a user that is not logged in, and user.Sub is
\* evaluated before anything is checked: the process panics.
DispatchUnknownUser ==
    /\ dispatchPc = "receive"
    /\ scanRequests # <<>> /\ scanRequests[1].user \notin KnownUser
    /\ Restart
    /\ UNCHANGED losses

\* Any other end of the process counts as one more broken connection.
Crash ==
    /\ losses < MaxLosses
    /\ losses' = losses + 1
    /\ Restart

\* The MQTT library connects by itself, and connects again.
ServerConnects ==
    /\ Connect("scan2drive")
    /\ UNCHANGED <<mqttVars, displayVars, dispatchPc, counters>>

Network ==
    /\ \E c \in Client : ConnectionLost(c)
    /\ UNCHANGED <<mqttVars, displayVars, dispatchPc, counters>>

Mqtt == MqttStep /\ UNCHANGED <<displayVars, dispatchPc, counters>>

Press ==
    /\ presses < MaxPresses /\ presses' = presses + 1
    /\ PressButton
    /\ UNCHANGED <<dispatchPc, reports>>

Redraw ==
    /\ \E t \in Tasks : RedrawStep(t)
    /\ UNCHANGED <<dispatchPc, counters>>

Task == TaskStep /\ UNCHANGED <<dispatchPc, counters>>

Init ==
    /\ BrokerInit /\ MqttInit /\ DisplayInit
    /\ dispatchPc = "receive"
    /\ reports = 0 /\ presses = 0

Next ==
    \/ \E c \in Caller : Report(c) \/ ReportStep(c)
    \/ Dispatch \/ BeginScan \/ EndDispatch \/ DispatchUnknownUser
    \/ Mqtt \/ ServerConnects \/ Network \/ Crash
    \/ Press \/ Redraw \/ Task

Spec == Init /\ [][Next]_vars

-----------------------------------------------------------------------------
(* Properties. *)

TypeOK ==
    /\ online \subseteq Client /\ subscribed \subseteq online
    /\ \A m \in {inbox["display"][i] : i \in DOMAIN inbox["display"]} : m \in Status
    /\ \A m \in {inbox["scan2drive"][i] : i \in DOMAIN inbox["scan2drive"]} : m \in ScanRequest
    /\ \A i \in DOMAIN retained : retained[i] \in Status
    /\ \A c \in Client : Len(inbox[c]) <= MaxInFlight
    /\ Len(scanRequests) <= 1
    /\ MqttTypeOK /\ DisplayTypeOK
    /\ dispatchPc \in {"receive", "dispatch", "scan"}
    /\ reports \in 0..MaxReports /\ presses \in 0..MaxPresses

Polling == pc["taskmqtt"] = "poll"

\* Two tasks draw the screen without a lock, each from variables that the other one
\* may change meanwhile.  If the last redraw was alone from its reset of the canvas
\* on, then whatever was changed during or after it has been drawn again as soon as
\* no task draws: the labels are those of the menu that a press will be taken for,
\* the source is the one a request will name, the status the last one received.
\* (After redraws that overlap, the labels, the source and the status may be stale or
\* appear twice, until the next redraw.)
ScreenCurrent ==
    Polling /\ pc["loop"] = "poll" /\ ~overlap =>
        /\ buttons = IF destSubmenu THEN DestMenu ELSE MainMenu
        /\ canvas = <<SourceLabel(source), statusbuffer>>

\* Whatever was published while the display was away, was lost with a connection
\* or is retained from before a restart of scan2drive: a connected display that
\* has taken all its messages has the status the broker retains, and is dark
\* exactly if that is "powersave".
DisplayCaughtUp ==
    Polling /\ "display" \in online /\ inbox["display"] = <<>> /\ retained # <<>> =>
        /\ retained = <<statusbuffer>>
        /\ brightness = 0 <=> statusbuffer = "powersave"

\* The comment in Publishf: "Prevent duplicate messages if status has not changed".
\* So what is held back is a duplicate: mqttLoop has been given this status.
OnlyDuplicatesHeldBack ==
    [][\A c \in Caller : Duplicate(c) => handed = calls[c].status]_vars
=============================================================================
