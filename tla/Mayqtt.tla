------------------------------- MODULE Mayqtt -------------------------------
(***************************************************************************)
(* The MQTT client of scan2drive: internal/mayqtt/mayqtt.go, with the      *)
(* callers of Publishf in cmd/scan2drive and internal/source.              *)
(*                                                                         *)
(* Publishf is called by the queue worker, by the loop that looks for the  *)
(* USB scanner and by scans that start.  It compares the status with       *)
(* lastStatus, stores it there, without a lock, and offers it to mqttLoop, *)
(* which takes it only while it waits in its receive.                      *)
(***************************************************************************)
EXTENDS Broker

CONSTANTS
    Caller,     \* the goroutines that call Publishf
    NoStatus,   \* no status: the empty string
    Torn        \* what a data race may leave of a string: no status

VARIABLES
    lastStatus,     \* the package variable
    calls,          \* the calls of Publishf
    mqttLoop,       \* where mqttLoop is
    publish,        \* the status it has received and not yet published
    scanRequests,   \* the channel mqttScanRequests, of capacity 1
    handed          \* history: the last status that mqttLoop was given

mqttVars == <<lastStatus, calls, mqttLoop, publish, scanRequests, handed>>

\* What processScan publishes; two counts of pages are two statuses.
WorkerStatus == {"processing 1 pages", "processing 2 pages", "uploading PDF", "scanner ready"}

\* What findDevice publishes, and ScanTo of either source.
FinderStatus == {"powersave", "scanner ready"}
ScanStatus == {"scanning..."}

Status == WorkerStatus \cup FinderStatus \cup ScanStatus

ASSUME StatusAssumption == NoStatus \notin Status /\ Torn \notin Status \cup {NoStatus}

Call == [pc : {"idle", "compare", "assign", "store", "send"}, status : Status \cup {NoStatus}]

Step(c, pc) == calls' = [calls EXCEPT ![c].pc = pc]

-----------------------------------------------------------------------------
(* Publishf *)

CallPublishf(c, st) ==
    /\ calls[c].pc = "idle"
    /\ calls' = [calls EXCEPT ![c] = [pc |-> "compare", status |-> st]]
    /\ UNCHANGED <<lastStatus, mqttLoop, publish, scanRequests, handed>>

Duplicate(c) ==
    /\ calls[c].pc = "compare"
    /\ lastStatus = calls[c].status
    /\ Step(c, "idle")
    /\ UNCHANGED <<lastStatus, mqttLoop, publish, scanRequests, handed>>

NewStatus(c) ==
    /\ calls[c].pc = "compare"
    /\ lastStatus # calls[c].status
    /\ Step(c, "assign")
    /\ UNCHANGED <<lastStatus, mqttLoop, publish, scanRequests, handed>>

\* The assignment writes two words, one after the other.
Assign(c) ==
    /\ calls[c].pc = "assign"
    /\ lastStatus' = Torn
    /\ Step(c, "store")
    /\ UNCHANGED <<mqttLoop, publish, scanRequests, handed>>

\* If another goroutine assigns at the same time, the words may not match.
Store(c) ==
    /\ calls[c].pc = "store"
    /\ \/ lastStatus' = calls[c].status
       \/ /\ lastStatus # Torn \/ \E d \in Caller \ {c} : calls[d].pc = "store"
          /\ lastStatus' = Torn
    /\ Step(c, "send")
    /\ UNCHANGED <<mqttLoop, publish, scanRequests, handed>>

\* The message is dropped unless mqttLoop is waiting for it.
Send(c) ==
    /\ calls[c].pc = "send"
    /\ IF mqttLoop = "receive"
         THEN /\ mqttLoop' = "publish"
              /\ publish' = calls[c].status
              /\ handed' = calls[c].status
         ELSE UNCHANGED <<mqttLoop, publish, handed>>
    /\ Step(c, "idle")
    /\ UNCHANGED <<lastStatus, scanRequests>>

Publishf(c) ==
    /\ Duplicate(c) \/ NewStatus(c) \/ Assign(c) \/ Store(c) \/ Send(c)
    /\ UNCHANGED brokerVars

-----------------------------------------------------------------------------
(* mqttLoop and its callbacks.  OnConnect runs on each connection. *)

Connected ==
    /\ mqttLoop = "connect"
    /\ "scan2drive" \in online
    /\ mqttLoop' = "receive"
    /\ UNCHANGED <<brokerVars, lastStatus, calls, publish, scanRequests, handed>>

OnConnect ==
    /\ "scan2drive" \notin subscribed
    /\ Subscribe("scan2drive")
    /\ UNCHANGED mqttVars

PublishReceived ==
    /\ mqttLoop = "publish"
    /\ PublishStatus(publish)
    /\ mqttLoop' = "receive"
    /\ publish' = NoStatus
    /\ UNCHANGED <<lastStatus, calls, scanRequests, handed>>

\* (Mutation of OnRequest: requests pile up.)
BugUnbounded ==
    /\ Take("scan2drive")
    /\ scanRequests' = Append(scanRequests, Head(inbox["scan2drive"]))
    /\ UNCHANGED <<lastStatus, calls, mqttLoop, publish, handed>>

\* The callback of the subscription: with a request pending, another is dropped.
OnRequest ==
    /\ Take("scan2drive")
    /\ scanRequests' = IF scanRequests = <<>> THEN <<Head(inbox["scan2drive"])>> ELSE scanRequests
    /\ UNCHANGED <<lastStatus, calls, mqttLoop, publish, handed>>

MqttStep == Connected \/ OnConnect \/ PublishReceived \/ OnRequest

MqttTypeOK ==
    /\ lastStatus \in Status \cup {NoStatus, Torn}
    /\ calls \in [Caller -> Call]
    /\ mqttLoop \in {"connect", "receive", "publish"}
    /\ publish \in Status \cup {NoStatus}
    /\ handed \in Status \cup {NoStatus}

MqttInit ==
    /\ lastStatus = NoStatus
    /\ calls = [c \in Caller |-> [pc |-> "idle", status |-> NoStatus]]
    /\ mqttLoop = "connect"
    /\ publish = NoStatus
    /\ scanRequests = <<>>
    /\ handed = NoStatus
=============================================================================
