------------------------------- MODULE Broker -------------------------------
(***************************************************************************)
(* The MQTT broker between scan2drive and its display, as both use it: one *)
(* topic for the status, retained, and one for scan requests.  Messages    *)
(* have QoS 0: those of one sender arrive in order, and whatever is in     *)
(* flight on a connection is lost with it.                                 *)
(***************************************************************************)
EXTENDS Naturals, Sequences

CONSTANTS
    MaxInFlight,    \* bound: messages on the way to one client
    MaxLosses       \* bound: connections that break

ASSUME BrokerBounds == MaxInFlight \in Nat \ {0} /\ MaxLosses \in Nat

VARIABLES
    online,         \* the clients that are connected
    subscribed,     \* the clients that have subscribed to their topic
    inbox,          \* messages on the way to each client
    retained,       \* the retained status, <<>> if there is none
    losses          \* broken connections so far

brokerVars == <<online, subscribed, inbox, retained, losses>>

Client == {"scan2drive", "display"}

Connect(c) ==
    /\ c \notin online
    /\ online' = online \cup {c}
    /\ UNCHANGED <<subscribed, inbox, retained, losses>>

\* A new subscriber is sent the retained message of its topic.
Subscribe(c) ==
    /\ c \in online
    /\ subscribed' = subscribed \cup {c}
    /\ inbox' = [inbox EXCEPT ![c] = IF c = "display" THEN @ \o retained ELSE @]
    /\ UNCHANGED <<online, retained, losses>>

ConnectionLost(c) ==
    /\ c \in online /\ losses < MaxLosses
    /\ losses' = losses + 1
    /\ online' = online \ {c}
    /\ subscribed' = subscribed \ {c}
    /\ inbox' = [inbox EXCEPT ![c] = <<>>]
    /\ UNCHANGED retained

\* A message goes to the client c if it has subscribed.
Forward(c, m) ==
    IF c \in subscribed
      THEN Len(inbox[c]) < MaxInFlight /\ inbox' = [inbox EXCEPT ![c] = Append(@, m)]
      ELSE UNCHANGED inbox

Retain(st) == retained' = <<st>>

\* A client publishes: without a connection the message is dropped.
PublishStatus(st) ==
    IF "scan2drive" \in online
      THEN Retain(st) /\ Forward("display", st) /\ UNCHANGED <<online, subscribed, losses>>
      ELSE UNCHANGED brokerVars

PublishRequest(r) ==
    IF "display" \in online
      THEN Forward("scan2drive", r) /\ UNCHANGED <<online, subscribed, retained, losses>>
      ELSE UNCHANGED brokerVars

\* The client c takes the first message that has arrived.
Take(c) ==
    /\ inbox[c] # <<>>
    /\ inbox' = [inbox EXCEPT ![c] = Tail(@)]
    /\ UNCHANGED <<online, subscribed, retained, losses>>

BrokerInit ==
    /\ online = {} /\ subscribed = {}
    /\ inbox = [c \in Client |-> <<>>]
    /\ retained = <<>>
    /\ losses = 0
=============================================================================
