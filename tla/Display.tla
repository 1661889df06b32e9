------------------------------ MODULE Display -------------------------------
(***************************************************************************)
(* The display with three buttons: _m5stack/scan2drive-ui-m5stack.ino.     *)
(*                                                                         *)
(* Two tasks run on two cores: loop() polls the buttons, taskmqtt polls    *)
(* the broker and calls callback() for each message.  Both redraw the      *)
(* screen, without a lock: each shared variable is read in one step and    *)
(* drawn in the next, and the redraws of the two tasks may overlap.        *)
(***************************************************************************)
EXTENDS Mayqtt

VARIABLES
    source,         \* index of the selected scan source
    destSubmenu,    \* the buttons choose the user
    statusbuffer,   \* the status last received
    brightness,     \* of the screen: 0 is off
    buttons,        \* the labels of the buttons, as shown
    canvas,         \* what has been printed since the canvas was reset
    pc,             \* what each task does next
    read,           \* what each task has read last and not yet used
    overlap         \* history: a redraw began before the one before it had ended

screenVars == <<buttons, canvas, overlap>>
displayVars == <<source, destSubmenu, statusbuffer, brightness, screenVars, pc, read>>

Tasks == {"loop", "taskmqtt"}

MainMenu == {"Lea", "dest", "source"}
DestMenu == {"M Privat", "M Verein", "exit"}

User(button) == CASE button = "Lea" -> "Lea"
                  [] button = "M Privat" -> "Michael Stapelberg"
                  [] button = "M Verein" -> "Michael"

\* sourceIdentifiers and sourceLabels
SourceIdentifier(i) == IF i = 0 THEN "usb" ELSE "airscan"
SourceLabel(i) == IF i = 0 THEN "Fujitsu ScanSnap" ELSE "Brother (AirScan)"

Label == {SourceLabel(0), SourceLabel(1)}

ScanRequest == [user : {"Lea", "Michael Stapelberg", "Michael"}, source : {"usb", "airscan"}]

-----------------------------------------------------------------------------
(* redraw, by either task. *)

RedrawSteps == {"main menu", "dest menu", "source", "print source", "status", "print status"}

Drawing(t) == pc[t] \in {"menu"} \cup RedrawSteps

Go(t, from, to) == pc[t] = from /\ pc' = [pc EXCEPT ![t] = to]

ResetCanvas(t) ==
    /\ Go(t, "reset", "menu")
    /\ canvas' = <<>>
    /\ overlap' = \E u \in Tasks \ {t} : Drawing(u)
    /\ UNCHANGED <<buttons, read>>

ReadMenu(t) ==
    /\ Go(t, "menu", IF destSubmenu THEN "dest menu" ELSE "main menu")
    /\ UNCHANGED <<screenVars, read>>

ShowButtons(t) ==
    /\ \/ Go(t, "main menu", "source") /\ buttons' = MainMenu
       \/ Go(t, "dest menu", "source") /\ buttons' = DestMenu
    /\ UNCHANGED <<canvas, overlap, read>>

ReadSource(t) ==
    /\ Go(t, "source", "print source")
    /\ read' = [read EXCEPT ![t] = SourceLabel(source)]
    /\ UNCHANGED screenVars

ReadStatus(t) ==
    /\ Go(t, "status", "print status")
    /\ read' = [read EXCEPT ![t] = statusbuffer]
    /\ UNCHANGED screenVars

Println(t) ==
    /\ Go(t, "print source", "status") \/ Go(t, "print status", "poll")
    /\ canvas' = Append(canvas, read[t])
    /\ read' = [read EXCEPT ![t] = NoStatus]
    /\ UNCHANGED <<buttons, overlap>>

RedrawStep(t) ==
    /\ \/ ResetCanvas(t) \/ ReadMenu(t) \/ ShowButtons(t)
       \/ ReadSource(t) \/ ReadStatus(t) \/ Println(t)
    /\ UNCHANGED <<brokerVars, mqttVars, source, destSubmenu, statusbuffer, brightness>>

-----------------------------------------------------------------------------
(* loop: a button is pressed. *)

Pressed(button, next) == button \in buttons /\ Go("loop", "poll", next)

PressSource ==
    /\ Pressed("source", "reset")
    /\ source' = (source + 1) % 2
    /\ UNCHANGED <<destSubmenu, brokerVars>>

PressDest ==
    /\ Pressed("dest", "reset")
    /\ destSubmenu' = TRUE
    /\ UNCHANGED <<source, brokerVars>>

PressExit ==
    /\ Pressed("exit", "reset")
    /\ destSubmenu' = FALSE
    /\ UNCHANGED <<source, brokerVars>>

\* (Mutation of AfterScan: the main menu is not drawn again.)
BugNoRedraw == "poll"

AfterScan == "reset"

\* The request is published; without a connection it is lost.
PressUser ==
    /\ \E b \in {"Lea", "M Privat", "M Verein"} :
         /\ Pressed(b, AfterScan)
         /\ PublishRequest([user |-> User(b), source |-> SourceIdentifier(source)])
    /\ destSubmenu' = FALSE
    /\ UNCHANGED source

PressButton ==
    /\ PressSource \/ PressDest \/ PressExit \/ PressUser
    /\ UNCHANGED <<mqttVars, statusbuffer, brightness, screenVars, read>>

-----------------------------------------------------------------------------
(* taskmqtt and callback *)

\* (Mutation of Reconnect: the display subscribes on its first connection only.)
BugSubscribesOnce ==
    /\ Go("taskmqtt", "poll", IF statusbuffer = NoStatus THEN "subscribe" ELSE "poll")
    /\ Connect("display")
    /\ UNCHANGED <<statusbuffer, brightness, read>>

Reconnect ==
    /\ Go("taskmqtt", "poll", "subscribe")
    /\ Connect("display")
    /\ UNCHANGED <<statusbuffer, brightness, read>>

\* If the connection is gone already, this has no effect.
SubscribeStatus ==
    /\ Go("taskmqtt", "subscribe", "poll")
    /\ IF "display" \in online THEN Subscribe("display") ELSE UNCHANGED brokerVars
    /\ UNCHANGED <<statusbuffer, brightness, read>>

\* The message is copied over the old status, and ends where that ended until the
\* new end is marked: meanwhile the buffer holds neither.
CopyStatus ==
    /\ Go("taskmqtt", "poll", "strncpy")
    /\ Take("display")
    /\ read' = [read EXCEPT !["taskmqtt"] = Head(inbox["display"])]
    /\ statusbuffer' = Torn
    /\ UNCHANGED brightness

EndStatus ==
    /\ Go("taskmqtt", "strncpy", "reset")
    /\ statusbuffer' = read["taskmqtt"]
    /\ brightness' = IF read["taskmqtt"] = "powersave" THEN 0 ELSE 100
    /\ read' = [read EXCEPT !["taskmqtt"] = NoStatus]
    /\ UNCHANGED brokerVars

TaskStep ==
    /\ Reconnect \/ SubscribeStatus \/ CopyStatus \/ EndStatus
    /\ UNCHANGED <<mqttVars, source, destSubmenu, screenVars>>

DisplayTypeOK ==
    /\ source \in 0..1
    /\ destSubmenu \in BOOLEAN
    /\ statusbuffer \in Status \cup {NoStatus, Torn}
    /\ brightness \in {0, 100}
    /\ buttons \in {MainMenu, DestMenu}
    /\ canvas \in Seq(Label \cup Status \cup {NoStatus, Torn})
    /\ pc \in [Tasks -> {"poll", "subscribe", "strncpy", "reset", "menu"} \cup RedrawSteps]
    /\ read \in [Tasks -> Label \cup Status \cup {NoStatus, Torn}]
    /\ overlap \in BOOLEAN

\* setup: the first redraw is done before taskmqtt is started.
DisplayInit ==
    /\ source = 0
    /\ destSubmenu = FALSE
    /\ statusbuffer = NoStatus
    /\ brightness = 100
    /\ buttons = MainMenu
    /\ canvas = <<SourceLabel(0), NoStatus>>
    /\ pc = [t \in Tasks |-> "poll"]
    /\ read = [t \in Tasks |-> NoStatus]
    /\ overlap = FALSE
=============================================================================
