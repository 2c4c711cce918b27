------------------------------ MODULE MainFrame ------------------------------
(***************************************************************************)
(* The window of the graphical client (gui/MainFrame.cpp, with the         *)
(* controls of ControlPanel.cpp and DevicePanel.cpp).                      *)
(*                                                                         *)
(* Everything runs on the event loop, and a handler runs to its end unless *)
(* it opens a dialog.  A dialog runs the event loop again: the user can    *)
(* only answer the dialog on top, but the timer of CheckConnectionState    *)
(* goes on.  An action is a handler's run from one dialog to the next, and *)
(* stack holds the handlers that wait for theirs.                          *)
(*                                                                         *)
(* The device, its cable and PXLdaemon are external.  Any exchange with    *)
(* the device may fail.                                                    *)
(***************************************************************************)
EXTENDS Integers, Sequences

CONSTANT MaxStack     \* bound: dialogs open at once

ASSUME StackAssumption == MaxStack \in Nat

VARIABLES
    client, afc, pxl,   \* m_lockdowndClient, m_afcSession, m_pxlManager are set
    processing,         \* m_isProcessingCommand
    buttons,            \* m_installButton and m_logsButton are enabled
    daemonButton,       \* m_daemonButton is shown
    appRows,            \* DevicePanel shows applications, each with its X
    stack,              \* what each open dialog's handler will do next
    nullUse,            \* a handler has used a null pointer: the program is gone
    present,            \* a device is on the cable
    linked,             \* m_lockdowndClient's handle reaches it
    daemon,             \* PXLdaemon is installed and has run on it
    pushed,             \* its files have been written
    trigger,            \* the command file that PXLdaemon has yet to execute
    apps                \* it has applications of ours

pointers == <<client, afc, pxl>>
controls == <<buttons, daemonButton, appRows>>
device == <<present, linked, daemon, pushed, trigger, apps>>
vars == <<pointers, processing, controls, stack, nullUse, device>>

\* A dialog that ends its handler is a "message"; the others go on.
Waits == {"message", "daemonConfirm", "installFile", "removeConfirm", "respring"}
Commands == {"install", "remove"}

Running == ~nullUse
Show(w) == stack' = Append(stack, w)
Top == stack[Len(stack)]
Rest == SubSeq(stack, 1, Len(stack) - 1)
Replace(w) == stack' = Append(Rest, w)

\* the user can use the window only when no dialog is open
Idle == Running /\ stack = <<>>

\* the handler goes on with a pointer that was reset in the meantime
UseNull == nullUse' = TRUE /\ stack' = <<>> /\ UNCHANGED <<pointers, processing, controls, device>>

\* RefreshDeviceUI for a manager that is set: rows for the applications, none
\* when an answer is missing or PXLdaemon is
RefreshDeviceUI(reached) == appRows' \in {FALSE, reached /\ daemon /\ apps}

-----------------------------------------------------------------------------
(* CheckConnectionState, TryConnect, DisconnectDevice: every tick.         *)

\* Open fails: there is no device, or it does not answer
TryConnectNoDevice ==
    /\ Running /\ ~client
    /\ UNCHANGED vars

\* the client is kept although the session or the service did not start
TryConnectFails ==
    /\ Running /\ ~client /\ present
    /\ client' = TRUE /\ linked' = TRUE
    /\ buttons' = FALSE
    /\ \/ UNCHANGED stack
       \/ Len(stack) < MaxStack /\ Show("message")       \* InvalidHostID
    /\ UNCHANGED <<afc, pxl, processing, daemonButton, appRows, nullUse,
                   present, daemon, pushed, trigger, apps>>

TryConnectSucceeds ==
    /\ Running /\ ~client /\ present
    /\ client' = TRUE /\ afc' = TRUE /\ pxl' = TRUE /\ linked' = TRUE
    /\ RefreshDeviceUI(TRUE)
    /\ \E installed \in {FALSE, daemon} :
          daemonButton' = ~installed /\ buttons' = installed
    /\ UNCHANGED <<processing, stack, nullUse, present, daemon, pushed, trigger, apps>>

\* mutant: the manager outlives the session it refers to
DisconnectDeviceKeeps ==
    /\ Running /\ client
    /\ client' = FALSE /\ afc' = FALSE /\ linked' = FALSE
    /\ daemonButton' = FALSE /\ buttons' = FALSE /\ appRows' = FALSE
    /\ UNCHANGED <<pxl, processing, stack, nullUse, present, daemon, pushed, trigger, apps>>

\* mutant: the applications of the device stay on the window
DisconnectDeviceShown ==
    /\ Running /\ client
    /\ client' = FALSE /\ afc' = FALSE /\ pxl' = FALSE /\ linked' = FALSE
    /\ daemonButton' = FALSE /\ buttons' = FALSE
    /\ UNCHANGED <<appRows, processing, stack, nullUse, present, daemon, pushed, trigger, apps>>

\* mutant: the connection is not looked at while a command is under way
DisconnectDeviceLater ==
    /\ Running /\ client /\ ~processing
    /\ client' = FALSE /\ afc' = FALSE /\ pxl' = FALSE /\ linked' = FALSE
    /\ daemonButton' = FALSE /\ buttons' = FALSE /\ appRows' = FALSE
    /\ UNCHANGED <<processing, stack, nullUse, present, daemon, pushed, trigger, apps>>

\* IsOpen is false: the handle does not reach the device, or one exchange has
\* failed. m_isProcessingCommand stays as it is.
DisconnectDevice ==
    /\ Running /\ client
    /\ client' = FALSE /\ afc' = FALSE /\ pxl' = FALSE /\ linked' = FALSE
    /\ daemonButton' = FALSE /\ buttons' = FALSE /\ appRows' = FALSE
    /\ UNCHANGED <<processing, stack, nullUse, present, daemon, pushed, trigger, apps>>

\* IsOpen is true, and there is nothing to do
CheckNothing ==
    /\ Running /\ client /\ linked
    /\ ~processing \/ (pxl /\ trigger # "none")
    /\ UNCHANGED vars

\* mutant: the flag is not reset
CommandOverForgets ==
    /\ buttons' = TRUE
    /\ RefreshDeviceUI(linked)
    /\ UNCHANGED <<pointers, processing, daemonButton, stack, nullUse, device>>

CommandOver ==
    /\ processing' = FALSE
    /\ buttons' = TRUE
    /\ RefreshDeviceUI(linked)
    /\ UNCHANGED <<pointers, daemonButton, stack, nullUse, device>>

\* the trigger file is gone: PXLdaemon has executed the command
CheckCommandDone ==
    /\ Running /\ client /\ linked /\ processing /\ pxl
    /\ trigger = "none"
    /\ CommandOver

\* The trigger file is there, but the exchange of PathExists has failed, which
\* looks the same: the wait ends early.
CheckCommandUnanswered ==
    /\ Running /\ client /\ linked /\ processing /\ pxl
    /\ trigger # "none"
    /\ CommandOver

\* m_pxlManager->IsProcessingCommand() without a manager
CheckCommandNull ==
    /\ Running /\ client /\ linked /\ processing /\ ~pxl
    /\ UseNull

Tick ==
    \/ TryConnectNoDevice \/ TryConnectFails \/ TryConnectSucceeds
    \/ DisconnectDevice \/ CheckNothing
    \/ CheckCommandDone \/ CheckCommandUnanswered \/ CheckCommandNull

-----------------------------------------------------------------------------
(* The buttons.  A click shows the first dialog.                           *)

ClickInstallDaemon == Idle /\ daemonButton /\ Show("daemonConfirm")

\* a manager, or "No device connected!"
ClickInstallApplication == Idle /\ buttons /\ Show(IF pxl THEN "installFile" ELSE "message")

ClickRemoveApplication == Idle /\ appRows /\ Show(IF pxl THEN "removeConfirm" ELSE "message")

\* the logs, or "Not connected"; a click on an application shows its details
ClickLogs == Idle /\ buttons /\ Show("message")
ClickApplication == Idle /\ appRows /\ Show("message")

Click ==
    /\ \/ ClickInstallDaemon \/ ClickInstallApplication \/ ClickRemoveApplication
       \/ ClickLogs \/ ClickApplication
    /\ UNCHANGED <<pointers, processing, controls, nullUse, device>>

-----------------------------------------------------------------------------
(* The dialogs.  The user answers the one on top.                          *)

Answer(w) == Running /\ stack # <<>> /\ Top = w

\* a message is closed, or a question is answered with no
Dismiss ==
    /\ \E w \in Waits \ {"respring"} : Answer(w)
    /\ stack' = Rest
    /\ UNCHANGED <<pointers, processing, controls, nullUse, device>>

\* yes: m_afcSession and m_pxlManager are used without a look
InstallDaemonConfirmed ==
    /\ Answer("daemonConfirm")
    /\ \/ pxl /\ Replace("message") /\ pushed' \in {pushed, linked \/ pushed}
          /\ UNCHANGED <<pointers, processing, controls, nullUse, present, linked, daemon, trigger, apps>>
       \/ ~pxl /\ UseNull

\* InstallApplication and RemoveApplication: the trigger file may have been
\* written even when the result says that it was not
CommandSent(c) ==
    /\ linked /\ daemon
    /\ trigger' = c
    /\ processing' = TRUE
    /\ buttons' = FALSE
    /\ Replace("respring")
    /\ UNCHANGED <<pointers, daemonButton, appRows, nullUse, present, linked, daemon, pushed, apps>>

CommandFails(c) ==
    /\ trigger' \in {trigger, IF linked /\ daemon THEN c ELSE trigger}
    /\ Replace("message")
    /\ UNCHANGED <<pointers, processing, controls, nullUse, present, linked, daemon, pushed, apps>>

SendCommand(c) == IF pxl THEN CommandSent(c) \/ CommandFails(c) ELSE UseNull

\* the file was chosen; one that cannot be read only gives a message
InstallFileChosen == Answer("installFile") /\ SendCommand("install")
InstallFileUnreadable ==
    /\ Answer("installFile")
    /\ Replace("message")
    /\ UNCHANGED <<pointers, processing, controls, nullUse, device>>

RemoveConfirmed == Answer("removeConfirm") /\ SendCommand("remove")

\* "Your device will now respring", then RefreshDeviceUI
RespringRead ==
    /\ Answer("respring")
    /\ stack' = Rest
    /\ UNCHANGED device
    /\ IF pxl THEN RefreshDeviceUI(linked) ELSE UNCHANGED appRows
    /\ UNCHANGED <<pointers, processing, buttons, daemonButton, nullUse>>

Dialog ==
    \/ Dismiss \/ InstallDaemonConfirmed \/ InstallFileChosen \/ InstallFileUnreadable
    \/ RemoveConfirmed \/ RespringRead

-----------------------------------------------------------------------------
(* The device (external).                                                  *)

Plug ==
    /\ ~present
    /\ present' = TRUE
    /\ UNCHANGED <<pointers, processing, controls, stack, nullUse, linked, daemon, pushed, trigger, apps>>

\* the cable is pulled, or the device reboots and starts what was installed
Unplug ==
    /\ present
    /\ present' = FALSE /\ linked' = FALSE
    /\ daemon' \in {daemon, daemon \/ pushed}
    /\ UNCHANGED <<pointers, processing, controls, stack, nullUse, pushed, trigger, apps>>

\* PXLdaemon executes the command and removes its file
ExecuteCommand ==
    /\ trigger # "none"
    /\ trigger' = "none"
    /\ apps' \in BOOLEAN
    /\ UNCHANGED <<pointers, processing, controls, stack, nullUse, present, linked, daemon, pushed>>

-----------------------------------------------------------------------------
Init ==
    /\ client = FALSE /\ afc = FALSE /\ pxl = FALSE
    /\ processing = FALSE
    /\ buttons = FALSE /\ daemonButton = FALSE /\ appRows = FALSE
    /\ stack = <<>> /\ nullUse = FALSE
    /\ present \in BOOLEAN /\ linked = FALSE
    /\ daemon \in BOOLEAN /\ pushed = daemon
    /\ trigger = "none" /\ apps \in BOOLEAN

Next == Tick \/ Click \/ Dialog \/ Plug \/ Unplug \/ ExecuteCommand

Spec == Init /\ [][Next]_vars

\* m_connectionTimer fires every 1.5 seconds, also inside dialogs, so that what
\* every tick would do in the state at hand is done: DisconnectDevice where the
\* handle reaches nothing, the end of the wait where the trigger file is gone
\* (unless a failed IsOpen ends the connection first). No exchange is ever bound
\* to fail or to succeed. PXLdaemon executes what it finds. Nothing is assumed
\* of the user.
FairSpec ==
    /\ Spec
    /\ WF_vars(~linked /\ DisconnectDevice)
    /\ WF_vars(CheckCommandDone)
    /\ WF_vars(ExecuteCommand)

-----------------------------------------------------------------------------
(* Properties.                                                             *)

\* Every variable has its type, and the three objects refer to live ones:
\* PXLManager holds a reference to the AFC session, which holds a pointer into
\* the lockdown client.
TypeOK ==
    /\ {client, afc, pxl, processing, buttons, daemonButton, appRows, nullUse,
        present, linked, daemon, pushed, apps} \subseteq BOOLEAN
    /\ stack \in Seq(Waits)
    /\ trigger \in Commands \cup {"none"}
    /\ pxl = afc
    /\ afc => client
    /\ linked => client /\ present

\* A control that the user can click has the objects that its handler needs,
\* however ticks, dialogs and replugged devices interleave (the calls of
\* SetButtonsEnabled, SetDaemonInstalled and RenderTransientView).
EnabledMeansReady == buttons \/ daemonButton \/ appRows => pxl

\* A device that is unplugged is noticed by the timer, even while a dialog is
\* open or a command is under way.
DisconnectNoticed == client /\ ~linked ~> ~client \/ nullUse

\* "Waiting for device to respring..." comes to an end when PXLdaemon has
\* executed the command, unless the connection ends first or the user never
\* stops giving commands (the X buttons are still there).
Waiting == processing /\ pxl /\ linked /\ Running
CommandFinishes == <>[]Waiting => []<><<InstallFileChosen \/ RemoveConfirmed>>_vars

\* Handlers only use the device's objects while they exist: "No device
\* connected!" is what the user is told otherwise.
NoNullUse == ~nullUse

\* A command whose success the user was told of is executed, not overwritten by
\* the next one: the window waits for the respring it has announced.
CommandKept == [][trigger # "none" /\ processing => trigger' \in {trigger, "none"}]_vars
=============================================================================
