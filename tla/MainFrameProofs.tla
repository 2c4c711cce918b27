--------------------------- MODULE MainFrameProofs ---------------------------
(* Theorems about MainFrame, for any number of nested dialogs.             *)
EXTENDS MainFrame, SequenceTheorems, TLAPS

\* What holds of the pointers and the controls together.
Ready == TypeOK /\ EnabledMeansReady

\* A dialog may be put on the stack, taken off it or give way to another.
LEMMA StackOperations ==
  ASSUME stack \in Seq(Waits)
  PROVE  /\ \A w \in Waits : Append(stack, w) \in Seq(Waits)
         /\ stack # <<>> => /\ Rest \in Seq(Waits)
                            /\ \A w \in Waits : Append(Rest, w) \in Seq(Waits)
<1>1. \A w \in Waits : Append(stack, w) \in Seq(Waits)
  BY AppendProperties
<1>2. ASSUME stack # <<>> PROVE Rest \in Seq(Waits)
  <2>1. Len(stack) - 1 \in Nat /\ Len(stack) - 1 <= Len(stack)
    BY <1>2, EmptySeq, LenProperties
  <2> QED BY <2>1, SMT DEF Rest
<1> QED BY <1>1, <1>2, AppendProperties

\* A tick of the timer.
LEMMA TickReady == Ready /\ Tick => Ready'
<1> SUFFICES ASSUME Ready, Tick PROVE Ready'
  OBVIOUS
<1> USE DEF Ready, TypeOK, EnabledMeansReady, pointers, controls, device, vars
<1>1. CASE TryConnectNoDevice \/ CheckNothing
  BY <1>1 DEF TryConnectNoDevice, CheckNothing
<1>2. CASE TryConnectFails
  <2>1. stack' \in Seq(Waits)
    BY <1>2, StackOperations DEF TryConnectFails, Show, Waits
  <2> QED BY <1>2, <2>1 DEF TryConnectFails
<1>3. CASE TryConnectSucceeds
  BY <1>3 DEF TryConnectSucceeds, RefreshDeviceUI
<1>4. CASE DisconnectDevice
  BY <1>4 DEF DisconnectDevice
<1>5. CASE CheckCommandDone \/ CheckCommandUnanswered
  BY <1>5 DEF CheckCommandDone, CheckCommandUnanswered, CommandOver, RefreshDeviceUI
<1>6. CASE CheckCommandNull
  BY <1>6 DEF CheckCommandNull, UseNull
<1> QED BY <1>1, <1>2, <1>3, <1>4, <1>5, <1>6 DEF Tick

\* A click that is answered with a dialog.
LEMMA ClickReady == Ready /\ Click => Ready'
<1> SUFFICES ASSUME Ready, Click PROVE Ready'
  OBVIOUS
<1>1. stack' \in Seq(Waits)
  <2>1. PICK w \in Waits : stack' = Append(stack, w)
    BY DEF Click, ClickInstallDaemon, ClickInstallApplication, ClickRemoveApplication,
       ClickLogs, ClickApplication, Show, Waits
  <2> QED BY <2>1, StackOperations DEF Ready, TypeOK
<1> QED BY <1>1 DEF Click, Ready, TypeOK, EnabledMeansReady, pointers, controls, device

\* What a handler does when its dialog is answered.
LEMMA DialogReady == Ready /\ Dialog => Ready'
<1> SUFFICES ASSUME Ready, Dialog PROVE Ready'
  OBVIOUS
<1> USE DEF pointers, controls, device
<1>1. stack # <<>> /\ stack \in Seq(Waits)
  BY DEF Ready, TypeOK, Dialog, Dismiss, InstallDaemonConfirmed, InstallFileChosen,
     InstallFileUnreadable, RemoveConfirmed, RespringRead, Answer
<1>2. Rest \in Seq(Waits) /\ Append(Rest, "message") \in Seq(Waits) /\ Append(Rest, "respring") \in Seq(Waits)
  BY <1>1, StackOperations DEF Waits
<1>3. CASE UseNull
  BY <1>3 DEF UseNull, Ready, TypeOK, EnabledMeansReady
<1>4. ASSUME NEW c \in Commands, pxl, CommandSent(c) \/ CommandFails(c)
      PROVE  Ready'
  <2>1. stack' \in Seq(Waits)
    BY <1>2, <1>4 DEF CommandSent, CommandFails, Replace
  <2>2. trigger' \in Commands \cup {"none"}
    BY <1>4 DEF CommandSent, CommandFails, Ready, TypeOK
  <2>3. CASE CommandSent(c)
    BY <1>4, <2>1, <2>2, <2>3 DEF CommandSent, Ready, TypeOK, EnabledMeansReady
  <2>4. CASE CommandFails(c)
    BY <1>4, <2>1, <2>2, <2>4 DEF CommandFails, Ready, TypeOK, EnabledMeansReady
  <2> QED BY <1>4, <2>3, <2>4
<1>5. ASSUME NEW c \in Commands, SendCommand(c)
      PROVE  Ready'
  BY <1>3, <1>4, <1>5 DEF SendCommand
<1>6. CASE Dismiss
  BY <1>2, <1>6 DEF Dismiss, Ready, TypeOK, EnabledMeansReady
<1>7. CASE InstallDaemonConfirmed
  BY <1>2, <1>3, <1>7 DEF InstallDaemonConfirmed, Replace, Ready, TypeOK, EnabledMeansReady
<1>8. CASE InstallFileChosen \/ RemoveConfirmed
  BY <1>5, <1>8 DEF InstallFileChosen, RemoveConfirmed, Commands
<1>9. CASE InstallFileUnreadable
  BY <1>2, <1>9 DEF InstallFileUnreadable, Replace, Ready, TypeOK, EnabledMeansReady
<1>10. CASE RespringRead
  <2>1. stack' = Rest
    BY <1>10 DEF RespringRead
  <2> QED BY <1>2, <1>10, <2>1 DEF RespringRead, RefreshDeviceUI, Ready, TypeOK, EnabledMeansReady
<1> QED BY <1>6, <1>7, <1>8, <1>9, <1>10 DEF Dialog

\* What the device does, and its cable.
LEMMA DeviceReady == Ready /\ (Plug \/ Unplug \/ ExecuteCommand) => Ready'
<1> SUFFICES ASSUME Ready, Plug \/ Unplug \/ ExecuteCommand PROVE Ready'
  OBVIOUS
<1> USE DEF Ready, TypeOK, EnabledMeansReady, pointers, controls
<1>1. CASE Plug
  BY <1>1 DEF Plug
<1>2. CASE Unplug
  <2>1. daemon' \in BOOLEAN
    BY <1>2, Zenon DEF Unplug
  <2>2. UNCHANGED <<client, afc, pxl, processing, buttons, daemonButton, appRows, stack, nullUse,
                    pushed, trigger, apps>>
    BY <1>2 DEF Unplug
  <2>3. present' = FALSE /\ linked' = FALSE
    BY <1>2 DEF Unplug
  <2> QED BY <2>1, <2>2, <2>3
<1>3. CASE ExecuteCommand
  BY <1>3 DEF ExecuteCommand
<1> QED BY <1>1, <1>2, <1>3

\* Types, and the pointers among the client's objects.
LEMMA ReadyAlways == Spec => []Ready
<1>1. Init => Ready
  <2> SUFFICES ASSUME Init PROVE Ready
    OBVIOUS
  <2>1. {client, afc, pxl, processing, buttons, daemonButton, appRows, nullUse,
         present, linked, daemon, pushed, apps} \subseteq BOOLEAN
    BY Zenon DEF Init
  <2>2. stack \in Seq(Waits) /\ trigger \in Commands \cup {"none"}
    BY DEF Init
  <2>3. ~pxl /\ ~afc /\ ~linked /\ ~buttons /\ ~daemonButton /\ ~appRows
    BY Zenon DEF Init
  <2>4. pxl = afc
    BY Zenon DEF Init
  <2> QED BY <2>1, <2>2, <2>3, <2>4, Zenon DEF Ready, TypeOK, EnabledMeansReady
<1>2. Ready /\ [Next]_vars => Ready'
  <2>1. Ready /\ Next => Ready'
    BY TickReady, ClickReady, DialogReady, DeviceReady DEF Next
  <2>2. Ready /\ UNCHANGED vars => Ready'
    BY DEF Ready, TypeOK, EnabledMeansReady, vars, pointers, controls, device
  <2> QED BY <2>1, <2>2
<1> QED BY <1>1, <1>2, PTL DEF Spec

\* Every variable of the window keeps its type, and no object of the three
\* refers to one that DisconnectDevice has destroyed.
THEOREM MainFrameTypeCorrect == Spec => []TypeOK
<1>1. Ready => TypeOK
  BY DEF Ready
<1> QED BY ReadyAlways, <1>1, PTL

\* However ticks, dialogs and replugged devices interleave, a control can only
\* be clicked while there is a device to use it on.
THEOREM ControlsMatchDevice == Spec => []EnabledMeansReady
<1>1. Ready => EnabledMeansReady
  BY DEF Ready
<1> QED BY ReadyAlways, <1>1, PTL
=============================================================================
