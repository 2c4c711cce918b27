----------------------------- MODULE PxlManager ------------------------------
(***************************************************************************)
(* core/pxl/PXLManager.cpp and the commands of cli/main.cpp that call it,  *)
(* one command after the other, over any number of runs of the program.    *)
(*                                                                         *)
(* Remote operations are what RemoteFiles promises while answers are in    *)
(* step: PathExists may say no when the exchange fails; WriteFile first    *)
(* makes the file empty, then fills it, and returns true only when it is   *)
(* whole.                                                                  *)
(*                                                                         *)
(* External: PXLdaemon, as the code relies on it, and the phone, which     *)
(* starts it at boot through the files that InstallDaemon pushes (files/). *)
(***************************************************************************)
EXTENDS Naturals, FiniteSets

CONSTANTS
    Apps,           \* packages, each with its bundle identifier
    MaxFaults       \* bound: failed exchanges, local files, crashes, power losses

ASSUME PxlAssumption == MaxFaults \in Nat

\* commands; no command runs
Idle == [do |-> "none"]

\* what InstallDaemon pushes: /etc/hackinit.sh, /etc/init.d/pxl.sh,
\* /usr/sbin/PXLdaemon, com.apple.update.plist
DaemonFiles == {"hackinit", "pxlsh", "daemon", "plist"}
\* Dropoff/app.pxl and Dropoff/PxlPickup
Dropped == {"app", "trigger"}
Folders == {"init.d", "PXL", "DB", "Dropoff"}

\* contents
None == [is |-> "none"]
Torn == [is |-> "torn"]
Part == [is |-> "part"]
Package(a) == [is |-> "package", app |-> a]
Install == [is |-> "install"]
Remove(a) == [is |-> "remove", app |-> a]
Packages == {Package(a) : a \in Apps}
Commands == {Install} \cup {Remove(a) : a \in Apps}

VARIABLES
    \* the program
    op,             \* the command, or Idle
    pc,             \* the next remote operation
    phase,          \* the function that runs: "list", "get" or "put"
    entry,          \* the file that is read or written
    todo,           \* the entries still to read, or files still to push
    found,          \* the applications read so far
    returned,       \* what the last command reported
    \* the phone
    files,          \* file |-> contents
    exists,         \* the folders, and "chmod", that exist
    installed,      \* the applications in the database
    running,        \* PXLdaemon runs,
    busy,           \* and executes this command
    busyApp,        \* from what was in app.pxl when it began
    \* history
    told,           \* InstallDaemon has asked for a reboot
    half,           \* an InstallDaemon broke off, and PXLdaemon did not start since
    overlapped,     \* a command was written while another was pending
    carried,        \* PXLdaemon has done what this command asks for
    ever, always,   \* installed at some time, and all the time, since a list began
    clean,          \* no fault in the list that was begun last
    faults

program == <<op, pc, phase, entry, todo, found, returned>>
daemon == <<installed, running, busy, busyApp>>
since == <<carried, ever, always>>
vars == <<program, files, exists, daemon, told, half, overlapped, since, clean, faults>>

NoEntry == "none"

Fault ==
    /\ faults < MaxFaults
    /\ faults' = faults + 1
    /\ clean' = (clean /\ op.do # "list")
NoFault == UNCHANGED <<faults, clean>>

Pending == files["trigger"] \in Commands \/ busy # None

-----------------------------------------------------------------------------
(* The callers: cli/main.cpp.                                              *)

Begin(o, first, fun) ==
    /\ op = Idle
    /\ op' = o
    /\ pc' = first
    /\ phase' = fun
    /\ todo' = IF o.do = "daemon" THEN DaemonFiles ELSE {}
    /\ entry' = NoEntry
    /\ found' = {}
    /\ returned' = FALSE
    /\ overlapped' = (overlapped /\ Pending)
    /\ carried' = FALSE
    /\ ever' = IF o.do = "list" THEN installed ELSE {}
    /\ always' = ever'
    /\ clean' = TRUE
    /\ UNCHANGED <<files, exists, daemon, told, half, faults>>

BeginInstall == \E a \in Apps : Begin([do |-> "install", app |-> a], "folder", "put")
BeginRemove == \E a \in Apps : Begin([do |-> "remove", app |-> a], "folder", "get")
BeginList == Begin([do |-> "list"], "folder", "list")
BeginDaemon == Begin([do |-> "daemon"], "chmod", "put")

\* the history of a command ends with it
Forget == carried' = FALSE /\ ever' = {} /\ always' = {}

\* where InstallDaemon may have changed the phone
Writing == {"push", "open", "data", "close"}

End(ok) ==
    /\ op' = Idle
    /\ pc' = "idle"
    /\ phase' = "put"
    /\ entry' = NoEntry
    /\ todo' = {}
    /\ returned' = ok
    /\ told' = (told \/ (ok /\ op.do = "daemon"))
    /\ half' = (half \/ (~ok /\ op.do = "daemon" /\ pc \in Writing))
    /\ found' = {}
    /\ Forget

Move(next, fun, e, rest) ==
    /\ pc' = next
    /\ phase' = fun
    /\ entry' = e
    /\ todo' = rest
    /\ UNCHANGED <<op, returned, told, half, since>>
Step(next) == Move(next, phase, entry, todo) /\ UNCHANGED found

\* PathExists(f) = ans
Exists(f, ans) ==
    LET there == f \in exists \/ (f = "daemon" /\ files[f] # None)
    IN \/ ans = there /\ NoFault
       \/ there /\ ~ans /\ Fault

\* nothing on the phone changes
Asks == UNCHANGED <<files, exists, daemon, overlapped>>

-----------------------------------------------------------------------------
(* IsDaemonInstalled, and where its callers go on.                         *)

NotInstalled ==
    IF op.do = "list" /\ phase = "get"
    THEN Step("entry")      \* the application is left out
    ELSE End(FALSE)

AfterCheck ==
    CASE phase = "list" -> "database"
      [] phase = "get" -> "read"
      [] phase = "put" -> "dropoff"

\* mutant: the binary alone counts
CheckBinaryOnly ==
    /\ pc = "folder"
    /\ Exists("PXL", TRUE) \/ Exists("PXL", FALSE)
    /\ Step("binary")
    /\ Asks

CheckFolder ==
    /\ pc = "folder"
    /\ \/ Exists("PXL", TRUE) /\ Step("binary")
       \/ Exists("PXL", FALSE) /\ NotInstalled
    /\ Asks

CheckBinary ==
    /\ pc = "binary"
    /\ \/ Exists("daemon", TRUE) /\ Step(AfterCheck)
       \/ Exists("daemon", FALSE) /\ NotInstalled
    /\ Asks

-----------------------------------------------------------------------------
(* GetInstalledApplications and ApplicationWithBundleIdentifier.           *)

CheckDatabase ==
    /\ pc = "database"
    /\ \/ Exists("DB", TRUE) /\ Step("contents")
       \/ Exists("DB", FALSE) /\ End(TRUE)
    /\ Asks

ReadDatabase ==
    /\ pc = "contents"
    /\ \/ /\ Move("entry", phase, entry, installed)
          /\ UNCHANGED found /\ NoFault
       \/ Fault /\ End(FALSE)
    /\ Asks

\* the loop over the entries, in the order of the answer
NextEntry ==
    /\ pc = "entry"
    /\ NoFault
    /\ \/ todo = {} /\ End(TRUE)
       \/ \E a \in todo :
             Move("folder", "get", a, todo \ {a}) /\ UNCHANGED found
    /\ Asks

\* mutant: an entry whose file cannot be read ends the list
ReadEntryOrStop ==
    /\ pc = "read"
    /\ LET a == IF op.do = "list" THEN entry ELSE op.app
       IN \/ /\ a \in installed /\ NoFault
             /\ IF op.do = "list"
                THEN found' = found \cup {a} /\ Move("entry", phase, entry, todo)
                ELSE Move("folder", "put", entry, todo) /\ UNCHANGED found
          \/ /\ Fault \/ (a \notin installed /\ NoFault)
             /\ End(op.do = "list")
    /\ Asks

ReadEntry ==
    /\ pc = "read"
    /\ LET a == IF op.do = "list" THEN entry ELSE op.app
       IN \/ /\ a \in installed /\ NoFault
             /\ IF op.do = "list"
                THEN found' = found \cup {a} /\ Move("entry", phase, entry, todo)
                ELSE Move("folder", "put", entry, todo) /\ UNCHANGED found
          \/ /\ Fault \/ (a \notin installed /\ NoFault)
             /\ IF op.do = "list" THEN Step("entry") ELSE End(FALSE)
    /\ Asks

-----------------------------------------------------------------------------
(* InstallApplication, RemoveApplication and InstallDaemon.                *)

CheckChmod ==
    /\ pc = "chmod"
    /\ \/ Exists("chmod", TRUE) /\ Step("init.d")
       \/ Exists("chmod", FALSE) /\ End(FALSE)
    /\ Asks

Writes(f) == Move("open", phase, f, todo \ {f}) /\ UNCHANGED found
\* mutant: RemoveApplication begins as InstallApplication does
FirstFileSame ==
    IF op.do = "daemon" THEN Step("push") ELSE Writes("app")

FirstFile ==
    CASE op.do = "install" -> Writes("app")
      [] op.do = "remove" -> Writes("trigger")
      [] op.do = "daemon" -> Step("push")

\* PathExists, and CreateDirectory, whose result is only logged
MakeFolder ==
    /\ pc \in {"init.d", "dropoff"}
    /\ LET d == IF pc = "init.d" THEN "init.d" ELSE "Dropoff"
       IN \/ Exists(d, TRUE) /\ UNCHANGED exists
          \/ Exists(d, FALSE) /\ exists' = exists \cup {d}
          \/ d \notin exists /\ Fault /\ UNCHANGED exists
    /\ FirstFile
    /\ UNCHANGED <<files, daemon, overlapped>>

\* mutant: files that are there already are not pushed again
PushMissing ==
    /\ pc = "push"
    /\ NoFault
    /\ \/ todo = {} /\ End(TRUE)
       \/ \E f \in todo :
             \/ files[f] = None /\ Writes(f)
             \/ files[f] # None /\ Move(pc, phase, entry, todo \ {f}) /\ UNCHANGED found
    /\ Asks

\* the loop over fileMap: the order of an unordered_map; the local file may be
\* missing, unreadable or empty
Push ==
    /\ pc = "push"
    /\ \/ todo = {} /\ End(TRUE) /\ NoFault
       \/ todo # {} /\ End(FALSE) /\ Fault
       \/ (\E f \in todo : Writes(f)) /\ NoFault
    /\ Asks

Home(f) ==
    CASE f \in Dropped -> "Dropoff" \in exists
      [] f = "pxlsh" -> "init.d" \in exists
      [] OTHER -> TRUE

\* mutant: a file that cannot be opened is passed over
OpenFileAnyhow ==
    /\ pc = "open"
    /\ \/ /\ Home(entry)
          /\ files' = [files EXCEPT ![entry] = Torn]
          /\ overlapped' = (overlapped \/ (entry \in Dropped /\ Pending))
          /\ Step("data") /\ NoFault
       \/ /\ Step("close")
          /\ Fault
          /\ UNCHANGED <<files, overlapped>>
    /\ UNCHANGED <<exists, daemon>>

\* WriteFile: FileOpen makes the file empty; it may have done so without an answer
OpenFile ==
    /\ pc = "open"
    /\ \/ /\ Home(entry)
          /\ files' = [files EXCEPT ![entry] = Torn]
          /\ overlapped' = (overlapped \/ (entry \in Dropped /\ Pending))
          /\ \/ Step("data") /\ NoFault
             \/ End(FALSE) /\ Fault
       \/ /\ ~Home(entry)
          /\ End(FALSE) /\ NoFault
          /\ UNCHANGED <<files, overlapped>>
       \/ /\ End(FALSE) /\ Fault
          /\ UNCHANGED <<files, overlapped>>
    /\ UNCHANGED <<exists, daemon>>

Contents ==
    CASE entry = "app" -> Package(op.app)
      [] entry = "trigger" -> IF op.do = "install" THEN Install ELSE Remove(op.app)
      [] entry \in DaemonFiles -> Part

\* mutant: the callers do not look at what WriteFile returns
FillFileAnyhow ==
    /\ pc = "data"
    /\ Step("close")
    /\ \/ /\ NoFault
          /\ files' = [files EXCEPT ![entry] = IF @ = Torn THEN Contents ELSE @]
       \/ /\ Fault
          /\ UNCHANGED files
    /\ UNCHANGED <<exists, daemon, overlapped>>

\* FileWrite, once per block; a file that PXLdaemon has removed stays away
FillFile ==
    /\ pc = "data"
    /\ \/ /\ Step("close") /\ NoFault
          /\ files' = [files EXCEPT ![entry] = IF @ = Torn THEN Contents ELSE @]
       \/ /\ End(FALSE) /\ Fault
          /\ files' \in {files, [files EXCEPT ![entry] = IF @ = Torn THEN Contents ELSE @]}
    /\ UNCHANGED <<exists, daemon, overlapped>>

\* FileClose, whose result nobody looks at
CloseFile ==
    /\ pc = "close"
    /\ NoFault
    /\ CASE entry = "app" -> Writes("trigger")
         [] entry = "trigger" -> End(TRUE)
         [] entry \in DaemonFiles -> Step("push")
    /\ Asks

\* the program is killed, or the cable pulled
Crash ==
    /\ op # Idle
    /\ Fault
    /\ End(FALSE)
    /\ Asks
-----------------------------------------------------------------------------
(* The phone and its user.                                                 *)

\* PXLdaemon finds a command in the trigger file, and leaves what is none
DaemonStart ==
    /\ running /\ busy = None
    /\ files["trigger"] \in Commands
    /\ busy' = files["trigger"]
    /\ busyApp' = IF busy' = Install THEN files["app"] ELSE None
    /\ UNCHANGED <<program, files, exists, installed, running, told, half, overlapped,
                   since, clean, faults>>

\* what a command asks for, and what PXLdaemon gets done
Deed(o) ==
    CASE o.do = "install" -> Package(o.app)
      [] o.do = "remove" -> Remove(o.app)
      [] OTHER -> None
Did == IF busy = Install THEN busyApp ELSE busy

\* it removes the trigger file when it is done; a package that it cannot read, or
\* that changed meanwhile, is not installed
DaemonEnd ==
    /\ busy # None
    /\ installed' = IF busy # Install THEN installed \ {busy.app}
                    ELSE IF busyApp \in Packages /\ files["app"] = busyApp
                    THEN installed \cup {busyApp.app} ELSE installed
    /\ exists' = exists \cup {"DB"}
    /\ files' = [files EXCEPT !["trigger"] = None]
    /\ busy' = None
    /\ busyApp' = None
    /\ carried' = (carried \/ Did = Deed(op))
    /\ ever' = IF op.do = "list" THEN ever \cup installed' ELSE {}
    /\ always' = always \cap installed'
    /\ UNCHANGED <<program, running, told, half, overlapped, clean, faults>>

\* launchd runs hackinit.sh, which runs what is in init.d; pxl.sh makes the
\* daemon executable and starts it
LaunchdRunsHackinit == files["plist"] = Part
HackinitRunsScripts == files["hackinit"] = Part
PxlScriptStarts ==
    "chmod" \in exists /\ files["pxlsh"] = Part /\ files["daemon"] = Part
Boots == LaunchdRunsHackinit /\ HackinitRunsScripts /\ PxlScriptStarts

\* PXLdaemon makes its folder
Boot ==
    /\ running' = Boots
    /\ exists' = IF Boots THEN exists \cup {"PXL"} ELSE exists
    /\ busy' = None
    /\ busyApp' = None
    /\ UNCHANGED <<files, installed, overlapped>>

\* asked to by the program
Reboot ==
    /\ told /\ op = Idle
    /\ Boot
    /\ told' = FALSE
    /\ half' = (half /\ ~Boots)
    /\ UNCHANGED <<program, since, clean, faults>>

\* by itself; a command that is under way fails
PowerLoss ==
    /\ Fault
    /\ Boot
    /\ told' = FALSE
    /\ half' = (~Boots /\ (half \/ (op.do = "daemon" /\ pc \in Writing)))
    /\ op' = Idle /\ pc' = "idle" /\ phase' = "put"
    /\ entry' = NoEntry /\ todo' = {} /\ returned' = FALSE
    /\ found' = {}
    /\ Forget

InstallBsd ==
    /\ "chmod" \notin exists
    /\ exists' = exists \cup {"chmod"}
    /\ UNCHANGED <<program, files, daemon, told, half, overlapped, since, clean, faults>>

-----------------------------------------------------------------------------
\* a phone as it was, or one on which PXLdaemon runs
Init ==
    /\ op = Idle /\ pc = "idle" /\ phase = "put" /\ entry = NoEntry
    /\ todo = {} /\ found = {} /\ returned = FALSE
    /\ running \in BOOLEAN
    /\ IF running
       THEN /\ files = [f \in DaemonFiles \cup Dropped |->
                           IF f \in DaemonFiles THEN Part ELSE None]
            /\ exists = {"chmod", "init.d", "PXL", "DB"}
            /\ installed \in SUBSET Apps
       ELSE /\ files = [f \in DaemonFiles \cup Dropped |-> None]
            /\ exists \in SUBSET {"chmod"}
            /\ installed = {}
    /\ busy = None /\ busyApp = None
    /\ told = FALSE /\ half = FALSE /\ overlapped = FALSE
    /\ carried = FALSE /\ ever = {} /\ always = {}
    /\ clean = TRUE
    /\ faults = 0

HostStep ==
    \/ CheckFolder \/ CheckBinary
    \/ CheckDatabase \/ ReadDatabase \/ NextEntry \/ ReadEntry
    \/ CheckChmod \/ MakeFolder \/ Push
    \/ OpenFile \/ FillFile \/ CloseFile

Next ==
    \/ BeginInstall \/ BeginRemove \/ BeginList \/ BeginDaemon
    \/ HostStep \/ Crash
    \/ DaemonStart \/ DaemonEnd
    \/ Reboot \/ PowerLoss \/ InstallBsd

Spec == Init /\ [][Next]_vars

\* every exchange ends; a user who wants the daemon installs what the program asks
\* for, tries again and reboots the phone when told to, whatever else he does
FairSpec ==
    /\ Spec
    /\ WF_vars(HostStep)
    /\ WF_vars(InstallBsd)
    /\ SF_vars(~running /\ ~told /\ BeginDaemon)
    /\ SF_vars(Reboot)

-----------------------------------------------------------------------------
(* Properties.                                                             *)

Ops == {Idle} \cup [do : {"list", "daemon"}] \cup [do : {"install", "remove"}, app : Apps]
Places == {"idle", "folder", "binary", "database", "contents", "entry", "read",
           "chmod", "init.d", "dropoff", "push", "open", "data", "close"}

\* Types, and the files that each command writes.
TypeOK ==
    /\ op \in Ops /\ pc \in Places /\ phase \in {"list", "get", "put"}
    /\ pc = "idle" <=> op = Idle
    /\ entry \in Apps \cup DaemonFiles \cup Dropped \cup {NoEntry}
    /\ pc \in {"open", "data", "close"} =>
          entry \in CASE op.do = "install" -> Dropped
                      [] op.do = "remove" -> {"trigger"}
                      [] op.do = "daemon" -> DaemonFiles
    /\ todo \subseteq Apps \cup DaemonFiles
    /\ found \subseteq Apps
    /\ returned \in BOOLEAN
    /\ files \in [DaemonFiles \cup Dropped -> {None, Torn, Part} \cup Packages \cup Commands]
    /\ \A f \in DaemonFiles : files[f] \in {None, Torn, Part}
    /\ exists \subseteq Folders \cup {"chmod"}
    /\ installed \subseteq Apps /\ running \in BOOLEAN
    /\ busy \in {None} \cup Commands
    /\ busyApp \in {None, Torn} \cup Packages
    /\ told \in BOOLEAN /\ half \in BOOLEAN /\ overlapped \in BOOLEAN
    /\ carried \in BOOLEAN
    /\ always \subseteq ever /\ ever \subseteq Apps
    /\ clean \in BOOLEAN /\ faults \in 0..MaxFaults

\* Unless a command was written over another one, a package that is to be
\* installed is whole from the moment the trigger file can be read until
\* PXLdaemon is done with it, through failed writes, crashes and reboots.
OnlyWholeInstalled ==
    ~overlapped =>
        /\ files["trigger"] = Install => files["app"] \in Packages
        /\ busy # None => files["trigger"] = busy
        /\ busy = Install => busyApp = files["app"]

Reports(o) == op = o /\ op' = Idle /\ returned'

\* Install and remove report success only when PXLdaemon has done this very
\* command since it began, or is going to: its trigger is whole and, to install,
\* the package is this one.
CommandHonest ==
    [][\A o \in Ops :
        Reports(o) /\ o.do \in {"install", "remove"} /\ ~overlapped
        => \/ carried
           \/ o.do = "remove" /\ files["trigger"] = Remove(o.app)
           \/ /\ o.do = "install" /\ files["trigger"] = Install
              /\ files["app"] = Package(o.app)]_vars

\* InstallDaemon reports success only when the phone has all that it needs to
\* start PXLdaemon at its next boot.
DaemonHonest == [][Reports([do |-> "daemon"]) => Boots]_vars

\* A command is accepted only by a phone whose PXLdaemon runs and will execute it,
\* unless an InstallDaemon broke off since.
AcceptedMeansRunning ==
    op.do # "daemon" /\ pc \in {"dropoff", "open", "data", "close"} /\ ~half => running

\* A list has nothing that was not installed while it was made, and with no fault
\* it has everything that was there all the time.
ListHonest ==
    [][Reports([do |-> "list"])
        => found \subseteq ever /\ (clean' => always \subseteq found)]_vars

\* However InstallDaemon breaks off, trying again and rebooting brings PXLdaemon up.
DaemonComesUp == []<>running
=============================================================================
