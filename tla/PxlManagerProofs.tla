-------------------------- MODULE PxlManagerProofs ---------------------------
(***************************************************************************)
(* Proofs about PxlManager: types, and that no report, pending command or  *)
(* package is worth less than it says.                                     *)
(***************************************************************************)
EXTENDS PxlManager, TLAPS

Filling == {"open", "data", "close"}

\* where each command can be, and what it reads or writes there
PlacesOf(o) ==
    CASE o = "none" -> {"idle"}
      [] o = "list" -> {"folder", "binary", "database", "contents", "entry", "read"}
      [] o = "install" -> {"folder", "binary", "dropoff"} \cup Filling
      [] o = "remove" -> {"folder", "binary", "read", "dropoff"} \cup Filling
      [] o = "daemon" -> {"chmod", "init.d", "push"} \cup Filling

Kinds == {"none", "list", "install", "remove", "daemon"}

WhereOK ==
    /\ op \in Ops /\ op.do \in Kinds
    /\ phase \in {"list", "get", "put"}
    /\ pc \in PlacesOf(op.do)
    /\ pc = "read" => phase = "get"
    /\ op.do = "list" => phase # "put" /\ todo \subseteq Apps
    /\ op.do = "list" /\ phase = "get" => entry \in Apps
    /\ op.do = "install" => phase = "put"
    /\ op.do = "remove" => phase # "list"
    /\ op.do = "daemon" => todo \subseteq DaemonFiles
    /\ pc \in Filling =>
          /\ op.do = "install" => entry \in Dropped
          /\ op.do = "remove" => entry = "trigger"
          /\ op.do = "daemon" => entry \in DaemonFiles

NamesOK ==
    /\ entry \in Apps \cup DaemonFiles \cup Dropped \cup {NoEntry}
    /\ todo \subseteq Apps \cup DaemonFiles
    /\ found \subseteq Apps
    /\ exists \subseteq Folders \cup {"chmod"}
    /\ installed \subseteq Apps
    /\ always \subseteq ever /\ ever \subseteq Apps
    /\ op.do # "list" => always = {}

FilesOK ==
    /\ files \in [DaemonFiles \cup Dropped -> {None, Torn, Part} \cup Packages \cup Commands]
    /\ \A f \in DaemonFiles : files[f] \in {None, Torn, Part}
    /\ files["app"] \in {None, Torn} \cup Packages
    /\ files["trigger"] \in {None, Torn} \cup Commands
    /\ busy \in {None} \cup Commands
    /\ busyApp \in {None, Torn} \cup Packages

FlagsOK ==
    /\ returned \in BOOLEAN /\ running \in BOOLEAN
    /\ told \in BOOLEAN /\ half \in BOOLEAN /\ overlapped \in BOOLEAN
    /\ carried \in BOOLEAN /\ clean \in BOOLEAN

\* Commands are known by their kind.
LEMMA OpShape ==
    ASSUME op \in Ops
    PROVE /\ op.do = "none" <=> op = Idle
          /\ op.do \in {"install", "remove"} => op.app \in Apps
  BY DEF Ops, Idle

LEMMA BeginShape ==
    ASSUME NEW a \in Apps
    PROVE /\ [do |-> "install", app |-> a] \in Ops /\ [do |-> "remove", app |-> a] \in Ops
          /\ [do |-> "list"] \in Ops /\ [do |-> "daemon"] \in Ops /\ Idle \in Ops
          /\ Idle.do = "none"
  BY DEF Ops, Idle

LEMMA IdleOp == Idle \in Ops /\ Idle.do = "none"
  BY DEF Ops, Idle

LEMMA WhereStep == WhereOK /\ NamesOK /\ [Next]_vars => WhereOK'
  <1> SUFFICES ASSUME WhereOK, NamesOK, [Next]_vars PROVE WhereOK'
    OBVIOUS
  <1> USE IdleOp DEF WhereOK, PlacesOf, Kinds, Filling, Step, Move, End
  <1>1. CASE BeginInstall
    <2>1. PICK a \in Apps : Begin([do |-> "install", app |-> a], "folder", "put")
      BY <1>1 DEF BeginInstall
    <2> QED BY <2>1, BeginShape DEF Begin
  <1>2. CASE BeginRemove
    <2>1. PICK a \in Apps : Begin([do |-> "remove", app |-> a], "folder", "get")
      BY <1>2 DEF BeginRemove
    <2> QED BY <2>1, BeginShape DEF Begin
  <1>3. CASE BeginList
    <2>1. [do |-> "list"] \in Ops
      BY DEF Ops
    <2> QED BY <1>3, <2>1 DEF BeginList, Begin
  <1>4. CASE BeginDaemon
    <2>1. [do |-> "daemon"] \in Ops
      BY DEF Ops
    <2> QED BY <1>4, <2>1 DEF BeginDaemon, Begin
  <1>5. CASE CheckFolder
    BY <1>5 DEF CheckFolder, NotInstalled
  <1>6. CASE CheckBinary
    BY <1>6 DEF CheckBinary, NotInstalled, AfterCheck
  <1>7. CASE CheckDatabase
    BY <1>7 DEF CheckDatabase
  <1>8. CASE ReadDatabase
    BY <1>8 DEF ReadDatabase, NamesOK
  <1>9. CASE NextEntry
    BY <1>9 DEF NextEntry
  <1>10. CASE ReadEntry
    BY <1>10 DEF ReadEntry
  <1>11. CASE CheckChmod
    BY <1>11 DEF CheckChmod
  <1>12. CASE MakeFolder
    BY <1>12 DEF MakeFolder, FirstFile, Writes, Dropped
  <1>13. CASE Push
    BY <1>13 DEF Push, Writes
  <1>14. CASE OpenFile
    BY <1>14 DEF OpenFile
  <1>15. CASE FillFile
    BY <1>15 DEF FillFile
  <1>16. CASE CloseFile
    BY <1>16 DEF CloseFile, Writes, Dropped, DaemonFiles
  <1>17. CASE Crash
    BY <1>17 DEF Crash
  <1>18. CASE PowerLoss
    BY <1>18 DEF PowerLoss
  <1>19. CASE DaemonStart \/ DaemonEnd \/ Reboot \/ InstallBsd \/ UNCHANGED vars
    BY <1>19 DEF DaemonStart, DaemonEnd, Reboot, InstallBsd, vars, program
  <1> QED BY <1>1, <1>2, <1>3, <1>4, <1>5, <1>6, <1>7, <1>8, <1>9, <1>10, <1>11, <1>12,
             <1>13, <1>14, <1>15, <1>16, <1>17, <1>18, <1>19 DEF Next, HostStep

LEMMA NamesStep == WhereOK /\ NamesOK /\ FilesOK /\ [Next]_vars => NamesOK'
  <1> SUFFICES ASSUME WhereOK, NamesOK, [Next]_vars PROVE NamesOK'
    OBVIOUS
  <1> USE IdleOp DEF NamesOK, Step, Move, End, Asks, Forget, since, daemon
  <1>1. CASE BeginInstall \/ BeginRemove \/ BeginList \/ BeginDaemon
    BY <1>1 DEF BeginInstall, BeginRemove, BeginList, BeginDaemon, Begin
  <1>2. CASE CheckFolder \/ CheckBinary
    BY <1>2 DEF CheckFolder, CheckBinary, NotInstalled
  <1>3. CASE CheckDatabase \/ ReadDatabase \/ CheckChmod
    BY <1>3 DEF CheckDatabase, ReadDatabase, CheckChmod
  <1>4. CASE NextEntry
    BY <1>4 DEF NextEntry, WhereOK, PlacesOf, Kinds, Filling
  <1>5. CASE ReadEntry
    BY <1>5 DEF ReadEntry
  <1>6. CASE MakeFolder
    BY <1>6 DEF MakeFolder, FirstFile, Writes, Dropped, Folders, WhereOK, PlacesOf, Kinds, Filling
  <1>7. CASE Push
    BY <1>7 DEF Push, Writes, WhereOK, PlacesOf, Kinds, Filling
  <1>8. CASE OpenFile \/ FillFile
    BY <1>8 DEF OpenFile, FillFile
  <1>9. CASE CloseFile
    BY <1>9 DEF CloseFile, Writes, Dropped, WhereOK, PlacesOf, Kinds, Filling
  <1>10. CASE Crash
    BY <1>10 DEF Crash
  <1>11. CASE DaemonEnd
    <2>1. installed' \subseteq Apps
      <3>1. CASE busy = Install
        BY <1>11, <3>1 DEF DaemonEnd, Packages, Package
      <3>2. CASE busy # Install
        BY <1>11, <3>2 DEF DaemonEnd
      <3> QED BY <3>1, <3>2
    <2> QED BY <1>11, <2>1 DEF DaemonEnd, Folders, program
  <1>12. CASE Reboot \/ PowerLoss
    BY <1>12 DEF Reboot, PowerLoss, Boot, Folders, program
  <1>13. CASE DaemonStart \/ InstallBsd \/ UNCHANGED vars
    BY <1>13 DEF DaemonStart, InstallBsd, vars, program
  <1> QED BY <1>1, <1>2, <1>3, <1>4, <1>5, <1>6, <1>7, <1>8, <1>9, <1>10, <1>11, <1>12,
             <1>13 DEF Next, HostStep

\* The files are those of before, but for the one that is written or removed.
LEMMA FileChanges ==
    ASSUME [Next]_vars
    PROVE \/ OpenFile \/ FillFile \/ DaemonEnd \/ UNCHANGED files
  BY DEF Next, HostStep, BeginInstall, BeginRemove, BeginList, BeginDaemon, Begin,
         CheckFolder, CheckBinary, CheckDatabase, ReadDatabase, NextEntry, ReadEntry,
         CheckChmod, MakeFolder, Push, CloseFile, Crash, DaemonStart, Reboot, PowerLoss,
         Boot, InstallBsd, Asks, vars

\* What a file becomes is of its kind.
LEMMA ContentsOK ==
    ASSUME WhereOK, pc \in Filling
    PROVE /\ entry \in DaemonFiles \cup Dropped
          /\ entry \in DaemonFiles => Contents = Part
          /\ entry = "app" => Contents = Package(op.app) /\ Package(op.app) \in Packages
          /\ entry = "trigger" => Contents \in Commands
  <1>1. op.do \in {"install", "remove", "daemon"}
    BY DEF WhereOK, PlacesOf, Kinds, Filling
  <1>2. CASE op.do = "daemon"
    BY <1>2 DEF WhereOK, Contents, DaemonFiles, Dropped
  <1>3. CASE op.do \in {"install", "remove"}
    BY <1>3, OpShape DEF WhereOK, Contents, DaemonFiles, Dropped, Packages, Commands
  <1> QED BY <1>1, <1>2, <1>3

LEMMA FilesStep == WhereOK /\ FilesOK /\ [Next]_vars => FilesOK'
  <1> SUFFICES ASSUME WhereOK, FilesOK, [Next]_vars PROVE FilesOK'
    OBVIOUS
  <1>1. CASE OpenFile
    <2>1. UNCHANGED <<busy, busyApp>> /\ (files' = [files EXCEPT ![entry] = Torn] \/ files' = files)
      BY <1>1 DEF OpenFile, daemon
    <2>2. /\ files' \in [DaemonFiles \cup Dropped -> {None, Torn, Part} \cup Packages \cup Commands]
          /\ \A f \in DaemonFiles \cup Dropped : files'[f] \in {files[f], Torn}
      BY <2>1 DEF FilesOK
    <2> QED BY <2>1, <2>2 DEF FilesOK, Dropped
  <1>2. CASE FillFile
    <2>1. pc = "data" /\ UNCHANGED <<busy, busyApp>>
      BY <1>2 DEF FillFile, daemon
    <2>2. \/ files' = files
          \/ files' = [files EXCEPT ![entry] = IF @ = Torn THEN Contents ELSE @]
      BY <1>2 DEF FillFile
    <2> QED BY <2>1, <2>2, ContentsOK DEF FilesOK, Filling, DaemonFiles, Dropped
  <1>3. CASE DaemonEnd
    <2>1. busy' = None /\ busyApp' = None /\ files' = [files EXCEPT !["trigger"] = None]
      BY <1>3 DEF DaemonEnd
    <2>2. "trigger" \notin DaemonFiles /\ "trigger" # "app"
      BY DEF DaemonFiles
    <2>3. /\ files' \in [DaemonFiles \cup Dropped -> {None, Torn, Part} \cup Packages \cup Commands]
          /\ \A f \in DaemonFiles : files'[f] = files[f]
          /\ files'["app"] = files["app"]
          /\ files'["trigger"] \in {None, files["trigger"]}
      BY <2>1, <2>2 DEF FilesOK, Dropped
    <2> QED BY <2>1, <2>3 DEF FilesOK
  <1>4. CASE UNCHANGED files
    <2>1. busy' \in {busy, None, files["trigger"]} /\ busyApp' \in {busyApp, None, files["app"]}
      BY DEF Next, HostStep, BeginInstall, BeginRemove, BeginList, BeginDaemon, Begin,
         CheckFolder, CheckBinary, CheckDatabase, ReadDatabase, NextEntry, ReadEntry,
         CheckChmod, MakeFolder, Push, OpenFile, FillFile, CloseFile, Crash, DaemonStart,
         DaemonEnd, Reboot, PowerLoss, Boot, InstallBsd, Asks, daemon, vars
    <2>2. DaemonStart => files["trigger"] \in Commands
      BY DEF DaemonStart
    <2>3. ~DaemonStart => busy' \in {busy, None}
      BY DEF Next, HostStep, BeginInstall, BeginRemove, BeginList, BeginDaemon, Begin,
         CheckFolder, CheckBinary, CheckDatabase, ReadDatabase, NextEntry, ReadEntry,
         CheckChmod, MakeFolder, Push, OpenFile, FillFile, CloseFile, Crash,
         DaemonEnd, Reboot, PowerLoss, Boot, InstallBsd, Asks, daemon, vars
    <2>4. DaemonStart => busy' = files["trigger"]
      BY DEF DaemonStart
    <2> QED BY <1>4, <2>1, <2>2, <2>3, <2>4 DEF FilesOK
  <1> QED BY <1>1, <1>2, <1>3, <1>4, FileChanges

LEMMA FlagsStep == WhereOK /\ FlagsOK /\ [Next]_vars => FlagsOK'
  <1> SUFFICES ASSUME WhereOK, FlagsOK, [Next]_vars PROVE FlagsOK'
    OBVIOUS
  <1> USE DEF FlagsOK, Step, Move, End, Asks, Forget, Fault, NoFault, Exists, since, daemon
  <1>1. CASE BeginInstall \/ BeginRemove \/ BeginList \/ BeginDaemon
    BY <1>1 DEF BeginInstall, BeginRemove, BeginList, BeginDaemon, Begin
  <1>2. CASE CheckFolder \/ CheckBinary
    BY <1>2 DEF CheckFolder, CheckBinary, NotInstalled
  <1>3. CASE CheckDatabase \/ ReadDatabase \/ CheckChmod \/ NextEntry
    BY <1>3 DEF CheckDatabase, ReadDatabase, CheckChmod, NextEntry
  <1>4. CASE ReadEntry
    BY <1>4 DEF ReadEntry
  <1>5. CASE MakeFolder
    <2>1. UNCHANGED <<returned, told, half, carried, running, overlapped>>
      BY <1>5 DEF MakeFolder, FirstFile, Writes, WhereOK, PlacesOf, Kinds, Filling
    <2>2. clean' \in BOOLEAN
      BY <1>5 DEF MakeFolder
    <2> QED BY <2>1, <2>2
  <1>6. CASE Push
    BY <1>6 DEF Push, Writes
  <1>7. CASE OpenFile \/ FillFile
    BY <1>7 DEF OpenFile, FillFile
  <1>8. CASE CloseFile
    BY <1>8 DEF CloseFile, Writes, Dropped, WhereOK, PlacesOf, Kinds, Filling
  <1>9. CASE Crash
    BY <1>9 DEF Crash
  <1>10. CASE DaemonStart \/ DaemonEnd
    BY <1>10 DEF DaemonStart, DaemonEnd, program
  <1>11. CASE Reboot \/ PowerLoss
    BY <1>11 DEF Reboot, PowerLoss, Boot, Boots, program
  <1>12. CASE InstallBsd \/ UNCHANGED vars
    BY <1>12 DEF InstallBsd, vars, program
  <1> QED BY <1>1, <1>2, <1>3, <1>4, <1>5, <1>6, <1>7, <1>8, <1>9, <1>10, <1>11, <1>12
             DEF Next, HostStep

LEMMA FaultsStep == faults \in 0..MaxFaults /\ [Next]_vars => faults' \in 0..MaxFaults
  <1> SUFFICES ASSUME faults \in 0..MaxFaults, [Next]_vars PROVE faults' \in 0..MaxFaults
    OBVIOUS
  <1>1. UNCHANGED faults \/ Fault
    BY DEF Next, HostStep, BeginInstall, BeginRemove, BeginList, BeginDaemon, Begin,
         CheckFolder, CheckBinary, CheckDatabase, ReadDatabase, NextEntry, ReadEntry,
         CheckChmod, MakeFolder, Push, OpenFile, FillFile, CloseFile, Crash, DaemonStart,
         DaemonEnd, Reboot, PowerLoss, InstallBsd, Exists, NoFault, vars
  <1> QED BY <1>1, PxlAssumption DEF Fault

LEMMA TypeInit == Init => WhereOK /\ NamesOK /\ FilesOK /\ FlagsOK
  <1> SUFFICES ASSUME Init PROVE WhereOK /\ NamesOK /\ FilesOK /\ FlagsOK
    OBVIOUS
  <1>1. WhereOK
    BY IdleOp DEF Init, WhereOK, PlacesOf, Kinds, Filling
  <1>2. NamesOK
    BY DEF Init, NamesOK, Folders
  <1>3. FilesOK
    BY DEF Init, FilesOK, Dropped, DaemonFiles
  <1>4. FlagsOK
    BY DEF Init, FlagsOK
  <1> QED BY <1>1, <1>2, <1>3, <1>4

TypeInv == WhereOK /\ NamesOK /\ FilesOK /\ FlagsOK /\ faults \in 0..MaxFaults

LEMMA TypeInvOK == TypeInv => TypeOK
  <1> SUFFICES ASSUME TypeInv PROVE TypeOK
    OBVIOUS
  <1>1. pc \in Places /\ (pc = "idle" <=> op = Idle)
    BY OpShape DEF TypeInv, WhereOK, PlacesOf, Kinds, Filling, Places
  <1>2. pc \in {"open", "data", "close"} =>
          entry \in CASE op.do = "install" -> Dropped
                      [] op.do = "remove" -> {"trigger"}
                      [] op.do = "daemon" -> DaemonFiles
    BY DEF TypeInv, WhereOK, PlacesOf, Kinds, Filling
  <1> QED BY <1>1, <1>2 DEF TypeOK, TypeInv, WhereOK, NamesOK, FilesOK, FlagsOK

LEMMA TypeInvHolds == Spec => []TypeInv
  <1>1. Init => TypeInv
    BY TypeInit, PxlAssumption DEF TypeInv, Init
  <1>2. TypeInv /\ [Next]_vars => TypeInv'
    BY WhereStep, NamesStep, FilesStep, FlagsStep, FaultsStep DEF TypeInv
  <1> QED BY <1>1, <1>2, PTL DEF Spec

\* Types, and the files that each command writes.
THEOREM PxlTypeCorrect == Spec => []TypeOK
  BY TypeInvHolds, TypeInvOK, PTL

-----------------------------------------------------------------------------
(* What InstallDaemon reports.                                             *)

\* all files but those that are still to come, and chmod, are on the phone
PushedOK ==
    op.do = "daemon" =>
        /\ pc # "chmod" => "chmod" \in exists
        /\ pc \in {"chmod", "init.d"} => todo = DaemonFiles
        /\ pc = "push" => \A f \in DaemonFiles \ todo : files[f] = Part
        /\ pc \in Filling => \A f \in DaemonFiles \ (todo \cup {entry}) : files[f] = Part
        /\ pc = "data" => files[entry] \in {Torn, Part}
        /\ pc = "close" => files[entry] = Part

\* Folders, and chmod, stay.
LEMMA ExistsGrow == [Next]_vars => exists \subseteq exists'
  BY DEF Next, HostStep, BeginInstall, BeginRemove, BeginList, BeginDaemon, Begin,
         CheckFolder, CheckBinary, CheckDatabase, ReadDatabase, NextEntry, ReadEntry,
         CheckChmod, MakeFolder, Push, OpenFile, FillFile, CloseFile, Crash, DaemonStart,
         DaemonEnd, Reboot, PowerLoss, Boot, InstallBsd, Asks, vars

LEMMA PushedStep == WhereOK /\ FilesOK /\ PushedOK /\ [Next]_vars => PushedOK'
  <1> SUFFICES ASSUME WhereOK, FilesOK, PushedOK, [Next]_vars, op'.do = "daemon" PROVE PushedOK'
    BY DEF PushedOK
  <1> USE IdleOp, ExistsGrow DEF WhereOK, PlacesOf, Kinds, Filling, Step, Move, End, Asks
  <1>1. CASE BeginInstall \/ BeginRemove \/ BeginList \/ BeginDaemon
    BY <1>1 DEF BeginInstall, BeginRemove, BeginList, BeginDaemon, Begin, PushedOK
  <1>2. CASE CheckFolder \/ CheckBinary
    BY <1>2 DEF CheckFolder, CheckBinary, NotInstalled
  <1>3. CASE CheckDatabase \/ ReadDatabase \/ NextEntry \/ ReadEntry
    BY <1>3 DEF CheckDatabase, ReadDatabase, NextEntry, ReadEntry
  <1>4. CASE CheckChmod
    BY <1>4 DEF CheckChmod, Exists, DaemonFiles, PushedOK
  <1>5. CASE MakeFolder
    <2>1. op' = op /\ FirstFile
      BY <1>5 DEF MakeFolder, FirstFile, Writes
    <2>2. Step("push")
      BY <2>1 DEF FirstFile
    <2>3. UNCHANGED files
      BY <1>5 DEF MakeFolder
    <2>4. pc = "init.d" /\ pc' = "push" /\ UNCHANGED todo
      BY <1>5, <2>1, <2>2 DEF MakeFolder
    <2> QED BY <2>1, <2>3, <2>4 DEF PushedOK
  <1>6. CASE Push
    BY <1>6 DEF Push, Writes, PushedOK
  <1>7. CASE OpenFile
    BY <1>7 DEF OpenFile, PushedOK, FilesOK
  <1>8. CASE FillFile
    <2>1. Contents = Part /\ entry \in DaemonFiles
      BY <1>8, ContentsOK DEF FillFile
    <2> QED BY <1>8, <2>1 DEF FillFile, PushedOK, FilesOK
  <1>9. CASE CloseFile
    <2>1. UNCHANGED files /\ pc = "close"
      BY <1>9 DEF CloseFile
    <2>2. op' = op
      BY <1>9 DEF CloseFile, Writes, DaemonFiles, Dropped
    <2>3. entry \in DaemonFiles /\ entry \notin {"app", "trigger"}
      BY <2>1, <2>2 DEF DaemonFiles
    <2>4. Step("push")
      BY <1>9, <2>3 DEF CloseFile
    <2> QED BY <2>1, <2>2, <2>3, <2>4 DEF PushedOK
  <1>10. CASE Crash \/ PowerLoss
    BY <1>10 DEF Crash, PowerLoss
  <1>11. CASE DaemonEnd
    <2>1. \A f \in DaemonFiles : files'[f] = files[f]
      BY <1>11 DEF DaemonEnd, DaemonFiles, FilesOK
    <2> QED BY <1>11, <2>1 DEF DaemonEnd, program, PushedOK
  <1>12. CASE DaemonStart \/ Reboot \/ InstallBsd \/ UNCHANGED vars
    BY <1>12 DEF DaemonStart, Reboot, Boot, InstallBsd, program, vars, PushedOK
  <1> QED BY <1>1, <1>2, <1>3, <1>4, <1>5, <1>6, <1>7, <1>8, <1>9, <1>10, <1>11, <1>12
             DEF Next, HostStep

\* A command ends well only at one of these places.
LEMMA EndsWell ==
    ASSUME WhereOK, [Next]_vars, op.do # "none", op' = Idle, returned'
    PROVE /\ op.do = "daemon" => Push /\ todo = {}
          /\ op.do \in {"install", "remove"} => CloseFile /\ entry = "trigger"
          /\ op.do = "list" => CheckDatabase \/ (NextEntry /\ todo = {})
  <1> USE IdleOp DEF WhereOK, PlacesOf, Kinds, Filling, Step, Move, End
  <1>1. CASE CheckFolder \/ CheckBinary
    BY <1>1 DEF CheckFolder, CheckBinary, NotInstalled
  <1>2. CASE CheckDatabase \/ ReadDatabase \/ NextEntry
    BY <1>2 DEF CheckDatabase, ReadDatabase, NextEntry
  <1>3. CASE ReadEntry \/ CheckChmod
    BY <1>3 DEF ReadEntry, CheckChmod
  <1>4. CASE MakeFolder
    BY <1>4 DEF MakeFolder, FirstFile, Writes
  <1>5. CASE Push
    BY <1>5 DEF Push, Writes
  <1>6. CASE OpenFile \/ FillFile \/ Crash \/ PowerLoss
    BY <1>6 DEF OpenFile, FillFile, Crash, PowerLoss
  <1>7. CASE CloseFile
    BY <1>7 DEF CloseFile, Writes, Dropped, DaemonFiles
  <1>8. CASE BeginInstall \/ BeginRemove \/ BeginList \/ BeginDaemon
    BY <1>8 DEF BeginInstall, BeginRemove, BeginList, BeginDaemon, Begin
  <1>9. CASE DaemonStart \/ DaemonEnd \/ Reboot \/ InstallBsd \/ UNCHANGED vars
    BY <1>9 DEF DaemonStart, DaemonEnd, Reboot, InstallBsd, program, vars
  <1> QED BY <1>1, <1>2, <1>3, <1>4, <1>5, <1>6, <1>7, <1>8, <1>9 DEF Next, HostStep

LEMMA PushedHolds == Spec => []PushedOK
  <1>1. Init => PushedOK
    BY IdleOp DEF Init, PushedOK
  <1>2. TypeInv /\ PushedOK /\ [Next]_vars => PushedOK'
    BY PushedStep DEF TypeInv
  <1> QED BY <1>1, <1>2, TypeInvHolds, PTL DEF Spec

\* InstallDaemon reports success only when the phone has all that it needs to
\* start PXLdaemon at its next boot.
THEOREM DaemonReportHonest == Spec => DaemonHonest
  <1>1. TypeInv /\ PushedOK /\ [Next]_vars => [Reports([do |-> "daemon"]) => Boots]_vars
    <2> SUFFICES ASSUME TypeInv, PushedOK, [Next]_vars, Reports([do |-> "daemon"])
                 PROVE Boots
      OBVIOUS
    <2>1. Push /\ todo = {} /\ op.do = "daemon"
      BY EndsWell DEF TypeInv, Reports
    <2> QED BY <2>1 DEF Push, PushedOK, DaemonFiles, Boots, LaunchdRunsHackinit,
                        HackinitRunsScripts, PxlScriptStarts
  <1> QED BY <1>1, TypeInvHolds, PushedHolds, PTL DEF Spec, DaemonHonest

-----------------------------------------------------------------------------
(* Packages and commands.                                                  *)

\* what InstallApplication has made of app.pxl
PackageOK ==
    op.do = "install" /\ pc \in Filling =>
        /\ entry = "app" /\ pc = "data" => files["app"] = Torn
        /\ entry = "app" /\ pc = "close" => files["app"] = Package(op.app)
        /\ entry = "trigger" => files["app"] = Package(op.app)

\* the trigger file, while PXLdaemon has nothing else to do
TriggerOK ==
    ~overlapped /\ op.do \in {"install", "remove"} /\ entry = "trigger" =>
        /\ pc = "data" => files["trigger"] = Torn
        /\ pc = "close" => carried \/ files["trigger"] = Contents

CommandInv == PackageOK /\ TriggerOK /\ OnlyWholeInstalled

\* Contents of different kinds differ.
LEMMA Distinct ==
    /\ Torn \notin Commands /\ None \notin Commands
    /\ Torn \notin Packages /\ None \notin Packages
    /\ Torn # None /\ Install # None /\ Install \in Commands
    /\ \A a : Remove(a) # Install /\ Remove(a) # Torn /\ Package(a) # Torn
  BY DEF Torn, None, Commands, Packages, Install, Remove, Package

LEMMA TriggerContents ==
    entry = "trigger" =>
        Contents = IF op.do = "install" THEN Install ELSE Remove(op.app)
  BY DEF Contents, DaemonFiles

\* app.pxl changes only where InstallApplication writes it.
LEMMA PackageStep ==
    ASSUME WhereOK, FilesOK, PackageOK, [Next]_vars
    PROVE PackageOK'
  <1> SUFFICES ASSUME op'.do = "install", pc' \in Filling PROVE PackageOK'
    BY DEF PackageOK
  <1> USE IdleOp DEF WhereOK, PlacesOf, Kinds, Filling, Step, Move, End, Asks
  <1>1. CASE BeginInstall \/ BeginRemove \/ BeginList \/ BeginDaemon
    BY <1>1 DEF BeginInstall, BeginRemove, BeginList, BeginDaemon, Begin
  <1>2. CASE CheckFolder \/ CheckBinary
    BY <1>2 DEF CheckFolder, CheckBinary, NotInstalled, AfterCheck
  <1>3. CASE CheckDatabase \/ ReadDatabase \/ NextEntry \/ ReadEntry \/ CheckChmod \/ Push
    BY <1>3 DEF CheckDatabase, ReadDatabase, NextEntry, ReadEntry, CheckChmod, Push, Writes
  <1>4. CASE MakeFolder
    <2>1. op' = op /\ Writes("app")
      BY <1>4 DEF MakeFolder, FirstFile, Writes
    <2> QED BY <2>1 DEF Writes, PackageOK
  <1>5. CASE OpenFile
    BY <1>5 DEF OpenFile, PackageOK, FilesOK, Dropped
  <1>6. CASE FillFile
    <2>1. op' = op /\ pc = "data" /\ pc' = "close" /\ entry' = entry
      BY <1>6 DEF FillFile
    <2>2. files' = [files EXCEPT ![entry] = IF @ = Torn THEN Contents ELSE @]
      BY <1>6, <2>1 DEF FillFile
    <2>3. entry = "app" => Contents = Package(op.app)
      BY <2>1, ContentsOK
    <2> QED BY <2>1, <2>2, <2>3 DEF PackageOK, FilesOK, Dropped
  <1>7. CASE CloseFile
    <2>1. op' = op /\ entry \in Dropped /\ UNCHANGED files /\ pc = "close"
      BY <1>7 DEF CloseFile, Writes, DaemonFiles, Dropped
    <2>2. entry = "app" /\ Writes("trigger")
      BY <1>7, <2>1 DEF CloseFile, Dropped
    <2> QED BY <2>1, <2>2 DEF Writes, PackageOK
  <1>8. CASE Crash \/ PowerLoss
    BY <1>8 DEF Crash, PowerLoss
  <1>9. CASE DaemonEnd
    BY <1>9 DEF DaemonEnd, program, PackageOK, FilesOK
  <1>10. CASE DaemonStart \/ Reboot \/ InstallBsd \/ UNCHANGED vars
    BY <1>10 DEF DaemonStart, Reboot, Boot, InstallBsd, program, vars, PackageOK
  <1> QED BY <1>1, <1>2, <1>3, <1>4, <1>5, <1>6, <1>7, <1>8, <1>9, <1>10 DEF Next, HostStep

LEMMA TriggerStep ==
    ASSUME WhereOK, FilesOK, CommandInv, [Next]_vars
    PROVE TriggerOK'
  <1> SUFFICES ASSUME ~overlapped', op'.do \in {"install", "remove"}, entry' = "trigger",
                      pc' \in {"data", "close"}
               PROVE TriggerOK'
    BY DEF TriggerOK
  <1> USE IdleOp DEF WhereOK, PlacesOf, Kinds, Filling, Step, Move, End, Asks
  <1>1. CASE BeginInstall \/ BeginRemove \/ BeginList \/ BeginDaemon
    BY <1>1 DEF BeginInstall, BeginRemove, BeginList, BeginDaemon, Begin
  <1>2. CASE CheckFolder \/ CheckBinary
    BY <1>2 DEF CheckFolder, CheckBinary, NotInstalled, AfterCheck
  <1>3. CASE CheckDatabase \/ ReadDatabase \/ NextEntry \/ ReadEntry \/ CheckChmod \/ Push
    BY <1>3 DEF CheckDatabase, ReadDatabase, NextEntry, ReadEntry, CheckChmod, Push, Writes
  <1>4. CASE MakeFolder
    BY <1>4 DEF MakeFolder, FirstFile, Writes
  <1>5. CASE OpenFile
    BY <1>5 DEF OpenFile, TriggerOK, FilesOK, Dropped
  <1>6. CASE FillFile
    <2>1. op' = op /\ pc = "data" /\ pc' = "close" /\ entry' = entry /\ overlapped' = overlapped
      BY <1>6 DEF FillFile
    <2>2. files' = [files EXCEPT ![entry] = IF @ = Torn THEN Contents ELSE @]
      BY <1>6, <2>1 DEF FillFile
    <2>3. Contents' = Contents
      BY <2>1 DEF Contents
    <2> QED BY <2>1, <2>2, <2>3 DEF CommandInv, TriggerOK, FilesOK, Dropped
  <1>7. CASE CloseFile
    BY <1>7 DEF CloseFile, Writes, DaemonFiles, Dropped
  <1>8. CASE Crash \/ PowerLoss
    BY <1>8 DEF Crash, PowerLoss
  <1>9. CASE DaemonEnd
    <2>1. UNCHANGED program /\ UNCHANGED overlapped /\ files["trigger"] = busy /\ busy # None
      BY <1>9 DEF DaemonEnd, CommandInv, OnlyWholeInstalled
    <2>2. busy \in Commands /\ op = op' /\ pc = pc' /\ entry = entry'
      BY <2>1 DEF FilesOK, program
    <2>3. pc = "close" /\ (carried \/ busy = Contents)
      BY <2>1, <2>2, Distinct DEF CommandInv, TriggerOK
    <2>4. op.do = "install" => Contents = Install /\ Deed(op) = Package(op.app)
      BY <2>2, TriggerContents DEF Deed
    <2>5. op.do = "remove" => Contents = Remove(op.app) /\ Deed(op) = Remove(op.app)
      BY <2>2, TriggerContents DEF Deed
    <2>6. op.do = "install" /\ busy = Install => busyApp = Package(op.app)
      BY <2>1, <2>2, <2>3 DEF CommandInv, PackageOK, OnlyWholeInstalled
    <2>7. busy = Contents => Did = Deed(op)
      BY <2>2, <2>4, <2>5, <2>6, Distinct DEF Did
    <2>8. carried'
      BY <1>9, <2>3, <2>7 DEF DaemonEnd
    <2> QED BY <2>2, <2>3, <2>8 DEF TriggerOK
  <1>10. CASE DaemonStart \/ Reboot \/ InstallBsd \/ UNCHANGED vars
    BY <1>10 DEF DaemonStart, Reboot, Boot, InstallBsd, program, since, vars, CommandInv,
                 TriggerOK, Contents
  <1> QED BY <1>1, <1>2, <1>3, <1>4, <1>5, <1>6, <1>7, <1>8, <1>9, <1>10 DEF Next, HostStep

\* Steps that change neither the files nor what PXLdaemon executes.
LEMMA QuietSteps ==
    ASSUME WhereOK, [Next]_vars
    PROVE \/ OpenFile \/ FillFile \/ DaemonStart \/ DaemonEnd \/ Reboot \/ PowerLoss
          \/ /\ UNCHANGED <<files, busy, busyApp>>
             /\ overlapped' = overlapped \/ overlapped' = (overlapped /\ Pending)
  <1> USE DEF Asks, daemon, Step, Move, End
  <1>1. CASE BeginInstall \/ BeginRemove \/ BeginList \/ BeginDaemon
    BY <1>1 DEF BeginInstall, BeginRemove, BeginList, BeginDaemon, Begin
  <1>2. CASE CheckFolder \/ CheckBinary \/ CheckDatabase \/ ReadDatabase \/ NextEntry
             \/ ReadEntry \/ CheckChmod \/ MakeFolder \/ Push \/ CloseFile \/ Crash
    BY <1>2 DEF CheckFolder, CheckBinary, CheckDatabase, ReadDatabase, NextEntry, ReadEntry,
                CheckChmod, MakeFolder, Push, CloseFile, Crash
  <1>3. CASE InstallBsd \/ UNCHANGED vars
    BY <1>3 DEF InstallBsd, vars
  <1> QED BY <1>1, <1>2, <1>3 DEF Next, HostStep

LEMMA WholeStep ==
    ASSUME WhereOK, FilesOK, CommandInv, [Next]_vars
    PROVE OnlyWholeInstalled'
  <1> SUFFICES ASSUME ~overlapped' PROVE OnlyWholeInstalled'
    BY DEF OnlyWholeInstalled
  <1>1. CASE OpenFile
    BY <1>1, Distinct DEF OpenFile, CommandInv, OnlyWholeInstalled, Pending, FilesOK, Dropped,
                        DaemonFiles, daemon
  <1>2. CASE FillFile
    <2>1. ~overlapped /\ pc = "data" /\ UNCHANGED <<busy, busyApp>>
      BY <1>2 DEF FillFile, daemon
    <2>2. \/ files' = files
          \/ files' = [files EXCEPT ![entry] = IF @ = Torn THEN Contents ELSE @]
      BY <1>2 DEF FillFile
    <2>3. op.do \in {"install", "remove", "daemon"}
      BY <2>1 DEF WhereOK, PlacesOf, Kinds, Filling
    <2>4. CASE entry = "app"
      <3>1. files["trigger"]' = files["trigger"] /\ op.do = "install" /\ files["app"] = Torn
        BY <2>1, <2>2, <2>3, <2>4
        DEF WhereOK, Filling, CommandInv, PackageOK, FilesOK, Dropped, DaemonFiles
      <3>2. files["trigger"] # Install /\ busy # Install
        BY <2>1, <3>1, Distinct DEF CommandInv, OnlyWholeInstalled
      <3> QED BY <2>1, <3>1, <3>2 DEF CommandInv, OnlyWholeInstalled
    <2>5. CASE entry = "trigger"
      <3>1. files["app"]' = files["app"] /\ op.do \in {"install", "remove"}
        BY <2>1, <2>2, <2>3, <2>5 DEF WhereOK, Filling, FilesOK, DaemonFiles, Dropped
      <3>2. files["trigger"] = Torn /\ busy = None
        BY <2>1, <2>5, <3>1, Distinct DEF CommandInv, TriggerOK, OnlyWholeInstalled, FilesOK
      <3>3. files["trigger"]' \in {Torn, Contents}
        BY <2>2, <2>5, <3>2 DEF FilesOK, Dropped
      <3>4. Contents = Install => op.do = "install"
        BY <2>5, <3>1, TriggerContents, Distinct
      <3>5. op.do = "install" => files["app"] \in Packages
        BY <2>1, <2>5, ContentsOK, OpShape
        DEF CommandInv, PackageOK, Filling, WhereOK, Packages
      <3> QED BY <2>1, <3>1, <3>2, <3>3, <3>4, <3>5, Distinct DEF OnlyWholeInstalled
    <2>6. CASE entry \notin Dropped
      BY <2>1, <2>2, <2>6 DEF CommandInv, OnlyWholeInstalled, Dropped, FilesOK
    <2> QED BY <2>4, <2>5, <2>6 DEF Dropped
  <1>3. CASE DaemonStart
    BY <1>3, Distinct DEF DaemonStart, CommandInv, OnlyWholeInstalled
  <1>4. CASE DaemonEnd
    BY <1>4, Distinct DEF DaemonEnd, OnlyWholeInstalled, FilesOK, Dropped
  <1>5. CASE Reboot \/ PowerLoss
    BY <1>5, Distinct DEF Reboot, PowerLoss, Boot, CommandInv, OnlyWholeInstalled
  <1>6. CASE /\ UNCHANGED <<files, busy, busyApp>>
             /\ overlapped' = overlapped \/ overlapped' = (overlapped /\ Pending)
    BY <1>6, Distinct DEF CommandInv, OnlyWholeInstalled, Pending
  <1> QED BY <1>1, <1>2, <1>3, <1>4, <1>5, <1>6, QuietSteps

LEMMA CommandInvHolds == Spec => []CommandInv
  <1>1. Init => CommandInv
    BY IdleOp, Distinct
    DEF Init, CommandInv, PackageOK, TriggerOK, OnlyWholeInstalled, Filling, Dropped, DaemonFiles
  <1>2. TypeInv /\ CommandInv /\ [Next]_vars => CommandInv'
    BY PackageStep, TriggerStep, WholeStep DEF TypeInv, CommandInv
  <1> QED BY <1>1, <1>2, TypeInvHolds, PTL DEF Spec

\* A package that is to be installed is whole, through failed writes, crashes and
\* reboots, unless a command was written over another one.
THEOREM WholePackages == Spec => []OnlyWholeInstalled
  <1>1. CommandInv => OnlyWholeInstalled
    BY DEF CommandInv
  <1> QED BY <1>1, CommandInvHolds, PTL

\* Install and remove report success only when PXLdaemon has done this command
\* since it began, or is going to.
THEOREM CommandReportHonest == Spec => CommandHonest
  <1> DEFINE Honest ==
        \A o \in Ops :
            Reports(o) /\ o.do \in {"install", "remove"} /\ ~overlapped
            => \/ carried
               \/ o.do = "remove" /\ files["trigger"] = Remove(o.app)
               \/ /\ o.do = "install" /\ files["trigger"] = Install
                  /\ files["app"] = Package(o.app)
  <1>1. TypeInv /\ CommandInv /\ [Next]_vars => [Honest]_vars
    <2> SUFFICES ASSUME TypeInv, CommandInv, [Next]_vars,
                        NEW o \in Ops, Reports(o), o.do \in {"install", "remove"}, ~overlapped
                 PROVE \/ carried
                       \/ o.do = "remove" /\ files["trigger"] = Remove(o.app)
                       \/ /\ o.do = "install" /\ files["trigger"] = Install
                          /\ files["app"] = Package(o.app)
      OBVIOUS
    <2>1. CloseFile /\ entry = "trigger" /\ op = o
      BY EndsWell DEF TypeInv, Reports
    <2>2. pc = "close"
      BY <2>1 DEF CloseFile
    <2>3. carried \/ files["trigger"] = Contents
      BY <2>1, <2>2 DEF CommandInv, TriggerOK
    <2>4. Contents = IF op.do = "install" THEN Install ELSE Remove(op.app)
      BY <2>1, TriggerContents
    <2>5. op.do = "install" => files["app"] = Package(op.app)
      BY <2>1, <2>2 DEF CommandInv, PackageOK, Filling
    <2> QED BY <2>1, <2>3, <2>4, <2>5
  <1> QED BY <1>1, TypeInvHolds, CommandInvHolds, PTL DEF Spec, CommandHonest

-----------------------------------------------------------------------------
(* Accepted commands.                                                      *)

\* A phone with PXLdaemon's folder runs it, and will again after a reboot, unless an
\* InstallDaemon broke off or is writing.
RunningOK ==
    /\ "PXL" \in exists /\ ~half =>
          running /\ ((op.do = "daemon" /\ pc \in Writing) \/ Boots)
    /\ op.do \in {"install", "remove"} /\ pc \in {"binary", "dropoff"} \cup Filling =>
          "PXL" \in exists

\* Only InstallDaemon writes what a boot needs.
LEMMA DaemonFilesStay ==
    ASSUME WhereOK, FilesOK, [Next]_vars
    PROVE \/ op.do = "daemon" /\ pc \in Writing
          \/ \A f \in DaemonFiles : files'[f] = files[f]
  <1>1. CASE OpenFile \/ FillFile
    <2>1. \A f : f # entry => files'[f] = files[f] \/ f \notin DaemonFiles
      BY <1>1 DEF OpenFile, FillFile, FilesOK
    <2>2. pc \in {"open", "data"}
      BY <1>1 DEF OpenFile, FillFile
    <2> QED BY <2>1, <2>2
            DEF WhereOK, PlacesOf, Kinds, Filling, Writing, Dropped, DaemonFiles
  <1>2. CASE DaemonEnd
    BY <1>2 DEF DaemonEnd, FilesOK, DaemonFiles
  <1> QED BY <1>1, <1>2, FileChanges

LEMMA BootsStay ==
    ASSUME WhereOK, FilesOK, [Next]_vars, Boots, ~(op.do = "daemon" /\ pc \in Writing)
    PROVE Boots'
  BY DaemonFilesStay, ExistsGrow
  DEF Boots, LaunchdRunsHackinit, HackinitRunsScripts, PxlScriptStarts, DaemonFiles

\* What the host's steps do to the phone.
LEMMA HostLeaves ==
    ASSUME WhereOK, [Next]_vars
    PROVE \/ DaemonEnd \/ Reboot \/ PowerLoss
          \/ UNCHANGED running /\ ("PXL" \in exists' => "PXL" \in exists)
  <1> USE DEF Asks, daemon
  <1>1. CASE BeginInstall \/ BeginRemove \/ BeginList \/ BeginDaemon
    BY <1>1 DEF BeginInstall, BeginRemove, BeginList, BeginDaemon, Begin
  <1>2. CASE CheckFolder \/ CheckBinary \/ CheckDatabase \/ ReadDatabase \/ NextEntry
             \/ ReadEntry \/ CheckChmod \/ Push \/ OpenFile \/ FillFile \/ CloseFile
             \/ Crash
    BY <1>2 DEF CheckFolder, CheckBinary, CheckDatabase, ReadDatabase, NextEntry, ReadEntry,
                CheckChmod, Push, OpenFile, FillFile, CloseFile, Crash
  <1>3. CASE MakeFolder
    <2>1. exists' \subseteq exists \cup {"init.d", "Dropoff"}
      BY <1>3 DEF MakeFolder
    <2> QED BY <1>3, <2>1 DEF MakeFolder
  <1>4. CASE DaemonStart \/ InstallBsd \/ UNCHANGED vars
    BY <1>4 DEF DaemonStart, InstallBsd, vars
  <1> QED BY <1>1, <1>2, <1>3, <1>4 DEF Next, HostStep

\* InstallDaemon stops writing with a complete set of files, or leaves half set.
LEMMA WritingEnds ==
    ASSUME WhereOK, FilesOK, PushedOK, [Next]_vars, ~PowerLoss, ~half',
           op.do = "daemon", pc \in Writing, ~(op'.do = "daemon" /\ pc' \in Writing)
    PROVE Boots'
  <1> USE IdleOp DEF WhereOK, PlacesOf, Kinds, Filling, Writing, Step, Move, End
  <1>1. CASE Push
    <2>1. todo = {} /\ UNCHANGED <<files, exists>> /\ pc = "push"
      BY <1>1 DEF Push, Writes, Asks
    <2> QED BY <2>1 DEF PushedOK, Boots, LaunchdRunsHackinit, HackinitRunsScripts,
                        PxlScriptStarts, DaemonFiles
  <1>2. CASE OpenFile \/ FillFile \/ Crash
    BY <1>2 DEF OpenFile, FillFile, Crash
  <1>3. CASE CloseFile
    BY <1>3 DEF CloseFile, Writes, DaemonFiles
  <1>4. CASE BeginInstall \/ BeginRemove \/ BeginList \/ BeginDaemon
    BY <1>4 DEF BeginInstall, BeginRemove, BeginList, BeginDaemon, Begin
  <1>5. CASE CheckFolder \/ CheckBinary \/ CheckDatabase \/ ReadDatabase \/ NextEntry
             \/ ReadEntry \/ CheckChmod \/ MakeFolder
    BY <1>5 DEF CheckFolder, CheckBinary, CheckDatabase, ReadDatabase, NextEntry, ReadEntry,
                CheckChmod, MakeFolder
  <1>6. CASE DaemonStart \/ DaemonEnd \/ Reboot \/ InstallBsd \/ UNCHANGED vars
    BY <1>6 DEF DaemonStart, DaemonEnd, Reboot, InstallBsd, program, vars
  <1> QED BY <1>1, <1>2, <1>3, <1>4, <1>5, <1>6 DEF Next, HostStep

\* half is cleared only by a boot that starts PXLdaemon.
LEMMA HalfStays ==
    ASSUME WhereOK, [Next]_vars, half, ~Reboot, ~PowerLoss
    PROVE half'
  <1> USE DEF WhereOK, PlacesOf, Kinds, Filling, Step, Move, End
  <1>1. CASE BeginInstall \/ BeginRemove \/ BeginList \/ BeginDaemon
    BY <1>1 DEF BeginInstall, BeginRemove, BeginList, BeginDaemon, Begin
  <1>2. CASE CheckFolder \/ CheckBinary \/ CheckDatabase \/ ReadDatabase \/ NextEntry
    BY <1>2 DEF CheckFolder, CheckBinary, NotInstalled, CheckDatabase, ReadDatabase, NextEntry
  <1>3. CASE ReadEntry \/ CheckChmod \/ Push
    BY <1>3 DEF ReadEntry, CheckChmod, Push, Writes
  <1>4. CASE MakeFolder
    BY <1>4 DEF MakeFolder, FirstFile, Writes
  <1>5. CASE OpenFile \/ FillFile \/ Crash
    BY <1>5 DEF OpenFile, FillFile, Crash
  <1>6. CASE CloseFile
    BY <1>6 DEF CloseFile, Writes, DaemonFiles, Dropped
  <1>7. CASE DaemonStart \/ DaemonEnd \/ InstallBsd \/ UNCHANGED vars
    BY <1>7 DEF DaemonStart, DaemonEnd, InstallBsd, vars
  <1> QED BY <1>1, <1>2, <1>3, <1>4, <1>5, <1>6, <1>7 DEF Next, HostStep

LEMMA AcceptedStep ==
    ASSUME WhereOK, RunningOK, [Next]_vars,
           op'.do \in {"install", "remove"}, pc' \in {"binary", "dropoff"} \cup Filling
    PROVE "PXL" \in exists'
  <1> USE IdleOp, ExistsGrow DEF WhereOK, PlacesOf, Kinds, Filling, Step, Move, End
  <1>1. CASE BeginInstall \/ BeginRemove \/ BeginList \/ BeginDaemon
    BY <1>1 DEF BeginInstall, BeginRemove, BeginList, BeginDaemon, Begin
  <1>2. CASE CheckFolder
    BY <1>2 DEF CheckFolder, NotInstalled, Exists
  <1>3. CASE CheckBinary
    BY <1>3 DEF CheckBinary, NotInstalled, RunningOK
  <1>4. CASE CheckDatabase \/ ReadDatabase \/ NextEntry \/ ReadEntry \/ CheckChmod \/ Push
    BY <1>4 DEF CheckDatabase, ReadDatabase, NextEntry, ReadEntry, CheckChmod, Push, Writes
  <1>5. CASE MakeFolder
    BY <1>5 DEF MakeFolder, FirstFile, Writes, RunningOK
  <1>6. CASE OpenFile \/ FillFile \/ Crash \/ PowerLoss
    BY <1>6 DEF OpenFile, FillFile, Crash, PowerLoss, RunningOK
  <1>7. CASE CloseFile
    BY <1>7 DEF CloseFile, Writes, DaemonFiles, Dropped, RunningOK
  <1>8. CASE DaemonStart \/ DaemonEnd \/ Reboot \/ InstallBsd \/ UNCHANGED vars
    BY <1>8 DEF DaemonStart, DaemonEnd, Reboot, InstallBsd, program, vars, RunningOK
  <1> QED BY <1>1, <1>2, <1>3, <1>4, <1>5, <1>6, <1>7, <1>8 DEF Next, HostStep

LEMMA RunningStep ==
    ASSUME WhereOK, FilesOK, PushedOK, RunningOK, [Next]_vars
    PROVE RunningOK'
  <1> SUFFICES ASSUME "PXL" \in exists', ~half'
               PROVE running' /\ ((op'.do = "daemon" /\ pc' \in Writing) \/ Boots')
    BY AcceptedStep DEF RunningOK
  <1>1. CASE Reboot
    <2>1. running' = Boots /\ (half' = (half /\ ~Boots)) /\ op = Idle /\ UNCHANGED files
      BY <1>1 DEF Reboot, Boot
    <2>2. op.do # "daemon"
      BY <2>1, IdleOp
    <2>3. Boots
      <3>1. CASE half
        BY <2>1, <3>1
      <3>2. CASE ~half /\ ~Boots
        BY <1>1, <2>2, <3>2 DEF RunningOK, Reboot, Boot
      <3> QED BY <3>1, <3>2
    <2> QED BY <2>1, <2>2, <2>3, BootsStay
  <1>2. CASE PowerLoss
    <2>1. /\ running' = Boots /\ exists' = (IF Boots THEN exists \cup {"PXL"} ELSE exists)
          /\ half' = (~Boots /\ (half \/ (op.do = "daemon" /\ pc \in Writing)))
          /\ UNCHANGED files
      BY <1>2 DEF PowerLoss, Boot
    <2>2. Boots
      BY <2>1 DEF RunningOK
    <2>3. Boots'
      BY <2>1, <2>2, ExistsGrow
      DEF Boots, LaunchdRunsHackinit, HackinitRunsScripts, PxlScriptStarts
    <2> QED BY <2>1, <2>2, <2>3
  <1>3. CASE ~Reboot /\ ~PowerLoss
    <2>1. ~half
      BY <1>3, HalfStays
    <2>2. running' = running /\ "PXL" \in exists
      BY <1>3, HostLeaves DEF DaemonEnd
    <2>3. running /\ ((op.do = "daemon" /\ pc \in Writing) \/ Boots)
      BY <2>1, <2>2 DEF RunningOK
    <2> QED BY <1>3, <2>2, <2>3, WritingEnds, BootsStay
  <1> QED BY <1>1, <1>2, <1>3

\* A command is accepted only by a phone whose PXLdaemon runs and will execute it,
\* unless an InstallDaemon broke off since.
THEOREM AcceptedRuns == Spec => []AcceptedMeansRunning
  <1>1. Init => RunningOK
    BY IdleOp DEF Init, RunningOK, Boots, LaunchdRunsHackinit, HackinitRunsScripts,
                  PxlScriptStarts, DaemonFiles, Dropped
  <1>2. TypeInv /\ PushedOK /\ RunningOK /\ [Next]_vars => RunningOK'
    BY RunningStep DEF TypeInv
  <1>3. TypeInv /\ RunningOK => AcceptedMeansRunning
    BY DEF TypeInv, WhereOK, PlacesOf, Kinds, Filling, RunningOK, AcceptedMeansRunning
  <1> QED BY <1>1, <1>2, <1>3, TypeInvHolds, PushedHolds, PTL DEF Spec

-----------------------------------------------------------------------------
(* Lists.                                                                  *)

\* what the loop over the entries has not yet dealt with
Left == IF phase = "get" /\ pc # "entry" THEN todo \cup {entry} ELSE todo

ListOK ==
    /\ installed # {} => "DB" \in exists
    /\ op.do = "list" =>
        /\ found \subseteq ever
        /\ always \subseteq installed /\ installed \subseteq ever
        /\ pc # "folder" \/ phase = "get" => "PXL" \in exists
        /\ pc \notin {"folder", "binary"} \/ phase = "get" => files["daemon"] # None
        /\ pc \in {"database", "contents"} => phase = "list"
        /\ clean /\ (pc = "entry" \/ phase = "get") => always \subseteq found \cup Left

LEMMA ListStep ==
    ASSUME WhereOK, NamesOK, FilesOK, ListOK, [Next]_vars, op'.do = "list"
    PROVE /\ found' \subseteq ever'
          /\ always' \subseteq installed' /\ installed' \subseteq ever'
          /\ pc' # "folder" \/ phase' = "get" => "PXL" \in exists'
          /\ pc' \notin {"folder", "binary"} \/ phase' = "get" => files'["daemon"] # None
          /\ pc' \in {"database", "contents"} => phase' = "list"
          /\ clean' /\ (pc' = "entry" \/ phase' = "get") => always' \subseteq found' \cup Left'
  <1>0. Fault /\ op.do = "list" => ~clean'
    BY DEF Fault
  <1> USE <1>0, IdleOp, ExistsGrow
      DEF WhereOK, PlacesOf, Kinds, Filling, Step, Move, End, Asks, NoFault, since, daemon,
          ListOK, Left
  <1>1. CASE BeginInstall \/ BeginRemove \/ BeginDaemon
    BY <1>1 DEF BeginInstall, BeginRemove, BeginDaemon, Begin
  <1>2. CASE BeginList
    BY <1>2 DEF BeginList, Begin
  <1>3. CASE CheckFolder
    BY <1>3 DEF CheckFolder, NotInstalled, Exists
  <1>4. CASE CheckBinary
    BY <1>4 DEF CheckBinary, NotInstalled, AfterCheck, Exists, NamesOK, Folders
  <1>5. CASE CheckDatabase
    BY <1>5 DEF CheckDatabase
  <1>6. CASE ReadDatabase
    BY <1>6 DEF ReadDatabase
  <1>7. CASE NextEntry
    BY <1>7 DEF NextEntry
  <1>8. CASE ReadEntry
    BY <1>8 DEF ReadEntry
  <1>9. CASE CheckChmod \/ Push \/ OpenFile \/ FillFile \/ Crash \/ PowerLoss
    BY <1>9 DEF CheckChmod, Push, Writes, OpenFile, FillFile, Crash, PowerLoss
  <1>10. CASE MakeFolder
    BY <1>10 DEF MakeFolder, FirstFile, Writes
  <1>11. CASE CloseFile
    BY <1>11 DEF CloseFile, Writes, Dropped, DaemonFiles
  <1>12. CASE DaemonEnd
    <2>1. files'["daemon"] = files["daemon"]
      BY <1>12 DEF DaemonEnd, FilesOK
    <2> QED BY <1>12, <2>1 DEF DaemonEnd, program
  <1>13. CASE DaemonStart \/ InstallBsd \/ UNCHANGED vars
    BY <1>13 DEF DaemonStart, InstallBsd, program, vars
  <1>14. CASE Reboot
    BY <1>14 DEF Reboot, program
  <1> QED BY <1>1, <1>2, <1>3, <1>4, <1>5, <1>6, <1>7, <1>8, <1>9, <1>10, <1>11, <1>12,
             <1>13, <1>14 DEF Next, HostStep

LEMMA DatabaseStep == ListOK /\ [Next]_vars => (installed' # {} => "DB" \in exists')
  <1> SUFFICES ASSUME ListOK, [Next]_vars, installed' # {} PROVE "DB" \in exists'
    OBVIOUS
  <1>1. CASE DaemonEnd
    BY <1>1 DEF DaemonEnd
  <1>2. CASE ~DaemonEnd
    <2>1. UNCHANGED installed
      BY <1>2 DEF Next, HostStep, BeginInstall, BeginRemove, BeginList, BeginDaemon, Begin,
           CheckFolder, CheckBinary, CheckDatabase, ReadDatabase, NextEntry, ReadEntry,
           CheckChmod, MakeFolder, Push, OpenFile, FillFile, CloseFile, Crash, DaemonStart,
           Reboot, PowerLoss, Boot, InstallBsd, Asks, daemon, vars
    <2> QED BY <2>1, ExistsGrow DEF ListOK
  <1> QED BY <1>1, <1>2

\* A list has nothing that was not installed while it was made, and with no fault it
\* has everything that was there all the time.
THEOREM ListReportHonest == Spec => ListHonest
  <1>1. Init => ListOK
    BY IdleOp DEF Init, ListOK
  <1>2. TypeInv /\ ListOK /\ [Next]_vars => ListOK'
    BY ListStep, DatabaseStep DEF TypeInv, ListOK
  <1>3. TypeInv /\ ListOK /\ [Next]_vars
        => [Reports([do |-> "list"])
            => found \subseteq ever /\ (clean' => always \subseteq found)]_vars
    <2> SUFFICES ASSUME TypeInv, ListOK, [Next]_vars, Reports([do |-> "list"])
                 PROVE found \subseteq ever /\ (clean' => always \subseteq found)
      OBVIOUS
    <2>1. op.do = "list" /\ (CheckDatabase \/ (NextEntry /\ todo = {}))
      BY EndsWell DEF TypeInv, Reports
    <2>2. found \subseteq ever /\ always \subseteq installed
      BY <2>1 DEF ListOK
    <2>3. CASE CheckDatabase
      BY <2>1, <2>2, <2>3, IdleOp
      DEF CheckDatabase, Step, Move, Reports, Exists, Fault, Folders, ListOK
    <2>4. CASE NextEntry /\ todo = {}
      BY <2>1, <2>2, <2>4 DEF NextEntry, NoFault, ListOK, Left
    <2> QED BY <2>1, <2>2, <2>3, <2>4
  <1> QED BY <1>1, <1>2, <1>3, TypeInvHolds, PTL DEF Spec, ListHonest

=============================================================================
