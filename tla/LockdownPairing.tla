--------------------------- MODULE LockdownPairing ---------------------------
(***************************************************************************)
(* Pairing of core/lockdownd/LockdownDaemonClient.cpp: StartPairedSession  *)
(* and the functions it calls, one action per exchange with the device and *)
(* per access to the pairing record on disk, over any number of attempts,  *)
(* runs of the program and devices.                                        *)
(*                                                                         *)
(* A record is named by the host identifier in it.  The device's lockdownd *)
(* is external: it keeps the host identifiers that it has paired with.     *)
(* Only one program holds the USB interface (find_and_claim), so one       *)
(* thread of control is enough.                                            *)
(***************************************************************************)
EXTENDS Integers, FiniteSets

CONSTANTS
    Devices,    \* devices, by UniqueDeviceID
    HostIds,    \* what Crypto::GenerateUUID can return
    None,       \* no device, or no host identifier
    NoFile,     \* there is no pairing record
    Torn,       \* the record's file is empty or cut short: it does not parse
    Faults      \* bounds: fault |-> how often it may happen, one per behaviour

\* lost: an exchange fails; refuse: the device answers with another error;
\* load, save, flush, remove: the file system fails; crash: the program dies;
\* unplug: the cable is pulled; restore: the device forgets its hosts
FaultNames == {"lost", "refuse", "crypto", "load", "save", "flush", "remove",
               "crash", "unplug", "restore"}

ASSUME PairingAssumption ==
    /\ None \notin Devices
    /\ {None, NoFile, Torn} \cap HostIds = {}
    /\ NoFile # Torn
    /\ Faults \subseteq [FaultNames -> Nat]

VARIABLES
    pc,         \* where StartPairedSession is
    udid,       \* its local variables udid, info (the host identifier)
    info,
    needsPair,
    disk,       \* ~/.ios_pairing_records/<udid>.plist
    issued,     \* the host identifiers generated so far
    plugged,    \* the device on the cable
    linked,     \* the claimed interface still reaches it
    trusted,    \* the hosts that each device has paired with
    unnoticed,  \* the file system has failed and no result told the program
    budget      \* the faults still allowed

locals == <<udid, info, needsPair>>
env == <<plugged, linked, trusted>>
vars == <<pc, locals, disk, issued, env, unnoticed, budget>>

Spend(f) == budget[f] > 0 /\ budget' = [budget EXCEPT ![f] = @ - 1]

-----------------------------------------------------------------------------
(* Exchange and ExchangePlist.                                             *)

\* a request and its response get through
Answered == linked /\ UNCHANGED budget

\* no usable response: the cable is out, or a frame was lost or malformed
Unanswered == (~linked /\ UNCHANGED budget) \/ Spend("lost")

\* the device says no, with an error other than InvalidHostID
Refused == linked /\ Spend("refuse")

\* a step that returns std::nullopt
GiveUp == pc' = "failed"

-----------------------------------------------------------------------------
(* The caller: it opens the client, and drops it when it is done with it.  *)

Open ==
    /\ pc = "idle"
    /\ plugged # None
    /\ pc' = "udid"
    /\ linked' = TRUE
    /\ UNCHANGED <<locals, disk, issued, plugged, trusted, unnoticed, budget>>

Close ==
    /\ pc \in {"failed", "paired"}
    /\ pc' = "idle"
    /\ linked' = FALSE
    /\ udid' = None /\ info' = None /\ needsPair' = TRUE
    /\ UNCHANGED <<disk, issued, plugged, trusted, unnoticed, budget>>

-----------------------------------------------------------------------------
(* StartPairedSession.                                                     *)

GetUniqueDeviceID ==
    /\ pc = "udid"
    /\ \/ Answered /\ udid' = plugged /\ pc' = "load"
       \/ Unanswered /\ GiveUp /\ UNCHANGED udid
    /\ UNCHANGED <<info, needsPair, disk, issued, env, unnoticed>>

\* mutant: a file that exists is taken for a record
LoadPairingRecordTorn ==
    /\ pc = "load"
    /\ disk[udid] # NoFile
    /\ info' = disk[udid] /\ needsPair' = FALSE
    /\ pc' = "start"
    /\ UNCHANGED <<udid, disk, issued, env, unnoticed, budget>>

\* LoadPairingRecordInfo finds a record that parses
LoadPairingRecord ==
    /\ pc = "load"
    /\ disk[udid] \in HostIds
    /\ info' = disk[udid] /\ needsPair' = FALSE
    /\ pc' = "start"
    /\ UNCHANGED <<udid, disk, issued, env, unnoticed, budget>>

\* an identifier that was never issued before; which one makes no difference
GenerateUUID ==
    /\ HostIds \ issued # {}
    /\ info' = CHOOSE h \in HostIds \ issued : TRUE
    /\ issued' = issued \cup {info'}

\* mutant: a new identifier is generated whatever the load returned
GenerateAlways ==
    /\ pc = "load"
    /\ GenerateUUID
    /\ needsPair' = TRUE
    /\ pc' = "key"
    /\ UNCHANGED <<udid, disk, env, unnoticed, budget>>

\* No record, or none that can be read: a new host identifier is generated.
\* LoadPairingRecordInfo does not tell the two apart.
GenerateHostIdentifier ==
    /\ pc = "load"
    /\ \/ disk[udid] \in {NoFile, Torn} /\ UNCHANGED <<budget, unnoticed>>
       \/ disk[udid] \in HostIds /\ Spend("load") /\ unnoticed' = TRUE
    /\ GenerateUUID
    /\ needsPair' = TRUE
    /\ pc' = "key"
    /\ UNCHANGED <<udid, disk, env>>

\* AttemptPair up to the request: keys, DevicePublicKey, certificates
MakeCredentials ==
    /\ pc = "key"
    /\ \/ Answered /\ pc' = "pair"
       \/ (Unanswered \/ Spend("crypto")) /\ GiveUp
    /\ UNCHANGED <<locals, disk, issued, env, unnoticed>>

Trust == trusted' = [trusted EXCEPT ![plugged] = @ \cup {info}]

\* the Pair request: the device may trust the host and the answer get lost
Pair ==
    /\ pc = "pair"
    /\ \/ Answered /\ Trust /\ pc' = "save"
       \/ linked /\ Spend("lost") /\ Trust /\ GiveUp
       \/ (Unanswered \/ Refused) /\ GiveUp /\ UNCHANGED trusted
    /\ UNCHANGED <<locals, disk, issued, plugged, linked, unnoticed>>

\* SavePairingRecordInfo opens the file, which truncates it
OpenRecord ==
    /\ pc = "save"
    /\ \/ disk' = [disk EXCEPT ![udid] = Torn] /\ pc' = "write" /\ UNCHANGED budget
       \/ Spend("save") /\ GiveUp /\ UNCHANGED disk
    /\ UNCHANGED <<locals, issued, env, unnoticed>>

\* mutant: the result of the write is not looked at
WriteRecordUnchecked ==
    /\ pc = "write"
    /\ \/ disk' = [disk EXCEPT ![udid] = info] /\ UNCHANGED budget
       \/ Spend("save") /\ UNCHANGED disk
    /\ pc' = "start"
    /\ UNCHANGED <<locals, issued, env, unnoticed>>

\* file.good() is read before the destructor flushes what write has buffered,
\* so the last failure goes unnoticed
WriteRecord ==
    /\ pc = "write"
    /\ \/ disk' = [disk EXCEPT ![udid] = info] /\ pc' = "start" /\ UNCHANGED <<budget, unnoticed>>
       \/ Spend("save") /\ GiveUp /\ UNCHANGED <<disk, unnoticed>>
       \/ Spend("flush") /\ pc' = "start" /\ unnoticed' = TRUE /\ UNCHANGED disk
    /\ UNCHANGED <<locals, issued, env>>

\* mutant: a saved record is given up on whenever the session does not start
StartSessionImpatient ==
    /\ pc = "start"
    /\ \/ Answered /\ info \in trusted[plugged] /\ pc' = "paired"
       \/ Answered /\ info \notin trusted[plugged] /\ pc' = IF needsPair THEN "failed" ELSE "delete"
       \/ (Unanswered \/ Refused) /\ pc' = IF needsPair THEN "failed" ELSE "delete"
    /\ UNCHANGED <<locals, disk, issued, env, unnoticed>>

\* StartSession; a device that does not know the host says InvalidHostID
StartSession ==
    /\ pc = "start"
    /\ \/ Answered /\ info \in trusted[plugged] /\ pc' = "paired"
       \/ Answered /\ info \notin trusted[plugged] /\ pc' = IF needsPair THEN "failed" ELSE "delete"
       \/ (Unanswered \/ Refused) /\ GiveUp
    /\ UNCHANGED <<locals, disk, issued, env, unnoticed>>

\* mutant: the rejected record stays where it is
KeepRejectedRecord ==
    /\ pc = "delete"
    /\ GiveUp
    /\ UNCHANGED <<locals, disk, issued, env, unnoticed, budget>>

\* the rejected record is removed, if the file system lets it
DeleteRejectedRecord ==
    /\ pc = "delete"
    /\ \/ disk' = [disk EXCEPT ![udid] = NoFile] /\ UNCHANGED budget
       \/ Spend("remove") /\ UNCHANGED disk
    /\ GiveUp
    /\ UNCHANGED <<locals, issued, env, unnoticed>>

-----------------------------------------------------------------------------
(* What may happen at any time.                                            *)

\* the program is killed: what it had written stays as it is
Crash ==
    /\ pc # "idle"
    /\ Spend("crash")
    /\ pc' = "idle"
    /\ linked' = FALSE
    /\ udid' = None /\ info' = None /\ needsPair' = TRUE
    /\ UNCHANGED <<disk, issued, plugged, trusted, unnoticed>>

Unplug ==
    /\ plugged # None
    /\ Spend("unplug")
    /\ plugged' = None /\ linked' = FALSE
    /\ UNCHANGED <<pc, locals, disk, issued, trusted, unnoticed>>

Plug ==
    /\ plugged = None
    /\ plugged' \in Devices
    /\ UNCHANGED <<pc, locals, disk, issued, linked, trusted, unnoticed, budget>>

\* a device is restored, which takes it off the bus
Restore ==
    /\ ~linked
    /\ Spend("restore")
    /\ \E d \in Devices : trusted' = [trusted EXCEPT ![d] = {}]
    /\ UNCHANGED <<pc, locals, disk, issued, plugged, linked, unnoticed>>

-----------------------------------------------------------------------------
Init ==
    /\ pc = "idle"
    /\ udid = None /\ info = None /\ needsPair = TRUE
    /\ disk = [d \in Devices |-> NoFile]
    /\ issued = {}
    /\ plugged = None /\ linked = FALSE
    /\ trusted = [d \in Devices |-> {}]
    /\ unnoticed = FALSE
    /\ budget \in Faults

AttemptStep ==
    \/ GetUniqueDeviceID \/ LoadPairingRecord \/ GenerateHostIdentifier
    \/ MakeCredentials \/ Pair \/ OpenRecord \/ WriteRecord
    \/ StartSession \/ DeleteRejectedRecord

Next == Open \/ Close \/ AttemptStep \/ Crash \/ Unplug \/ Plug \/ Restore

Spec == Init /\ [][Next]_vars

\* The program runs on, and the user does what it asks for after a failure:
\* run it again, or unplug the device and plug it in.
FairSpec == Spec /\ WF_vars(AttemptStep) /\ WF_vars(Open) /\ WF_vars(Close) /\ WF_vars(Plug)

-----------------------------------------------------------------------------
(* Properties.                                                             *)

TypeOK ==
    /\ pc \in {"idle", "udid", "load", "key", "pair", "save", "write", "start", "delete",
               "failed", "paired"}
    /\ udid \in Devices \cup {None}
    /\ pc \notin {"idle", "udid", "failed"} => udid \in Devices
    /\ issued \subseteq HostIds
    /\ info \in issued \cup {None}
    /\ pc \in {"key", "pair", "save", "write", "start", "delete", "paired"} => info \in issued
    /\ needsPair \in BOOLEAN
    /\ disk \in [Devices -> issued \cup {NoFile, Torn}]
    /\ plugged \in Devices \cup {None}
    /\ linked \in BOOLEAN
    /\ pc \in {"idle", "udid"} => udid = None
    /\ linked => plugged \in Devices /\ udid \in {plugged, None}
    /\ trusted \in [Devices -> SUBSET issued]
    /\ unnoticed \in BOOLEAN
    /\ budget \in [FaultNames -> Nat]

\* A session that started is backed by a record on disk that the next run will
\* find, whatever crashed, was restored or failed before (AttemptPair saves
\* before StartPairedSession starts the session).
PairedIsRemembered == pc = "paired" /\ ~unnoticed => disk[udid] = info

\* A record that the device still honours is never touched: neither truncated
\* by a new pairing nor deleted because a session did not start (the two
\* conditions around remove in StartPairedSession).
GoodRecordKept ==
    [][\A d \in Devices : disk[d] \in trusted[d] /\ ~unnoticed' => disk'[d] = disk[d]]_vars

\* The device is asked to trust a new host identifier only when the program
\* holds no record that it honours: retries do not pile up pairings.
NeverPairsTwice ==
    [][\A d \in Devices :
        disk[d] \in trusted[d] /\ ~unnoticed => trusted'[d] \subseteq trusted[d]]_vars

\* "Deleting ... re-run to re-pair": once the failures stop, attempts lead to
\* a paired session again and again; no torn, orphaned or rejected record
\* blocks them for good.
PairsAgain == []<>(pc = "paired")

\* The strengthening: what each step of an attempt knows of the record.
RecordKnown ==
    /\ pc \in {"key", "pair", "save"} => needsPair /\ \A d \in Devices : disk[d] # info
    /\ pc \in {"key", "pair", "save"} /\ ~unnoticed => disk[udid] \notin trusted[udid]
    /\ pc = "write" => needsPair /\ disk[udid] = Torn
    /\ pc \in {"start", "paired"} /\ (~unnoticed \/ ~needsPair) => disk[udid] = info
    /\ pc = "delete" => disk[udid] = info /\ info \notin trusted[udid]
IInv == TypeOK /\ RecordKnown
=============================================================================
