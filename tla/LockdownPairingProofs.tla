------------------------ MODULE LockdownPairingProofs ------------------------
(* Theorems about LockdownPairing, for every set of devices, of host       *)
(* identifiers and of faults.                                              *)
EXTENDS LockdownPairing, TLAPS

\* Spending a fault keeps the bounds natural numbers.
LEMMA SpendType ==
  ASSUME NEW f \in FaultNames, budget \in [FaultNames -> Nat], Spend(f)
  PROVE  budget' \in [FaultNames -> Nat]
<1>1. budget[f] \in Nat /\ budget[f] > 0
  BY DEF Spend
<1>2. budget[f] - 1 \in Nat
  BY <1>1
<1> QED BY <1>2 DEF Spend

\* Every action keeps the bounds: it leaves them alone or spends one fault.
LEMMA BudgetType ==
  ASSUME budget \in [FaultNames -> Nat], Next
  PROVE  budget' \in [FaultNames -> Nat]
<1>1. UNCHANGED budget \/ \E f \in FaultNames : Spend(f)
  <2> USE DEF FaultNames
  <2>1. CASE AttemptStep
    BY <2>1 DEF AttemptStep, GetUniqueDeviceID, LoadPairingRecord, GenerateHostIdentifier,
       MakeCredentials, Pair, OpenRecord, WriteRecord, StartSession, DeleteRejectedRecord,
       Answered, Unanswered, Refused
  <2>2. CASE Open \/ Close \/ Crash \/ Unplug \/ Plug \/ Restore
    BY <2>2 DEF Open, Close, Crash, Unplug, Plug, Restore
  <2> QED BY <2>1, <2>2 DEF Next
<1> QED BY <1>1, SpendType

\* The initial state has its types, and no attempt is under way.
LEMMA InitInvariant == Init => IInv
  BY PairingAssumption DEF Init, IInv, TypeOK, RecordKnown

\* A new host identifier is one, and no file or device knows it yet.
LEMMA FreshIdentifier ==
  ASSUME IInv, GenerateUUID
  PROVE  /\ info' \in issued' /\ info' \in HostIds /\ issued \subseteq issued' /\ issued' \subseteq HostIds
         /\ \A d \in Devices : disk[d] # info' /\ info' \notin trusted[d]
<1>1. info' \in HostIds \ issued
  BY DEF GenerateUUID
<1>2. issued' = issued \cup {info'}
  BY DEF GenerateUUID
<1>3. ASSUME NEW d \in Devices PROVE disk[d] # info' /\ info' \notin trusted[d]
  <2>1. disk[d] \in issued \cup {NoFile, Torn} /\ trusted[d] \subseteq issued
    BY DEF IInv, TypeOK
  <2> QED BY <1>1, <2>1, PairingAssumption
<1> QED BY <1>1, <1>2, <1>3 DEF IInv, TypeOK

\* Every step of an attempt keeps the invariant.
LEMMA AttemptInvariant == IInv /\ AttemptStep => IInv'
<1> SUFFICES ASSUME IInv, AttemptStep PROVE IInv'
  OBVIOUS
<1> USE DEF locals, env
<1>0. budget' \in [FaultNames -> Nat]
  BY BudgetType DEF IInv, TypeOK, Next
<1>1. CASE GetUniqueDeviceID
  <2>1. /\ pc = "udid"
        /\ \/ linked /\ udid' = plugged /\ pc' = "load"
           \/ udid' = udid /\ pc' = "failed"
        /\ UNCHANGED <<info, needsPair, disk, issued, env, unnoticed>>
    BY <1>1 DEF GetUniqueDeviceID, Answered, GiveUp
  <2>2. TypeOK'
    BY <1>0, <2>1 DEF IInv, TypeOK
  <2>3. RecordKnown'
    BY <2>1 DEF RecordKnown
  <2> QED BY <2>2, <2>3 DEF IInv
<1>2. CASE LoadPairingRecord
  <2>1. udid \in Devices /\ disk[udid] \in issued
    BY <1>2, PairingAssumption DEF LoadPairingRecord, IInv, TypeOK
  <2> QED BY <1>0, <1>2, <2>1, PairingAssumption DEF LoadPairingRecord, IInv, TypeOK, RecordKnown
<1>3. CASE GenerateHostIdentifier
  <2>1. /\ info' \in issued' /\ info' \in HostIds /\ issued \subseteq issued' /\ issued' \subseteq HostIds
        /\ \A d \in Devices : disk[d] # info' /\ info' \notin trusted[d]
    BY <1>3, FreshIdentifier DEF GenerateHostIdentifier
  <2>2. /\ pc = "load" /\ pc' = "key" /\ needsPair' = TRUE
        /\ UNCHANGED <<udid, disk, env>>
        /\ \/ disk[udid] \in {NoFile, Torn} /\ unnoticed' = unnoticed
           \/ unnoticed' = TRUE
    BY <1>3 DEF GenerateHostIdentifier
  <2>3. udid \in Devices /\ trusted[udid] \subseteq HostIds
    BY <2>2 DEF IInv, TypeOK
  <2>4. TypeOK'
    BY <1>0, <2>1, <2>2 DEF IInv, TypeOK
  <2>5. RecordKnown'
    BY <2>1, <2>2, <2>3, PairingAssumption DEF RecordKnown
  <2> QED BY <2>4, <2>5 DEF IInv
<1>4. CASE MakeCredentials
  BY <1>0, <1>4 DEF MakeCredentials, GiveUp, IInv, TypeOK, RecordKnown
<1>5. CASE Pair
  <2>1. /\ pc = "pair" /\ pc' \in {"save", "failed"}
        /\ UNCHANGED <<locals, disk, issued, plugged, linked, unnoticed>>
        /\ UNCHANGED trusted \/ (linked /\ Trust)
    BY <1>5 DEF Pair, GiveUp, Answered
  <2>2. udid \in Devices /\ info \in issued /\ disk[udid] # info
    BY <2>1 DEF IInv, TypeOK, RecordKnown
  <2>3. linked => plugged = udid
    BY <2>1, <2>2, PairingAssumption DEF IInv, TypeOK
  <2>4. TypeOK'
    BY <1>0, <2>1, <2>2, <2>3 DEF IInv, TypeOK, Trust
  <2>5. ASSUME ~unnoticed PROVE disk[udid] \notin trusted'[udid]
    BY <2>1, <2>2, <2>3, <2>5 DEF IInv, TypeOK, RecordKnown, Trust
  <2>6. RecordKnown'
    BY <2>1, <2>5 DEF IInv, RecordKnown
  <2> QED BY <2>4, <2>6 DEF IInv
<1>6. CASE OpenRecord
  <2>1. udid \in Devices
    BY <1>6 DEF OpenRecord, IInv, TypeOK
  <2> QED BY <1>0, <1>6, <2>1 DEF OpenRecord, GiveUp, IInv, TypeOK, RecordKnown
<1>7. CASE WriteRecord
  <2>1. udid \in Devices /\ info \in issued
    BY <1>7 DEF WriteRecord, IInv, TypeOK
  <2> QED BY <1>0, <1>7, <2>1 DEF WriteRecord, GiveUp, IInv, TypeOK, RecordKnown
<1>8. CASE StartSession
  <2>1. /\ pc = "start"
        /\ \/ pc' = "failed"
           \/ pc' = "paired"
           \/ pc' = "delete" /\ linked /\ info \notin trusted[plugged]
        /\ pc' = "delete" => ~needsPair
        /\ UNCHANGED <<locals, disk, issued, env, unnoticed>>
    BY <1>8 DEF StartSession, Answered, GiveUp
  <2>2. udid \in Devices /\ info \in issued /\ (linked => plugged = udid)
    BY <2>1, PairingAssumption DEF IInv, TypeOK
  <2>3. TypeOK'
    BY <1>0, <2>1, <2>2 DEF IInv, TypeOK
  <2>4. RecordKnown'
    BY <2>1, <2>2 DEF IInv, RecordKnown
  <2> QED BY <2>3, <2>4 DEF IInv
<1>9. CASE DeleteRejectedRecord
  BY <1>0, <1>9 DEF DeleteRejectedRecord, GiveUp, IInv, TypeOK, RecordKnown
<1> QED BY <1>1, <1>2, <1>3, <1>4, <1>5, <1>6, <1>7, <1>8, <1>9 DEF AttemptStep

\* So does everything that may happen between two steps of an attempt.
LEMMA EnvironmentInvariant ==
  IInv /\ (Open \/ Close \/ Crash \/ Unplug \/ Plug \/ Restore) => IInv'
<1> SUFFICES ASSUME IInv, Open \/ Close \/ Crash \/ Unplug \/ Plug \/ Restore PROVE IInv'
  OBVIOUS
<1> USE DEF locals, env, IInv, TypeOK, RecordKnown
<1>0. budget' \in [FaultNames -> Nat]
  BY BudgetType DEF Next
<1>1. CASE Open
  BY <1>0, <1>1 DEF Open
<1>2. CASE Close
  BY <1>0, <1>2 DEF Close
<1>3. CASE Crash
  BY <1>0, <1>3 DEF Crash
<1>4. CASE Unplug
  BY <1>0, <1>4 DEF Unplug
<1>5. CASE Plug
  BY <1>0, <1>5 DEF Plug
<1>6. CASE Restore
  BY <1>0, <1>6 DEF Restore
<1> QED BY <1>1, <1>2, <1>3, <1>4, <1>5, <1>6

\* The strengthening is an invariant.
LEMMA InvariantAlways == Spec => []IInv
<1>1. IInv /\ [Next]_vars => IInv'
  <2>1. IInv /\ Next => IInv'
    BY AttemptInvariant, EnvironmentInvariant DEF Next
  <2>2. IInv /\ UNCHANGED vars => IInv'
    BY DEF IInv, TypeOK, RecordKnown, vars, locals, env
  <2> QED BY <2>1, <2>2
<1> QED BY InitInvariant, <1>1, PTL DEF Spec

\* Every variable keeps its type; what is on disk and what the devices trust
\* are identifiers that this program has issued.
THEOREM PairingTypeCorrect == Spec => []TypeOK
<1>1. IInv => TypeOK
  BY DEF IInv
<1> QED BY InvariantAlways, <1>1, PTL

\* A session that started has its record on disk (AttemptPair, StartSession).
THEOREM PairedRemembered == Spec => []PairedIsRemembered
<1>1. IInv => PairedIsRemembered
  BY DEF IInv, RecordKnown, PairedIsRemembered
<1> QED BY InvariantAlways, <1>1, PTL

\* What a step may do to a record that its device honours: nothing.
LEMMA StepKeepsRecord ==
  ASSUME IInv, [Next]_vars, NEW d \in Devices, disk[d] \in trusted[d], ~unnoticed'
  PROVE  disk'[d] = disk[d]
<1> USE DEF locals, env
<1>0. disk[d] \in HostIds /\ disk[d] # Torn /\ disk \in [Devices -> issued \cup {NoFile, Torn}]
  BY PairingAssumption DEF IInv, TypeOK
<1>1. CASE OpenRecord
  <2>1. d # udid
    BY <1>1 DEF OpenRecord, IInv, RecordKnown
  <2> QED BY <1>0, <1>1, <2>1 DEF OpenRecord
<1>2. CASE WriteRecord
  <2>1. d # udid
    BY <1>0, <1>2 DEF WriteRecord, IInv, RecordKnown
  <2> QED BY <1>0, <1>2, <2>1 DEF WriteRecord
<1>3. CASE DeleteRejectedRecord
  <2>1. d # udid
    BY <1>3 DEF DeleteRejectedRecord, IInv, RecordKnown
  <2> QED BY <1>0, <1>3, <2>1 DEF DeleteRejectedRecord
<1>4. CASE ~(OpenRecord \/ WriteRecord \/ DeleteRejectedRecord)
  <2>1. UNCHANGED disk
    BY <1>4 DEF Next, AttemptStep, GetUniqueDeviceID, LoadPairingRecord,
       GenerateHostIdentifier, MakeCredentials, Pair, StartSession, Open, Close, Crash,
       Unplug, Plug, Restore, vars
  <2> QED BY <2>1
<1> QED BY <1>1, <1>2, <1>3, <1>4

\* No attempt, failure or crash destroys a record that its device honours
\* (AttemptPair is only reached without one, remove only on InvalidHostID).
THEOREM GoodRecordsKept == Spec => GoodRecordKept
<1>1. IInv /\ [Next]_vars =>
        [\A d \in Devices : disk[d] \in trusted[d] /\ ~unnoticed' => disk'[d] = disk[d]]_vars
  BY StepKeepsRecord
<1> QED BY InvariantAlways, <1>1, PTL DEF Spec, GoodRecordKept

\* What a step may add to the hosts of a device whose record is honoured.
LEMMA StepKeepsTrust ==
  ASSUME IInv, [Next]_vars, NEW d \in Devices, disk[d] \in trusted[d], ~unnoticed
  PROVE  trusted'[d] \subseteq trusted[d]
<1> USE DEF locals, env
<1>1. CASE Pair
  <2>1. udid \in Devices /\ udid # None /\ d # udid
    BY <1>1, PairingAssumption DEF Pair, IInv, TypeOK, RecordKnown
  <2>2. UNCHANGED trusted \/ (linked /\ Trust)
    BY <1>1 DEF Pair, Answered
  <2>3. linked => plugged = udid
    BY <1>1, <2>1 DEF Pair, IInv, TypeOK
  <2> QED BY <2>1, <2>2, <2>3 DEF Trust, IInv, TypeOK
<1>2. CASE Restore
  BY <1>2 DEF Restore, IInv, TypeOK
<1>3. CASE ~(Pair \/ Restore)
  <2>1. UNCHANGED trusted
    BY <1>3 DEF Next, AttemptStep, GetUniqueDeviceID, LoadPairingRecord,
       GenerateHostIdentifier, MakeCredentials, OpenRecord, WriteRecord, StartSession,
       DeleteRejectedRecord, Open, Close, Crash, Unplug, Plug, vars
  <2> QED BY <2>1
<1> QED BY <1>1, <1>2, <1>3

\* A device whose record is honoured is never asked to trust another host.
THEOREM NoSecondPairing == Spec => NeverPairsTwice
<1>1. IInv /\ [Next]_vars =>
        [\A d \in Devices :
            disk[d] \in trusted[d] /\ ~unnoticed => trusted'[d] \subseteq trusted[d]]_vars
  BY StepKeepsTrust
<1> QED BY InvariantAlways, <1>1, PTL DEF Spec, NeverPairsTwice
=============================================================================
