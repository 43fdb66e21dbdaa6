--------------------------- MODULE SlashingProofs ---------------------------
(***************************************************************************)
(* For any vaults, slashers and slashing data: what a slash was judged by  *)
(* stays what the history says of its capture, a request can be executed   *)
(* when its veto period ends, and no call decides anew what of the past    *)
(* may be slashed.                                                         *)
(***************************************************************************)
EXTENDS Slashing, CheckpointsProofs

(* The data were recorded by now, the first of them at the initialization. *)
DataRecorded ==
    /\ slashingData \in Traces(Nat, SlashingData) /\ slashingData # <<>>
    /\ LastKey(slashingData) \in 1 .. now

(* Whatever was slashed or requested was captured before: a change of the  *)
(* data from now on cannot reach it.                                       *)
CapturesArePast ==
    /\ \A s \in slashes : s.captureTimestamp < now
    /\ \A i \in DOMAIN requests : requests[i].captureTimestamp < now

SlashOK(s) ==
    /\ requireSlasherAt(s.captureTimestamp)
    /\ s.at - s.captureTimestamp <= minVaultEpochDurationAt(s.captureTimestamp)

RequestOK(r) ==
    /\ requireSlasherAt(r.captureTimestamp)
    /\ (r.requestedAt + vetoDuration(r.vault)) - r.captureTimestamp
          <= minVaultEpochDurationAt(r.captureTimestamp)
    /\ (r.requestedAt + vetoDuration(r.vault)) - r.captureTimestamp
          <= Info[r.vault].epochDuration

AllOK ==
    /\ \A s \in slashes : SlashOK(s)
    /\ \A i \in DOMAIN requests : RequestOK(requests[i])

IInv == TypeOK /\ DataRecorded /\ CapturesArePast /\ AllOK

-----------------------------------------------------------------------------
LEMMA VetoDurationType ==
    ASSUME NEW v \in Vaults
    PROVE  /\ vetoDuration(v) \in Nat /\ Info[v].epochDuration \in Nat
           /\ Info[v].vetoDuration \in Nat
<1>1. Info[v] \in VaultInfo
  BY SlashingAssumption DEF SlashingAssumption
<1> QED BY <1>1, ProviderAssumption DEF VaultInfo, ProviderAssumption, vetoDuration

LEMMA DataType ==
    ASSUME DataRecorded, NEW timestamp
    PROVE  /\ requireSlasherAt(timestamp) \in BOOLEAN
           /\ minVaultEpochDurationAt(timestamp) \in Nat
<1>1. getSlashingDataAt(timestamp) \in SlashingData \union {<<FALSE, 0>>}
  <2>1. AreKeys(Nat)
    BY DEF AreKeys
  <2> QED BY <2>1, LookupType DEF DataRecorded, getSlashingDataAt
<1>2. getSlashingDataAt(timestamp) \in BOOLEAN \X Nat
  <2>1. SlashingData \subseteq BOOLEAN \X Nat
    BY SlashingAssumption, ProviderAssumption
    DEF SlashingAssumption, ProviderAssumption
  <2>2. <<FALSE, 0>> \in BOOLEAN \X Nat
    OBVIOUS
  <2> QED BY <1>1, <2>1, <2>2, Zenon
<1> QED BY <1>2 DEF requireSlasherAt, minVaultEpochDurationAt

(* New data take effect now and leave the past as it was.                  *)
DataPushed(data) ==
    /\ TypeOK => /\ Sorted(slashingData')
                 /\ \A i \in DOMAIN slashingData' : slashingData'[i].value \in SlashingData
    /\ slashingData' \in Traces(Nat, SlashingData) /\ slashingData' # <<>>
    /\ LastKey(slashingData') = now
    /\ \A time \in Nat : time < now =>
          getSlashingDataAt(time)' = getSlashingDataAt(time)

LEMMA PushingData ==
    ASSUME DataRecorded, now \in 1 .. MaxTime, NEW data \in SlashingData,
           slashingData' = Push(slashingData, SlashingDataFrom, data)
    PROVE  DataPushed(data)
<1>1. /\ AreKeys(Nat) /\ now \in Nat /\ slashingData \in Traces(Nat, SlashingData)
      /\ CanPush(slashingData, now)
  BY SlashingAssumption DEF SlashingAssumption, DataRecorded, AreKeys, CanPush
<1>2. slashingData' = Push(slashingData, now, data)
  BY DEF SlashingDataFrom
<1>3. /\ slashingData' \in Traces(Nat, SlashingData) /\ slashingData' # <<>>
      /\ LastKey(slashingData') = now
  BY <1>1, <1>2, PushType
<1>4. ASSUME NEW time \in Nat, time < now
      PROVE  UpperLookupRecent(slashingData', time, <<FALSE, 0>>)
                = UpperLookupRecent(slashingData, time, <<FALSE, 0>>)
  <2>1. ~(time >= now)
    BY <1>1, <1>4
  <2> QED BY <1>1, <1>2, <2>1, LookupAfterPush
<1>5. /\ Sorted(slashingData')
      /\ \A i \in DOMAIN slashingData' : slashingData'[i].value \in SlashingData
  <2>1. /\ Sorted(slashingData')
        /\ \A i \in 1..Len(slashingData') : slashingData'[i].value \in SlashingData
        /\ slashingData' \in Seq([key : Nat, value : SlashingData])
    BY <1>1, <1>3, TraceShape
  <2> QED BY <2>1
<1> QED BY <1>3, <1>4, <1>5 DEF DataPushed, getSlashingDataAt

LEMMA InitHolds == Init => IInv
<1> SUFFICES ASSUME Init PROVE IInv OBVIOUS
<1>1. PICK data \in SlashingData : slashingData = Push(<<>>, SlashingDataFrom, data)
  BY DEF Init
<1>2. now = 1 /\ now \in Nat /\ requests = <<>> /\ slashes = {} /\ slasher \in Slashers
  BY DEF Init
<1>3. /\ <<>> \in Traces(Nat, SlashingData) /\ AreKeys(Nat) /\ CanPush(<<>>, now)
  BY DEF Traces, Sorted, AreKeys, CanPush
<1>4. /\ slashingData \in Traces(Nat, SlashingData) /\ slashingData # <<>>
      /\ LastKey(slashingData) = now
  BY <1>1, <1>2, <1>3, PushType DEF SlashingDataFrom
<1>5. /\ Sorted(slashingData)
      /\ \A i \in DOMAIN slashingData : slashingData[i].value \in SlashingData
  <2>1. /\ Sorted(slashingData)
        /\ \A i \in 1..Len(slashingData) : slashingData[i].value \in SlashingData
        /\ slashingData \in Seq([key : Nat, value : SlashingData])
    BY <1>3, <1>4, TraceShape
  <2> QED BY <2>1
<1>6. now \in 1 .. MaxTime
  BY <1>2, SlashingAssumption DEF SlashingAssumption
<1>7. TypeOK /\ DataRecorded
  BY <1>2, <1>4, <1>5, <1>6 DEF TypeOK, DataRecorded
<1>8. CapturesArePast /\ AllOK
  BY <1>2 DEF CapturesArePast, AllOK
<1> QED BY <1>7, <1>8 DEF IInv

-----------------------------------------------------------------------------
LEMMA SetSlashingDataHolds ==
    ASSUME IInv, setSlashingData PROVE IInv'
<1>1. PICK data \in SlashingData :
         slashingData' = Push(slashingData, SlashingDataFrom, data)
  BY DEF setSlashingData
<1>2. UNCHANGED <<slasher, requests, slashes, now>>
  BY DEF setSlashingData
<1>3. TypeOK /\ now \in 1 .. MaxTime /\ now \in Nat
  BY SlashingAssumption DEF IInv, TypeOK, SlashingAssumption
<1>4. DataPushed(data)
  BY <1>1, <1>3, PushingData DEF IInv
<1>5. TypeOK' /\ DataRecorded'
  BY <1>2, <1>3, <1>4 DEF TypeOK, DataRecorded, DataPushed
<1>6. \A time \in Nat : time < now =>
         /\ requireSlasherAt(time)' = requireSlasherAt(time)
         /\ minVaultEpochDurationAt(time)' = minVaultEpochDurationAt(time)
  BY <1>4 DEF DataPushed, requireSlasherAt, minVaultEpochDurationAt
<1>7. ASSUME NEW s \in slashes PROVE SlashOK(s)'
  <2>1. s.captureTimestamp \in Nat /\ s.captureTimestamp < now /\ SlashOK(s)
    BY <1>3 DEF IInv, AllOK, TypeOK, Slash, CapturesArePast
  <2> QED BY <1>6, <2>1 DEF SlashOK
<1>8. ASSUME NEW i \in DOMAIN requests PROVE RequestOK(requests[i])'
  <2>1. requests[i] \in Request
    BY <1>3 DEF TypeOK
  <2>2. /\ requests[i].captureTimestamp \in Nat
        /\ requests[i].captureTimestamp < now /\ RequestOK(requests[i])
    BY <2>1 DEF IInv, AllOK, Request, CapturesArePast
  <2> QED BY <1>2, <1>6, <2>2 DEF RequestOK, vetoDuration
<1>9. AllOK'
  BY <1>2, <1>7, <1>8 DEF AllOK
<1> QED BY <1>2, <1>5, <1>9 DEF IInv, CapturesArePast

LEMMA SlashVaultInstantHolds ==
    ASSUME IInv, slashVaultInstant PROVE IInv'
<1>1. PICK v \in Vaults, timestamp \in 0 .. now :
        /\ MaySlash(slasher, v, timestamp) /\ CoreAccepts(v, timestamp)
        /\ slashes' = slashes \union
              {[vault |-> v, captureTimestamp |-> timestamp, at |-> now]}
  BY DEF slashVaultInstant, MaySlash
<1>2. UNCHANGED <<slashingData, slasher, requests, now>>
  BY DEF slashVaultInstant
<1>3. TypeOK /\ now \in Nat /\ timestamp \in Nat
  BY SlashingAssumption DEF IInv, TypeOK, SlashingAssumption
<1> DEFINE new == [vault |-> v, captureTimestamp |-> timestamp, at |-> now]
<1>4. new \in Slash /\ TypeOK'
  BY <1>1, <1>2, <1>3 DEF TypeOK, Slash
<1>5. timestamp < now
  BY <1>1 DEF CoreAccepts
<1>6. SlashOK(new)
  <2>1. /\ requireSlasherAt(timestamp)
        /\ (now - timestamp) + vetoDuration(v) <= minVaultEpochDurationAt(timestamp)
    BY <1>1 DEF MaySlash, Slashable, RequestIsFresh
  <2>2. vetoDuration(v) \in Nat /\ minVaultEpochDurationAt(timestamp) \in Nat
    BY VetoDurationType, DataType DEF IInv
  <2>3. now - timestamp <= minVaultEpochDurationAt(timestamp)
    BY <1>3, <2>1, <2>2
  <2> QED BY <2>1, <2>3 DEF SlashOK
<1>7. \A s : SlashOK(s)' <=> SlashOK(s)
  BY <1>2 DEF SlashOK, requireSlasherAt, minVaultEpochDurationAt, getSlashingDataAt
<1>8. \A r : RequestOK(r)' <=> RequestOK(r)
  BY <1>2 DEF RequestOK, requireSlasherAt, minVaultEpochDurationAt, getSlashingDataAt
<1> HIDE DEF new
<1>9. AllOK'
  BY <1>1, <1>2, <1>6, <1>7, <1>8 DEF IInv, AllOK, new
<1>10. CapturesArePast'
  BY <1>1, <1>2, <1>5 DEF IInv, CapturesArePast
<1> QED BY <1>2, <1>4, <1>9, <1>10 DEF IInv, DataRecorded

LEMMA SlashVaultVetoHolds ==
    ASSUME IInv, slashVaultVeto PROVE IInv'
<1>1. PICK v \in Vaults, timestamp \in 0 .. now :
        /\ MaySlash(slasher, v, timestamp) /\ CoreAccepts(v, timestamp)
        /\ requests' = Append(requests,
              [vault |-> v, captureTimestamp |-> timestamp,
               requestedAt |-> now, completed |-> FALSE])
  BY DEF slashVaultVeto, MaySlash
<1>2. UNCHANGED <<slashingData, slasher, slashes, now>>
  BY DEF slashVaultVeto
<1>3. TypeOK /\ now \in Nat /\ timestamp \in Nat
  BY SlashingAssumption DEF IInv, TypeOK, SlashingAssumption
<1> DEFINE new == [vault |-> v, captureTimestamp |-> timestamp,
                   requestedAt |-> now, completed |-> FALSE]
<1>4. new \in Request /\ requests \in Seq(Request)
  BY <1>3 DEF TypeOK, Request
<1>5. /\ requests' \in Seq(Request)
      /\ \A i \in DOMAIN requests' :
            \/ requests'[i] = new
            \/ i \in DOMAIN requests /\ requests'[i] = requests[i]
  <2> HIDE DEF new
  <2>1. requests' = Append(requests, new)
    BY <1>1 DEF new
  <2> QED BY <1>4, <2>1
<1>6. TypeOK'
  BY <1>2, <1>3, <1>5 DEF TypeOK
<1>7. RequestOK(new)
  <2>1. /\ requireSlasherAt(timestamp)
        /\ (now - timestamp) + vetoDuration(v) <= minVaultEpochDurationAt(timestamp)
        /\ (now - timestamp) + vetoDuration(v) <= Info[v].epochDuration
    BY <1>1 DEF MaySlash, Slashable, RequestIsFresh, CoreAccepts
  <2>2. vetoDuration(v) \in Nat
    BY VetoDurationType
  <2>3. (now + vetoDuration(v)) - timestamp = (now - timestamp) + vetoDuration(v)
    BY <1>3, <2>2
  <2> QED BY <2>1, <2>3 DEF RequestOK
<1>8. /\ \A s : SlashOK(s)' <=> SlashOK(s)
      /\ \A r : RequestOK(r)' <=> RequestOK(r)
  BY <1>2
  DEF SlashOK, RequestOK, requireSlasherAt, minVaultEpochDurationAt, getSlashingDataAt
<1>9. new.captureTimestamp < now
  BY <1>1 DEF CoreAccepts
<1> HIDE DEF new
<1>10. AllOK'
  BY <1>2, <1>5, <1>7, <1>8 DEF IInv, AllOK
<1>11. CapturesArePast'
  BY <1>2, <1>5, <1>9 DEF IInv, CapturesArePast
<1> QED BY <1>2, <1>6, <1>10, <1>11 DEF IInv, DataRecorded

(* A request completes, by its execution or by a veto.                     *)
LEMMA CompletedRequest ==
    ASSUME IInv, NEW i \in DOMAIN requests,
           requests' = [requests EXCEPT ![i].completed = TRUE]
    PROVE  /\ requests' \in Seq(Request) /\ DOMAIN requests' = DOMAIN requests
           /\ \A j \in DOMAIN requests :
                 /\ requests[j] \in Request
                 /\ requests'[j].vault = requests[j].vault
                 /\ requests'[j].captureTimestamp = requests[j].captureTimestamp
                 /\ requests'[j].requestedAt = requests[j].requestedAt
<1>1. requests \in Seq(Request)
  BY DEF IInv, TypeOK
<1>2. \A j \in DOMAIN requests : requests[j] \in Request
  BY <1>1
<1>3. [requests[i] EXCEPT !.completed = TRUE] \in Request
  BY <1>2 DEF Request
<1>4. requests' = [requests EXCEPT ![i] = [requests[i] EXCEPT !.completed = TRUE]]
  BY <1>1
<1>5. requests' \in Seq(Request) /\ DOMAIN requests' = DOMAIN requests
  BY <1>1, <1>3, <1>4
<1>6. ASSUME NEW j \in DOMAIN requests
      PROVE  /\ requests'[j].vault = requests[j].vault
             /\ requests'[j].captureTimestamp = requests[j].captureTimestamp
             /\ requests'[j].requestedAt = requests[j].requestedAt
  BY <1>1, <1>2, <1>4 DEF Request
<1> QED BY <1>2, <1>5, <1>6

LEMMA RequestsStayOK ==
    ASSUME IInv, UNCHANGED slashingData, DOMAIN requests' = DOMAIN requests,
           \A j \in DOMAIN requests :
              /\ requests'[j].vault = requests[j].vault
              /\ requests'[j].captureTimestamp = requests[j].captureTimestamp
              /\ requests'[j].requestedAt = requests[j].requestedAt
    PROVE  /\ \A s : SlashOK(s)' <=> SlashOK(s)
           /\ \A j \in DOMAIN requests' : RequestOK(requests[j])'
<1>1. /\ \A s : SlashOK(s)' <=> SlashOK(s)
      /\ \A r : RequestOK(r)' <=> RequestOK(r)
  BY DEF SlashOK, RequestOK, requireSlasherAt, minVaultEpochDurationAt, getSlashingDataAt
<1>2. ASSUME NEW j \in DOMAIN requests PROVE RequestOK(requests'[j])
  <2>1. RequestOK(requests[j])
    BY DEF IInv, AllOK
  <2> QED BY <2>1 DEF RequestOK
<1> QED BY <1>1, <1>2

LEMMA ExecuteSlashVaultHolds ==
    ASSUME IInv, executeSlashVault PROVE IInv'
<1>1. PICK i \in DOMAIN requests :
        /\ ExecutionIsFresh(requests[i].captureTimestamp)
        /\ requests' = [requests EXCEPT ![i].completed = TRUE]
        /\ slashes' = slashes \union
              {[vault |-> requests[i].vault,
                captureTimestamp |-> requests[i].captureTimestamp, at |-> now]}
  BY DEF executeSlashVault
<1>2. UNCHANGED <<slashingData, slasher, now>>
  BY DEF executeSlashVault
<1>3. TypeOK /\ now \in Nat
  BY SlashingAssumption DEF IInv, TypeOK, SlashingAssumption
<1>4. /\ requests' \in Seq(Request) /\ DOMAIN requests' = DOMAIN requests
      /\ \A j \in DOMAIN requests :
            /\ requests[j] \in Request
            /\ requests'[j].vault = requests[j].vault
            /\ requests'[j].captureTimestamp = requests[j].captureTimestamp
            /\ requests'[j].requestedAt = requests[j].requestedAt
  BY <1>1, CompletedRequest
<1> DEFINE new == [vault |-> requests[i].vault,
                   captureTimestamp |-> requests[i].captureTimestamp, at |-> now]
<1>5. new \in Slash /\ new.captureTimestamp < now
  BY <1>3, <1>4 DEF Slash, Request, IInv, CapturesArePast
<1>6. SlashOK(new)
  <2>1. requireSlasherAt(requests[i].captureTimestamp)
    BY DEF IInv, AllOK, RequestOK
  <2>2. now - requests[i].captureTimestamp
           <= minVaultEpochDurationAt(requests[i].captureTimestamp)
    BY <1>1 DEF ExecutionIsFresh
  <2> QED BY <2>1, <2>2 DEF SlashOK
<1> HIDE DEF new
<1>7. slashes' = slashes \union {new}
  BY <1>1 DEF new
<1>8. TypeOK'
  BY <1>2, <1>3, <1>4, <1>5, <1>7 DEF TypeOK
<1>9. AllOK'
  <2>1. /\ \A s : SlashOK(s)' <=> SlashOK(s)
        /\ \A j \in DOMAIN requests' : RequestOK(requests[j])'
    BY <1>2, <1>4, RequestsStayOK
  <2> QED BY <1>6, <1>7, <2>1 DEF IInv, AllOK
<1>10. CapturesArePast'
  BY <1>2, <1>4, <1>5, <1>7 DEF IInv, CapturesArePast
<1> QED BY <1>2, <1>8, <1>9, <1>10 DEF IInv, DataRecorded

LEMMA VetoSlashHolds ==
    ASSUME IInv, VetoSlash PROVE IInv'
<1>1. PICK i \in DOMAIN requests :
        requests' = [requests EXCEPT ![i].completed = TRUE]
  BY DEF VetoSlash
<1>2. UNCHANGED <<slashingData, slasher, slashes, now>>
  BY DEF VetoSlash
<1>3. /\ requests' \in Seq(Request) /\ DOMAIN requests' = DOMAIN requests
      /\ \A j \in DOMAIN requests :
            /\ requests[j] \in Request
            /\ requests'[j].vault = requests[j].vault
            /\ requests'[j].captureTimestamp = requests[j].captureTimestamp
            /\ requests'[j].requestedAt = requests[j].requestedAt
  BY <1>1, CompletedRequest
<1>4. TypeOK'
  BY <1>2, <1>3 DEF IInv, TypeOK
<1>5. AllOK'
  <2>1. /\ \A s : SlashOK(s)' <=> SlashOK(s)
        /\ \A j \in DOMAIN requests' : RequestOK(requests[j])'
    BY <1>2, <1>3, RequestsStayOK
  <2> QED BY <1>2, <2>1 DEF IInv, AllOK
<1>6. CapturesArePast'
  BY <1>2, <1>3 DEF IInv, CapturesArePast
<1> QED BY <1>2, <1>4, <1>5, <1>6 DEF IInv, DataRecorded

(* A call or a tick that leaves the data, the requests and the slashes.    *)
LEMMA RestHolds ==
    ASSUME IInv, UNCHANGED <<slashingData, requests, slashes>>,
           slasher' \in Slashers, now' = now \/ (now < MaxTime /\ now' = now + 1)
    PROVE  IInv'
<1>1. TypeOK /\ now \in Nat /\ now \in 1 .. MaxTime /\ MaxTime \in Nat
  BY SlashingAssumption DEF IInv, TypeOK, SlashingAssumption
<1>2. now' \in Nat /\ now' \in 1 .. MaxTime /\ now <= now'
  BY <1>1
<1>3. LastKey(slashingData) \in 1 .. now'
  BY <1>1, <1>2 DEF TypeOK
<1>4. TypeOK' /\ DataRecorded'
  BY <1>2, <1>3 DEF IInv, TypeOK, DataRecorded
<1>5. /\ \A s : SlashOK(s)' <=> SlashOK(s)
      /\ \A r : RequestOK(r)' <=> RequestOK(r)
  BY DEF SlashOK, RequestOK, requireSlasherAt, minVaultEpochDurationAt, getSlashingDataAt
<1>6. AllOK'
  BY <1>5 DEF IInv, AllOK
<1>7. CapturesArePast'
  <2>1. \A s \in slashes : s.captureTimestamp \in Nat
    BY <1>1 DEF TypeOK, Slash
  <2>2. \A i \in DOMAIN requests : requests[i].captureTimestamp \in Nat
    <3>1. requests \in Seq(Request)
      BY <1>1 DEF TypeOK
    <3>2. \A i \in DOMAIN requests : requests[i] \in Request
      BY <3>1
    <3> QED BY <3>2 DEF Request
  <2>3. /\ \A s \in slashes : s.captureTimestamp < now'
        /\ \A i \in DOMAIN requests : requests[i].captureTimestamp < now'
    BY <1>1, <1>2, <2>1, <2>2 DEF IInv, CapturesArePast
  <2> QED BY <2>3 DEF CapturesArePast
<1> QED BY <1>4, <1>6, <1>7 DEF IInv

-----------------------------------------------------------------------------
LEMMA StepHolds == IInv /\ [Next]_vars => IInv'
<1> SUFFICES ASSUME IInv, [Next]_vars PROVE IInv' OBVIOUS
<1>1. slasher \in Slashers
  BY DEF IInv, TypeOK
<1>2. CASE setSlashingData
  BY <1>2, SetSlashingDataHolds
<1>3. CASE setSlasher
  BY <1>3, RestHolds DEF setSlasher
<1>4. CASE slashVaultInstant
  BY <1>4, SlashVaultInstantHolds
<1>5. CASE slashVaultVeto
  BY <1>5, SlashVaultVetoHolds
<1>6. CASE executeSlashVault
  BY <1>6, ExecuteSlashVaultHolds
<1>7. CASE VetoSlash
  BY <1>7, VetoSlashHolds
<1>8. CASE Tick
  BY <1>1, <1>8, RestHolds DEF Tick
<1>9. CASE UNCHANGED vars
  BY <1>1, <1>9, RestHolds DEF vars
<1> QED BY <1>2, <1>3, <1>4, <1>5, <1>6, <1>7, <1>8, <1>9 DEF Next

LEMMA InvariantHolds == Spec => []IInv
BY InitHolds, StepHolds, PTL DEF Spec

(* The data in force are the last recorded, never ones to come.            *)
THEOREM TypesHold == Spec => []TypeOK
<1>1. IInv => TypeOK
  BY DEF IInv
<1> QED BY <1>1, InvariantHolds, PTL

(* Whatever setSlashingData records later, every slash and every request   *)
(* was of a capture at which slashing was required, within the minimum     *)
(* epoch of that time (slashVault, executeSlashVault).                     *)
THEOREM SlashesHold == Spec => []SlashedWhenRequired
<1>1. IInv => SlashedWhenRequired
  BY DEF IInv, AllOK, SlashOK, RequestOK, SlashedWhenRequired
<1> QED BY <1>1, InvariantHolds, PTL

(* An accepted request is stale neither for this contract nor for the      *)
(* vault's slasher when its veto period ends (slash, executeSlash).        *)
THEOREM RequestsHold == Spec => []RequestsCanBeExecuted
<1>1. IInv => RequestsCanBeExecuted
  <2> SUFFICES ASSUME IInv, NEW i \in DOMAIN requests
               PROVE  LET r == requests[i]
                          deadline == r.requestedAt + vetoDuration(r.vault)
                      IN  /\ deadline - r.captureTimestamp
                                <= minVaultEpochDurationAt(r.captureTimestamp)
                          /\ deadline - r.captureTimestamp
                                <= Info[r.vault].epochDuration
    BY DEF RequestsCanBeExecuted
  <2>1. RequestOK(requests[i])
    BY DEF IInv, AllOK
  <2> QED BY <2>1 DEF RequestOK
<1> QED BY <1>1, InvariantHolds, PTL

(* A step that adds data now or lets time pass decides nothing anew of a   *)
(* capture of the past.                                                    *)
LEMMA PastStays ==
    ASSUME IInv, now' = now \/ now' = now + 1,
           NEW v \in Vaults, NEW timestamp \in 1 .. now - 1,
           getSlashingDataAt(timestamp)' = getSlashingDataAt(timestamp)
    PROVE  /\ Slashable(v, timestamp)' => Slashable(v, timestamp)
           /\ now' = now => (Slashable(v, timestamp) => Slashable(v, timestamp)')
<1>1. PICK min \in Nat, veto \in Nat :
         min = minVaultEpochDurationAt(timestamp) /\ veto = vetoDuration(v)
  BY DataType, VetoDurationType DEF IInv
<1>2. /\ requireSlasherAt(timestamp)' = requireSlasherAt(timestamp)
      /\ minVaultEpochDurationAt(timestamp)' = min /\ vetoDuration(v)' = veto
  BY <1>1 DEF requireSlasherAt, minVaultEpochDurationAt, vetoDuration
<1>3. /\ RequestIsFresh(v, timestamp) <=> (now - timestamp) + veto <= min
      /\ RequestIsFresh(v, timestamp)' <=> (now' - timestamp) + veto <= min
  BY <1>1, <1>2 DEF RequestIsFresh
<1>4. /\ (now' - timestamp) + veto <= min => (now - timestamp) + veto <= min
      /\ now' = now =>
            ((now - timestamp) + veto <= min => (now' - timestamp) + veto <= min)
  <2>1. now \in Nat /\ timestamp \in Nat
    BY SlashingAssumption DEF IInv, TypeOK, SlashingAssumption
  <2> QED BY <2>1
<1>5. RequestIsFresh(v, timestamp)' => RequestIsFresh(v, timestamp)
  BY <1>3, <1>4, Zenon
<1>6. now' = now => (RequestIsFresh(v, timestamp) => RequestIsFresh(v, timestamp)')
  BY <1>3, <1>4, Zenon
<1> QED BY <1>2, <1>5, <1>6, Zenon DEF Slashable

(* Neither setSlashingData nor setSlasher exposes the stake of a past      *)
(* capture to a slash or takes it out of reach, and time only does the     *)
(* latter (_setSlashingData, getSlashingDataAt).                           *)
THEOREM PastSlashabilityHolds == Spec => PastSlashabilityIsFinal
<1> DEFINE Decided ==
      \A v \in Vaults, timestamp \in 1 .. now - 1 :
         /\ Slashable(v, timestamp)' => Slashable(v, timestamp)
         /\ now' = now => (Slashable(v, timestamp) => Slashable(v, timestamp)')
<1>1. ASSUME IInv, [Next]_vars PROVE Decided
  <2> USE <1>1
  <2>1. now \in Nat /\ now \in 1 .. MaxTime
    BY SlashingAssumption DEF IInv, TypeOK, SlashingAssumption
  <2>2. now' = now \/ now' = now + 1
    BY DEF Next, vars, setSlashingData, setSlasher, slashVaultInstant,
                slashVaultVeto, executeSlashVault, VetoSlash, Tick
  <2>3. \A time \in Nat : time < now =>
           getSlashingDataAt(time)' = getSlashingDataAt(time)
    <3>1. CASE setSlashingData
      <4>1. PICK data \in SlashingData :
               slashingData' = Push(slashingData, SlashingDataFrom, data)
        BY <3>1 DEF setSlashingData
      <4> QED BY <2>1, <4>1, PushingData DEF IInv, DataPushed
    <3>2. CASE slashingData' = slashingData
      BY <3>2 DEF getSlashingDataAt
    <3> QED BY <3>1, <3>2 DEF Next, vars, setSlasher, slashVaultInstant,
               slashVaultVeto, executeSlashVault, VetoSlash, Tick
  <2> SUFFICES ASSUME NEW v \in Vaults, NEW timestamp \in 1 .. now - 1
               PROVE  /\ Slashable(v, timestamp)' => Slashable(v, timestamp)
                      /\ now' = now =>
                            (Slashable(v, timestamp) => Slashable(v, timestamp)')
    OBVIOUS
  <2>4. timestamp \in Nat /\ timestamp < now
    BY <2>1
  <2>5. getSlashingDataAt(timestamp)' = getSlashingDataAt(timestamp)
    BY <2>3, <2>4
  <2> QED BY <2>2, <2>5, PastStays
<1> HIDE DEF Decided
<1>2. IInv /\ [Next]_vars => [Decided]_vars
  BY <1>1
<1>3. Spec => [][Decided]_vars
  BY <1>2, InvariantHolds, PTL DEF Spec
<1> QED BY <1>3, PTL DEF PastSlashabilityIsFinal, Decided
=============================================================================
