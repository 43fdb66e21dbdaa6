-------------------------- MODULE SettlementProofs --------------------------
(***************************************************************************)
(* For any epochs, headers, extra data and verifiers, with geneses that    *)
(* rewind the last epoch included: the storage is that of a header chain,  *)
(* every commit was vouched for by the header below it, captures follow    *)
(* the order of the chain and the past is final.                           *)
(***************************************************************************)
EXTENDS Settlement, SigVerifiers, CheckpointsProofs

(* The verifiers form a trace that starts at epoch 0.                      *)
FromZero(s) ==
    /\ Sorted(s.sigVerifier) /\ s.sigVerifier # <<>>
    /\ s.sigVerifier[1].key = 0

(* No verifier is recorded beyond the epoch after some committed one, even *)
(* when a genesis has rewound the last epoch to below that one.            *)
NothingAhead ==
    \E epoch \in Committed \cup {0} : LastKey(settlement.sigVerifier) <= epoch + 1

IInv ==
    /\ StorageConsistent /\ FromZero(settlement) /\ NothingAhead
    /\ ChainOfTrust /\ CaptureOrder
    /\ ~rewound => AtHead /\ VouchedByRecorded

-----------------------------------------------------------------------------
(* Of the entries for a key, one comes last.                               *)
LEMMA LastEntryExists ==
    ASSUME NEW extra \in Seq(ExtraEntry), NEW key,
           \E i \in 1..Len(extra) : extra[i].key = key
    PROVE  LastEntry(extra, key) \in 1..Len(extra)
<1> DEFINE n == Len(extra)
           S == {d \in Nat : n - d \in 1..n /\ extra[n - d].key = key}
<1>0. n \in Nat
  OBVIOUS
<1>1. PICK i \in 1..n : extra[i].key = key
  OBVIOUS
<1>2. n - i \in Nat /\ n - (n - i) = i
  BY <1>0
<1>3. n - i \in S
  BY <1>1, <1>2
<1>4. PICK d \in S : \A k \in S : d <= k
  <2>1. S \subseteq Nat
    OBVIOUS
  <2> HIDE DEF S
  <2> QED BY <1>3, <2>1, LeastNumber
<1>5. ASSUME NEW j \in 1..n, extra[j].key = key PROVE j <= n - d
  <2>1. n - j \in Nat /\ n - (n - j) = j
    BY <1>0
  <2>2. n - j \in S
    BY <1>5, <2>1
  <2>3. d \in Nat /\ d <= n - j
    BY <1>4, <2>2
  <2> HIDE DEF S
  <2> QED BY <1>0, <2>3
<1>6. n - d \in 1..n /\ extra[n - d].key = key
  BY <1>4
<1> QED BY <1>5, <1>6 DEF LastEntry

LEMMA StoreExtraType ==
    ASSUME NEW extra \in Seq(ExtraEntry),
           NEW stored \in [ExtraKeys -> ExtraValues]
    PROVE  StoreExtra(stored, extra) \in [ExtraKeys -> ExtraValues]
<1>1. ASSUME NEW key \in ExtraKeys,
             \E i \in 1..Len(extra) : extra[i].key = key
      PROVE  extra[LastEntry(extra, key)].value \in ExtraValues
  <2>1. LastEntry(extra, key) \in 1..Len(extra)
    BY <1>1, LastEntryExists
  <2>2. extra[LastEntry(extra, key)] \in ExtraEntry
    BY <2>1, ElementIn
  <2> QED BY <2>2 DEF ExtraEntry
<1> QED BY <1>1 DEF StoreExtra

-----------------------------------------------------------------------------
(* The trace of verifiers of a storage that satisfies the invariant.       *)
LEMMA VerifierTrace ==
    ASSUME NEW s \in Storage, FromZero(s)
    PROVE  /\ s.sigVerifier \in Traces(Nat, Verifiers) /\ AreKeys(Nat)
           /\ LastEpoch(s) \in Epochs /\ LastEpoch(s) \in Nat
           /\ LastKey(s.sigVerifier) \in Nat
           /\ InForce(s) \in 1..Len(s.sigVerifier)
           /\ getSigVerifier(s) \in Verifiers
<1> DEFINE trace == s.sigVerifier
<1>1. /\ trace \in Seq([key : Nat, value : Verifiers])
      /\ LastEpoch(s) \in Epochs
  BY DEF Storage, LastEpoch
<1>2. trace \in Traces(Nat, Verifiers) /\ AreKeys(Nat)
  BY <1>1 DEF Traces, FromZero, AreKeys
<1>3. LastEpoch(s) \in Nat
  BY <1>1, HandlersAssumption DEF HandlersAssumption
<1>4. /\ Len(trace) \in Nat /\ Len(trace) \in 1..Len(trace)
      /\ LastKey(trace) \in Nat
      /\ \A j \in 1..Len(trace) : trace[j].value \in Verifiers
  BY <1>2, TraceShape DEF FromZero
<1>5. LastKey(trace) > LastEpoch(s) => Len(trace) # 1
  <2> SUFFICES ASSUME Len(trace) = 1 PROVE LastKey(trace) = 0
    BY <1>3
  <2> QED BY DEF LastKey, FromZero
<1>6. InForce(s) \in 1..Len(trace)
  <2> HIDE DEF trace
  <2>1. Len(trace) - 1 \in 1..Len(trace) \/ Len(trace) = 1
    <3>1. \A n \in Nat : n \in 1..n => n - 1 \in 1..n \/ n = 1
      OBVIOUS
    <3> QED BY <1>4, <3>1
  <2>2. LastKey(trace) <= LastEpoch(s) \/ LastKey(trace) > LastEpoch(s)
    BY <1>3, <1>4
  <2>3. CASE LastKey(trace) <= LastEpoch(s)
    BY <1>4, <2>3 DEF InForce, trace
  <2>4. CASE ~(LastKey(trace) <= LastEpoch(s))
    BY <1>5, <2>1, <2>2, <2>4 DEF InForce, trace
  <2> QED BY <2>3, <2>4
<1> QED BY <1>1, <1>2, <1>3, <1>4, <1>6 DEF getSigVerifier

(* With nothing ahead, the verifier in force is the recorded one.          *)
LEMMA InForceIsRecorded ==
    ASSUME NEW s \in Storage, FromZero(s),
           LastKey(s.sigVerifier) <= LastEpoch(s) + 1
    PROVE  getSigVerifier(s)
              = getSigVerifierAt(s, LastEpoch(s))
<1> DEFINE trace == s.sigVerifier
           last == LastEpoch(s)
<1>1. /\ trace \in Traces(Nat, Verifiers) /\ AreKeys(Nat) /\ last \in Nat
      /\ LastKey(trace) \in Nat /\ InForce(s) \in 1..Len(trace)
  BY VerifierTrace
<1>2. /\ Len(trace) \in Nat /\ Len(trace) \in 1..Len(trace) /\ Sorted(trace)
      /\ \A j \in 1..Len(trace) : /\ trace[j].key \in Nat
                                  /\ trace[j].key <= LastKey(trace)
  BY <1>1, TraceShape DEF FromZero
<1>3. IsUpper(trace, last, InForce(s))
  <2>1. CASE LastKey(trace) <= last
    BY <1>1, <1>2, <2>1 DEF InForce, IsUpper, LastKey
  <2>2. CASE LastKey(trace) > last
    <3>1. LastKey(trace) = last + 1 /\ InForce(s) = Len(trace) - 1
      BY <1>1, <2>2 DEF InForce
    <3>2. trace[Len(trace) - 1].key < trace[Len(trace)].key
      BY <1>1, <1>2, <3>1 DEF Sorted
    <3>3. trace[Len(trace) - 1].key <= last
      BY <1>1, <1>2, <3>1, <3>2 DEF LastKey
    <3>4. \A j \in 1..Len(trace) : trace[j].key <= last => j <= Len(trace) - 1
      BY <1>1, <1>2, <3>1 DEF LastKey
    <3> QED BY <1>1, <3>1, <3>3, <3>4 DEF IsUpper
  <2> QED BY <1>1, <2>1, <2>2
<1> QED BY <1>2, <1>3, LookupFinds DEF getSigVerifier, getSigVerifierAt

(* At its head the contract has nothing recorded beyond the next epoch.    *)
LEMMA HeadIsRecorded ==
    ASSUME TypeOK, FromZero(settlement), NothingAhead, AtHead
    PROVE  /\ getSigVerifier(settlement)
                 = getSigVerifierAt(settlement, LastEpoch(settlement))
           /\ CanPush(settlement.sigVerifier, LastEpoch(settlement) + 1)
<1>1. /\ settlement \in Storage /\ LastEpoch(settlement) \in Nat
      /\ LastKey(settlement.sigVerifier) \in Nat
  BY VerifierTrace DEF TypeOK
<1>2. PICK epoch \in Committed \cup {0} :
         LastKey(settlement.sigVerifier) <= epoch + 1
  BY DEF NothingAhead
<1>3. epoch \in Nat /\ epoch <= LastEpoch(settlement)
  BY <1>1, HandlersAssumption DEF AtHead, Committed, HandlersAssumption
<1>4. LastKey(settlement.sigVerifier) <= LastEpoch(settlement) + 1
  BY <1>1, <1>2, <1>3
<1> QED BY <1>1, <1>4, InForceIsRecorded DEF CanPush

-----------------------------------------------------------------------------
LEMMA InitHolds == Init => IInv
<1> SUFFICES ASSUME Init PROVE IInv OBVIOUS
<1>1. PICK v \in Verifiers : settlement = Initialized(v)
  BY DEF Init
<1>2. /\ LastEpoch(settlement) = 0
      /\ settlement.sigVerifier = <<[key |-> 0, value |-> v]>>
      /\ \A epoch \in Epochs :
            /\ settlement.valSetHeader[epoch] = NoHeader
            /\ settlement.extraData[epoch] = [key \in ExtraKeys |-> NoValue]
  BY <1>1 DEF Initialized, LastEpoch, Checkpoint
<1>3. Committed = {}
  BY <1>2 DEF Committed, IsCommittedAt, NoHeader
<1>4. TypeOK
  <2>1. NoHeader \in Header
    BY HandlersAssumption DEF HandlersAssumption, NoHeader, Header
  <2>2. [key \in ExtraKeys |-> NoValue] \in [ExtraKeys -> ExtraValues]
    BY HandlersAssumption DEF HandlersAssumption
  <2>3. <<[key |-> 0, value |-> v]>> \in Seq([key : Nat, value : Verifiers])
    OBVIOUS
  <2>4. settlement \in Storage
    BY <1>1, <2>1, <2>2, <2>3, HandlersAssumption
    DEF HandlersAssumption, Initialized, Storage, Checkpoint
  <2>5. now \in 0..MaxTime
    BY SettlementAssumption DEF Init, SettlementAssumption
  <2>6. vouched \in [Epochs -> {<<>>} \cup Query] /\ rewound \in BOOLEAN
    BY DEF Init
  <2> QED BY <2>4, <2>5, <2>6 DEF TypeOK
<1>5. StorageConsistent
  BY <1>2, <1>3, <1>4 DEF StorageConsistent
<1>6. FromZero(settlement) /\ LastKey(settlement.sigVerifier) = 0
  BY <1>2 DEF FromZero, Sorted, LastKey
<1>7. NothingAhead
  BY <1>2, <1>3, <1>6 DEF NothingAhead
<1>8. ChainOfTrust /\ CaptureOrder
  BY <1>3 DEF Init, ChainOfTrust, CaptureOrder
<1>9. AtHead /\ VouchedByRecorded
  BY <1>3 DEF Init, AtHead, VouchedByRecorded
<1> QED BY <1>5, <1>6, <1>7, <1>8, <1>9 DEF IInv

-----------------------------------------------------------------------------
(* What storing a header - a genesis or a commit - does to the storage.    *)
HeaderStored(header) ==
    /\ header \in Header /\ header.version = 1
    /\ header.epoch \in Epochs /\ header.epoch \notin Committed
    /\ LastHeader(settlement).captureTimestamp < header.captureTimestamp
    /\ header.captureTimestamp < now /\ now' = now
    /\ LastEpoch(settlement)' = header.epoch
    /\ settlement'.sigVerifier = settlement.sigVerifier
    /\ settlement'.valSetHeader[header.epoch] = header
    /\ \A epoch \in Epochs : epoch # header.epoch =>
          /\ settlement'.valSetHeader[epoch] = settlement.valSetHeader[epoch]
          /\ settlement'.extraData[epoch] = settlement.extraData[epoch]
    /\ Committed' = Committed \cup {header.epoch}
    /\ LastHeader(settlement)' = header
    /\ settlement' \in Storage

LEMMA StoringHeader ==
    ASSUME TypeOK, NEW header \in Candidates, NEW extra \in Extras,
           CanSetValSetHeader(settlement, header, extra, now),
           settlement' = AfterSetValSetHeader(settlement, header, extra),
           now' = now
    PROVE  HeaderStored(header)
<1>1. /\ header \in Header /\ extra \in Seq(ExtraEntry)
      /\ header.epoch \in Epochs /\ header.version = 1
  BY SettlementAssumption
  DEF SettlementAssumption, Header, CanSetValSetHeader, VALIDATOR_SET_VERSION
<1>2. settlement \in Storage
  BY DEF TypeOK
<1>3. StoreExtra(settlement.extraData[header.epoch], extra)
         \in [ExtraKeys -> ExtraValues]
  <2>1. settlement.extraData[header.epoch] \in [ExtraKeys -> ExtraValues]
    BY <1>1, <1>2 DEF Storage
  <2> QED BY <1>1, <2>1, StoreExtraType
<1>4. settlement' =
        [lastCommittedHeaderEpoch |-> header.epoch,
         sigVerifier |-> settlement.sigVerifier,
         valSetHeader |-> [settlement.valSetHeader EXCEPT ![header.epoch] = header],
         extraData |-> [settlement.extraData EXCEPT ![header.epoch] =
             StoreExtra(settlement.extraData[header.epoch], extra)]]
  BY <1>1, <1>2 DEF AfterSetValSetHeader, Storage
<1>5. settlement' \in Storage
  BY <1>1, <1>2, <1>3, <1>4 DEF Storage
<1>6. /\ LastEpoch(settlement)' = header.epoch
      /\ settlement'.sigVerifier = settlement.sigVerifier
      /\ settlement'.valSetHeader[header.epoch] = header
      /\ \A epoch \in Epochs : epoch # header.epoch =>
            /\ settlement'.valSetHeader[epoch] = settlement.valSetHeader[epoch]
            /\ settlement'.extraData[epoch] = settlement.extraData[epoch]
  BY <1>1, <1>2, <1>4 DEF LastEpoch, Storage
<1>7. header.epoch \notin Committed
  BY DEF CanSetValSetHeader, Committed
<1>8. Committed' = Committed \cup {header.epoch}
  BY <1>1, <1>6 DEF Committed, IsCommittedAt
<1>9. LastHeader(settlement)' = header
  BY <1>6 DEF LastHeader
<1>10. /\ LastHeader(settlement).captureTimestamp < header.captureTimestamp
       /\ header.captureTimestamp < now
  <2>1. /\ header.captureTimestamp > LastHeader(settlement).captureTimestamp
        /\ header.captureTimestamp < now
    BY DEF CanSetValSetHeader
  <2>2. LastHeader(settlement) \in Header
    BY <1>2 DEF Storage, LastHeader, LastEpoch
  <2> QED BY <1>1, <2>1, <2>2 DEF Header
<1> QED BY <1>1, <1>5, <1>6, <1>7, <1>8, <1>9, <1>10 DEF HeaderStored

(* The parts of the invariant that storing a header keeps, whoever does it.*)
LEMMA HeaderKeeps ==
    ASSUME IInv, NEW header, HeaderStored(header),
           vouched' \in [Epochs -> {<<>>} \cup Query], rewound' \in BOOLEAN,
           rewound' = (rewound \/ header.epoch < LastEpoch(settlement))
    PROVE  /\ StorageConsistent' /\ FromZero(settlement') /\ NothingAhead'
           /\ CaptureOrder'
           /\ ~rewound' => AtHead'
<1> DEFINE h == header.epoch
           last == LastEpoch(settlement)
<1>1. /\ header \in Header /\ header.version = 1 /\ h \in Epochs
      /\ h \notin Committed /\ now' = now
      /\ LastHeader(settlement).captureTimestamp < header.captureTimestamp
      /\ header.captureTimestamp < now
      /\ LastEpoch(settlement)' = h /\ LastHeader(settlement)' = header
      /\ settlement'.sigVerifier = settlement.sigVerifier
      /\ settlement'.valSetHeader[h] = header
      /\ \A epoch \in Epochs : epoch # h =>
            /\ settlement'.valSetHeader[epoch] = settlement.valSetHeader[epoch]
            /\ settlement'.extraData[epoch] = settlement.extraData[epoch]
      /\ Committed' = Committed \cup {h}
      /\ settlement' \in Storage
  BY DEF HeaderStored
<1>2. /\ TypeOK /\ StorageConsistent /\ FromZero(settlement) /\ NothingAhead
      /\ CaptureOrder /\ now \in Nat
  BY SettlementAssumption
  DEF IInv, StorageConsistent, TypeOK, SettlementAssumption
<1>3. /\ Committed \subseteq Epochs /\ Epochs \subseteq Nat
      /\ last \in Epochs /\ last \in Nat /\ h \in Nat
  BY <1>1, <1>2, HandlersAssumption
  DEF Committed, HandlersAssumption, TypeOK, Storage, LastEpoch
<1>r. ~rewound' => ~rewound /\ last <= h
  <2>1. ~rewound' => ~rewound /\ ~(h < last)
    BY Zenon
  <2> QED BY <1>3, <2>1
<1>4. StorageConsistent'
  <2>1. TypeOK'
    BY <1>1, <1>2 DEF TypeOK
  <2>2. \A epoch \in Committed' : settlement'.valSetHeader[epoch].epoch = epoch
    BY <1>1, <1>2, <1>3 DEF StorageConsistent
  <2>3. \A epoch \in Epochs \ Committed' :
           settlement'.extraData[epoch] = [key \in ExtraKeys |-> NoValue]
    BY <1>1, <1>2 DEF StorageConsistent
  <2>4. LastEpoch(settlement)' \in Committed'
    BY <1>1
  <2> QED BY <2>1, <2>2, <2>3, <2>4, Zenon DEF StorageConsistent
<1>5. FromZero(settlement')
  BY <1>1, <1>2 DEF FromZero
<1>6. NothingAhead'
  <2>1. PICK epoch \in Committed \cup {0} :
           LastKey(settlement.sigVerifier) <= epoch + 1
    BY <1>2 DEF NothingAhead
  <2>2. epoch \in Committed' \cup {0}
    BY <1>1
  <2> QED BY <1>1, <2>1, <2>2 DEF NothingAhead
<1>a. ASSUME ~rewound' PROVE AtHead'
  <2>1. ~rewound /\ last <= h
    BY <1>r, <1>a
  <2>2. \A epoch \in Committed : epoch <= last
    BY <2>1 DEF IInv, AtHead
  <2>3. \A epoch \in Committed' : epoch <= h
    BY <1>1, <1>3, <2>1, <2>2
  <2> QED BY <1>1, <2>3 DEF AtHead
<1>7. CaptureOrder'
  <2> DEFINE capture(e) == settlement.valSetHeader[e].captureTimestamp
  <2>1. \A e \in Epochs : capture(e) \in Nat
    BY <1>2 DEF TypeOK, Storage, Header
  <2>2. header.captureTimestamp \in Nat
    BY <1>1 DEF Header
  <2>3. \A e \in Committed : capture(e) < now /\ capture(e) < header.captureTimestamp
    <3>1. \A e \in Committed : e # last => capture(e) < capture(last)
      BY <1>2 DEF CaptureOrder, LastHeader
    <3>2. capture(last) < header.captureTimestamp
      BY <1>1 DEF LastHeader
    <3>3. \A e \in Committed : capture(e) < now
      BY <1>2 DEF CaptureOrder
    <3> QED BY <1>3, <2>1, <2>2, <3>1, <3>2, <3>3
  <2>4. \A e \in Committed : settlement'.valSetHeader[e].captureTimestamp = capture(e)
    BY <1>1, <1>3
  <2>5. settlement'.valSetHeader[h].captureTimestamp = header.captureTimestamp
    BY <1>1
  <2>6. \A e \in Committed' :
           /\ settlement'.valSetHeader[e].captureTimestamp < now'
           /\ e # LastEpoch(settlement)' =>
                 settlement'.valSetHeader[e].captureTimestamp
                    < LastHeader(settlement)'.captureTimestamp
    BY <1>1, <2>3, <2>4, <2>5
  <2>7. ASSUME ~rewound', NEW e \in Committed', NEW f \in Committed', e < f
        PROVE  settlement'.valSetHeader[e].captureTimestamp
                  < settlement'.valSetHeader[f].captureTimestamp
    <3>1. ~rewound /\ last <= h
      BY <1>r, <2>7
    <3>2. \A g \in Committed : g <= last
      BY <3>1 DEF IInv, AtHead
    <3>3. e # h
      BY <1>1, <1>3, <2>7, <3>1, <3>2
    <3>4. e \in Committed
      BY <1>1, <3>3
    <3>5. CASE f = h
      BY <2>3, <2>4, <2>5, <3>4, <3>5
    <3>6. CASE f # h
      <4>1. f \in Committed
        BY <1>1, <3>6
      <4>2. capture(e) < capture(f)
        BY <1>2, <2>7, <3>1, <3>4, <4>1 DEF CaptureOrder
      <4> QED BY <2>4, <3>4, <4>1, <4>2
    <3> QED BY <3>5, <3>6
  <2> QED BY <2>6, <2>7, Zenon DEF CaptureOrder
<1> QED BY <1>4, <1>5, <1>6, <1>7, <1>a

-----------------------------------------------------------------------------
LEMMA SetGenesisHolds ==
    ASSUME IInv, NEW header \in Candidates, NEW extra \in Extras,
           setGenesis(header, extra)
    PROVE  IInv'
<1>1. /\ CanSetValSetHeader(settlement, header, extra, now)
      /\ settlement' = AfterSetValSetHeader(settlement, header, extra)
      /\ now' = now /\ vouched' = vouched
      /\ rewound' = (rewound \/ header.epoch < LastEpoch(settlement))
  BY DEF setGenesis
<1>2. TypeOK /\ FromZero(settlement) /\ ChainOfTrust
  BY DEF IInv, StorageConsistent
<1>3. HeaderStored(header)
  BY <1>1, <1>2, StoringHeader
<1>4. vouched' \in [Epochs -> {<<>>} \cup Query]
  BY <1>1, <1>2 DEF TypeOK
<1>5. rewound' \in BOOLEAN
  BY <1>1, Zenon
<1>6. /\ StorageConsistent' /\ FromZero(settlement') /\ NothingAhead'
      /\ CaptureOrder'
      /\ ~rewound' => AtHead'
  BY <1>1, <1>3, <1>4, <1>5, HeaderKeeps
<1>7. /\ header.epoch \in Epochs /\ header.epoch \notin Committed
      /\ Committed' = Committed \cup {header.epoch}
      /\ LastEpoch(settlement)' = header.epoch
      /\ settlement'.sigVerifier = settlement.sigVerifier
      /\ \A epoch \in Epochs : epoch # header.epoch =>
            settlement'.valSetHeader[epoch] = settlement.valSetHeader[epoch]
  BY <1>3 DEF HeaderStored
<1>8. ChainOfTrust'
  <2> SUFFICES ASSUME NEW epoch \in Epochs, vouched[epoch] # <<>>
               PROVE  /\ epoch \in Committed' /\ epoch - 1 \in Committed'
                      /\ LET below == settlement'.valSetHeader[epoch - 1]
                         IN  /\ vouched[epoch].epoch = epoch - 1
                             /\ vouched[epoch].keyTag = below.requiredKeyTag
                             /\ vouched[epoch].quorumThreshold = below.quorumThreshold
    BY <1>1, Zenon DEF ChainOfTrust
  <2>1. epoch \in Committed /\ epoch - 1 \in Committed
    BY <1>2 DEF ChainOfTrust
  <2>2. settlement'.valSetHeader[epoch - 1] = settlement.valSetHeader[epoch - 1]
    BY <1>7, <2>1 DEF Committed
  <2> QED BY <1>2, <1>7, <2>1, <2>2 DEF ChainOfTrust
<1>9. ASSUME ~rewound' PROVE VouchedByRecorded'
  <2>1. VouchedByRecorded
    BY <1>1, <1>9, Zenon DEF IInv
  <2>2. \A epoch : getSigVerifierAt(settlement', epoch) = getSigVerifierAt(settlement, epoch)
    BY <1>7 DEF getSigVerifierAt
  <2> QED BY <1>1, <2>1, <2>2 DEF VouchedByRecorded
<1> QED BY <1>6, <1>8, <1>9 DEF IInv

LEMMA CommitHolds ==
    ASSUME IInv, NEW header \in Candidates, NEW extra \in Extras,
           commitValSetHeader(header, extra)
    PROVE  IInv'
<1> DEFINE h == header.epoch
           last == LastEpoch(settlement)
           query == QuorumQuery(settlement)
<1>1. /\ CanSetValSetHeader(settlement, header, extra, now)
      /\ settlement' = AfterSetValSetHeader(settlement, header, extra)
      /\ now' = now /\ vouched' = [vouched EXCEPT ![h] = query]
      /\ rewound' = rewound /\ h = last + 1
      /\ IsCommittedAt(settlement, last)
  BY DEF commitValSetHeader, CanCommit
<1>2. TypeOK /\ FromZero(settlement) /\ ChainOfTrust
  BY DEF IInv, StorageConsistent
<1>3. HeaderStored(header)
  BY <1>1, <1>2, StoringHeader
<1>4. /\ last \in Epochs /\ last \in Nat /\ getSigVerifier(settlement) \in Verifiers
      /\ LastHeader(settlement) \in Header /\ last \in Committed
  <2>1. LastHeader(settlement) \in Header
    BY <1>2, VerifierTrace DEF TypeOK, LastHeader, Storage
  <2> QED BY <1>1, <1>2, <2>1, VerifierTrace DEF TypeOK, Committed
<1>5. query = [verifier |-> getSigVerifier(settlement), epoch |-> last,
               keyTag |-> LastHeader(settlement).requiredKeyTag,
               quorumThreshold |-> LastHeader(settlement).quorumThreshold]
  BY DEF QuorumQuery
<1>6. query \in Query
  BY <1>4, <1>5 DEF Query, Header
<1> HIDE DEF query
<1>7. vouched' \in [Epochs -> {<<>>} \cup Query] /\ vouched'[h] = query
      /\ \A epoch \in Epochs : epoch # h => vouched'[epoch] = vouched[epoch]
  <2>1. h \in Epochs
    BY <1>3 DEF HeaderStored
  <2> QED BY <1>1, <1>2, <1>6, <2>1 DEF TypeOK
<1>8. rewound' \in BOOLEAN
  BY <1>1, <1>2, Zenon DEF TypeOK
<1>9. rewound' = (rewound \/ h < last)
  <2>1. ~(h < last)
    BY <1>1, <1>4
  <2>2. rewound \in BOOLEAN
    BY <1>2 DEF TypeOK
  <2> QED BY <1>1, <2>1, <2>2, Zenon
<1>10. /\ StorageConsistent' /\ FromZero(settlement') /\ NothingAhead'
       /\ CaptureOrder'
       /\ ~rewound' => AtHead'
  BY <1>3, <1>7, <1>8, <1>9, HeaderKeeps
<1>11. /\ h \in Epochs /\ h \notin Committed
       /\ Committed' = Committed \cup {h}
       /\ LastEpoch(settlement)' = h
       /\ settlement'.sigVerifier = settlement.sigVerifier
       /\ \A epoch \in Epochs : epoch # h =>
             settlement'.valSetHeader[epoch] = settlement.valSetHeader[epoch]
  BY <1>3 DEF HeaderStored
<1>12. ChainOfTrust'
  <2> SUFFICES ASSUME NEW epoch \in Epochs, vouched'[epoch] # <<>>
               PROVE  /\ epoch \in Committed' /\ epoch - 1 \in Committed'
                      /\ LET below == settlement'.valSetHeader[epoch - 1]
                         IN  /\ vouched'[epoch].epoch = epoch - 1
                             /\ vouched'[epoch].keyTag = below.requiredKeyTag
                             /\ vouched'[epoch].quorumThreshold = below.quorumThreshold
    BY Zenon DEF ChainOfTrust
  <2>1. CASE epoch = h
    <3>1. epoch - 1 = last /\ last # h
      BY <1>1, <1>4, <2>1
    <3>2. settlement'.valSetHeader[last] = LastHeader(settlement)
      BY <1>4, <1>11, <3>1 DEF LastHeader
    <3>3. /\ query.epoch = last
          /\ query.keyTag = LastHeader(settlement).requiredKeyTag
          /\ query.quorumThreshold = LastHeader(settlement).quorumThreshold
      BY <1>5
    <3> QED BY <1>4, <1>7, <1>11, <2>1, <3>1, <3>2, <3>3
  <2>2. CASE epoch # h
    <3>1. vouched[epoch] # <<>> /\ vouched'[epoch] = vouched[epoch]
      BY <1>7, <2>2
    <3>2. epoch \in Committed /\ epoch - 1 \in Committed
      BY <1>2, <3>1 DEF ChainOfTrust
    <3>3. settlement'.valSetHeader[epoch - 1] = settlement.valSetHeader[epoch - 1]
      BY <1>11, <3>2 DEF Committed
    <3> QED BY <1>2, <1>11, <3>1, <3>2, <3>3 DEF ChainOfTrust
  <2> QED BY <2>1, <2>2
<1>13. ASSUME ~rewound' PROVE VouchedByRecorded'
  <2>1. AtHead /\ VouchedByRecorded
    BY <1>1, <1>13, Zenon DEF IInv
  <2>2. getSigVerifier(settlement) = getSigVerifierAt(settlement, last)
    BY <1>2, <2>1, HeadIsRecorded DEF IInv
  <2>3. \A epoch : getSigVerifierAt(settlement', epoch) = getSigVerifierAt(settlement, epoch)
    BY <1>11 DEF getSigVerifierAt
  <2>4. ASSUME NEW epoch \in Epochs, vouched'[epoch] # <<>>
        PROVE  vouched'[epoch].verifier = getSigVerifierAt(settlement', epoch - 1)
    <3>1. CASE epoch = h
      <4>1. vouched'[epoch].verifier = getSigVerifier(settlement) /\ epoch - 1 = last
        BY <1>1, <1>4, <1>5, <1>7, <3>1
      <4> QED BY <2>2, <2>3, <4>1
    <3>2. CASE epoch # h
      BY <1>7, <2>1, <2>3, <2>4, <3>2 DEF VouchedByRecorded
    <3> QED BY <3>1, <3>2
  <2> QED BY <2>4 DEF VouchedByRecorded
<1> QED BY <1>10, <1>12, <1>13 DEF IInv

-----------------------------------------------------------------------------
(* A verifier is recorded beyond the last epoch: what is read at it and    *)
(* below it stays.                                                         *)
VerifierPushed(verifier) ==
    /\ settlement' \in Storage /\ FromZero(settlement')
    /\ LastKey(settlement'.sigVerifier) = LastEpoch(settlement) + 1
    /\ LastEpoch(settlement)' = LastEpoch(settlement)
    /\ settlement'.valSetHeader = settlement.valSetHeader
    /\ settlement'.extraData = settlement.extraData
    /\ \A time \in Nat : time <= LastEpoch(settlement) =>
          getSigVerifierAt(settlement', time) = getSigVerifierAt(settlement, time)

LEMMA PushingVerifier ==
    ASSUME TypeOK, FromZero(settlement), NEW verifier \in Verifiers,
           setSigVerifier(verifier)
    PROVE  VerifierPushed(verifier)
<1> DEFINE trace == settlement.sigVerifier
           last == LastEpoch(settlement)
           pushed == Push(trace, last + 1, verifier)
<1>1. /\ CanPush(trace, last + 1)
      /\ settlement' = [settlement EXCEPT !.sigVerifier = pushed]
  BY DEF setSigVerifier, CanSetSigVerifier, AfterSetSigVerifier
<1>2. /\ trace \in Traces(Nat, Verifiers) /\ AreKeys(Nat) /\ last \in Nat
      /\ last + 1 \in Nat /\ settlement \in Storage
  BY VerifierTrace DEF TypeOK
<1>3. /\ pushed \in Traces(Nat, Verifiers) /\ pushed # <<>>
      /\ LastKey(pushed) = last + 1
  BY <1>1, <1>2, PushType
<1>4. pushed[1].key = 0
  <2>0. pushed = Push(trace, last + 1, verifier)
    OBVIOUS
  <2>a. PICK K, key : K = Nat /\ key = last + 1
    OBVIOUS
  <2>b. /\ AreKeys(K) /\ trace \in Traces(K, Verifiers) /\ key \in K
        /\ CanPush(trace, key) /\ pushed = Push(trace, key, verifier)
    BY <1>1, <1>2, <2>0, <2>a
  <2> HIDE DEF pushed, trace
  <2>1. PICK m \in Nat : /\ PushedAt(m, pushed, trace, key, verifier)
                         /\ pushed \in Seq([key : K, value : Verifiers])
    BY <2>b, PushShape
  <2>2. /\ m >= 1 /\ Len(pushed) = m
        /\ \A j \in 1..(m - 1) : pushed[j] = trace[j]
        /\ \/ Len(trace) = m - 1
           \/ Len(trace) = m /\ trace[m].key = last + 1
    BY <2>1, <2>a DEF PushedAt
  <2>3. trace # <<>> /\ trace[1].key = 0 /\ Len(trace) \in 1..Len(trace) /\ Len(trace) \in Nat
    BY <1>2, TraceShape DEF FromZero, trace
  <2>4. m # 1
    BY <1>2, <2>2, <2>3
  <2> QED BY <2>2, <2>3, <2>4
<1>5. \A time \in Nat : time <= last =>
         UpperLookupRecent(pushed, time, NoVerifier)
            = UpperLookupRecent(trace, time, NoVerifier)
  <2> SUFFICES ASSUME NEW time \in Nat, time <= last
               PROVE  UpperLookupRecent(pushed, time, NoVerifier)
                         = UpperLookupRecent(trace, time, NoVerifier)
    OBVIOUS
  <2>1. ~(time >= last + 1)
    BY <1>2
  <2> QED BY <1>1, <1>2, <2>1, LookupAfterPush
<1> HIDE DEF pushed
<1>6. /\ settlement'.sigVerifier = pushed
      /\ settlement'.valSetHeader = settlement.valSetHeader
      /\ settlement'.extraData = settlement.extraData
      /\ LastEpoch(settlement)' = last
      /\ settlement' \in Storage
  BY <1>1, <1>2, <1>3 DEF Storage, LastEpoch, Traces
<1>7. FromZero(settlement')
  BY <1>3, <1>4, <1>6 DEF FromZero, Traces
<1> QED BY <1>3, <1>5, <1>6, <1>7 DEF VerifierPushed, getSigVerifierAt

LEMMA SetSigVerifierHolds ==
    ASSUME IInv, NEW verifier \in Verifiers, setSigVerifier(verifier)
    PROVE  IInv'
<1> DEFINE last == LastEpoch(settlement)
<1>1. /\ TypeOK /\ FromZero(settlement) /\ StorageConsistent /\ NothingAhead
      /\ ChainOfTrust /\ CaptureOrder
  BY DEF IInv, StorageConsistent
<1>2. VerifierPushed(verifier)
  BY <1>1, PushingVerifier
<1>3. /\ settlement' \in Storage /\ FromZero(settlement')
      /\ LastKey(settlement'.sigVerifier) = last + 1
      /\ LastEpoch(settlement)' = last
      /\ settlement'.valSetHeader = settlement.valSetHeader
      /\ settlement'.extraData = settlement.extraData
      /\ \A time \in Nat : time <= last =>
            getSigVerifierAt(settlement', time) = getSigVerifierAt(settlement, time)
      /\ last \in Nat
  BY <1>1, <1>2, VerifierTrace DEF VerifierPushed, TypeOK
<1>4. now' = now /\ vouched' = vouched /\ rewound' = rewound
  BY DEF setSigVerifier
<1>5. Committed' = Committed /\ LastHeader(settlement)' = LastHeader(settlement)
  BY <1>3 DEF Committed, IsCommittedAt, LastHeader
<1>6. StorageConsistent'
  <2>1. TypeOK'
    BY <1>1, <1>3, <1>4 DEF TypeOK
  <2> QED BY <1>1, <1>3, <1>5, <2>1 DEF StorageConsistent
<1>7. NothingAhead'
  <2>1. last \in Committed \cup {0}
    BY <1>1 DEF StorageConsistent
  <2>2. last + 1 <= last + 1
    BY <1>3
  <2> QED BY <1>3, <1>5, <2>1, <2>2 DEF NothingAhead
<1>8. ChainOfTrust'
  BY <1>1, <1>3, <1>4, <1>5 DEF ChainOfTrust
<1>9. CaptureOrder'
  BY <1>1, <1>3, <1>4, <1>5 DEF CaptureOrder
<1>10. ASSUME ~rewound' PROVE AtHead' /\ VouchedByRecorded'
  <2>1. AtHead /\ VouchedByRecorded
    BY <1>4, <1>10 DEF IInv
  <2>3. ASSUME NEW epoch \in Epochs, vouched[epoch] # <<>>
        PROVE  vouched[epoch].verifier = getSigVerifierAt(settlement', epoch - 1)
    <3>1. epoch \in Committed /\ epoch - 1 \in Committed /\ Committed \subseteq Nat
      BY <1>1, <2>3, HandlersAssumption
      DEF ChainOfTrust, Committed, HandlersAssumption
    <3>2. epoch <= last
      BY <2>1, <3>1 DEF AtHead
    <3>3. epoch - 1 \in Nat /\ epoch - 1 <= last
      BY <1>3, <3>1, <3>2
    <3> QED BY <1>3, <2>1, <2>3, <3>3 DEF VouchedByRecorded
  <2> QED BY <1>3, <1>4, <1>5, <2>1, <2>3 DEF AtHead, VouchedByRecorded
<1> QED BY <1>3, <1>6, <1>7, <1>8, <1>9, <1>10 DEF IInv

-----------------------------------------------------------------------------
LEMMA StepHolds == IInv /\ [Next]_vars => IInv'
<1> SUFFICES ASSUME IInv, [Next]_vars PROVE IInv' OBVIOUS
<1>1. ASSUME NEW v \in Verifiers, setSigVerifier(v) PROVE IInv'
  BY <1>1, SetSigVerifierHolds
<1>2. ASSUME NEW header \in Candidates, NEW extra \in Extras,
             setGenesis(header, extra)
      PROVE  IInv'
  BY <1>2, SetGenesisHolds
<1>3. ASSUME NEW header \in Candidates, NEW extra \in Extras,
             commitValSetHeader(header, extra)
      PROVE  IInv'
  BY <1>3, CommitHolds
<1>4. ASSUME Tick PROVE IInv'
  <2>1. now' = now + 1 /\ now' \in 0..MaxTime /\ now \in Nat
    BY <1>4, SettlementAssumption
    DEF Tick, IInv, StorageConsistent, TypeOK, SettlementAssumption
  <2>2. UNCHANGED <<settlement, vouched, rewound>>
    BY <1>4 DEF Tick
  <2>3. StorageConsistent' /\ Committed' = Committed
    BY <2>1, <2>2
    DEF IInv, StorageConsistent, TypeOK, Committed, IsCommittedAt
  <2>4. FromZero(settlement') /\ NothingAhead' /\ ChainOfTrust'
    BY <2>2, <2>3 DEF IInv, NothingAhead, ChainOfTrust
  <2>5. CaptureOrder'
    <3>1. \A epoch \in Committed :
             /\ settlement.valSetHeader[epoch].captureTimestamp \in Nat
             /\ settlement.valSetHeader[epoch].captureTimestamp < now
      BY DEF IInv, CaptureOrder, StorageConsistent, TypeOK, Storage, Header, Committed
    <3>2. \A epoch \in Committed :
             settlement.valSetHeader[epoch].captureTimestamp < now + 1
      BY <2>1, <3>1
    <3> QED BY <2>1, <2>2, <2>3, <3>2 DEF IInv, CaptureOrder
  <2>6. rewound' \/ (AtHead' /\ VouchedByRecorded')
    BY <2>2, <2>3 DEF IInv, AtHead, VouchedByRecorded
  <2> QED BY <2>3, <2>4, <2>5, <2>6 DEF IInv
<1>5. ASSUME UNCHANGED vars PROVE IInv'
  <2>1. UNCHANGED <<now, settlement, vouched, rewound>>
    BY <1>5 DEF vars
  <2>2. StorageConsistent' /\ Committed' = Committed
    BY <2>1 DEF IInv, StorageConsistent, TypeOK, Committed, IsCommittedAt
  <2>3. FromZero(settlement') /\ NothingAhead' /\ ChainOfTrust'
    BY <2>1, <2>2 DEF IInv, NothingAhead, ChainOfTrust
  <2>4. CaptureOrder'
    BY <2>1, <2>2 DEF IInv, CaptureOrder
  <2>5. rewound' \/ (AtHead' /\ VouchedByRecorded')
    BY <2>1, <2>2 DEF IInv, AtHead, VouchedByRecorded
  <2> QED BY <2>2, <2>3, <2>4, <2>5 DEF IInv
<1> QED BY <1>1, <1>2, <1>3, <1>4, <1>5 DEF Next

LEMMA InvariantHolds == Spec => []IInv
BY InitHolds, StepHolds, PTL DEF Spec

(* A header sits at its own epoch, the last one is committed, and extra    *)
(* data exist only where a header does (setGenesis, commitValSetHeader).   *)
THEOREM StorageHolds == Spec => []StorageConsistent
<1>1. IInv => StorageConsistent
  BY DEF IInv
<1> QED BY <1>1, InvariantHolds, PTL

(* Every committed header was verified with the key tag and the quorum of  *)
(* the header below it, which is still stored (commitValSetHeader).        *)
THEOREM ChainOfTrustHolds == Spec => []ChainOfTrust
<1>1. IInv => ChainOfTrust
  BY DEF IInv
<1> QED BY <1>1, InvariantHolds, PTL

(* What becomes the last header was captured after every header that was   *)
(* the last one before it (_setValSetHeader).                              *)
THEOREM CaptureOrderHolds == Spec => []CaptureOrder
<1>1. IInv => CaptureOrder
  BY DEF IInv
<1> QED BY <1>1, InvariantHolds, PTL

(* At the highest committed epoch, after a rewind too, the verifier in     *)
(* force is the recorded one and another can be recorded; until a genesis  *)
(* rewinds, the contract is there (setSigVerifier, getSigVerifier).        *)
THEOREM ForwardHolds == Spec => []ForwardIsOperable
<1>1. IInv => ForwardIsOperable
  <2> SUFFICES ASSUME IInv PROVE ForwardIsOperable
    OBVIOUS
  <2>1. ASSUME AtHead
        PROVE  /\ getSigVerifier(settlement)
                     = getSigVerifierAt(settlement, LastEpoch(settlement))
               /\ CanPush(settlement.sigVerifier, LastEpoch(settlement) + 1)
    BY <2>1, HeadIsRecorded DEF IInv, StorageConsistent
  <2> QED BY <2>1 DEF IInv, ForwardIsOperable
<1> QED BY <1>1, InvariantHolds, PTL

(* A committed header, its extra data and the verifier recorded for an     *)
(* epoch that is not to come are never changed by any call.                *)
THEOREM PastIsFinalHolds == Spec => PastIsFinal
<1> DEFINE Kept ==
      /\ \A epoch \in Committed :
            /\ settlement'.valSetHeader[epoch] = settlement.valSetHeader[epoch]
            /\ settlement'.extraData[epoch] = settlement.extraData[epoch]
      /\ \A epoch \in Epochs :
            epoch <= LastEpoch(settlement) =>
               getSigVerifierAt(settlement', epoch)
                  = getSigVerifierAt(settlement, epoch)
<1>1. ASSUME IInv, [Next]_vars PROVE Kept
  <2> USE <1>1
  <2>1. TypeOK /\ FromZero(settlement)
    BY DEF IInv, StorageConsistent
  <2>2. ASSUME NEW v \in Verifiers, setSigVerifier(v) PROVE Kept
    <3>1. VerifierPushed(v)
      BY <2>1, <2>2, PushingVerifier
    <3> QED BY <3>1, HandlersAssumption DEF VerifierPushed, HandlersAssumption
  <2>3. ASSUME NEW header, HeaderStored(header) PROVE Kept
    BY <2>3 DEF HeaderStored, Committed, getSigVerifierAt
  <2>4. ASSUME NEW header \in Candidates, NEW extra \in Extras,
               setGenesis(header, extra) \/ commitValSetHeader(header, extra)
        PROVE  Kept
    <3>1. HeaderStored(header)
      BY <2>1, <2>4, StoringHeader DEF setGenesis, commitValSetHeader, CanCommit
    <3> QED BY <2>3, <3>1
  <2>5. ASSUME settlement' = settlement PROVE Kept
    BY <2>5
  <2> QED BY <2>2, <2>4, <2>5 DEF Next, Tick, vars
<1> HIDE DEF Kept
<1>2. IInv /\ [Next]_vars => [Kept]_vars
  BY <1>1
<1>3. Spec => [][Kept]_vars
  BY <1>2, InvariantHolds, PTL DEF Spec
<1> QED BY <1>3, PTL DEF PastIsFinal, Kept

-----------------------------------------------------------------------------
(* The power of the first n validators of a set that hold some keys.       *)
Counted(set, keys, n) ==
    IF set.validators[n].key \in keys THEN set.validators[n].votingPower ELSE 0

IsPower(set, keys, power) ==
    /\ power \in [0..Len(set.validators) -> Nat]
    /\ power[0] = 0
    /\ \A n \in 1..Len(set.validators) :
          power[n] = power[n - 1] + Counted(set, keys, n)

LEMMA SetShape ==
    ASSUME NEW set \in ValSets
    PROVE  /\ set.validators \in Validators /\ Len(set.validators) \in Nat
           /\ \A i \in 1..Len(set.validators) :
                 /\ set.validators[i].key \in Points \ {zeroKey}
                 /\ set.validators[i].key \in KeysOf(set)
                 /\ set.validators[i].votingPower \in Nat
           /\ KeysOf(set) \subseteq Keys
           /\ DOMAIN set.validators = 1..Len(set.validators)
           /\ \A i, j \in 1..Len(set.validators) :
                 set.validators[i].key = set.validators[j].key => i = j
<1>1. set.validators \in Validators
  BY VerifiersAssumption
<1>2. Len(set.validators) \in Nat /\ DOMAIN set.validators = 1..Len(set.validators)
  BY <1>1 DEF Validators
<1>3. ASSUME NEW i \in 1..Len(set.validators)
      PROVE  set.validators[i] \in [key : Points \ {zeroKey}, votingPower : Nat]
  BY <1>1, ElementIn DEF Validators
<1>4. \A i, j \in 1..Len(set.validators) :
         set.validators[i].key = set.validators[j].key => i = j
  BY <1>2, VerifiersAssumption
<1> QED BY <1>1, <1>2, <1>3, <1>4 DEF KeysOf, Keys

LEMMA PowerIs ==
    ASSUME NEW set \in ValSets, NEW keys
    PROVE  \E power : /\ IsPower(set, keys, power)
                      /\ PowerOf(set, keys) = power[Len(set.validators)]
<1>0. PICK n : n = Len(set.validators)
  OBVIOUS
<1> DEFINE Loop(f) == f = [i \in 0..n |->
                             IF i = 0 THEN 0
                             ELSE f[i - 1] + (IF set.validators[i].key \in keys
                                              THEN set.validators[i].votingPower
                                              ELSE 0)]
           turn == [i \in 1..n |-> [x \in Nat |-> x + Counted(set, keys, i)]]
<1>1. n \in Nat /\ \A i \in 1..n : Counted(set, keys, i) \in Nat
  BY <1>0, SetShape DEF Counted
<1>2. turn \in [1..n -> [Nat -> Nat]]
  BY <1>1
<1>3. \A i \in 1..n, x \in Nat : turn[i][x] = x + Counted(set, keys, i)
  OBVIOUS
<1> HIDE DEF turn
<1>4. PICK f \in [0..n -> Nat] :
              f[0] = 0 /\ \A i \in 1..n : f[i] = turn[i][f[i - 1]]
  <2>1. 0 \in Nat
    OBVIOUS
  <2>2. \E f : Runs(n, Nat, 0, turn, f)
    BY <1>1, <1>2, <2>1, LoopRuns
  <2> QED BY <2>2 DEF Runs
<1>5. ASSUME NEW i \in 1..n
      PROVE  i \in 0..n /\ i - 1 \in 0..n /\ f[i] = f[i - 1] + Counted(set, keys, i)
  <2>1. i \in 0..n /\ i - 1 \in 0..n
    BY <1>1
  <2>2. f[i - 1] \in Nat
    BY <1>4, <2>1
  <2> QED BY <1>3, <1>4, <2>1, <2>2
<1>6. Loop(f)
  <2>1. ASSUME NEW i \in 0..n
        PROVE  f[i] = IF i = 0 THEN 0
                      ELSE f[i - 1] + (IF set.validators[i].key \in keys
                                       THEN set.validators[i].votingPower
                                       ELSE 0)
    <3>1. i # 0 => i \in 1..n
      BY <1>1
    <3> QED BY <1>4, <1>5, <3>1 DEF Counted
  <2> QED BY <1>4, <2>1
<1> DEFINE g == CHOOSE h : Loop(h)
<1>7. Loop(g)
  <2> HIDE DEF Loop
  <2> QED BY <1>6
<1>8. PowerOf(set, keys) = g[n]
  BY <1>0 DEF PowerOf
<1> HIDE DEF g
<1>9. g[0] = 0 /\ DOMAIN g = 0..n
  BY <1>1, <1>7
<1>10. ASSUME NEW i \in 1..n PROVE g[i] = g[i - 1] + Counted(set, keys, i)
  BY <1>5, <1>7 DEF Counted
<1> HIDE DEF Loop
<1>11. 0..n \subseteq {i \in 0..n : g[i] \in Nat}
  <2> DEFINE S == {i \in 0..n : g[i] \in Nat}
  <2>1. 0 \in S
    BY <1>1, <1>9
  <2>2. \A i \in 1..n : i - 1 \in S => i \in S
    BY <1>1, <1>5, <1>10
  <2>3. 0..n \subseteq S
    <3> HIDE DEF S
    <3> QED BY <1>1, <2>1, <2>2, Throughout
  <2> QED BY <2>3
<1>12. g \in [0..n -> Nat]
  <2>1. g = [i \in 0..n |-> g[i]]
    BY <1>7, <1>9 DEF Loop
  <2> QED BY <1>11, <2>1
<1> QED BY <1>0, <1>8, <1>9, <1>10, <1>12 DEF IsPower

LEMMA PowerNat ==
    ASSUME NEW set \in ValSets, NEW keys PROVE PowerOf(set, keys) \in Nat
<1>1. PICK power : /\ IsPower(set, keys, power)
                   /\ PowerOf(set, keys) = power[Len(set.validators)]
  BY PowerIs
<1> QED BY <1>1, SetShape DEF IsPower

(* Keys that hold the same validators have the same power.                 *)
LEMMA PowerAgrees ==
    ASSUME NEW set \in ValSets, NEW A, NEW B,
           A \cap KeysOf(set) = B \cap KeysOf(set)
    PROVE  PowerOf(set, A) = PowerOf(set, B)
<1>0. PICK n : n = Len(set.validators)
  OBVIOUS
<1>1. PICK p : IsPower(set, A, p) /\ PowerOf(set, A) = p[n]
  BY <1>0, PowerIs
<1>2. PICK q : IsPower(set, B, q) /\ PowerOf(set, B) = q[n]
  BY <1>0, PowerIs
<1>3. n \in Nat /\ \A i \in 1..n : Counted(set, A, i) = Counted(set, B, i)
  BY <1>0, SetShape DEF Counted
<1> DEFINE S == {i \in 0..n : p[i] = q[i]}
<1>4. 0 \in S /\ \A i \in 1..n : i - 1 \in S => i \in S
  BY <1>0, <1>1, <1>2, <1>3 DEF IsPower
<1>5. 0..n \subseteq S
  <2> HIDE DEF S
  <2> QED BY <1>3, <1>4, Throughout
<1> QED BY <1>1, <1>2, <1>3, <1>5

(* The powers of different keys add up.                                    *)
LEMMA PowerAdds ==
    ASSUME NEW set \in ValSets, NEW A, NEW B, A \cap B = {}
    PROVE  PowerOf(set, A \cup B) = PowerOf(set, A) + PowerOf(set, B)
<1>0. PICK n : n = Len(set.validators)
  OBVIOUS
<1>1. PICK p : IsPower(set, A, p) /\ PowerOf(set, A) = p[n]
  BY <1>0, PowerIs
<1>2. PICK q : IsPower(set, B, q) /\ PowerOf(set, B) = q[n]
  BY <1>0, PowerIs
<1>3. PICK r : IsPower(set, A \cup B, r) /\ PowerOf(set, A \cup B) = r[n]
  BY <1>0, PowerIs
<1>4. n \in Nat /\ \A i \in 1..n :
         /\ Counted(set, A, i) \in Nat /\ Counted(set, B, i) \in Nat
         /\ Counted(set, A \cup B, i) = Counted(set, A, i) + Counted(set, B, i)
  BY <1>0, SetShape DEF Counted
<1> DEFINE S == {i \in 0..n : r[i] = p[i] + q[i]}
<1>5. 0 \in S /\ \A i \in 1..n : i - 1 \in S => i \in S
  <2>1. 0 \in S
    BY <1>0, <1>1, <1>2, <1>3, <1>4 DEF IsPower
  <2>2. ASSUME NEW i \in 1..n, i - 1 \in S PROVE i \in S
    <3>1. /\ p[i - 1] \in Nat /\ q[i - 1] \in Nat /\ r[i - 1] = p[i - 1] + q[i - 1]
          /\ p[i] = p[i - 1] + Counted(set, A, i)
          /\ q[i] = q[i - 1] + Counted(set, B, i)
          /\ r[i] = r[i - 1] + Counted(set, A \cup B, i)
      BY <1>0, <1>1, <1>2, <1>3, <1>4, <2>2 DEF IsPower
    <3> QED BY <1>4, <3>1
  <2> QED BY <2>1, <2>2
<1>6. 0..n \subseteq S
  <2> HIDE DEF S
  <2> QED BY <1>4, <1>5, Throughout
<1> QED BY <1>1, <1>2, <1>3, <1>4, <1>6

LEMMA PowerGrows ==
    ASSUME NEW set \in ValSets, NEW A, NEW B, A \subseteq B
    PROVE  PowerOf(set, A) <= PowerOf(set, B)
<1>1. B = A \cup (B \ A) /\ A \cap (B \ A) = {}
  OBVIOUS
<1>2. PowerOf(set, B) = PowerOf(set, A) + PowerOf(set, B \ A)
  BY <1>1, PowerAdds
<1> QED BY <1>2, PowerNat

(* Each validator has a key of its own.                                    *)
LEMMA PowerOfOne ==
    ASSUME NEW set \in ValSets, NEW k \in 1..Len(set.validators)
    PROVE  PowerOf(set, {set.validators[k].key}) = set.validators[k].votingPower
<1>0. PICK n : n = Len(set.validators)
  OBVIOUS
<1> DEFINE A == {set.validators[k].key}
           v == set.validators[k].votingPower
<1>1. PICK p : IsPower(set, A, p) /\ PowerOf(set, A) = p[n]
  BY <1>0, PowerIs
<1>2. /\ n \in Nat /\ k \in 1..n /\ v \in Nat
      /\ \A i \in 1..n : Counted(set, A, i) = IF i = k THEN v ELSE 0
  BY <1>0, SetShape DEF Counted
<1> HIDE DEF v, A
<1> DEFINE S == {i \in 0..n : p[i] = IF i < k THEN 0 ELSE v}
<1>3. 0 \in S /\ \A i \in 1..n : i - 1 \in S => i \in S
  BY <1>0, <1>1, <1>2 DEF IsPower
<1>4. 0..n \subseteq S
  <2> HIDE DEF S
  <2> QED BY <1>2, <1>3, Throughout
<1> QED BY <1>1, <1>2, <1>4 DEF A, v

-----------------------------------------------------------------------------
(* The keys at the first m of the indices that the simple verifier walks.  *)
MissingKeys(set, indices, m) ==
    {set.validators[indices[j] + 1].key : j \in 1..m}

(* Indices that the verifier lets through name different validators.       *)
LEMMA InOrderIncreases ==
    ASSUME NEW indices \in Seq(Nat), NEW length, InOrder(indices, length)
    PROVE  \A j, m \in 1..Len(indices) : j < m => indices[j] < indices[m]
<1>1. DOMAIN indices = 1..Len(indices)
  OBVIOUS
<1>2. ASSUME NEW i \in 1..Len(indices), i # 1 PROVE indices[i - 1] < indices[i]
  <2>1. i \in DOMAIN indices \ {1}
    BY <1>1, <1>2
  <2> QED BY <2>1 DEF InOrder
<1> QED BY <1>2, GrowsThroughout

(* One more index is one more key, of a validator that was not yet named.  *)
LEMMA MissingGrows ==
    ASSUME NEW set \in ValSets, NEW indices \in Seq(Nat),
           InOrder(indices, Len(set.validators)), NEW m \in 1..Len(indices)
    PROVE  LET key == set.validators[indices[m] + 1].key
           IN  /\ indices[m] + 1 \in 1..Len(set.validators)
               /\ key \in KeysOf(set) /\ key \notin MissingKeys(set, indices, m - 1)
               /\ MissingKeys(set, indices, m)
                    = MissingKeys(set, indices, m - 1) \cup {key}
<1>1. ASSUME NEW j \in 1..Len(indices)
      PROVE  indices[j] \in Nat /\ indices[j] + 1 \in 1..Len(set.validators)
  <2>1. indices[j] \in Nat /\ indices[j] < Len(set.validators)
    BY DEF InOrder
  <2> QED BY <2>1, SetShape
<1>2. ASSUME NEW j \in 1..(m - 1)
      PROVE  set.validators[indices[j] + 1].key # set.validators[indices[m] + 1].key
  <2>1. j \in 1..Len(indices) /\ j < m
    OBVIOUS
  <2>2. indices[j] < indices[m]
    BY <2>1, InOrderIncreases
  <2>3. indices[j] + 1 # indices[m] + 1
    BY <1>1, <2>1, <2>2
  <2> QED BY <1>1, <2>1, <2>3, SetShape
<1>3. 1..m = (1..(m - 1)) \cup {m}
  OBVIOUS
<1> DEFINE key(j) == set.validators[indices[j] + 1].key
<1>4. indices[m] + 1 \in 1..Len(set.validators) /\ key(m) \in KeysOf(set)
  BY <1>1, SetShape
<1>5. key(m) \notin MissingKeys(set, indices, m - 1)
  BY <1>2 DEF MissingKeys
<1>6. {key(j) : j \in 1..m} = {key(j) : j \in 1..(m - 1)} \cup {key(m)}
  <2> HIDE DEF key
  <2> QED BY <1>3
<1> QED BY <1>4, <1>5, <1>6 DEF MissingKeys

LEMMA MissingIn ==
    ASSUME NEW set \in ValSets, NEW indices \in Seq(Nat),
           InOrder(indices, Len(set.validators)), NEW m \in 0..Len(indices)
    PROVE  MissingKeys(set, indices, m) \subseteq KeysOf(set)
<1>1. \A j \in 1..m : j \in 1..Len(indices)
  OBVIOUS
<1> QED BY <1>1, MissingGrows DEF MissingKeys

(* No power is as large as the numbers it is counted with.                 *)
LEMMA PowerFits ==
    ASSUME NEW set \in ValSets, NEW keys
    PROVE  PowerOf(set, keys) < Modulus /\ Modulus \in Nat /\ Modulus > 0
<1>1. PowerOf(set, keys) = PowerOf(set, keys \cap KeysOf(set))
  BY PowerAgrees
<1>2. PowerOf(set, keys \cap KeysOf(set)) <= PowerOf(set, Keys)
  BY SetShape, PowerGrows
<1>3. PowerOf(set, Keys) < Modulus /\ Modulus \in Nat
  BY VerifiersAssumption
<1>4. PowerOf(set, keys) \in Nat /\ PowerOf(set, Keys) \in Nat
  BY PowerNat
<1> QED BY <1>1, <1>2, <1>3, <1>4

(* What the walk has counted after m indices is the power of their keys.   *)
LEMMA WalkCountsPower ==
    ASSUME NEW set \in ValSets, NEW indices \in Seq(Nat),
           InOrder(indices, Len(set.validators))
    PROVE  NonSignersPower(validatorsData(set), indices)
             = PowerOf(set, MissingKeys(set, indices, Len(indices)))
<1>0. PICK n : n = Len(indices)
  OBVIOUS
<1> DEFINE data == validatorsData(set)
           Loop(f) == f = [i \in 0..n |->
                             IF i = 0 THEN 0
                             ELSE (f[i - 1] + data[indices[i] + 1].votingPower) % Modulus]
           turn == [i \in 1..n |-> [x \in Nat |->
                      (x + data[indices[i] + 1].votingPower) % Modulus]]
<1>1. n \in Nat
  BY <1>0
<1>2. ASSUME NEW i \in 1..n
      PROVE  /\ data[indices[i] + 1].votingPower
                  = set.validators[indices[i] + 1].votingPower
             /\ data[indices[i] + 1].votingPower \in Nat
  <2>1. indices[i] + 1 \in 1..Len(set.validators)
    BY <1>0, MissingGrows
  <2> QED BY <2>1, SetShape DEF validatorsData
<1> HIDE DEF data
<1>3. Modulus \in Nat /\ Modulus > 0
  BY PowerFits
<1>4. \A x \in Nat : x % Modulus \in Nat /\ (x < Modulus => x % Modulus = x)
  BY <1>3
<1>5. turn \in [1..n -> [Nat -> Nat]]
  <2>1. ASSUME NEW i \in 1..n, NEW x \in Nat
        PROVE  (x + data[indices[i] + 1].votingPower) % Modulus \in Nat
    <3>1. x + data[indices[i] + 1].votingPower \in Nat
      BY <1>2
    <3> QED BY <1>4, <3>1
  <2> QED BY <2>1
<1>6. \A i \in 1..n, x \in Nat :
         turn[i][x] = (x + data[indices[i] + 1].votingPower) % Modulus
  OBVIOUS
<1> HIDE DEF turn
<1>7. PICK f : Runs(n, Nat, 0, turn, f)
  <2>1. 0 \in Nat
    OBVIOUS
  <2> QED BY <1>1, <1>5, <2>1, LoopRuns
<1>8. ASSUME NEW i \in 0..n
      PROVE  f[i] = IF i = 0 THEN 0
                    ELSE (f[i - 1] + data[indices[i] + 1].votingPower) % Modulus
  <2>1. CASE i = 0
    BY <1>7, <2>1 DEF Runs
  <2>2. CASE i # 0
    <3>1. i \in 1..n /\ i - 1 \in 0..n
      BY <1>1, <2>2
    <3>2. f[i - 1] \in Nat /\ f[i] = turn[i][f[i - 1]]
      BY <1>7, <3>1 DEF Runs
    <3> QED BY <1>6, <2>2, <3>1, <3>2
  <2> QED BY <2>1, <2>2
<1>9. Loop(f)
  BY <1>7, <1>8 DEF Runs
<1> DEFINE g == CHOOSE h : Loop(h)
<1>10. Loop(g)
  <2> HIDE DEF Loop
  <2> QED BY <1>9
<1>11. NonSignersPower(data, indices) = g[n]
  BY <1>0 DEF NonSignersPower
<1> HIDE DEF g
<1>12. g[0] = 0
  BY <1>1, <1>10
<1>13. ASSUME NEW i \in 1..n
       PROVE  g[i] = (g[i - 1] + data[indices[i] + 1].votingPower) % Modulus
  <2>1. i \in 0..n /\ i # 0
    OBVIOUS
  <2> QED BY <1>10, <2>1
<1> HIDE DEF Loop
<1> DEFINE Named(m) == MissingKeys(set, indices, m)
           S == {m \in 0..n : g[m] = PowerOf(set, Named(m))}
<1>14. 0 \in S
  <2>1. Named(0) = {}
    BY DEF MissingKeys
  <2>2. PowerOf(set, {}) = PowerOf(set, {}) + PowerOf(set, {})
    <3>1. {} \cup {} = {} /\ {} \cap {} = {}
      OBVIOUS
    <3> QED BY <3>1, PowerAdds
  <2>3. PowerOf(set, {}) = 0
    BY <2>2, PowerNat
  <2>4. 0 \in 0..n
    BY <1>1
  <2>5. PowerOf(set, Named(0)) = 0
    <3> HIDE DEF Named
    <3> QED BY <2>1, <2>3, Zenon
  <2> QED BY <1>12, <2>4, <2>5
<1>15. ASSUME NEW m \in 1..n, m - 1 \in S PROVE m \in S
  <2> DEFINE key == set.validators[indices[m] + 1].key
             power == set.validators[indices[m] + 1].votingPower
  <2>1. /\ indices[m] + 1 \in 1..Len(set.validators)
        /\ key \notin Named(m - 1) /\ Named(m) = Named(m - 1) \cup {key}
    BY <1>0, MissingGrows
  <2>2. PowerOf(set, {key}) = power
    BY <2>1, PowerOfOne
  <2>3. PowerOf(set, Named(m)) = PowerOf(set, Named(m - 1)) + power
    <3>1. Named(m - 1) \cap {key} = {}
      BY <2>1
    <3> HIDE DEF Named, key
    <3> QED BY <2>1, <2>2, <3>1, PowerAdds
  <2>4. /\ PowerOf(set, Named(m)) < Modulus /\ PowerOf(set, Named(m)) \in Nat
    BY PowerFits, PowerNat
  <2>5. g[m - 1] = PowerOf(set, Named(m - 1))
    BY <1>15
  <2>6. g[m] = (g[m - 1] + power) % Modulus
    BY <1>2, <1>13
  <2> HIDE DEF Named, power
  <2>7. g[m] = PowerOf(set, Named(m)) % Modulus
    BY <2>3, <2>5, <2>6
  <2> QED BY <1>4, <2>4, <2>7
<1>16. 0..n \subseteq S
  <2> HIDE DEF S
  <2> QED BY <1>1, <1>14, <1>15, Throughout
<1> QED BY <1>0, <1>1, <1>11, <1>16 DEF data

-----------------------------------------------------------------------------
(* The curve.                                                              *)
LEMMA FieldShape ==
    /\ FP_MODULUS \in Nat /\ FP_MODULUS >= 3
    /\ \A n \in Nat : 2 * n # FP_MODULUS
BY FieldAssumption, SMT

LEMMA PointShape ==
    ASSUME NEW p \in Points
    PROVE  /\ p = G1Point(p.X, p.Y)
           /\ p.X \in 0..(FP_MODULUS - 1) /\ p.Y \in 0..(FP_MODULUS - 1)
           /\ p.X \in Nat /\ p.Y \in Nat
BY FieldShape DEF Points, G1Point

LEMMA ZeroIsPoint == zeroKey \in Points
BY FieldShape DEF Points, zeroKey, G1Point, CanWrap

(* The group laws, pair by pair.                                           *)
LEMMA GroupLaws ==
    /\ \A p \in Points : \A q \in Points : plus(p, q) \in Points
    /\ \A p \in Points : \A q \in Points : plus(p, q) = plus(q, p)
    /\ \A p \in Points : \A q \in Points : \A r \in Points :
          plus(plus(p, q), r) = plus(p, plus(q, r))
    /\ \A p \in Points : plus(p, zeroKey) = p /\ plus(zeroKey, p) = p
<1> DEFINE sum == [p \in Points |-> [q \in Points |-> plus(p, q)]]
<1>1. /\ \A p, q \in Points : sum[p][q] \in Points /\ sum[p][q] = sum[q][p]
      /\ \A p, q, r \in Points : sum[sum[p][q]][r] = sum[p][sum[q][r]]
  BY CurveAssumption
<1>2. \A p, q \in Points : sum[p][q] = plus(p, q)
  OBVIOUS
<1> HIDE DEF sum
<1>3. ASSUME NEW p \in Points, NEW q \in Points
      PROVE  plus(p, q) \in Points /\ plus(p, q) = plus(q, p)
  <2>1. sum[p][q] \in Points /\ sum[p][q] = sum[q][p]
    BY <1>1
  <2>2. sum[p][q] = plus(p, q) /\ sum[q][p] = plus(q, p)
    BY <1>2
  <2> QED BY <2>1, <2>2
<1>4. ASSUME NEW p \in Points, NEW q \in Points, NEW r \in Points
      PROVE  plus(plus(p, q), r) = plus(p, plus(q, r))
  <2>1. plus(p, q) \in Points /\ plus(q, r) \in Points
    BY <1>3
  <2>2. plus(plus(p, q), r) = sum[sum[p][q]][r]
    BY <1>2, <2>1
  <2>3. plus(p, plus(q, r)) = sum[p][sum[q][r]]
    BY <1>2, <2>1
  <2>4. sum[sum[p][q]][r] = sum[p][sum[q][r]]
    BY <1>1
  <2> QED BY <2>2, <2>3, <2>4
<1>5. ASSUME NEW p \in Points PROVE plus(zeroKey, p) = p
  BY DEF plus
<1> QED BY <1>3, <1>4, <1>5, ZeroIsPoint

(* A multiple more or less changes nothing.                                 *)
LEMMA TimesIsDivisible ==
    ASSUME NEW m \in Nat \ {0}, NEW k \in Int, NEW a \in Int, a % m = 0
    PROVE  (a + m * k) % m = 0
<1>1. a = m * (a \div m) /\ a \div m \in Int
  BY SMT
<1>2. a + m * k = m * (a \div m + k)
  BY <1>1, SMT
<1>3. PICK j : j = a \div m + k
  OBVIOUS
<1>4. j \in Int /\ a + m * k = m * j
  BY <1>1, <1>2, <1>3
<1>5. (m * j) % m = 0
  BY <1>4, SMT
<1> QED BY <1>4, <1>5

(* The opposite of a point, and the point from its compression.            *)
LEMMA NegateIsOpposite ==
    ASSUME NEW p \in Points
    PROVE  negate(p) \in Points /\ plus(p, negate(p)) = zeroKey
<1>1. CASE p = zeroKey
  BY <1>1, ZeroIsPoint, GroupLaws DEF negate
<1>2. CASE p # zeroKey
  <2> DEFINE F == FP_MODULUS
             opposite == G1Point(p.X, F - p.Y)
  <2>0. /\ p.X \in 0..(F - 1) /\ p.Y \in 1..(F - 1) /\ p.X # 0
        /\ F \in Nat /\ F >= 3 /\ 2 * p.Y # F
    <3>1. p.X # 0 /\ p.Y # 0
      BY <1>2, CurveAssumption
    <3> QED BY <3>1, PointShape, FieldShape
  <2>1. (p.Y * p.Y - (p.X * p.X * p.X + 3)) % F = 0
    <3>1. CanWrap(p)
      BY DEF Points
    <3> QED BY <1>2, <3>1 DEF CanWrap
  <2>2. negate(p) = opposite
    <3>1. \A y \in 0..(F - 1) : y % F = y
      BY FieldShape
    <3>2. p.Y % F = p.Y
      BY <3>1, PointShape
    <3> QED BY <1>2, <3>2 DEF negate
  <2>3. /\ opposite.X = p.X /\ opposite.Y = F - p.Y /\ opposite # p
        /\ opposite # zeroKey
    <3>1. opposite.X = p.X /\ opposite.Y = F - p.Y
      BY DEF G1Point
    <3>2. F - p.Y # p.Y /\ p.X # 0
      <4>1. ASSUME NEW y \in Nat, NEW f \in Nat, 2 * y # f PROVE f - y # y
        BY <4>1
      <4>2. p.Y \in Nat /\ F \in Nat /\ 2 * p.Y # F /\ p.X # 0
        BY <2>0
      <4> HIDE DEF F
      <4> QED BY <4>1, <4>2
    <3>3. zeroKey.X = 0
      BY DEF zeroKey, G1Point
    <3> HIDE DEF opposite
    <3> QED BY <3>1, <3>2, <3>3
  <2>4. opposite \in [X : 0..(F - 1), Y : 0..(F - 1)]
    BY <2>0 DEF G1Point
  <2>5. (opposite.Y * opposite.Y - (p.X * p.X * p.X + 3)) % F = 0
    <3>1. PICK a : a = p.Y * p.Y - (p.X * p.X * p.X + 3)
      OBVIOUS
    <3>2. a \in Int /\ a % F = 0 /\ F \in Nat \ {0}
      BY <2>0, <2>1, <3>1
    <3>3. PICK k : k = F - 2 * p.Y
      OBVIOUS
    <3>4. k \in Int
      BY <2>0, <3>3
    <3>5. (F - p.Y) * (F - p.Y) - (p.X * p.X * p.X + 3) = a + F * k
      <4>1. PICK y : y = p.Y
        OBVIOUS
      <4>2. PICK c : c = p.X * p.X * p.X + 3
        OBVIOUS
      <4>3. y \in Int /\ c \in Int
        BY <2>0, <4>1, <4>2
      <4>4. (F - y) * (F - y) - c = (y * y - c) + F * (F - 2 * y)
        BY <2>0, <4>3, SMT
      <4> QED BY <3>1, <3>3, <4>1, <4>2, <4>4
    <3>6. (a + F * k) % F = 0
      BY <3>2, <3>4, TimesIsDivisible
    <3> QED BY <2>3, <3>5, <3>6
  <2>6. opposite \in Points
    <3>1. opposite.X < F /\ opposite.Y < F
      BY <2>0, <2>3
    <3> QED BY <2>3, <2>4, <2>5, <3>1 DEF Points, CanWrap
  <2>7. plus(p, opposite) = zeroKey
    <3> HIDE DEF opposite
    <3> QED BY <1>2, <2>3 DEF plus
  <2> QED BY <2>2, <2>6, <2>7
<1> QED BY <1>1, <1>2

(* A key comes back from its compression as it was.                        *)
LEMMA CompressionIsLossless ==
    ASSUME NEW p \in Points
    PROVE  deserialize(serialize(p)) = p
<1>1. CASE p = zeroKey
  BY <1>1 DEF serialize, deserialize
<1>2. CASE p # zeroKey
  <2> DEFINE F == FP_MODULUS
             root == findYFromX(p.X)
             bit == IF root = p.Y THEN 0 ELSE 1
             key == 2 * p.X + bit
  <2>1. /\ p.X \in 1..(F - 1) /\ p.Y \in 1..(F - 1)
        /\ root \in {p.Y, F - p.Y} /\ F \in Nat
    <3>1. p.X # 0 /\ p.Y # 0 /\ root \in {p.Y, F - p.Y}
      BY <1>2, CurveAssumption
    <3> HIDE DEF root
    <3> QED BY <3>1, PointShape, FieldShape
  <2>2. serialize(p) = key
    BY <1>2 DEF serialize
  <2>3. bit \in 0..1
    OBVIOUS
  <2> DEFINE point == G1Point(p.X, root)
  <2>4. deserialize(key) = IF bit > 0 THEN negate(point) ELSE point
    <3> HIDE DEF root, bit
    <3>1. key # 0 /\ key \div 2 = p.X /\ key % 2 = bit
      BY <2>1, <2>3
    <3> HIDE DEF key
    <3> QED BY <3>1 DEF deserialize, root
  <2> HIDE DEF root
  <2>5. p = G1Point(p.X, p.Y)
    BY PointShape
  <2>6. CASE root = p.Y
    BY <2>2, <2>4, <2>5, <2>6
  <2>7. CASE root # p.Y
    <3>1. root = F - p.Y /\ bit = 1
      BY <2>1, <2>7
    <3>2. point # zeroKey /\ point.X = p.X /\ point.Y = F - p.Y
      BY <2>1, <3>1 DEF G1Point, zeroKey
    <3>3. (F - p.Y) % F = F - p.Y /\ F - (F - p.Y) = p.Y
      BY <2>1
    <3>4. negate(point) = G1Point(p.X, p.Y)
      <4> HIDE DEF point
      <4> QED BY <3>2, <3>3 DEF negate
    <3> QED BY <2>2, <2>4, <2>5, <3>1, <3>4
  <2> QED BY <2>6, <2>7
<1> QED BY <1>1, <1>2
-----------------------------------------------------------------------------
(* Sums of keys.                                                           *)
LEMMA KeysAreFinite ==
    /\ IsFiniteSet(Keys) /\ Cardinality(Keys) \in Nat
    /\ Keys \subseteq Points \ {zeroKey}
    /\ \A s \in SUBSET Keys : IsFiniteSet(s) /\ Cardinality(s) \in Nat
<1> DEFINE side == 0..(FP_MODULUS - 1)
           place == [p \in Points |-> <<p.X, p.Y>>]
<1>1. IsFiniteSet(side \X side)
  <2>1. 0 \in Int /\ FP_MODULUS - 1 \in Int
    BY FieldShape
  <2>2. IsFiniteSet(side)
    BY <2>1, FS_Interval
  <2> HIDE DEF side
  <2> QED BY <2>2, FS_Product
<1>2. place \in Injection(Points, side \X side)
  <2>1. \A p \in Points : p.X \in side /\ p.Y \in side
    BY DEF Points
  <2> HIDE DEF side
  <2>2. place \in [Points -> side \X side]
    BY <2>1
  <2>3. ASSUME NEW p \in Points, NEW q \in Points, place[p] = place[q]
        PROVE  p = q
    <3>1. p.X = q.X /\ p.Y = q.Y
      BY <2>3
    <3> QED BY <3>1, PointShape
  <2> HIDE DEF place
  <2> QED BY <2>2, <2>3 DEF Injection, IsInjective
<1>3. IsFiniteSet(Points)
  <2> HIDE DEF place, side
  <2> QED BY <1>1, <1>2, FS_Injection
<1>4. Keys \subseteq Points \ {zeroKey}
  <2> SUFFICES ASSUME NEW set \in ValSets, NEW i \in DOMAIN set.validators
               PROVE  set.validators[i].key \in Points \ {zeroKey}
    BY DEF Keys, KeysOf
  <2> QED BY SetShape
<1>5. IsFiniteSet(Keys)
  <2>1. Keys \in SUBSET Points
    BY <1>4
  <2> QED BY <1>3, <2>1, FS_Subset
<1>6. \A s \in SUBSET Keys : IsFiniteSet(s) /\ Cardinality(s) \in Nat
  BY <1>5, FS_Subset, FS_CardinalityType
<1> QED BY <1>4, <1>5, <1>6

(* A family that has every set of keys whose smaller parts it has, has all.*)
LEMMA FromSmallerSets ==
    ASSUME NEW S,
           \A s \in SUBSET Keys : (\A k \in s : s \ {k} \in S) => s \in S
    PROVE  SUBSET Keys \subseteq S
<1> DEFINE Sizes == {Cardinality(s) : s \in {t \in SUBSET Keys : t \notin S}}
<1> SUFFICES ASSUME NEW t \in SUBSET Keys, t \notin S PROVE FALSE
  OBVIOUS
<1>1. Sizes \subseteq Nat /\ Sizes # {}
  BY KeysAreFinite
<1>2. PICK n \in Sizes : \A m \in Sizes : n <= m
  <2> HIDE DEF Sizes
  <2> QED BY <1>1, LeastNumber
<1>3. PICK s \in SUBSET Keys : s \notin S /\ Cardinality(s) = n
  BY <1>2
<1>4. ASSUME NEW k \in s PROVE s \ {k} \in S
  <2>1. IsFiniteSet(s) /\ Cardinality(s) \in Nat
    BY KeysAreFinite
  <2>2. Cardinality(s \ {k}) = Cardinality(s) - 1
    BY <2>1, FS_RemoveElement
  <2>3. ~(n <= Cardinality(s \ {k}))
    BY <1>3, <2>1, <2>2
  <2>4. s \ {k} \in SUBSET Keys
    OBVIOUS
  <2> QED BY <1>2, <2>3, <2>4
<1> QED BY <1>3, <1>4

(* The table of the sums of the sets of at most n keys.                    *)
Few(n) == {s \in SUBSET Keys : Cardinality(s) <= n}

AnyOf(s) == CHOOSE k \in s : TRUE

SumsUpTo(n, f) ==
    /\ f \in [Few(n) -> Points]
    /\ \A s \in Few(n) :
          f[s] = IF s = {} THEN zeroKey ELSE plus(f[s \ {AnyOf(s)}], AnyOf(s))

LEMMA FewShape ==
    ASSUME NEW n \in Nat, NEW s \in Few(n), s # {}
    PROVE  /\ AnyOf(s) \in s /\ AnyOf(s) \in Points /\ n # 0
           /\ s \ {AnyOf(s)} \in Few(n - 1) /\ s \ {AnyOf(s)} \in Few(n)
<1>1. AnyOf(s) \in s
  BY DEF AnyOf
<1>2. /\ s \in SUBSET Keys /\ IsFiniteSet(s) /\ Cardinality(s) \in Nat
      /\ Cardinality(s) <= n
  BY KeysAreFinite DEF Few
<1>3. Cardinality(s \ {AnyOf(s)}) = Cardinality(s) - 1
  BY <1>1, <1>2, FS_RemoveElement
<1>4. s \ {AnyOf(s)} \in SUBSET Keys /\ Cardinality(s \ {AnyOf(s)}) \in Nat
  BY <1>2, KeysAreFinite
<1> QED BY <1>1, <1>2, <1>3, <1>4, KeysAreFinite DEF Few

LEMMA SumsExist ==
    ASSUME NEW n \in Nat PROVE \E f : SumsUpTo(n, f)
<1> DEFINE S == {m \in 0..n : \E f : SumsUpTo(m, f)}
<1>1. 0 \in S
  <2> DEFINE f == [s \in Few(0) |-> zeroKey]
  <2>1. \A s \in Few(0) : s = {}
    BY FewShape
  <2>2. f \in [Few(0) -> Points]
    BY ZeroIsPoint
  <2>3. SumsUpTo(0, f)
    BY <2>1, <2>2 DEF SumsUpTo
  <2> HIDE DEF f
  <2> QED BY <2>3
<1>2. ASSUME NEW m \in 1..n, m - 1 \in S PROVE m \in S
  <2>1. PICK f : SumsUpTo(m - 1, f)
    BY <1>2
  <2> DEFINE g == [s \in Few(m) |->
                     IF s = {} THEN zeroKey
                     ELSE plus(f[s \ {AnyOf(s)}], AnyOf(s))]
  <2>2. m \in Nat /\ m - 1 \in Nat
    OBVIOUS
  <2>3. ASSUME NEW s \in Few(m), s # {}
        PROVE  /\ s \ {AnyOf(s)} \in Few(m - 1) /\ s \ {AnyOf(s)} \in Few(m)
               /\ f[s \ {AnyOf(s)}] \in Points /\ AnyOf(s) \in Points
    BY <2>1, <2>2, <2>3, FewShape DEF SumsUpTo
  <2>4. g \in [Few(m) -> Points]
    BY <2>3, ZeroIsPoint, GroupLaws
  <2>5. ASSUME NEW s \in Few(m - 1) PROVE s \in Few(m) /\ g[s] = f[s]
    <3>1. s \in Few(m)
      BY <2>2, KeysAreFinite DEF Few
    <3> QED BY <2>1, <3>1 DEF SumsUpTo
  <2>6. ASSUME NEW s \in Few(m)
        PROVE  g[s] = IF s = {} THEN zeroKey ELSE plus(g[s \ {AnyOf(s)}], AnyOf(s))
    <3>1. s # {} => g[s \ {AnyOf(s)}] = f[s \ {AnyOf(s)}]
      BY <2>3, <2>5
    <3>2. g[s] = IF s = {} THEN zeroKey ELSE plus(f[s \ {AnyOf(s)}], AnyOf(s))
      OBVIOUS
    <3> HIDE DEF g
    <3> QED BY <3>1, <3>2
  <2> HIDE DEF g
  <2>7. SumsUpTo(m, g)
    BY <2>4, <2>6 DEF SumsUpTo
  <2> QED BY <2>7
<1>3. 0..n \subseteq S
  <2> HIDE DEF S
  <2> QED BY <1>1, <1>2, Throughout
<1> QED BY <1>3

(* The sums of keys, by their recursive definition.                        *)
LEMMA AggregateIs ==
    /\ Aggregate[{}] = zeroKey
    /\ \A s \in SUBSET Keys : s # {} =>
          /\ AnyOf(s) \in s
          /\ Aggregate[s] = plus(Aggregate[s \ {AnyOf(s)}], AnyOf(s))
<1> DEFINE Sums(A) == A = [keys \in SUBSET Keys |->
                             IF keys = {} THEN zeroKey
                             ELSE plus(A[keys \ {CHOOSE k \in keys : TRUE}],
                                       CHOOSE k \in keys : TRUE)]
<1>1. \E A : Sums(A)
  <2>1. PICK A : SumsUpTo(Cardinality(Keys), A)
    BY KeysAreFinite, SumsExist
  <2>2. Few(Cardinality(Keys)) = SUBSET Keys
    BY KeysAreFinite, FS_Subset DEF Few
  <2>3. Sums(A)
    BY <2>1, <2>2 DEF SumsUpTo, AnyOf
  <2> HIDE DEF Sums
  <2> QED BY <2>3
<1>2. Aggregate = CHOOSE A : Sums(A)
  BY DEF Aggregate
<1>3. Sums(Aggregate)
  <2> HIDE DEF Sums
  <2> QED BY <1>1, <1>2
<1>4. \A s \in SUBSET Keys :
         Aggregate[s] = IF s = {} THEN zeroKey
                        ELSE plus(Aggregate[s \ {AnyOf(s)}], AnyOf(s))
  BY <1>3 DEF AnyOf
<1>5. \A s : s # {} => AnyOf(s) \in s
  BY DEF AnyOf
<1> QED BY <1>4, <1>5

LEMMA AggregateIsPoint ==
    ASSUME NEW s \in SUBSET Keys PROVE Aggregate[s] \in Points
<1> DEFINE S == {t \in SUBSET Keys : Aggregate[t] \in Points}
<1>1. ASSUME NEW t \in SUBSET Keys, \A k \in t : t \ {k} \in S PROVE t \in S
  <2>1. CASE t = {}
    BY <2>1, AggregateIs, ZeroIsPoint
  <2>2. CASE t # {}
    <3>1. PICK k \in t : Aggregate[t] = plus(Aggregate[t \ {k}], k)
      BY <2>2, AggregateIs
    <3>2. Aggregate[t \ {k}] \in Points /\ k \in Points
      BY <1>1, KeysAreFinite
    <3>3. plus(Aggregate[t \ {k}], k) \in Points
      BY <3>2, GroupLaws
    <3> QED BY <3>1, <3>3
  <2> QED BY <2>1, <2>2
<1>2. SUBSET Keys \subseteq S
  <2> HIDE DEF S
  <2> QED BY <1>1, FromSmallerSets
<1> QED BY <1>2

(* A sum does not depend on the order in which its keys are taken.         *)
LEMMA AggregateTakesAny ==
    ASSUME NEW s \in SUBSET Keys, NEW k \in s
    PROVE  Aggregate[s] = plus(Aggregate[s \ {k}], k)
<1> DEFINE S == {t \in SUBSET Keys :
                   \A x \in t : Aggregate[t] = plus(Aggregate[t \ {x}], x)}
<1>1. ASSUME NEW t \in SUBSET Keys, \A x \in t : t \ {x} \in S PROVE t \in S
  <2> SUFFICES ASSUME NEW x \in t
               PROVE  Aggregate[t] = plus(Aggregate[t \ {x}], x)
    OBVIOUS
  <2>1. PICK y \in t : Aggregate[t] = plus(Aggregate[t \ {y}], y)
    BY AggregateIs
  <2>2. CASE x = y
    BY <2>1, <2>2
  <2>3. CASE x # y
    <3>1. PICK rest \in SUBSET Keys : rest = t \ {x, y}
      OBVIOUS
    <3>2. /\ x \in t \ {y} /\ (t \ {y}) \ {x} = rest
          /\ y \in t \ {x} /\ (t \ {x}) \ {y} = rest
      BY <2>3, <3>1
    <3>3. Aggregate[t \ {y}] = plus(Aggregate[rest], x)
      BY <1>1, <3>2
    <3>4. Aggregate[t \ {x}] = plus(Aggregate[rest], y)
      BY <1>1, <3>2
    <3>5. x \in Points /\ y \in Points /\ Aggregate[rest] \in Points
      BY KeysAreFinite, AggregateIsPoint
    <3>6. plus(plus(Aggregate[rest], x), y) = plus(plus(Aggregate[rest], y), x)
      <4>1. PICK p \in Points : p = Aggregate[rest]
        BY <3>5
      <4>2. plus(plus(p, x), y) = plus(p, plus(x, y))
        BY <3>5, GroupLaws
      <4>3. plus(plus(p, y), x) = plus(p, plus(y, x))
        BY <3>5, GroupLaws
      <4>4. plus(x, y) = plus(y, x)
        BY <3>5, GroupLaws
      <4> QED BY <4>1, <4>2, <4>3, <4>4
    <3> QED BY <2>1, <3>3, <3>4, <3>6
  <2> QED BY <2>2, <2>3
<1>2. SUBSET Keys \subseteq S
  <2> HIDE DEF S
  <2> QED BY <1>1, FromSmallerSets
<1> QED BY <1>2

LEMMA AggregateAdds ==
    ASSUME NEW A \in SUBSET Keys, NEW B \in SUBSET Keys, A \cap B = {}
    PROVE  Aggregate[A \cup B] = plus(Aggregate[A], Aggregate[B])
<1> DEFINE S == {t \in SUBSET Keys : A \cap t = {} =>
                   Aggregate[A \cup t] = plus(Aggregate[A], Aggregate[t])}
<1>1. ASSUME NEW t \in SUBSET Keys, \A x \in t : t \ {x} \in S PROVE t \in S
  <2> SUFFICES ASSUME A \cap t = {}
               PROVE  Aggregate[A \cup t] = plus(Aggregate[A], Aggregate[t])
    OBVIOUS
  <2>1. CASE t = {}
    <3>1. A \cup t = A
      BY <2>1
    <3> QED BY <2>1, <3>1, AggregateIs, AggregateIsPoint, GroupLaws
  <2>2. CASE t # {}
    <3>1. PICK x \in t : TRUE
      BY <2>2
    <3>2. PICK rest \in SUBSET Keys : rest = t \ {x}
      OBVIOUS
    <3>3. (A \cup t) \ {x} = A \cup rest /\ x \in A \cup t /\ A \cap rest = {}
      BY <3>2
    <3>4. Aggregate[A \cup t] = plus(Aggregate[A \cup rest], x)
      BY <3>3, AggregateTakesAny
    <3>5. Aggregate[A \cup rest] = plus(Aggregate[A], Aggregate[rest])
      BY <1>1, <3>2, <3>3
    <3>6. Aggregate[t] = plus(Aggregate[rest], x)
      BY <3>2, AggregateTakesAny
    <3>7. /\ Aggregate[A] \in Points /\ Aggregate[rest] \in Points
          /\ x \in Points
      BY KeysAreFinite, AggregateIsPoint
    <3> QED BY <3>4, <3>5, <3>6, <3>7, GroupLaws
  <2> QED BY <2>1, <2>2
<1>2. SUBSET Keys \subseteq S
  <2> HIDE DEF S
  <2> QED BY <1>1, FromSmallerSets
<1> QED BY <1>2

(* Taking the sum of a part away leaves the sum of the rest.               *)
LEMMA AggregateOfRest ==
    ASSUME NEW A \in SUBSET Keys, NEW B \in SUBSET A
    PROVE  plus(Aggregate[A], negate(Aggregate[B])) = Aggregate[A \ B]
<1>1. /\ A \ B \in SUBSET Keys /\ B \in SUBSET Keys
      /\ (A \ B) \cap B = {} /\ (A \ B) \cup B = A
  OBVIOUS
<1>2. PICK p : p = Aggregate[A \ B]
  OBVIOUS
<1>3. PICK q : q = Aggregate[B]
  OBVIOUS
<1>4. Aggregate[A] = plus(p, q)
  BY <1>1, <1>2, <1>3, AggregateAdds
<1>5. p \in Points /\ q \in Points
  BY <1>1, <1>2, <1>3, AggregateIsPoint
<1>6. negate(q) \in Points /\ plus(q, negate(q)) = zeroKey
  BY <1>5, NegateIsOpposite
<1>7. plus(plus(p, q), negate(q)) = plus(p, plus(q, negate(q)))
  BY <1>5, <1>6, GroupLaws
<1>8. plus(p, zeroKey) = p
  BY <1>5, GroupLaws
<1> QED BY <1>2, <1>3, <1>4, <1>6, <1>7, <1>8
(* What the walk has added after m indices is the sum of their keys.       *)
LEMMA WalkAddsKeys ==
    ASSUME NEW set \in ValSets, NEW indices \in Seq(Nat),
           InOrder(indices, Len(set.validators))
    PROVE  NonSignersKey(validatorsData(set), indices)
             = Aggregate[MissingKeys(set, indices, Len(indices))]
<1>0. PICK n : n = Len(indices)
  OBVIOUS
<1> DEFINE data == validatorsData(set)
           keyAt(i) == set.validators[indices[i] + 1].key
           Loop(f) == f = [i \in 0..n |->
                             IF i = 0 THEN zeroKey
                             ELSE plus(f[i - 1],
                                       deserialize(data[indices[i] + 1].keySerialized))]
           turn == [i \in 1..n |-> [x \in Points |-> plus(x, keyAt(i))]]
<1>1. n \in Nat
  BY <1>0
<1>2. ASSUME NEW i \in 1..n
      PROVE  /\ deserialize(data[indices[i] + 1].keySerialized) = keyAt(i)
             /\ keyAt(i) \in Points
  <2>1. indices[i] + 1 \in 1..Len(set.validators)
    BY <1>0, MissingGrows
  <2>2. keyAt(i) \in Points /\ indices[i] + 1 \in DOMAIN set.validators
    BY <2>1, SetShape
  <2>3. data[indices[i] + 1].keySerialized = serialize(keyAt(i))
    BY <2>2 DEF validatorsData
  <2> HIDE DEF data, keyAt
  <2> QED BY <2>2, <2>3, CompressionIsLossless
<1> HIDE DEF data
<1>5. turn \in [1..n -> [Points -> Points]]
  <2> HIDE DEF keyAt
  <2> QED BY <1>2, GroupLaws
<1>6. \A i \in 1..n, x \in Points : turn[i][x] = plus(x, keyAt(i))
  OBVIOUS
<1> HIDE DEF turn, keyAt
<1>7. PICK f : Runs(n, Points, zeroKey, turn, f)
  BY <1>1, <1>5, ZeroIsPoint, LoopRuns
<1>8. ASSUME NEW i \in 0..n
      PROVE  f[i] = IF i = 0 THEN zeroKey
                    ELSE plus(f[i - 1], deserialize(data[indices[i] + 1].keySerialized))
  <2>1. CASE i = 0
    BY <1>7, <2>1 DEF Runs
  <2>2. CASE i # 0
    <3>1. i \in 1..n /\ i - 1 \in 0..n
      BY <1>1, <2>2
    <3>2. f[i - 1] \in Points /\ f[i] = turn[i][f[i - 1]]
      BY <1>7, <3>1 DEF Runs
    <3> QED BY <1>2, <1>6, <2>2, <3>1, <3>2
  <2> QED BY <2>1, <2>2
<1>9. Loop(f)
  BY <1>7, <1>8 DEF Runs
<1> DEFINE g == CHOOSE h : Loop(h)
<1>10. Loop(g)
  <2> HIDE DEF Loop
  <2> QED BY <1>9
<1>11. NonSignersKey(data, indices) = g[n]
  BY <1>0 DEF NonSignersKey
<1> HIDE DEF g
<1>12. g[0] = zeroKey
  BY <1>1, <1>10
<1>13. ASSUME NEW i \in 1..n PROVE g[i] = plus(g[i - 1], keyAt(i))
  <2>1. i \in 0..n /\ i # 0
    OBVIOUS
  <2> QED BY <1>2, <1>10, <2>1
<1> HIDE DEF Loop
<1> DEFINE Named(m) == MissingKeys(set, indices, m)
           S == {m \in 0..n : g[m] = Aggregate[Named(m)]}
<1>14. 0 \in S
  <2>1. Named(0) = {}
    BY DEF MissingKeys
  <2>2. 0 \in 0..n
    BY <1>1
  <2>3. Aggregate[Named(0)] = zeroKey
    <3> HIDE DEF Named
    <3> QED BY <2>1, AggregateIs
  <2> QED BY <1>12, <2>2, <2>3
<1>15. ASSUME NEW m \in 1..n, m - 1 \in S PROVE m \in S
  <2>1. /\ keyAt(m) \notin Named(m - 1)
        /\ Named(m) = Named(m - 1) \cup {keyAt(m)}
    BY <1>0, MissingGrows DEF keyAt
  <2>2. Named(m) \in SUBSET Keys
    BY <1>0, MissingIn, SetShape
  <2>3. g[m - 1] = Aggregate[Named(m - 1)]
    BY <1>15
  <2> HIDE DEF Named
  <2>4. Named(m) \ {keyAt(m)} = Named(m - 1) /\ keyAt(m) \in Named(m)
    BY <2>1
  <2>5. Aggregate[Named(m)] = plus(Aggregate[Named(m - 1)], keyAt(m))
    BY <2>2, <2>4, AggregateTakesAny
  <2> QED BY <1>13, <2>3, <2>5
<1>16. 0..n \subseteq S
  <2> HIDE DEF S
  <2> QED BY <1>1, <1>14, <1>15, Throughout
<1> QED BY <1>0, <1>1, <1>11, <1>16 DEF data

(* The key that the verifier checks a signature with is the sum of the     *)
(* validators that the walk did not name, and the power is theirs.         *)
LEMMA WalkLeavesSigners ==
    ASSUME NEW set \in ValSets, NEW indices \in Seq(Nat),
           InOrder(indices, Len(set.validators)),
           NEW left, left = KeysOf(set) \ MissingKeys(set, indices, Len(indices))
    PROVE  /\ plus(deserialize(aggPublicKeyG1(set)),
                   negate(NonSignersKey(validatorsData(set), indices)))
                = Aggregate[left]
           /\ (PowerOf(set, Keys) - NonSignersPower(validatorsData(set), indices))
                  % Modulus = PowerOf(set, left)
<1> DEFINE missing == MissingKeys(set, indices, Len(indices))
<1>1. missing \in SUBSET KeysOf(set) /\ KeysOf(set) \in SUBSET Keys
  <2>1. Len(indices) \in 0..Len(indices)
    OBVIOUS
  <2> QED BY <2>1, MissingIn, SetShape
<1>2. NonSignersKey(validatorsData(set), indices) = Aggregate[missing]
  BY WalkAddsKeys
<1>3. NonSignersPower(validatorsData(set), indices) = PowerOf(set, missing)
  BY WalkCountsPower
<1>4. left = KeysOf(set) \ missing
  OBVIOUS
<1> HIDE DEF missing
<1>5. deserialize(aggPublicKeyG1(set)) = Aggregate[KeysOf(set)]
  BY <1>1, AggregateIsPoint, CompressionIsLossless DEF aggPublicKeyG1
<1>6. plus(Aggregate[KeysOf(set)], negate(Aggregate[missing])) = Aggregate[left]
  BY <1>1, <1>4, AggregateOfRest
<1>7. PowerOf(set, Keys) = PowerOf(set, left) + PowerOf(set, missing)
  <2>1. left \cap missing = {} /\ left \cup missing = KeysOf(set)
    BY <1>1, <1>4
  <2>2. PowerOf(set, Keys) = PowerOf(set, KeysOf(set))
    BY <1>1, PowerAgrees
  <2>3. PowerOf(set, left \cup missing) = PowerOf(set, left) + PowerOf(set, missing)
    BY <2>1, PowerAdds
  <2> QED BY <2>1, <2>2, <2>3
<1>8. /\ PowerOf(set, left) \in Nat /\ PowerOf(set, missing) \in Nat
      /\ PowerOf(set, left) < Modulus /\ Modulus \in Nat
  BY PowerNat, PowerFits
<1>9. (PowerOf(set, Keys) - PowerOf(set, missing)) % Modulus = PowerOf(set, left)
  <2>1. PICK p \in Nat : p = PowerOf(set, left)
    BY <1>8
  <2>2. PICK q \in Nat : q = PowerOf(set, missing)
    BY <1>8
  <2>3. p + q - q = p /\ p % Modulus = p
    <3>1. PICK m \in Nat : m = Modulus
      BY <1>8
    <3>2. p < m
      BY <1>8, <2>1, <3>1
    <3>3. p % m = p
      BY <3>2
    <3> QED BY <3>1, <3>3
  <2> QED BY <1>7, <2>1, <2>2, <2>3
<1> QED BY <1>2, <1>3, <1>5, <1>6, <1>9

(* The indices that the relay lists: in order, and those that are missing. *)
LEMMA SublistOfIndices ==
    ASSUME NEW n \in Nat, NEW wanted \in SUBSET (0..(n - 1)),
           NEW list \in Seq(Nat), Len(list) = n, \A i \in 1..n : list[i] = i - 1,
           NEW out, out = Sublist(list, wanted)
    PROVE  /\ out \in Seq(Nat) /\ InOrder(out, n)
           /\ Listed(out) = wanted
<1>1. /\ list \in Seq(Nat) /\ Len(list) = n
      /\ \A i \in 1..n : list[i] = i - 1
  OBVIOUS
<1>2. PICK kept : IsKept(list, wanted, kept) /\ out = kept[n]
  <2> DEFINE k == CHOOSE f : IsKept(list, wanted, f)
  <2>1. IsKept(list, wanted, k)
    BY <1>1, KeptExists
  <2>2. out = k[n]
    BY <1>1 DEF Sublist, IsKept, KeepStep
  <2> HIDE DEF k
  <2> QED BY <2>1, <2>2
<1>3. ASSUME NEW m \in 0..n
      PROVE  /\ kept[m] \in Seq(Nat)
             /\ Listed(kept[m]) = {list[i] : i \in 1..m} \cap wanted
             /\ kept[m] = KeepStep(list, wanted, kept, m)
  <2>1. Written(Nat, list, wanted, kept[m], m)
    BY <1>1, <1>2, KeptIsWritten
  <2>2. kept[m] = KeepStep(list, wanted, kept, m)
    <3> DEFINE steps == [i \in 0..n |-> KeepStep(list, wanted, kept, i)]
    <3>1. kept = steps
      BY <1>1, <1>2 DEF IsKept
    <3>2. steps[m] = KeepStep(list, wanted, kept, m)
      OBVIOUS
    <3> HIDE DEF steps
    <3> QED BY <3>1, <3>2
  <2> QED BY <2>1, <2>2 DEF Written
<1> DEFINE Rises(l) == \A i \in 1..Len(l) : i # 1 => l[i - 1] < l[i]
           S == {m \in 0..n : Rises(kept[m])}
<1>4. 0 \in S
  <2>1. kept[0] = << >> /\ 0 \in 0..n
    BY <1>3 DEF KeepStep
  <2> QED BY <2>1
<1>5. ASSUME NEW m \in 1..n, m - 1 \in S PROVE m \in S
  <2>1. PICK old : old = kept[m - 1]
    OBVIOUS
  <2>2. m \in 0..n /\ m # 0 /\ m - 1 \in 0..n /\ list[m] = m - 1
    BY <1>1
  <2>3. /\ old \in Seq(Nat) /\ Rises(old)
        /\ Listed(old) = {list[i] : i \in 1..(m - 1)} \cap wanted
    BY <1>3, <1>5, <2>1, <2>2
  <2>4. \A i \in 1..Len(old) : old[i] \in Nat /\ old[i] < m - 1
    <3> SUFFICES ASSUME NEW i \in 1..Len(old) PROVE old[i] \in Nat /\ old[i] < m - 1
      OBVIOUS
    <3>1. old[i] \in {list[j] : j \in 1..(m - 1)}
      BY <2>3 DEF Listed
    <3>2. PICK j \in 1..(m - 1) : old[i] = list[j]
      BY <3>1
    <3>3. j \in 1..n
      OBVIOUS
    <3> QED BY <1>1, <3>2, <3>3
  <2>5. kept[m] = old \/ kept[m] = Append(old, m - 1)
    BY <1>3, <2>1, <2>2 DEF KeepStep
  <2>6. Rises(kept[m])
    <3>1. CASE kept[m] = old
      BY <2>3, <3>1
    <3>2. CASE kept[m] = Append(old, m - 1)
      <4> DEFINE l == Append(old, m - 1)
      <4>1. /\ Len(old) \in Nat /\ Len(l) = Len(old) + 1
            /\ l[Len(old) + 1] = m - 1
            /\ \A i \in 1..Len(old) : l[i] = old[i]
        BY <2>3
      <4> HIDE DEF l
      <4>2. ASSUME NEW i \in 1..Len(l), i # 1 PROVE l[i - 1] < l[i]
        <5>1. i - 1 \in 1..Len(old) /\ l[i - 1] = old[i - 1]
          <6>1. PICK k \in Nat : k = Len(old)
            BY <4>1
          <6>2. i \in 1..(k + 1)
            BY <4>1, <6>1
          <6>3. i - 1 \in 1..Len(old)
            BY <4>2, <6>1, <6>2
          <6> QED BY <4>1, <6>3
        <5>2. CASE i = Len(old) + 1
          BY <2>4, <4>1, <5>1, <5>2
        <5>3. CASE i # Len(old) + 1
          <6>1. PICK k \in Nat : k = Len(old)
            BY <4>1
          <6>2. i \in 1..(k + 1)
            BY <4>1, <6>1
          <6>3. i \in 1..Len(old)
            <7>1. i # k + 1
              BY <5>3, <6>1
            <7>2. i \in 1..k
              BY <6>2, <7>1
            <7> QED BY <6>1, <7>2
          <6>4. l[i] = old[i]
            BY <4>1, <6>3
          <6> QED BY <2>3, <4>2, <5>1, <6>3, <6>4
        <5> QED BY <5>2, <5>3
      <4>3. Rises(l)
        BY <4>2
      <4> HIDE DEF Rises
      <4> QED BY <3>2, <4>3 DEF l
    <3> QED BY <2>5, <3>1, <3>2
  <2> HIDE DEF Rises
  <2> QED BY <2>2, <2>6
<1>6. 0..n \subseteq S
  <2> HIDE DEF S
  <2> QED BY <1>4, <1>5, Throughout
<1>7. n \in 0..n
  OBVIOUS
<1>8. Rises(out)
  <2> HIDE DEF Rises
  <2> QED BY <1>2, <1>6, <1>7
<1>9. /\ out \in Seq(Nat)
      /\ Listed(out) = {list[i] : i \in 1..n} \cap wanted
  BY <1>2, <1>3, <1>7
<1>10. {list[i] : i \in 1..n} = 0..(n - 1)
  <2>1. ASSUME NEW x \in 0..(n - 1) PROVE \E i \in 1..n : list[i] = x
    <3>1. x + 1 \in 1..n /\ list[x + 1] = x
      BY <1>1
    <3> QED BY <3>1
  <2> QED BY <1>1, <2>1
<1>11. {out[i] : i \in 1..Len(out)} = wanted
  BY <1>9, <1>10 DEF Listed
<1>12. InOrder(out, n)
  <2>1. DOMAIN out = 1..Len(out)
    BY <1>9
  <2>2. ASSUME NEW i \in 1..Len(out) PROVE out[i] < n
    <3>1. out[i] \in {out[j] : j \in 1..Len(out)}
      OBVIOUS
    <3>2. out[i] \in 0..(n - 1)
      BY <1>11, <3>1
    <3> QED BY <3>2
  <2> QED BY <1>8, <2>1, <2>2 DEF InOrder
<1> QED BY <1>9, <1>10, <1>12
-----------------------------------------------------------------------------
(* The inductive invariant of the verifiers: a header's extra data is that *)
(* of its set, and the ZK verifier has passed its constructor.             *)
VerifierInv ==
    /\ sigVerifier \in {"Simple", "ZK"}
    /\ maxValidators \in Seq(Nat)
    /\ sigVerifier = "ZK" => CanConstruct(maxValidators)
    /\ committed \in Seq(ValSets) /\ Len(committed) >= 1
    /\ extraData \in Seq({ExtraData(set) : set \in ValSets})
    /\ Len(extraData) = Len(committed)
    /\ \A n \in 1..Len(committed) : extraData[n] = ExtraData(committed[n])
    /\ behind \in Seq(SUBSET Keys) /\ Len(behind) = Len(committed)
    /\ QuorumBehindCommits

LEMMA LastOfInv ==
    ASSUME VerifierInv
    PROVE  /\ Len(committed) \in Nat /\ LastSet \in ValSets
           /\ LastExtraData = ExtraData(LastSet)
<1>1. Len(committed) \in Nat /\ Len(committed) \in 1..Len(committed)
  BY DEF VerifierInv
<1>2. LastSet \in ValSets
  BY <1>1, ElementIn DEF VerifierInv, LastSet
<1> QED BY <1>1, <1>2 DEF VerifierInv, LastSet, LastExtraData

(* What the simple verifier accepts, a quorum of the last set has signed.  *)
LEMMA SimpleNeedsQuorum ==
    ASSUME VerifierInv, NEW set \in ValSets, CommitSimple(set)
    PROVE  PowerOf(LastSet, SignersOf(set)) >= LastSet.quorumThreshold
<1>1. PICK signers \in SUBSET SignersOf(set), data \in DataInputs,
           nonSigners \in NonSignersInputs :
           verifySimple(Message(set), SimpleProof(set, signers, data, nonSigners))
  BY DEF CommitSimple
<1> DEFINE last == LastSet
           proof == SimpleProof(set, signers, data, nonSigners)
<1>2. last \in ValSets /\ LastExtraData = ExtraData(last)
  BY LastOfInv
<1>3. /\ proof.signature = [message |-> Message(set), key |-> Aggregate[signers]]
      /\ proof.validatorsData = data /\ proof.nonSigners = nonSigners
  BY DEF SimpleProof
<1>4. /\ LastExtraData.validatorSetHashKeccak256 = validatorsData(last)
      /\ LastExtraData.aggPublicKeyG1 = aggPublicKeyG1(last)
  BY <1>2 DEF ExtraData
<1> HIDE DEF proof
<1>5. /\ data = validatorsData(last)
      /\ InOrder(nonSigners, Len(data))
      /\ last.quorumThreshold <=
            (PowerOf(last, Keys) - NonSignersPower(data, nonSigners)) % Modulus
      /\ verify(plus(deserialize(aggPublicKeyG1(last)),
                     negate(NonSignersKey(data, nonSigners))),
                Message(set), [message |-> Message(set), key |-> Aggregate[signers]])
  BY <1>1, <1>3, <1>4 DEF verifySimple, proof
<1> HIDE DEF last
<1>6. nonSigners \in Seq(Nat)
  BY VerifiersAssumption
<1>7. Len(data) = Len(last.validators)
  BY <1>2, <1>5, SetShape DEF validatorsData
<1> DEFINE left == KeysOf(last) \ MissingKeys(last, nonSigners, Len(nonSigners))
<1>8. /\ plus(deserialize(aggPublicKeyG1(last)),
              negate(NonSignersKey(data, nonSigners))) = Aggregate[left]
      /\ (PowerOf(last, Keys) - NonSignersPower(data, nonSigners)) % Modulus
            = PowerOf(last, left)
  BY <1>2, <1>5, <1>6, <1>7, WalkLeavesSigners
<1>9. left \in SUBSET Keys /\ signers \in SUBSET Keys
  BY <1>2, SetShape DEF SignersOf
<1> HIDE DEF left
<1>10. Aggregate[signers] = Aggregate[left]
  BY <1>5, <1>8 DEF verify
<1>11. signers = left
  BY <1>9, <1>10, VerifiersAssumption
<1>12. PowerOf(last, left) <= PowerOf(last, SignersOf(set))
  BY <1>2, <1>11, PowerGrows
<1>13. /\ last.quorumThreshold <= PowerOf(last, left)
       /\ last.quorumThreshold \in Nat /\ PowerOf(last, left) \in Nat
       /\ PowerOf(last, SignersOf(set)) \in Nat
  BY <1>2, <1>5, <1>8, PowerNat, VerifiersAssumption
<1> QED BY <1>12, <1>13 DEF last

(* What the ZK verifier accepts, a quorum of the last set has signed.      *)
LEMMA ZKNeedsQuorum ==
    ASSUME VerifierInv, NEW set \in ValSets, CommitZK(set)
    PROVE  PowerOf(LastSet, SignersOf(set)) >= LastSet.quorumThreshold
<1>1. PICK circuit \in DOMAIN maxValidators, valSet \in ValSets,
           signers \in SUBSET SignersOf(set) :
           verifyZK(Message(set),
                    ZKProof(circuit, valSet, signers, PowerOf(valSet, signers)))
  BY DEF CommitZK
<1>2. LastSet \in ValSets /\ LastExtraData = ExtraData(LastSet)
  BY LastOfInv
<1>3. valSet.validators = LastSet.validators
  BY <1>1, <1>2 DEF verifyZK, ZKProof, ExtraData
<1>4. PowerOf(valSet, signers) >= LastSet.quorumThreshold
  BY <1>1 DEF verifyZK, ZKProof
<1>5. PowerOf(valSet, signers) = PowerOf(LastSet, signers)
  BY <1>3 DEF PowerOf
<1>6. PowerOf(LastSet, signers) <= PowerOf(LastSet, SignersOf(set))
  BY <1>2, PowerGrows
<1>7. /\ PowerOf(LastSet, signers) \in Nat
      /\ PowerOf(LastSet, SignersOf(set)) \in Nat
      /\ LastSet.quorumThreshold \in Nat
  BY <1>2, PowerNat, VerifiersAssumption
<1> QED BY <1>4, <1>5, <1>6, <1>7

LEMMA CommitKeepsInv ==
    ASSUME VerifierInv, NEW set \in ValSets, commitSigned(set),
           PowerOf(LastSet, SignersOf(set)) >= LastSet.quorumThreshold
    PROVE  VerifierInv'
<1> DEFINE n == Len(committed)
<1>1. n \in Nat /\ n >= 1
  BY DEF VerifierInv
<1>2. /\ committed' \in Seq(ValSets) /\ Len(committed') = n + 1
      /\ committed'[n + 1] = set
      /\ \A i \in 1..n : committed'[i] = committed[i]
  BY DEF VerifierInv, commitSigned
<1>3. /\ extraData' \in Seq({ExtraData(s) : s \in ValSets})
      /\ Len(extraData') = n + 1 /\ extraData'[n + 1] = ExtraData(set)
      /\ \A i \in 1..n : extraData'[i] = extraData[i]
  <2>1. ExtraData(set) \in {ExtraData(s) : s \in ValSets}
    OBVIOUS
  <2>2. /\ extraData \in Seq({ExtraData(s) : s \in ValSets}) /\ Len(extraData) = n
        /\ extraData' = Append(extraData, ExtraData(set))
    BY DEF VerifierInv, commitSigned
  <2> QED BY <2>1, <2>2
<1>4. /\ behind' \in Seq(SUBSET Keys) /\ Len(behind') = n + 1
      /\ behind'[n + 1] = SignersOf(set)
      /\ \A i \in 1..n : behind'[i] = behind[i]
  <2>1. SignersOf(set) \in SUBSET Keys
    BY DEF SignersOf
  <2>2. /\ behind \in Seq(SUBSET Keys) /\ Len(behind) = n
        /\ behind' = Append(behind, SignersOf(set))
    BY DEF VerifierInv, commitSigned
  <2> QED BY <2>1, <2>2
<1>5. ASSUME NEW i \in 1..(n + 1)
      PROVE  extraData'[i] = ExtraData(committed'[i])
  <2>1. i \in 1..n \/ i = n + 1
    BY <1>1
  <2>2. CASE i \in 1..n
    BY <1>2, <1>3, <2>2 DEF VerifierInv
  <2> QED BY <1>2, <1>3, <2>1, <2>2
<1>6. ASSUME NEW i \in 2..(n + 1)
      PROVE  PowerOf(committed'[i - 1], behind'[i])
               >= committed'[i - 1].quorumThreshold
  <2>1. i - 1 \in 1..n /\ (i \in 2..n \/ i = n + 1)
    BY <1>1
  <2>2. CASE i \in 2..n
    <3>1. i \in 1..n
      BY <1>1, <2>2
    <3>2. committed'[i - 1] = committed[i - 1] /\ behind'[i] = behind[i]
      BY <1>2, <1>4, <2>1, <3>1
    <3> QED BY <2>2, <3>2 DEF VerifierInv, QuorumBehindCommits
  <2>3. CASE i = n + 1
    <3>1. committed'[i - 1] = LastSet /\ behind'[i] = SignersOf(set)
      BY <1>1, <1>2, <1>4, <2>1, <2>3 DEF LastSet
    <3> QED BY <3>1
  <2> QED BY <2>1, <2>2, <2>3
<1>7. QuorumBehindCommits'
  BY <1>2, <1>6 DEF QuorumBehindCommits
<1>8. UNCHANGED <<sigVerifier, maxValidators>>
  BY DEF commitSigned
<1>9. /\ sigVerifier' \in {"Simple", "ZK"} /\ maxValidators' \in Seq(Nat)
      /\ sigVerifier' = "ZK" => CanConstruct(maxValidators')
  BY <1>8 DEF VerifierInv
<1>10. Len(committed') >= 1
  BY <1>1, <1>2
<1> QED BY <1>2, <1>3, <1>4, <1>5, <1>7, <1>9, <1>10 DEF VerifierInv

LEMMA VerifierInitInv == VerifierInit => VerifierInv
<1> SUFFICES ASSUME VerifierInit PROVE VerifierInv
  OBVIOUS
<1>1. PICK set \in ValSets : committed = <<set>> /\ extraData = <<ExtraData(set)>>
  BY DEF VerifierInit
<1>2. behind = <<{}>>
  BY DEF VerifierInit
<1>3. /\ sigVerifier \in {"Simple", "ZK"} /\ maxValidators \in Seq(Nat)
      /\ sigVerifier = "ZK" => CanConstruct(maxValidators)
  <2>1. CASE sigVerifier = "Simple" /\ maxValidators = << >>
    BY <2>1
  <2>2. CASE /\ sigVerifier = "ZK"
             /\ maxValidators \in {list \in MaxValidatorsInputs : CanConstruct(list)}
    BY <2>2, VerifiersAssumption
  <2> QED BY <2>1, <2>2 DEF VerifierInit
<1>4. /\ committed \in Seq(ValSets) /\ Len(committed) = 1
      /\ committed[1] = set
  BY <1>1
<1>5. /\ extraData \in Seq({ExtraData(s) : s \in ValSets}) /\ Len(extraData) = 1
      /\ extraData[1] = ExtraData(set)
  BY <1>1
<1>6. behind \in Seq(SUBSET Keys) /\ Len(behind) = 1
  BY <1>2
<1>7. QuorumBehindCommits
  BY <1>4 DEF QuorumBehindCommits
<1>8. \A n \in 1..1 : extraData[n] = ExtraData(committed[n])
  BY <1>4, <1>5
<1> QED BY <1>3, <1>4, <1>5, <1>6, <1>7, <1>8 DEF VerifierInv

LEMMA VerifierStepInv == VerifierInv /\ [VerifierNext]_verifierVars => VerifierInv'
<1> SUFFICES ASSUME VerifierInv, [VerifierNext]_verifierVars PROVE VerifierInv'
  OBVIOUS
<1>1. ASSUME NEW set \in ValSets, NEW key \in Keys, Sign(key, set)
      PROVE  VerifierInv'
  BY <1>1 DEF VerifierInv, Sign, QuorumBehindCommits
<1>2. ASSUME NEW set \in ValSets, CommitSimple(set) PROVE VerifierInv'
  BY <1>2, SimpleNeedsQuorum, CommitKeepsInv DEF CommitSimple
<1>3. ASSUME NEW set \in ValSets, CommitZK(set) PROVE VerifierInv'
  BY <1>3, ZKNeedsQuorum, CommitKeepsInv DEF CommitZK
<1>4. CASE UNCHANGED verifierVars
  BY <1>4 DEF VerifierInv, verifierVars, QuorumBehindCommits
<1> QED BY <1>1, <1>2, <1>3, <1>4 DEF VerifierNext

(* Whatever a relayer sends along, no set is committed without signatures  *)
(* of a quorum of the set before it.                                       *)
THEOREM QuorumBehindHolds == VerifierSpec => []QuorumBehindCommits
<1>1. VerifierInv => QuorumBehindCommits
  BY DEF VerifierInv
<1> QED BY VerifierInitInv, VerifierStepInv, <1>1, PTL DEF VerifierSpec

(* The first circuit with room for a set is the smallest one.              *)
LEMMA FirstIsSmallest ==
    ASSUME maxValidators \in Seq(Nat), CanConstruct(maxValidators),
           NEW total \in Nat, NEW roomy,
           \A i : i \in roomy <=>
              i \in DOMAIN maxValidators /\ total <= maxValidators[i],
           roomy # {}
    PROVE  /\ getVerifier(total) \in roomy /\ getVerifier(total) # 0
           /\ \A j \in roomy : maxValidators[getVerifier(total)] <= maxValidators[j]
           /\ \A i \in roomy :
                 (\A j \in roomy : maxValidators[i] <= maxValidators[j])
                    => i = getVerifier(total)
<1>1. /\ DOMAIN maxValidators = 1..Len(maxValidators)
      /\ \A i \in DOMAIN maxValidators : maxValidators[i] \in Nat
  OBVIOUS
<1>2. \A i, j \in 1..Len(maxValidators) :
         i < j => maxValidators[i] < maxValidators[j]
  <2>1. ASSUME NEW i \in 1..Len(maxValidators), i # 1
        PROVE  maxValidators[i - 1] < maxValidators[i]
    <3>1. i > 1 /\ i \in DOMAIN maxValidators
      BY <1>1, <2>1
    <3> QED BY <3>1 DEF CanConstruct
  <2> QED BY <2>1, GrowsThroughout
<1>3. ASSUME NEW i \in roomy
      PROVE  i \in 1..Len(maxValidators) /\ i \in Nat /\ maxValidators[i] \in Nat
  BY <1>1
<1>4. PICK first \in roomy : \A j \in roomy : first <= j
  <2>1. roomy \subseteq Nat
    BY <1>3
  <2> QED BY <2>1, LeastNumber
<1>5. ASSUME NEW j \in roomy, first # j
      PROVE  maxValidators[first] < maxValidators[j]
  <2>1. first < j
    BY <1>3, <1>4, <1>5
  <2> QED BY <1>2, <1>3, <2>1
<1>6. ASSUME NEW j \in roomy PROVE maxValidators[first] <= maxValidators[j]
  <2>1. maxValidators[first] \in Nat /\ maxValidators[j] \in Nat
    BY <1>3
  <2>2. first = j \/ maxValidators[first] < maxValidators[j]
    BY <1>5
  <2> QED BY <2>1, <2>2
<1>7. ASSUME NEW i \in roomy, \A j \in roomy : maxValidators[i] <= maxValidators[j]
      PROVE  i = first
  BY <1>3, <1>5, <1>7
<1>8. getVerifier(total) = first
  <2>1. {i \in DOMAIN maxValidators : total <= maxValidators[i]} = roomy
    OBVIOUS
  <2>2. getVerifier(total) = CHOOSE i \in roomy : \A j \in roomy : i <= j
    BY <2>1 DEF getVerifier
  <2>3. \A i \in roomy : (\A j \in roomy : i <= j) => i = first
    BY <1>3, <1>4
  <2> QED BY <1>4, <2>2, <2>3
<1>9. first # 0
  BY <1>3
<1> QED BY <1>6, <1>7, <1>8, <1>9

(* The simple verifier accepts what the relay makes of a quorum.           *)
LEMMA SimpleTakesQuorum ==
    ASSUME VerifierInv, NEW set \in ValSets,
           getType(LastSet.requiredKeyTag) = KEY_TYPE_BLS_BN254, Honest(set) # {},
           PowerOf(LastSet, Honest(set)) >= LastSet.quorumThreshold,
           Len(LastSet.validators) <= MAX_VALIDATORS
    PROVE  verifySimple(Message(set), HonestSimpleProof(set))
<1> DEFINE last == LastSet
           n == Len(last.validators)
           data == validatorsData(last)
           signers == Honest(set)
           missing == {i \in DOMAIN last.validators :
                         last.validators[i].key \notin signers}
           wanted == {i - 1 : i \in missing}
           list == Sublist([i \in DOMAIN last.validators |-> i - 1], wanted)
<1>1. last \in ValSets /\ LastExtraData = ExtraData(last)
  BY LastOfInv
<1>2. /\ LastExtraData.validatorSetHashKeccak256 = data
      /\ LastExtraData.aggPublicKeyG1 = aggPublicKeyG1(last)
  BY <1>1 DEF ExtraData
<1>3. HonestSimpleProof(set) = SimpleProof(set, signers, data, list)
  BY <1>2 DEF HonestSimpleProof
<1>4. signers \subseteq KeysOf(last) /\ signers # {}
  BY DEF Honest
<1> HIDE DEF last, signers
<1>5. n \in Nat /\ DOMAIN last.validators = 1..n
  BY <1>1, SetShape
<1>6. wanted \in SUBSET (0..(n - 1))
  BY <1>5
<1>7. /\ list \in Seq(Nat) /\ InOrder(list, n)
      /\ Listed(list) = wanted
  <2>1. PICK indices : indices = [i \in DOMAIN last.validators |-> i - 1]
    OBVIOUS
  <2>2. /\ indices \in Seq(Nat) /\ Len(indices) = n
        /\ \A i \in 1..n : indices[i] = i - 1
        /\ list = Sublist(indices, wanted)
    BY <1>5, <2>1
  <2> HIDE DEF wanted, n, list
  <2> QED BY <1>5, <1>6, <2>2, SublistOfIndices
<1>8. MissingKeys(last, list, Len(list)) = KeysOf(last) \ signers
  <2>1. ASSUME NEW j \in 1..Len(list)
        PROVE  last.validators[list[j] + 1].key \in KeysOf(last) \ signers
    <3>1. list[j] \in Listed(list)
      BY DEF Listed
    <3>2. PICK i \in missing : list[j] = i - 1
      BY <1>7, <3>1
    <3>3. list[j] + 1 = i
      BY <1>5, <3>2
    <3> QED BY <3>2, <3>3 DEF KeysOf
  <2>2. ASSUME NEW key \in KeysOf(last) \ signers
        PROVE  \E j \in 1..Len(list) : key = last.validators[list[j] + 1].key
    <3>1. PICK i \in DOMAIN last.validators : key = last.validators[i].key
      BY DEF KeysOf
    <3>2. i - 1 \in wanted
      BY <3>1
    <3>3. PICK j \in 1..Len(list) : list[j] = i - 1
      BY <1>7, <3>2 DEF Listed
    <3>4. list[j] + 1 = i
      BY <1>5, <3>3
    <3> QED BY <3>1, <3>4
  <2> HIDE DEF list, wanted
  <2> QED BY <2>1, <2>2 DEF MissingKeys
<1> HIDE DEF list, wanted, missing
<1>9. signers = KeysOf(last) \ MissingKeys(last, list, Len(list))
  BY <1>4, <1>8
<1>10. /\ plus(deserialize(aggPublicKeyG1(last)),
               negate(NonSignersKey(data, list))) = Aggregate[signers]
       /\ (PowerOf(last, Keys) - NonSignersPower(data, list)) % Modulus
             = PowerOf(last, signers)
  BY <1>1, <1>7, <1>9, WalkLeavesSigners
<1>11. Len(data) = n /\ n >= 1 /\ Len(data) \in 1..MAX_VALIDATORS
  <2>1. Len(data) = n
    BY <1>5 DEF validatorsData
  <2>2. n # 0
    BY <1>4, <1>5 DEF KeysOf
  <2>3. n <= MAX_VALIDATORS
    BY DEF last
  <2> QED BY <1>5, <2>1, <2>2, <2>3, VerifiersAssumption
<1>12. Aggregate[signers] # zeroKey
  <2>1. signers \in SUBSET Keys /\ {} \in SUBSET Keys
    BY <1>1, <1>4, SetShape
  <2> QED BY <1>4, <2>1, AggregateIs, VerifiersAssumption
<1>13. last.quorumThreshold <= PowerOf(last, signers)
  <2>1. last.quorumThreshold \in Nat /\ PowerOf(last, signers) \in Nat
    BY <1>1, PowerNat, VerifiersAssumption
  <2> QED BY <2>1 DEF last, signers
<1>14. verify(Aggregate[signers], Message(set),
              [message |-> Message(set), key |-> Aggregate[signers]])
  BY <1>12 DEF verify
<1> DEFINE proof == SimpleProof(set, signers, data, list)
<1>15. /\ proof.signature = [message |-> Message(set), key |-> Aggregate[signers]]
       /\ proof.validatorsData = data /\ proof.nonSigners = list
  BY DEF SimpleProof
<1> HIDE DEF proof, data, n
<1>16. getType(last.requiredKeyTag) = KEY_TYPE_BLS_BN254
  BY DEF last
<1>17. verifySimple(Message(set), proof)
  BY <1>2, <1>7, <1>10, <1>11, <1>13, <1>14, <1>15, <1>16 DEF verifySimple, last
<1> QED BY <1>3, <1>17 DEF proof

(* And so does the ZK verifier.                                            *)
LEMMA ZKTakesQuorum ==
    ASSUME VerifierInv, NEW set \in ValSets, sigVerifier = "ZK",
           getType(LastSet.requiredKeyTag) = KEY_TYPE_BLS_BN254, Honest(set) # {},
           PowerOf(LastSet, Honest(set)) >= LastSet.quorumThreshold,
           \E i \in DOMAIN maxValidators :
              Len(LastSet.validators) <= maxValidators[i]
    PROVE  verifyZK(Message(set), HonestZKProof(set))
<1> DEFINE last == LastSet
           n == Len(last.validators)
           signers == Honest(set)
           roomy == {i \in DOMAIN maxValidators : n <= maxValidators[i]}
           circuit == CHOOSE i \in roomy :
                        \A j \in roomy : maxValidators[i] <= maxValidators[j]
           proof == ZKProof(circuit, last, signers, PowerOf(last, signers))
<1>1. last \in ValSets /\ LastExtraData = ExtraData(last)
  BY LastOfInv
<1>2. /\ LastExtraData.totalActiveValidators = n
      /\ LastExtraData.validatorSetHashMimc = last.validators
  BY <1>1 DEF ExtraData
<1>3. HonestZKProof(set) = proof
  BY DEF HonestZKProof
<1>4. n \in Nat /\ DOMAIN last.validators = 1..n
  BY <1>1, SetShape
<1>5. n # 0
  BY <1>4 DEF Honest, KeysOf
<1>6. /\ getVerifier(n) = circuit /\ circuit \in DOMAIN maxValidators
      /\ circuit # 0 /\ n <= maxValidators[circuit]
  <2>1. /\ roomy # {}
        /\ \A i : i \in roomy <=> i \in DOMAIN maxValidators /\ n <= maxValidators[i]
    OBVIOUS
  <2>2. maxValidators \in Seq(Nat) /\ CanConstruct(maxValidators)
    BY DEF VerifierInv
  <2> HIDE DEF n, roomy
  <2>3. /\ getVerifier(n) \in roomy /\ getVerifier(n) # 0
        /\ \A j \in roomy : maxValidators[getVerifier(n)] <= maxValidators[j]
        /\ \A i \in roomy : (\A j \in roomy : maxValidators[i] <= maxValidators[j])
              => i = getVerifier(n)
    BY <1>4, <2>1, <2>2, FirstIsSmallest
  <2>4. circuit = getVerifier(n)
    BY <2>3
  <2> QED BY <2>1, <2>3, <2>4
<1> HIDE DEF circuit, roomy
<1>7. /\ proof.circuit = circuit /\ proof.valSet = last /\ proof.signers = signers
      /\ proof.signersVotingPower = PowerOf(last, signers)
  BY DEF ZKProof
<1> HIDE DEF proof
<1>8. proof.signers \subseteq SignersOf(set) \cap KeysOf(proof.valSet)
  BY <1>7 DEF Honest
<1>9. Message(set).valSet = set
  BY DEF Message
<1>10. verifyProof(circuit, Message(set), proof)
  BY <1>6, <1>7, <1>8, <1>9 DEF verifyProof
<1>11. proof.signersVotingPower >= LastSet.quorumThreshold
  BY <1>7
<1>12. proof.valSet.validators = LastExtraData.validatorSetHashMimc
  BY <1>2, <1>7
<1> HIDE DEF n
<1>13. verifyZK(Message(set), proof)
  BY <1>2, <1>5, <1>6, <1>10, <1>11, <1>12 DEF verifyZK
<1> QED BY <1>3, <1>13

(* Once a quorum of the last set has signed a set, the proof that the      *)
(* relay makes of its signatures is accepted, whoever is missing.          *)
THEOREM QuorumIsEnoughHolds == VerifierSpec => []QuorumIsEnough
<1>1. VerifierInv => QuorumIsEnough
  <2> SUFFICES ASSUME VerifierInv PROVE QuorumIsEnough
    OBVIOUS
  <2>1. sigVerifier = "Simple" \/ sigVerifier = "ZK"
    BY DEF VerifierInv
  <2> QED BY <2>1, SimpleTakesQuorum, ZKTakesQuorum DEF QuorumIsEnough
<1> QED BY VerifierInitInv, VerifierStepInv, <1>1, PTL DEF VerifierSpec
=============================================================================
