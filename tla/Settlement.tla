------------------------------ MODULE Settlement ------------------------------
(***************************************************************************)
(* One settlement contract: a chain of validator set headers, each of them *)
(* committed under a signature of the set before it, or placed by the      *)
(* network's owner as a genesis.  The verifier contract is free to accept  *)
(* any header: what it accepts is checked elsewhere, what it is asked is   *)
(* recorded here.                                                          *)
(***************************************************************************)
EXTENDS SettlementHandlers

CONSTANTS Candidates,    \* headers a caller may submit, good and bad
          Extras,        \* lists of extra data a caller may submit
          MaxTime        \* bound: the last block timestamp of the model

ASSUME SettlementAssumption ==
    /\ Candidates \subseteq Header /\ Extras \subseteq Seq(ExtraEntry)
    /\ MaxTime \in Nat \ {0}

VARIABLES
    now,                 \* block.timestamp
    settlement,          \* the contract's storage
    vouched,             \* history: what the verifier was asked at each commit
    rewound              \* history: has a genesis been placed below the last
                         \* committed epoch

vars == <<now, settlement, vouched, rewound>>

Query == [verifier : Verifiers, epoch : Epochs, keyTag : Nat,
          quorumThreshold : Nat]

(* vouched[e] holds the query of the commit of epoch e, if it was committed*)
(* and not a genesis.                                                      *)
TypeOK ==
    /\ now \in 0..MaxTime
    /\ settlement \in Storage
    /\ vouched \in [Epochs -> {<<>>} \cup Query]
    /\ rewound \in BOOLEAN

Init ==
    /\ now = 1
    /\ \E v \in Verifiers \ {NoVerifier} : settlement = Initialized(v)
    /\ vouched = [epoch \in Epochs |-> <<>>]
    /\ rewound = FALSE

setSigVerifier(sigVerifier) ==
    /\ CanSetSigVerifier(settlement, sigVerifier)
    /\ settlement' = AfterSetSigVerifier(settlement, sigVerifier)
    /\ UNCHANGED <<now, vouched, rewound>>

setGenesis(header, extraData) ==
    /\ CanSetValSetHeader(settlement, header, extraData, now)
    /\ settlement' = AfterSetValSetHeader(settlement, header, extraData)
    /\ rewound' = (rewound \/ header.epoch < LastEpoch(settlement))
    /\ UNCHANGED <<now, vouched>>

commitValSetHeader(header, extraData) ==
    /\ CanCommit(settlement, header, extraData, now)
    /\ settlement' = AfterSetValSetHeader(settlement, header, extraData)
    /\ vouched' = [vouched EXCEPT ![header.epoch] = QuorumQuery(settlement)]
    /\ UNCHANGED <<now, rewound>>

Tick ==
    /\ now < MaxTime
    /\ now' = now + 1
    /\ UNCHANGED <<settlement, vouched, rewound>>

Next ==
    \/ Tick
    \/ \E v \in Verifiers : setSigVerifier(v)
    \/ \E header \in Candidates, extraData \in Extras :
          setGenesis(header, extraData) \/ commitValSetHeader(header, extraData)

Spec == Init /\ [][Next]_vars

-----------------------------------------------------------------------------
Committed == {epoch \in Epochs : IsCommittedAt(settlement, epoch)}

(* Every header was vouched for by the set before it: the verifier was     *)
(* asked with the key tag and the quorum of the header one epoch below, at *)
(* that epoch, and that header is still the one stored (Settlement.sol:219,*)
(* :237-238).                                                              *)
ChainOfTrust ==
    \A epoch \in Epochs :
        vouched[epoch] # <<>> =>
            /\ epoch \in Committed /\ epoch - 1 \in Committed
            /\ LET below == settlement.valSetHeader[epoch - 1]
               IN  /\ vouched[epoch].epoch = epoch - 1
                   /\ vouched[epoch].keyTag = below.requiredKeyTag
                   /\ vouched[epoch].quorumThreshold = below.quorumThreshold

(* The storage is that of a header chain: a header sits at its own epoch,  *)
(* the last one is committed as soon as there is one, and no extra data    *)
(* exists where there is no header.                                        *)
StorageConsistent ==
    /\ TypeOK
    /\ \A epoch \in Committed : settlement.valSetHeader[epoch].epoch = epoch
    /\ Committed # {} => LastEpoch(settlement) \in Committed
    /\ Committed = {} => LastEpoch(settlement) = 0
    /\ \A epoch \in Epochs \ Committed :
          settlement.extraData[epoch] = [key \in ExtraKeys |-> NoValue]

(* Until a genesis rewinds, capture timestamps increase with the epochs;   *)
(* in any case, whatever becomes the last header was captured after every  *)
(* header that was the last one before, and before the block that stores   *)
(* it (Settlement.sol:262-267).                                            *)
CaptureOrder ==
    /\ \A epoch \in Committed :
          /\ settlement.valSetHeader[epoch].captureTimestamp < now
          /\ epoch # LastEpoch(settlement) =>
                settlement.valSetHeader[epoch].captureTimestamp
                   < LastHeader(settlement).captureTimestamp
    /\ ~rewound => \A e, f \in Committed :
          e < f => settlement.valSetHeader[e].captureTimestamp
                      < settlement.valSetHeader[f].captureTimestamp

(* The last epoch is the highest that was ever committed: there was no     *)
(* rewind, or another genesis or the commits since have caught up with it. *)
AtHead == \A epoch \in Committed : epoch <= LastEpoch(settlement)

(* A commit was accepted by the verifier recorded for the epoch below it.  *)
VouchedByRecorded ==
    \A epoch \in Epochs :
        vouched[epoch] # <<>> =>
           vouched[epoch].verifier = getSigVerifierAt(settlement, epoch - 1)

(* A contract whose last epoch is its highest can be operated, rewound     *)
(* before or not: the verifier in force (the last two checkpoints) is the  *)
(* one recorded for the last epoch (a search of all of them), and the      *)
(* trace takes another for the next epoch, which is free.  So a genesis    *)
(* above every header repairs a rewind, whatever was recorded in between.  *)
(* Until a genesis rewinds, the contract is at its head, and its commits   *)
(* were accepted by the recorded verifiers (Settlement.sol:199, :298-310). *)
ForwardIsOperable ==
    /\ AtHead => /\ getSigVerifier(settlement)
                       = getSigVerifierAt(settlement, LastEpoch(settlement))
                 /\ CanPush(settlement.sigVerifier, LastEpoch(settlement) + 1)
    /\ ~rewound => AtHead /\ VouchedByRecorded

(* A committed header and its extra data never change, whatever genesis or *)
(* commit comes later, and neither does the verifier recorded for the last *)
(* epoch or for any epoch before it.                                       *)
PastIsFinal ==
    [][/\ \A epoch \in Committed :
             /\ settlement'.valSetHeader[epoch] = settlement.valSetHeader[epoch]
             /\ settlement'.extraData[epoch] = settlement.extraData[epoch]
       /\ \A epoch \in Epochs :
             epoch <= LastEpoch(settlement) =>
                getSigVerifierAt(settlement', epoch)
                   = getSigVerifierAt(settlement, epoch)]_vars

(* ISettlement.sol:129 and :334: "The new verifier will be 'committed' only*)
(* in the next epoch", so the verifier in force is never one that was set  *)
(* for an epoch still to come.                                             *)
VerifierNotFromFuture ==
    settlement.sigVerifier[InForce(settlement)].key <= LastEpoch(settlement)
=============================================================================
