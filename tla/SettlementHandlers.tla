-------------------------- MODULE SettlementHandlers --------------------------
(***************************************************************************)
(* The handlers of src/src/modules/settlement/Settlement.sol as operators  *)
(* over the storage of one contract.  For a handler H, CanH is what must   *)
(* hold for the call not to revert and AfterH is the storage it leaves.    *)
(* A header is the record of ISettlement.ValSetHeader; roots, verifiers,   *)
(* keys and values are abstract.                                           *)
(***************************************************************************)
EXTENDS Checkpoints

CONSTANTS Epochs,        \* the uint48 epochs of the model, 0 among them
          Roots,         \* validators' SSZ roots, NoRoot the zero word
          NoRoot,
          ExtraKeys,     \* keys of extra data
          ExtraValues,   \* values of extra data, NoValue the zero word
          NoValue,
          Verifiers,     \* addresses of verifiers, NoVerifier the zero address
          NoVerifier

ASSUME HandlersAssumption ==
    /\ Epochs \subseteq Nat /\ 0 \in Epochs
    /\ NoRoot \in Roots /\ NoValue \in ExtraValues /\ NoVerifier \in Verifiers

VALIDATOR_SET_VERSION == 1

TOTAL_KEY_TAGS == 128

Header == [version : Nat, requiredKeyTag : Nat, epoch : Epochs,
           captureTimestamp : Nat, quorumThreshold : Nat,
           totalVotingPower : Nat, validatorsSszMRoot : Roots]

NoHeader == [version |-> 0, requiredKeyTag |-> 0, epoch |-> 0,
             captureTimestamp |-> 0, quorumThreshold |-> 0,
             totalVotingPower |-> 0, validatorsSszMRoot |-> NoRoot]

ExtraEntry == [key : ExtraKeys, value : ExtraValues]

Storage == [lastCommittedHeaderEpoch : Epochs,
            sigVerifier : Seq([key : Nat, value : Verifiers]),
            valSetHeader : [Epochs -> Header],
            extraData : [Epochs -> [ExtraKeys -> ExtraValues]]]

-----------------------------------------------------------------------------
LastEpoch(s) == s.lastCommittedHeaderEpoch

IsCommittedAt(s, epoch) == s.valSetHeader[epoch].version > 0

LastHeader(s) == s.valSetHeader[LastEpoch(s)]

getSigVerifierAt(s, epoch) == UpperLookupRecent(s.sigVerifier, epoch, NoVerifier)

(* Mutant: the last checkpoint, even for an epoch to come.                 *)
InForceLast(s) == Len(s.sigVerifier)

(* _getCurrentValue: the last two checkpoints only.                        *)
InForce(s) ==
    IF LastKey(s.sigVerifier) <= LastEpoch(s)
    THEN Len(s.sigVerifier) ELSE Len(s.sigVerifier) - 1

getSigVerifier(s) == s.sigVerifier[InForce(s)].value

Initialized(sigVerifier) ==
    [lastCommittedHeaderEpoch |-> 0,
     sigVerifier |-> <<Checkpoint(0, sigVerifier)>>,
     valSetHeader |-> [epoch \in Epochs |-> NoHeader],
     extraData |-> [epoch \in Epochs |-> [key \in ExtraKeys |-> NoValue]]]

-----------------------------------------------------------------------------
CanSetSigVerifier(s, sigVerifier) ==
    /\ sigVerifier # NoVerifier
    /\ CanPush(s.sigVerifier, LastEpoch(s) + 1)

(* Mutant: the verifier is recorded for the last epoch.                    *)
AfterSetSigVerifierNow(s, sigVerifier) ==
    [s EXCEPT !.sigVerifier = Push(@, LastEpoch(s), sigVerifier)]

AfterSetSigVerifier(s, sigVerifier) ==
    [s EXCEPT !.sigVerifier = Push(@, LastEpoch(s) + 1, sigVerifier)]

(* The loop over extraData reverts when it meets a key whose slot is not   *)
(* zero: a key may come again only after zero values.                      *)
CanStoreExtra(stored, extraData) ==
    /\ \A i \in 1..Len(extraData) : stored[extraData[i].key] = NoValue
    /\ \A i, j \in 1..Len(extraData) :
          i < j /\ extraData[i].key = extraData[j].key
            => extraData[i].value = NoValue

LastEntry(extraData, key) ==
    CHOOSE i \in 1..Len(extraData) :
        /\ extraData[i].key = key
        /\ \A j \in 1..Len(extraData) : extraData[j].key = key => j <= i

StoreExtra(stored, extraData) ==
    [key \in ExtraKeys |->
       IF \E i \in 1..Len(extraData) : extraData[i].key = key
       THEN extraData[LastEntry(extraData, key)].value ELSE stored[key]]

(* Mutant: an equal capture timestamp is accepted.                         *)
CanSetSameCapture(s, header, extraData, now) ==
    /\ header.version = VALIDATOR_SET_VERSION
    /\ ~IsCommittedAt(s, header.epoch)
    /\ header.captureTimestamp >= LastHeader(s).captureTimestamp
    /\ header.captureTimestamp < now
    /\ CanStoreExtra(s.extraData[header.epoch], extraData)

CanSetValSetHeader(s, header, extraData, now) ==
    /\ header.version = VALIDATOR_SET_VERSION
    /\ ~IsCommittedAt(s, header.epoch)
    /\ header.requiredKeyTag < TOTAL_KEY_TAGS
    /\ header.captureTimestamp > LastHeader(s).captureTimestamp
    /\ header.captureTimestamp < now
    /\ header.quorumThreshold <= header.totalVotingPower
    /\ header.validatorsSszMRoot # NoRoot
    /\ CanStoreExtra(s.extraData[header.epoch], extraData)

(* Mutant: the last epoch is not advanced.                                 *)
AfterSetKeepsLast(s, header, extraData) ==
    [s EXCEPT !.valSetHeader[header.epoch] = header,
              !.extraData[header.epoch] = StoreExtra(@, extraData)]

AfterSetValSetHeader(s, header, extraData) ==
    [s EXCEPT !.valSetHeader[header.epoch] = header,
              !.extraData[header.epoch] = StoreExtra(@, extraData),
              !.lastCommittedHeaderEpoch = header.epoch]

(* What commitValSetHeader asks the verifier: the contract it calls and    *)
(* the arguments taken from the last committed header.  The verifier reads *)
(* the validator set of that epoch back from the settlement.               *)
QuorumQuery(s) ==
    [verifier |-> getSigVerifier(s), epoch |-> LastEpoch(s),
     keyTag |-> LastHeader(s).requiredKeyTag,
     quorumThreshold |-> LastHeader(s).quorumThreshold]

(* Mutant: only an epoch at or below the last one is refused.              *)
CanCommitAbove(s, header, extraData, now) ==
    /\ header.epoch > LastEpoch(s)
    /\ IsCommittedAt(s, LastEpoch(s))
    /\ CanSetValSetHeader(s, header, extraData, now)

(* The rest of a commit's guard is the verifier's answer to QuorumQuery.   *)
CanCommit(s, header, extraData, now) ==
    /\ header.epoch = LastEpoch(s) + 1
    /\ IsCommittedAt(s, LastEpoch(s))
    /\ CanSetValSetHeader(s, header, extraData, now)
=============================================================================
