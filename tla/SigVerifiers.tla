---------------------------- MODULE SigVerifiers -----------------------------
(***************************************************************************)
(* SigVerifierBlsBn254Simple.sol and SigVerifierBlsBn254ZK.sol at work:    *)
(* operators sign the next validator set, a relayer gathers signatures     *)
(* into a proof, and the settlement commits the set when the verifier      *)
(* accepts the proof against the header and extra data of its last set.    *)
(* What Settlement.tla says of headers is left out, and so are the         *)
(* pairing and the circuit: an aggregated signature is the message and the *)
(* sum of the keys that made it.                                           *)
(***************************************************************************)
EXTENDS KeyBlsBn254, Sublists

CONSTANTS
    ValSets,             \* records [requiredKeyTag, quorumThreshold,
                         \* validators]; a validator is [key, votingPower]
    MAX_VALIDATORS,      \* of the simple verifier (65,536)
    MaxValidatorsInputs, \* lists the ZK verifier may be constructed with
    DataInputs,          \* data of validators a relayer may send
    NonSignersInputs,    \* lists of indices it may send
    Modulus,             \* 2^256 in the code
    MaxEpoch             \* bound

VARIABLES
    sigVerifier,     \* "Simple" or "ZK"
    maxValidators,   \* of the ZK verifier: one per circuit
    committed,       \* the validator sets of epochs 0, 1, ...
    extraData,       \* the extra data of their headers
    signatures,      \* who signed what for the next epoch: <<key, valSet>>
    behind           \* history: per epoch, the keys that had signed its set

verifierVars ==
    <<sigVerifier, maxValidators, committed, extraData, signatures, behind>>

Validators == Seq([key : Points \ {zeroKey}, votingPower : Nat])

KeysOf(set) == {set.validators[i].key : i \in DOMAIN set.validators}

Keys == UNION {KeysOf(set) : set \in ValSets}

(* The voting power of the validators of a set that hold some keys.        *)
PowerOf(set, keys) ==
    LET power[n \in 0..Len(set.validators)] ==
          IF n = 0 THEN 0
          ELSE power[n - 1] + (IF set.validators[n].key \in keys
                               THEN set.validators[n].votingPower ELSE 0)
    IN  power[Len(set.validators)]

(* The sum of some keys.                                                   *)
Aggregate[keys \in SUBSET Keys] ==
    IF keys = {} THEN zeroKey
    ELSE LET key == CHOOSE k \in keys : TRUE
         IN  plus(Aggregate[keys \ {key}], key)

ASSUME VerifiersAssumption ==
    /\ \A set \in ValSets :
          /\ set.validators \in Validators /\ set.quorumThreshold \in Nat
          /\ set.quorumThreshold <= PowerOf(set, Keys) /\ PowerOf(set, Keys) < Modulus
          /\ \A i, j \in DOMAIN set.validators :
                set.validators[i].key = set.validators[j].key => i = j
    /\ MaxValidatorsInputs \subseteq Seq(Nat) /\ NonSignersInputs \subseteq Seq(Nat)
    /\ Modulus \in Nat
    \* as in a large group, where other sums do not occur in practice
    /\ \A s, t \in SUBSET Keys : Aggregate[s] = Aggregate[t] => s = t

-----------------------------------------------------------------------------
(* The extra data the relay puts beside a header.  Hashes are injective.   *)
validatorsData(set) ==
    [i \in DOMAIN set.validators |->
        [keySerialized |-> serialize(set.validators[i].key),
         votingPower |-> set.validators[i].votingPower]]

aggPublicKeyG1(set) ==
    serialize(Aggregate[KeysOf(set)])

ExtraData(set) ==
    [validatorSetHashKeccak256 |-> validatorsData(set),
     aggPublicKeyG1 |-> aggPublicKeyG1(set),
     totalActiveValidators |-> Len(set.validators),
     validatorSetHashMimc |-> set.validators]

KEY_TYPE_BLS_BN254 == 0
getType(keyTag) == keyTag \div 16

LastSet == committed[Len(committed)]
LastExtraData == extraData[Len(committed)]
Message(set) == [epoch |-> Len(committed), valSet |-> set]
SignersOf(set) == {key \in Keys : <<key, set>> \in signatures}

-----------------------------------------------------------------------------
(* SigVerifierBlsBn254Simple.                                              *)
InOrder(nonSigners, length) ==
    /\ \A i \in DOMAIN nonSigners : nonSigners[i] < length
    /\ \A i \in DOMAIN nonSigners \ {1} : nonSigners[i - 1] < nonSigners[i]

NonSignersKey(data, nonSigners) ==
    LET key[n \in 0..Len(nonSigners)] ==
          IF n = 0 THEN zeroKey
          ELSE plus(key[n - 1], deserialize(data[nonSigners[n] + 1].keySerialized))
    IN  key[Len(nonSigners)]

(* Mutant: the walk begins after the first non-signer.                     *)
NonSignersPowerButFirst(data, nonSigners) ==
    LET power[n \in 0..Len(nonSigners)] ==
          IF n <= 1 THEN 0
          ELSE (power[n - 1] + data[nonSigners[n] + 1].votingPower) % Modulus
    IN  power[Len(nonSigners)]

NonSignersPower(data, nonSigners) ==
    LET power[n \in 0..Len(nonSigners)] ==
          IF n = 0 THEN 0
          ELSE (power[n - 1] + data[nonSigners[n] + 1].votingPower) % Modulus
    IN  power[Len(nonSigners)]

(* SigBlsBn254.verify.                                                     *)
verify(keyG1, message, signature) ==
    keyG1 # zeroKey /\ signature = [message |-> message, key |-> keyG1]

(* A proof holds an aggregated signature, the data of the validators and   *)
(* the indices, from 0, of those who did not sign.                         *)
verifySimple(message, proof) ==
    LET data == proof.validatorsData
    IN  /\ getType(LastSet.requiredKeyTag) = KEY_TYPE_BLS_BN254
        /\ Len(data) \in 1..MAX_VALIDATORS
        /\ data = LastExtraData.validatorSetHashKeccak256
        /\ InOrder(proof.nonSigners, Len(data))
        /\ LastSet.quorumThreshold <=
              (PowerOf(LastSet, Keys) - NonSignersPower(data, proof.nonSigners)) % Modulus
        /\ verify(plus(deserialize(LastExtraData.aggPublicKeyG1),
                       negate(NonSignersKey(data, proof.nonSigners))),
                  message, proof.signature)

-----------------------------------------------------------------------------
(* SigVerifierBlsBn254ZK.  What its constructor lets through.              *)
CanConstruct(maxValidators_) ==
    /\ maxValidators_ # <<>>
    /\ \A i \in DOMAIN maxValidators_ :
          /\ maxValidators_[i] # 0
          /\ i > 1 => maxValidators_[i - 1] < maxValidators_[i]

(* The circuit that is asked; 0 stands for the revert.                     *)
getVerifier(total) ==
    LET fits == {i \in DOMAIN maxValidators : total <= maxValidators[i]}
    IN  IF fits = {} THEN 0 ELSE CHOOSE i \in fits : \A j \in fits : i <= j

(* The proof of a circuit: these validators of a set that has room in the  *)
(* circuit signed the message, and their power is as stated.               *)
verifyProof(circuit, message, proof) ==
    /\ proof.circuit = circuit
    /\ Len(proof.valSet.validators) <= maxValidators[circuit]
    /\ proof.signers \subseteq SignersOf(message.valSet) \cap KeysOf(proof.valSet)
    /\ proof.signersVotingPower = PowerOf(proof.valSet, proof.signers)

verifyZK(message, proof) ==
    LET circuit == getVerifier(LastExtraData.totalActiveValidators)
    IN  /\ getType(LastSet.requiredKeyTag) = KEY_TYPE_BLS_BN254
        /\ LastExtraData.totalActiveValidators # 0
        /\ proof.signersVotingPower >= LastSet.quorumThreshold
        /\ circuit # 0
        /\ proof.valSet.validators = LastExtraData.validatorSetHashMimc
        /\ verifyProof(circuit, message, proof)

-----------------------------------------------------------------------------
VerifierInit ==
    /\ \/ sigVerifier = "Simple" /\ maxValidators = <<>>
       \/ /\ sigVerifier = "ZK"
          /\ maxValidators \in {list \in MaxValidatorsInputs : CanConstruct(list)}
    /\ \E set \in ValSets : committed = <<set>> /\ extraData = <<ExtraData(set)>>
    /\ signatures = {}
    /\ behind = <<{}>>

(* An operator, of the last set or not, signs one set for the next epoch.  *)
Sign(key, set) ==
    /\ Len(committed) <= MaxEpoch
    /\ \A other \in ValSets : <<key, other>> \notin signatures
    /\ signatures' = signatures \cup {<<key, set>>}
    /\ UNCHANGED <<sigVerifier, maxValidators, committed, extraData, behind>>

commitSigned(set) ==
    /\ Len(committed) <= MaxEpoch
    /\ committed' = Append(committed, set)
    /\ extraData' = Append(extraData, ExtraData(set))
    /\ behind' = Append(behind, SignersOf(set))
    /\ signatures' = {}
    /\ UNCHANGED <<sigVerifier, maxValidators>>

SimpleProof(set, signers, data, nonSigners) ==
    [signature |-> [message |-> Message(set), key |-> Aggregate[signers]],
     validatorsData |-> data, nonSigners |-> nonSigners]

CommitSimple(set) ==
    /\ sigVerifier = "Simple"
    /\ \E signers \in SUBSET SignersOf(set), data \in DataInputs,
          nonSigners \in NonSignersInputs :
          verifySimple(Message(set), SimpleProof(set, signers, data, nonSigners))
    /\ commitSigned(set)

ZKProof(circuit, valSet, signers, power) ==
    [circuit |-> circuit, valSet |-> valSet, signers |-> signers,
     signersVotingPower |-> power]

CommitZK(set) ==
    /\ sigVerifier = "ZK"
    /\ \E circuit \in DOMAIN maxValidators, valSet \in ValSets,
          signers \in SUBSET SignersOf(set) :
          verifyZK(Message(set),
                   ZKProof(circuit, valSet, signers, PowerOf(valSet, signers)))
    /\ commitSigned(set)

VerifierNext ==
    \E set \in ValSets :
        \/ \E key \in Keys : Sign(key, set)
        \/ CommitSimple(set)
        \/ CommitZK(set)

VerifierSpec == VerifierInit /\ [][VerifierNext]_verifierVars

-----------------------------------------------------------------------------
(* Behind every set after the genesis stand signatures of validators that  *)
(* hold the quorum of the set before it, whatever lists and data the       *)
(* relayer sent along.                                                     *)
QuorumBehindCommits ==
    \A n \in 2..Len(committed) :
        LET previous == committed[n - 1]
        IN  PowerOf(previous, behind[n]) >= previous.quorumThreshold

(* What the relay sends: the signers of the last set, all others listed.   *)
Honest(set) == SignersOf(set) \cap KeysOf(LastSet)

HonestSimpleProof(set) ==
    LET missing == {i \in DOMAIN LastSet.validators :
                      LastSet.validators[i].key \notin Honest(set)}
        indices == [i \in DOMAIN LastSet.validators |-> i - 1]
    IN  SimpleProof(set, Honest(set), LastExtraData.validatorSetHashKeccak256,
                    Sublist(indices, {i - 1 : i \in missing}))

(* It uses the smallest circuit with room for the set.                     *)
HonestZKProof(set) ==
    LET roomy == {i \in DOMAIN maxValidators :
                    Len(LastSet.validators) <= maxValidators[i]}
        circuit == CHOOSE i \in roomy :
                     \A j \in roomy : maxValidators[i] <= maxValidators[j]
    IN  ZKProof(circuit, LastSet, Honest(set), PowerOf(LastSet, Honest(set)))

(* A quorum is enough: once it has signed, the proof that the relay makes  *)
(* of its signatures is accepted, whoever is missing.  Compressed keys     *)
(* come back as they were, the walk skips the right validators, and the    *)
(* circuit that is asked is the one the proof was made for.                *)
QuorumIsEnough ==
    \A set \in ValSets :
        /\ getType(LastSet.requiredKeyTag) = KEY_TYPE_BLS_BN254
        /\ Honest(set) # {}
        /\ PowerOf(LastSet, Honest(set)) >= LastSet.quorumThreshold
        => IF sigVerifier = "Simple"
           THEN Len(LastSet.validators) <= MAX_VALIDATORS
                  => verifySimple(Message(set), HonestSimpleProof(set))
           ELSE (\E i \in DOMAIN maxValidators :
                    Len(LastSet.validators) <= maxValidators[i])
                  => verifyZK(Message(set), HonestZKProof(set))
=============================================================================
