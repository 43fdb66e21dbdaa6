--------------------------- MODULE ValSetVerifier ----------------------------
(***************************************************************************)
(* src/src/libraries/utils/ValSetVerifier.sol: what can be shown of a      *)
(* validator set against the root that a header holds of it.  The root is  *)
(* the SSZ hash tree root that the relay computes.  A word of 32 bytes is  *)
(* <<n>>, whatever it stands for, and the hash of two nodes is the pair of *)
(* them: nobody finds another preimage.                                    *)
(***************************************************************************)
EXTENDS Integers, Sequences

CONSTANTS ValSets,                      \* sequences of validators
          VALIDATORS_LIST_TREE_HEIGHT,  \* 20
          KEY_LIST_TREE_HEIGHT,         \* 7
          VAULT_LIST_TREE_HEIGHT,       \* 10
          LocalIndices, SszProofs       \* that a caller may send

Key == [tag : Nat, payloadHash : Nat]

Vault == [chainId : Nat, vault : Nat, votingPower : Nat]

Validator == [operator : Nat, votingPower : Nat, isActive : {0, 1},
              keys : Seq(Key), vaults : Seq(Vault)]

(* The set of the last header.                                             *)
VARIABLE validatorSet

ValSetInit == validatorSet \in ValSets

(* The relay derives the set of another header.  What a settlement asks of *)
(* that header is in Settlement: here any set may follow any other.        *)
DeriveValidatorSet == validatorSet' \in ValSets

-----------------------------------------------------------------------------
(* The tree the relay builds.  Lists are padded with zero words up to their*)
(* capacity and hashed with their length.                                  *)
Word(n) == <<n>>

Hash(left, right) == <<left, right>>

Merkle(chunks, height) ==
    LET layer[d \in 0..height] ==
          [i \in Nat |->
              IF d > 0 THEN Hash(layer[d - 1][2 * i], layer[d - 1][2 * i + 1])
              ELSE IF i < Len(chunks) THEN chunks[i + 1] ELSE Word(0)]
    IN  layer[height][0]

List(roots, height) == Hash(Merkle(roots, height), Word(Len(roots)))

VALIDATOR_TREE_HEIGHT == 3
KEY_TREE_HEIGHT == 1
VAULT_TREE_HEIGHT == 2

KeyRoot(key) == Merkle(<<Word(key.tag), Word(key.payloadHash)>>, KEY_TREE_HEIGHT)

VaultRoot(vault) ==
    Merkle(<<Word(vault.chainId), Word(vault.vault), Word(vault.votingPower)>>,
           VAULT_TREE_HEIGHT)

ValidatorRoot(v) ==
    LET keyRoots == [k \in DOMAIN v.keys |-> KeyRoot(v.keys[k])]
        vaultRoots == [k \in DOMAIN v.vaults |-> VaultRoot(v.vaults[k])]
    IN  Merkle(<<Word(v.operator), Word(v.votingPower), Word(v.isActive),
                 List(keyRoots, KEY_LIST_TREE_HEIGHT),
                 List(vaultRoots, VAULT_LIST_TREE_HEIGHT)>>,
               VALIDATOR_TREE_HEIGHT)

validatorsSszMRoot(set) ==
    List([i \in DOMAIN set |-> ValidatorRoot(set[i])], VALIDATORS_LIST_TREE_HEIGHT)

-----------------------------------------------------------------------------
(* Mutant: a proof of any length is followed.                              *)
processAnyHeight(sszProof, root, localIndex, expectedHeight) ==
    LET climb[i \in 0..Len(sszProof.proof)] ==
          IF i = 0 THEN [node |-> sszProof.leaf, index |-> localIndex]
          ELSE LET last == climb[i - 1]
               IN  [node |-> IF last.index % 2 = 0
                             THEN Hash(last.node, sszProof.proof[i])
                             ELSE Hash(sszProof.proof[i], last.node),
                    index |-> last.index \div 2]
    IN  climb[Len(sszProof.proof)].node = root

processInclusionProofSha256(sszProof, root, localIndex, expectedHeight) ==
    LET climb[i \in 0..expectedHeight] ==
          IF i = 0 THEN [node |-> sszProof.leaf, index |-> localIndex]
          ELSE LET last == climb[i - 1]
               IN  [node |-> IF last.index % 2 = 0
                             THEN Hash(last.node, sszProof.proof[i])
                             ELSE Hash(sszProof.proof[i], last.node),
                    index |-> last.index \div 2]
    IN  /\ Len(sszProof.proof) = expectedHeight
        /\ climb[expectedHeight].node = root

(* n << bits                                                               *)
Shl(n, bits) ==
    LET shifted[i \in 0..bits] == IF i = 0 THEN n ELSE 2 * shifted[i - 1]
    IN  shifted[bits]

(* One bit of a list's index is for its length.                            *)
ListIndex(base, height) == Shl(base, 1 + height)

(* Mutant: the bit is forgotten.                                           *)
InListDirect(localIndex, base, height) ==
    localIndex \in Shl(base, height) .. Shl(base, height) + Shl(1, height) - 1

InList(localIndex, base, height) ==
    LET first == ListIndex(base, height)
    IN  localIndex \in first .. first + Shl(1, height) - 1

verifyValidatorRootLocal(p, index, root) ==
    /\ InList(index, 0, VALIDATORS_LIST_TREE_HEIGHT)
    /\ processInclusionProofSha256(p, root, index, 1 + VALIDATORS_LIST_TREE_HEIGHT)

verifyValidatorKeyRootLocal(p, index, root) ==
    /\ InList(index, 3, KEY_LIST_TREE_HEIGHT)
    /\ processInclusionProofSha256(p, root, index,
                                   VALIDATOR_TREE_HEIGHT + 1 + KEY_LIST_TREE_HEIGHT)

verifyValidatorVaultRootLocal(p, index, root) ==
    /\ InList(index, 4, VAULT_LIST_TREE_HEIGHT)
    /\ processInclusionProofSha256(p, root, index,
                                   VALIDATOR_TREE_HEIGHT + 1 + VAULT_LIST_TREE_HEIGHT)

verifyValidatorOperatorLocal(p, root) ==
    processInclusionProofSha256(p, root, 0, VALIDATOR_TREE_HEIGHT)

verifyValidatorVotingPowerLocal(p, root) ==
    processInclusionProofSha256(p, root, 1, VALIDATOR_TREE_HEIGHT)

verifyValidatorIsActiveLocal(p, root) ==
    processInclusionProofSha256(p, root, 2, VALIDATOR_TREE_HEIGHT)

verifyKeyTagLocal(p, root) == processInclusionProofSha256(p, root, 0, KEY_TREE_HEIGHT)

verifyKeyPayloadHash(p, root) ==
    processInclusionProofSha256(p, root, 1, KEY_TREE_HEIGHT)

verifyVaultChainIdLocal(p, root) ==
    processInclusionProofSha256(p, root, 0, VAULT_TREE_HEIGHT)

verifyVaultVaultLocal(p, root) ==
    processInclusionProofSha256(p, root, 1, VAULT_TREE_HEIGHT)

verifyVaultVotingPowerLocal(p, root) ==
    processInclusionProofSha256(p, root, 2, VAULT_TREE_HEIGHT)

-----------------------------------------------------------------------------
(* A caller may send any proof and any index.  Among the proofs are those  *)
(* of any node below any other one, in the tree of any set; the relay puts *)
(* no more into a list than it can hold.                                   *)
Opening(node, proof) == [leaf |-> node, proof |-> proof]

ASSUME ValSetsAssumption ==
    /\ {VALIDATORS_LIST_TREE_HEIGHT, KEY_LIST_TREE_HEIGHT, VAULT_LIST_TREE_HEIGHT}
          \subseteq Nat
    /\ \A set \in ValSets :
          /\ set \in Seq(Validator) /\ Len(set) <= Shl(1, VALIDATORS_LIST_TREE_HEIGHT)
          /\ 0..(Len(set) - 1) \subseteq LocalIndices
          /\ \A i \in 1..Len(set) :
                /\ Len(set[i].keys) <= Shl(1, KEY_LIST_TREE_HEIGHT)
                /\ Len(set[i].vaults) <= Shl(1, VAULT_LIST_TREE_HEIGHT)
                /\ \A k \in 0..(Len(set[i].keys) - 1) :
                      ListIndex(3, KEY_LIST_TREE_HEIGHT) + k \in LocalIndices
                /\ \A k \in 0..(Len(set[i].vaults) - 1) :
                      ListIndex(4, VAULT_LIST_TREE_HEIGHT) + k \in LocalIndices
          /\ Opening(validatorsSszMRoot(set), <<>>) \in SszProofs
    /\ \A p \in SszProofs :
          Len(p.leaf) = 2 =>
             /\ Opening(p.leaf, <<>>) \in SszProofs
             /\ \A side \in 1..2 :
                   Opening(p.leaf[side], <<p.leaf[3 - side]>> \o p.proof) \in SszProofs

(* The claims that verifyOperator, verifyVotingPower, verifyIsActive,      *)
(* verifyKey and verifyVault accept against a root: what is claimed of     *)
(* which validator, key or vault, by the words of the proofs.              *)
Leaves(proofs) == {p.leaf : p \in proofs}

ShownOfValidator(i, root) ==
    {<<"operator", i, x>> :
        x \in Leaves({p \in SszProofs : verifyValidatorOperatorLocal(p, root)})}
      \cup {<<"votingPower", i, x>> :
               x \in Leaves({p \in SszProofs : verifyValidatorVotingPowerLocal(p, root)})}
      \cup {<<"isActive", i, x>> :
               x \in Leaves({p \in SszProofs : verifyValidatorIsActiveLocal(p, root)})}

ShownOfKey(i, index, root) ==
    {<<"key", i, index, tag, payloadHash>> :
        tag \in Leaves({p \in SszProofs : verifyKeyTagLocal(p, root)}),
        payloadHash \in Leaves({p \in SszProofs : verifyKeyPayloadHash(p, root)})}

ShownOfVault(i, index, root) ==
    {<<"vault", i, index, chainId, vault, votingPower>> :
        chainId \in Leaves({p \in SszProofs : verifyVaultChainIdLocal(p, root)}),
        vault \in Leaves({p \in SszProofs : verifyVaultVaultLocal(p, root)}),
        votingPower \in Leaves({p \in SszProofs : verifyVaultVotingPowerLocal(p, root)})}

KeyRootsAt(index, root) ==
    Leaves({p \in SszProofs : verifyValidatorKeyRootLocal(p, index, root)})

KeysShown(i, root) ==
    UNION {UNION {ShownOfKey(i, k, key) : key \in KeyRootsAt(k, root)} : k \in LocalIndices}

VaultRootsAt(index, root) ==
    Leaves({p \in SszProofs : verifyValidatorVaultRootLocal(p, index, root)})

VaultsShown(i, root) ==
    UNION {UNION {ShownOfVault(i, k, vault) : vault \in VaultRootsAt(k, root)}
           : k \in LocalIndices}

ShownOf(i, root) ==
    ShownOfValidator(i, root) \cup KeysShown(i, root) \cup VaultsShown(i, root)

RootsAt(index, setRoot) ==
    Leaves({p \in SszProofs : verifyValidatorRootLocal(p, index, setRoot)})

Shown(setRoot) ==
    UNION {UNION {ShownOf(i, root) : root \in RootsAt(i, setRoot)} : i \in LocalIndices}

(* What is true of a set, by the local indices of its elements.            *)
FactsOf(i, v) ==
    {<<"operator", i, Word(v.operator)>>, <<"votingPower", i, Word(v.votingPower)>>,
     <<"isActive", i, Word(v.isActive)>>}
      \cup {<<"key", i, ListIndex(3, KEY_LIST_TREE_HEIGHT) + k - 1,
              Word(v.keys[k].tag), Word(v.keys[k].payloadHash)>> : k \in DOMAIN v.keys}
      \cup {<<"vault", i, ListIndex(4, VAULT_LIST_TREE_HEIGHT) + k - 1,
              Word(v.vaults[k].chainId), Word(v.vaults[k].vault),
              Word(v.vaults[k].votingPower)>> : k \in DOMAIN v.vaults}

Facts(set) == UNION {FactsOf(i - 1, set[i]) : i \in DOMAIN set}

(* The sets of which what can be shown is what is true.                    *)
ShownExactly == {set \in ValSets : Shown(validatorsSszMRoot(set)) = Facts(set)}

(* Whatever proofs and indices a caller sends, and whatever set they were  *)
(* made for, what the library accepts against the root of the last header  *)
(* is true of that set; and all that is true of it can be shown.           *)
ProofsAreExact == validatorSet \in ShownExactly
=============================================================================
