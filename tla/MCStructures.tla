---------------------------- MODULE MCStructures ----------------------------
(* The data structures of the libraries, side by side: a pointer trace of   *)
(* up to seven checkpoints, long enough for the square-root split of the    *)
(* lookup (len > 5) on both sides; a set of two elements changed at four    *)
(* keys, elements added, removed and added again at one key and at later    *)
(* ones; and the trees of four validator sets.  They share nothing, so one  *)
(* moves while the others are new.                                          *)
EXTENDS Structures

(* Words repeat on purpose: an operator, a tag and a power may be the same  *)
(* number, and the key <<0, 0>> hashes like a part of the padding.          *)
KeyOf(tag, payloadHash) == [tag |-> tag, payloadHash |-> payloadHash]

VaultOf(chainId, vault, power) ==
    [chainId |-> chainId, vault |-> vault, votingPower |-> power]

ValidatorOf(operator, power, isActive, theKeys, vaults) ==
    [operator |-> operator, votingPower |-> power, isActive |-> isActive,
     keys |-> theKeys, vaults |-> vaults]

MCValSets ==
    {<<>>,
     <<ValidatorOf(1, 2, 1, <<KeyOf(1, 2), KeyOf(0, 0)>>, <<VaultOf(1, 2, 1)>>),
       ValidatorOf(2, 0, 0, <<>>, <<VaultOf(1, 3, 0), VaultOf(2, 0, 0)>>)>>,
     <<ValidatorOf(2, 0, 0, <<>>, <<VaultOf(1, 3, 0)>>)>>,
     <<ValidatorOf(1, 1, 1, <<KeyOf(2, 1), KeyOf(1, 1), KeyOf(1, 2), KeyOf(2, 2)>>,
                    <<>>)>>}

(* Of every node below every other one.                                     *)
RECURSIVE Nodes(_), Openings(_)

Nodes(node) ==
    {node} \cup (IF Len(node) = 1 THEN {} ELSE Nodes(node[1]) \cup Nodes(node[2]))

Openings(node) ==
    {Opening(node, <<>>)}
      \cup (IF Len(node) = 1 THEN {}
            ELSE UNION {{[p EXCEPT !.proof = Append(@, node[3 - side])] :
                            p \in Openings(node[side])} : side \in {1, 2}})

MCSszProofs ==
    UNION {Openings(node) :
              node \in UNION {Nodes(validatorsSszMRoot(set)) : set \in ValSets}}

MCLocalIndices == 0..40

MCKeys == 0..6
MCSetKeys == 1..4

MCNext ==
    /\ StructuresNext
    /\ IF validatorSet' = validatorSet
       THEN validatorSet = <<>> /\ (elements' = <<>> \/ trace' = <<>>)
       ELSE trace = <<>> /\ elements = <<>>

MCSpec ==
    StructuresInit
    /\ [][MCNext]_<<trace, values, elements, statuses, length, validatorSet>>
=============================================================================
