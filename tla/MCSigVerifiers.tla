--------------------------- MODULE MCSigVerifiers ----------------------------
(* Four operators on the curve over 31, a group of 43 points.  The sets     *)
(* share operators at other places and with other powers; one has more      *)
(* validators than the largest of the verifiers, one requires another kind  *)
(* of key.                                                                   *)
EXTENDS SigVerifiers, FiniteSets

(* A point, twice, four times, and less eight times it.                     *)
KeyOf == <<G1Point(1, 2), G1Point(16, 10), G1Point(24, 30), G1Point(30, 23)>>

Validator(n, power) == [key |-> KeyOf[n], votingPower |-> power]

ValSet(keyTag, quorum, validators) ==
    [requiredKeyTag |-> keyTag, quorumThreshold |-> quorum, validators |-> validators]

MCValSets ==
    {ValSet(15, 3, <<Validator(1, 1), Validator(2, 1), Validator(3, 2)>>),
     ValSet(0, 3, <<Validator(3, 3), Validator(4, 1)>>),
     ValSet(15, 2, <<Validator(4, 1), Validator(1, 1), Validator(3, 0), Validator(2, 1)>>),
     ValSet(16, 0, <<Validator(2, 1)>>)}

MCMaxValidatorsInputs == {<<2, 4>>, <<3>>, <<3, 3>>, <<0, 3>>, <<>>}

MCDataInputs == {validatorsData(set) : set \in MCValSets}

MCNonSignersInputs == UNION {[1..n -> 0..3] : n \in 0..2}

(* No more than two sets compete for an epoch.                               *)
FewSigned == Cardinality({set \in ValSets : SignersOf(set) # {}}) <= 2

MCSpec == VerifierInit /\ [][VerifierNext /\ FewSigned']_verifierVars
=============================================================================
