------------------------ MODULE MCVotingPowerProvider -------------------------
(* Small instances of VotingPowerProvider.                                 *)
EXTENDS VotingPowerProvider, TLC

CONSTANTS o1, o2, t1, shared, own, w1, w2

Vault(delegator, operator, slasher, epoch, veto) ==
    [entity |-> TRUE, isInitialized |-> TRUE, collateral |-> t1,
     epochDuration |-> epoch, vetoDuration |-> veto, slasher |-> slasher,
     delegator |-> delegator, operator |-> operator, ownNetwork |-> TRUE,
     maxNetworkLimit |-> TRUE]

(* A shared vault with a veto slasher and one operator's with none.        *)
SharedAndOwn ==
    shared :> Vault("FULL_RESTAKE", o1, "VETO", 2, 1)
        @@ own :> Vault("OPERATOR_SPECIFIC", o1, "NONE", 2, 0)

NoVaults == [v \in {} |-> NotDeployed]

Config(epoch, withSlasher) ==
    [epochDuration |-> epoch, collateral |-> t1, burner |-> FALSE,
     withSlasher |-> withSlasher, isBurnerHook |-> FALSE]

TwoConfigs == {Config(1, TRUE), Config(2, FALSE)}

OneConfig == {Config(1, FALSE)}

Windows == {<<TRUE, 1>>, <<FALSE, 2>>}

Deployments == Permutations({w1, w2})

OneWindow == {<<FALSE, 1>>}
=============================================================================
