------------------------------ MODULE MCSlashing ------------------------------
(* Small instance of Slashing.                                             *)
EXTENDS Slashing

CONSTANTS o1, t1, instant, veto, none, s1, s2

Vault(kind, epoch, vetoPeriod) ==
    [entity |-> TRUE, isInitialized |-> TRUE, collateral |-> t1,
     epochDuration |-> epoch, vetoDuration |-> vetoPeriod, slasher |-> kind,
     delegator |-> "FULL_RESTAKE", operator |-> o1, ownNetwork |-> TRUE,
     maxNetworkLimit |-> TRUE]

TheVaults == [v \in {instant, veto, none} |->
    CASE v = instant -> Vault("INSTANT", 2, 0)
      [] v = veto    -> Vault("VETO", 3, 1)
      [] v = none    -> Vault("NONE", 4, 0)]

TheData == {<<FALSE, 2>>, <<TRUE, 2>>, <<TRUE, 3>>}
=============================================================================
