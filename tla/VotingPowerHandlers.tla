------------------------- MODULE VotingPowerHandlers --------------------------
(***************************************************************************)
(* The state changes and views of                                          *)
(* src/src/modules/voting-power/logic/VotingPowerProviderLogic.sol as      *)
(* operators over the storage s of one provider and the attributes info of *)
(* a vault.  CanH is what must hold for the call H not to revert, AfterH   *)
(* the storage it leaves.  The persistent sets are their present values    *)
(* (PersistentSet.tla models their history); vaults, delegators and        *)
(* slashers belong to the core contracts, outside src/, and are the        *)
(* attributes the code asks them for.                                      *)
(***************************************************************************)
EXTENDS Integers, Sequences, FiniteSets, Sublists

CONSTANTS Tokens,           \* collaterals, NoToken the zero address
          NoToken,
          Operators,
          EntityOperators,  \* those the operator registry knows
          Vaults,
          Durations         \* epoch and veto durations

ASSUME ProviderAssumption ==
    /\ NoToken \in Tokens
    /\ Operators # {} /\ EntityOperators \subseteq Operators
    /\ Durations \subseteq Nat /\ 0 \in Durations

SharedDelegators == {"NETWORK_RESTAKE", "FULL_RESTAKE"}

OperatorDelegators == {"OPERATOR_SPECIFIC", "OPERATOR_NETWORK_SPECIFIC"}

(* What the code asks of a vault, its delegator and its slasher.           *)
VaultInfo == [entity : BOOLEAN, isInitialized : BOOLEAN, collateral : Tokens,
              epochDuration : Durations, vetoDuration : Durations,
              slasher : {"NONE", "INSTANT", "VETO", "OTHER"},
              delegator : SharedDelegators \union OperatorDelegators,
              operator : Operators, ownNetwork : BOOLEAN,
              maxNetworkLimit : BOOLEAN]

Provider == [tokens : SUBSET (Tokens \ {NoToken}), operators : SUBSET EntityOperators,
             sharedVaults : SUBSET Vaults, allOperatorVaults : SUBSET Vaults,
             operatorVaults : [Operators -> SUBSET Vaults],
             requireSlasher : BOOLEAN, minVaultEpochDuration : Durations]

AfterSetSlashingData(s, require, min) ==
    [s EXCEPT !.requireSlasher = require, !.minVaultEpochDuration = min]

-----------------------------------------------------------------------------
(* Mutant: the zero address passes for a token.                            *)
CanRegisterTokenZero(s, token) == token \notin s.tokens

CanRegisterToken(s, token) == token # NoToken /\ token \notin s.tokens

AfterRegisterToken(s, token) == [s EXCEPT !.tokens = @ \union {token}]

CanUnregisterToken(s, token) == token \in s.tokens

AfterUnregisterToken(s, token) == [s EXCEPT !.tokens = @ \ {token}]

_validateOperator(operator) == operator \in EntityOperators

CanRegisterOperator(s, operator) ==
    _validateOperator(operator) /\ operator \notin s.operators

AfterRegisterOperator(s, operator) == [s EXCEPT !.operators = @ \union {operator}]

CanUnregisterOperator(s, operator) == operator \in s.operators

AfterUnregisterOperator(s, operator) == [s EXCEPT !.operators = @ \ {operator}]

-----------------------------------------------------------------------------
(* The veto period is taken off the window; a longer one underflows and    *)
(* reverts, which refuses the vault like FALSE does.                       *)
SlashingWindow(info) ==
    info.epochDuration - (IF info.slasher = "VETO" THEN info.vetoDuration ELSE 0)

_validateVaultSlashing(s, info) ==
    /\ s.requireSlasher => info.slasher # "NONE"
    /\ info.slasher # "OTHER"
    /\ s.minVaultEpochDuration <= SlashingWindow(info)

_validateVault(s, info) ==
    /\ info.entity
    /\ info.isInitialized
    /\ _validateVaultSlashing(s, info)
    /\ info.collateral \in s.tokens

_validateSharedVault(info) == info.delegator \in SharedDelegators

_validateOperatorVault(operator, info) ==
    /\ info.delegator \in OperatorDelegators
    /\ info.operator = operator
    /\ info.delegator = "OPERATOR_NETWORK_SPECIFIC" => info.ownNetwork

CanRegisterSharedVault(s, vault, info) ==
    /\ _validateVault(s, info) /\ _validateSharedVault(info)
    /\ vault \notin s.allOperatorVaults
    /\ vault \notin s.sharedVaults

AfterRegisterSharedVault(s, vault) ==
    [s EXCEPT !.sharedVaults = @ \union {vault}]

CanUnregisterSharedVault(s, vault) == vault \in s.sharedVaults

AfterUnregisterSharedVault(s, vault) == [s EXCEPT !.sharedVaults = @ \ {vault}]

CanRegisterOperatorVault(s, operator, vault, info) ==
    /\ _validateVault(s, info) /\ _validateOperatorVault(operator, info)
    /\ operator \in s.operators
    /\ vault \notin s.sharedVaults
    /\ vault \notin s.allOperatorVaults

AfterRegisterOperatorVault(s, operator, vault) ==
    [s EXCEPT !.allOperatorVaults = @ \union {vault},
              !.operatorVaults[operator] = @ \union {vault}]

CanUnregisterOperatorVault(s, operator, vault) ==
    vault \in s.operatorVaults[operator]

AfterUnregisterOperatorVault(s, operator, vault) ==
    [s EXCEPT !.operatorVaults[operator] = @ \ {vault},
              !.allOperatorVaults = @ \ {vault}]

-----------------------------------------------------------------------------
(* IBaseDelegator.stake: an operator-specific delegator has stake only for *)
(* its operator; one unit stands for any positive stake.                   *)
getOperatorStake(operator, info) ==
    IF info.delegator \in SharedDelegators \/ info.operator = operator THEN 1 ELSE 0

getOperatorVotingPower(s, operator, info) ==
    IF info.collateral \in s.tokens THEN getOperatorStake(operator, info) ELSE 0

(* The vaults one operator's voting power is collected from: the shared    *)
(* ones, then its own, each a list.                                        *)
VaultList(s, operator) ==
    LET Listing(S) == CHOOSE list \in [1 .. Cardinality(S) -> S] :
                          \A v \in S : \E i \in DOMAIN list : list[i] = v
    IN  Listing(s.sharedVaults) \o Listing(s.operatorVaults[operator])

getOperatorVotingPowers(s, vaults, operator) ==
    Sublist(VaultList(s, operator),
            {v \in DOMAIN vaults :
                getOperatorVotingPower(s, operator, vaults[v]) > 0})

(* Mutant: the operators that ever had a vault, registered or not.         *)
getVotingPowersOfAll(s, vaults) ==
    [operator \in {o \in Operators : getOperatorVotingPowers(s, vaults, o) # << >>} |->
        getOperatorVotingPowers(s, vaults, operator)]

getVotingPowers(s, vaults) ==
    [operator \in {o \in s.operators : getOperatorVotingPowers(s, vaults, o) # << >>} |->
        getOperatorVotingPowers(s, vaults, operator)]
=============================================================================
