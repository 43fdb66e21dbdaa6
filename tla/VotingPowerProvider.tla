------------------------- MODULE VotingPowerProvider --------------------------
(***************************************************************************)
(* A voting power provider with all of its extensions: the registry of     *)
(* src/src/modules/voting-power/VotingPowerProvider.sol, the operator      *)
(* blacklist, jail and whitelist, operator and shared vaults, several      *)
(* tokens, and vaults deployed for operators on registration.  A contract  *)
(* without an extension is this one with that extension's calls never      *)
(* made.  A transaction is one step; time advances between blocks.         *)
(***************************************************************************)
EXTENDS VotingPowerHandlers, BlockTime

CONSTANTS NoVault,        \* the zero address of _autoDeployedVault
          ExternalVaults, \* vaults of the core contracts: name -> VaultInfo
          SlashingData,   \* inputs of setSlashingData: {<<requireSlasher, min>>}
          Configs,        \* inputs of setAutoDeployConfig
          JailDurations,  \* inputs of jailOperator
          Signers,        \* operators that sign their calls too
          Lists,          \* blacklist and whitelist calls are made
          Statuses,       \* inputs of the two auto-deploy status setters
          MaxNonce        \* bound

AutoDeployConfig == [epochDuration : Durations, collateral : Tokens, burner : BOOLEAN,
                     withSlasher : BOOLEAN, isBurnerHook : BOOLEAN]

ASSUME CompositionAssumption ==
    /\ NoVault \notin Vaults
    /\ DOMAIN ExternalVaults \subseteq Vaults
    /\ \A v \in DOMAIN ExternalVaults : ExternalVaults[v] \in VaultInfo
    /\ SlashingData \subseteq BOOLEAN \X Durations
    /\ Configs \subseteq AutoDeployConfig
    /\ JailDurations \subseteq Nat
    /\ Signers \subseteq Operators /\ Lists \in BOOLEAN /\ Statuses \subseteq BOOLEAN
    /\ MaxTime \in Nat \ {0} /\ MaxNonce \in Nat

VARIABLES provider,     \* VotingPowerProviderStorage
          vaults,       \* the core's vaults
          nonces,       \* NoncesUpgradeable
          blacklisted,  \* OperatorsBlacklistStorage
          jailedUntil,  \* OperatorsJailStorage
          whitelist,    \* OperatorsWhitelistStorage
          auto,         \* OpNetVaultAutoDeployStorage
          spent         \* history: the signatures a call has accepted

registry == <<provider, vaults, auto>>
lists == <<blacklisted, jailedUntil, whitelist>>
vars == <<provider, vaults, nonces, blacklisted, jailedUntil, whitelist, auto, now, spent>>

(* An address with no contract behind it yet.                              *)
NotDeployed == [entity |-> FALSE, isInitialized |-> FALSE, collateral |-> NoToken,
                epochDuration |-> 0, vetoDuration |-> 0, slasher |-> "NONE",
                delegator |-> "NETWORK_RESTAKE", operator |-> CHOOSE o \in Operators : TRUE,
                ownNetwork |-> FALSE, maxNetworkLimit |-> FALSE]

-----------------------------------------------------------------------------
(* Mutant: the minimum epoch duration is not looked at.                    *)
_validateConfigAnyEpoch(s, config) ==
    /\ config.collateral # NoToken
    /\ config.epochDuration # 0
    /\ config.withSlasher => (config.isBurnerHook => config.burner)
    /\ ~config.withSlasher => ~s.requireSlasher /\ ~config.isBurnerHook

_validateConfig(s, config) ==
    /\ config.collateral # NoToken
    /\ config.epochDuration # 0
    /\ config.epochDuration >= s.minVaultEpochDuration
    /\ config.withSlasher => (config.isBurnerHook => config.burner)
    /\ ~config.withSlasher => ~s.requireSlasher /\ ~config.isBurnerHook

(* The vault the configurator creates for an operator.                     *)
createVault(config, operator, hook) ==
    [entity |-> TRUE, isInitialized |-> TRUE, collateral |-> config.collateral,
     epochDuration |-> config.epochDuration, vetoDuration |-> 0,
     slasher |-> IF config.withSlasher THEN "INSTANT" ELSE "NONE",
     delegator |-> "OPERATOR_NETWORK_SPECIFIC", operator |-> operator,
     ownNetwork |-> TRUE, maxNetworkLimit |-> hook]

Init ==
    /\ \E data \in SlashingData, token \in Tokens, config \in Configs :
          /\ provider =
               [tokens |-> {token} \ {NoToken}, operators |-> {},
                sharedVaults |-> {}, allOperatorVaults |-> {},
                operatorVaults |-> [o \in Operators |-> {}],
                requireSlasher |-> data[1], minVaultEpochDuration |-> data[2]]
          /\ _validateConfig(provider, config)
          /\ auto \in [enabled : Statuses, vaultOf : {[o \in Operators |-> NoVault]},
                       config : {config}, hook : Statuses]
    /\ vaults = [v \in Vaults |-> IF v \in DOMAIN ExternalVaults
                                  THEN ExternalVaults[v] ELSE NotDeployed]
    /\ nonces = [o \in Operators |-> 0]
    /\ blacklisted = {}
    /\ jailedUntil = [o \in Operators |-> 0]
    /\ whitelist \in [enabled : {Lists, FALSE}, operators : {{}}]
    /\ now = 1
    /\ spent = {}

-----------------------------------------------------------------------------
(* The registry's own calls.                                               *)
setSlashingData ==
    /\ \E data \in SlashingData :
          provider' = AfterSetSlashingData(provider, data[1], data[2])
    /\ UNCHANGED <<vaults, auto, nonces, lists, now, spent>>

registerToken ==
    /\ \E token \in Tokens :
          /\ CanRegisterToken(provider, token)
          /\ provider' = AfterRegisterToken(provider, token)
    /\ UNCHANGED <<vaults, auto, nonces, lists, now, spent>>

unregisterToken ==
    /\ \E token \in Tokens :
          /\ CanUnregisterToken(provider, token)
          /\ provider' = AfterUnregisterToken(provider, token)
    /\ UNCHANGED <<vaults, auto, nonces, lists, now, spent>>

registerSharedVault ==
    /\ \E v \in Vaults :
          /\ CanRegisterSharedVault(provider, v, vaults[v])
          /\ provider' = AfterRegisterSharedVault(provider, v)
    /\ UNCHANGED <<vaults, auto, nonces, lists, now, spent>>

unregisterSharedVault ==
    /\ \E v \in Vaults :
          /\ CanUnregisterSharedVault(provider, v)
          /\ provider' = AfterUnregisterSharedVault(provider, v)
    /\ UNCHANGED <<vaults, auto, nonces, lists, now, spent>>

registerOperatorVault ==
    /\ \E o \in Operators, v \in Vaults :
          /\ CanRegisterOperatorVault(provider, o, v, vaults[v])
          /\ provider' = AfterRegisterOperatorVault(provider, o, v)
    /\ UNCHANGED <<vaults, auto, nonces, lists, now, spent>>

(* Mutant: the vault stays recorded as the operator's deployed one.        *)
ForgetVaultNever(a, o, v) == a

(* What _unregisterOperatorVaultImpl leaves of the auto-deploy storage.    *)
ForgetVault(a, o, v) ==
    IF a.vaultOf[o] = v THEN [a EXCEPT !.vaultOf[o] = NoVault] ELSE a

(* By the owner for any operator, or by the operator for its own vault.    *)
unregisterOperatorVault ==
    /\ \E o \in Operators, v \in Vaults :
          /\ CanUnregisterOperatorVault(provider, o, v)
          /\ provider' = AfterUnregisterOperatorVault(provider, o, v)
          /\ auto' = ForgetVault(auto, o, v)
    /\ UNCHANGED <<vaults, nonces, lists, now, spent>>

-----------------------------------------------------------------------------
(* Registration.  The overrides of _registerOperatorImpl run before the    *)
(* registry's own, except the deployment of a vault, which runs after it.  *)

(* Mutant: the whitelist is not asked.                                     *)
PermittedUnlisted(o) ==
    /\ o \notin blacklisted
    /\ jailedUntil[o] <= now

Permitted(o) ==
    /\ o \notin blacklisted
    /\ jailedUntil[o] <= now
    /\ whitelist.enabled => o \in whitelist.operators

(* Mutant: the nonce is only read.                                         *)
_useNonceRead(o) == nonces[o] < MaxNonce /\ UNCHANGED nonces

_useNonce(o) ==
    /\ nonces[o] < MaxNonce
    /\ nonces' = [nonces EXCEPT ![o] = @ + 1]

Deploys(o) == auto.enabled /\ auto.vaultOf[o] = NoVault

(* The deployment of v for o, once o is registered in s.                   *)
DeployVault(s, o, v) ==
    LET info == createVault(auto.config, o, auto.hook)
    IN  /\ vaults[v] = NotDeployed
        /\ CanRegisterOperatorVault(s, o, v, info)
        /\ provider' = AfterRegisterOperatorVault(s, o, v)
        /\ vaults' = [vaults EXCEPT ![v] = info]
        /\ auto' = [auto EXCEPT !.vaultOf[o] = v]

_registerOperatorImpl(o) ==
    /\ Permitted(o)
    /\ CanRegisterOperator(provider, o)
    /\ _useNonce(o)
    /\ \/ /\ Deploys(o)
          /\ \E v \in Vaults : DeployVault(AfterRegisterOperator(provider, o), o, v)
       \/ /\ ~Deploys(o)
          /\ provider' = AfterRegisterOperator(provider, o)
          /\ UNCHANGED <<vaults, auto>>

_unregisterOperatorImpl(o) ==
    /\ CanUnregisterOperator(provider, o)
    /\ provider' = AfterUnregisterOperator(provider, o)
    /\ _useNonce(o)
    /\ UNCHANGED <<vaults, auto>>

registerOperator ==
    /\ \E o \in Operators : _registerOperatorImpl(o)
    /\ UNCHANGED <<lists, now, spent>>

unregisterOperator ==
    /\ \E o \in Operators : _unregisterOperatorImpl(o)
    /\ UNCHANGED <<lists, now, spent>>

(* Every signature an operator could have made is available to any caller; *)
(* only one made over the current nonce passes _verifyEIP712.              *)
registerOperatorWithSignature ==
    /\ \E o \in Signers, n \in 0 .. MaxNonce :
          /\ n = nonces[o]
          /\ _registerOperatorImpl(o)
          /\ spent' = spent \union {<<"RegisterOperator", o, n>>}
    /\ UNCHANGED <<lists, now>>

unregisterOperatorWithSignature ==
    /\ \E o \in Signers, n \in 0 .. MaxNonce :
          /\ n = nonces[o]
          /\ _unregisterOperatorImpl(o)
          /\ spent' = spent \union {<<"UnregisterOperator", o, n>>}
    /\ UNCHANGED <<lists, now>>

invalidateOldSignatures ==
    /\ \E o \in Operators : _useNonce(o)
    /\ UNCHANGED <<registry, lists, now, spent>>

-----------------------------------------------------------------------------
(* The lists of the owner.  Expelling an operator uses no nonce.           *)

(* Mutant: the operator is listed and stays registered.                    *)
ExpelNever(s, o) == s

Expel(s, o) ==
    IF o \in s.operators THEN AfterUnregisterOperator(s, o) ELSE s

blacklistOperator ==
    /\ Lists
    /\ \E o \in Operators :
          /\ o \notin blacklisted
          /\ blacklisted' = blacklisted \union {o}
          /\ provider' = Expel(provider, o)
    /\ UNCHANGED <<vaults, auto, nonces, jailedUntil, whitelist, now, spent>>

unblacklistOperator ==
    /\ Lists
    /\ \E o \in Operators :
          /\ o \in blacklisted
          /\ blacklisted' = blacklisted \ {o}
    /\ UNCHANGED <<registry, nonces, jailedUntil, whitelist, now, spent>>

jailOperator ==
    /\ \E o \in Operators, duration \in JailDurations :
          /\ duration # 0
          /\ now + duration > jailedUntil[o]
          /\ jailedUntil' = [jailedUntil EXCEPT ![o] = now + duration]
          /\ provider' = Expel(provider, o)
    /\ UNCHANGED <<vaults, auto, nonces, blacklisted, whitelist, now, spent>>

unjailOperator ==
    /\ \E o \in Operators :
          /\ jailedUntil[o] > now
          /\ jailedUntil' = [jailedUntil EXCEPT ![o] = 0]
    /\ UNCHANGED <<registry, nonces, blacklisted, whitelist, now, spent>>

setWhitelistStatus ==
    /\ Lists
    /\ whitelist' = [whitelist EXCEPT !.enabled = ~@]
    /\ UNCHANGED <<registry, nonces, blacklisted, jailedUntil, now, spent>>

whitelistOperator ==
    /\ Lists
    /\ \E o \in Operators :
          /\ o \notin whitelist.operators
          /\ whitelist' = [whitelist EXCEPT !.operators = @ \union {o}]
    /\ UNCHANGED <<registry, nonces, blacklisted, jailedUntil, now, spent>>

unwhitelistOperator ==
    /\ Lists
    /\ \E o \in Operators :
          /\ o \in whitelist.operators
          /\ whitelist' = [whitelist EXCEPT !.operators = @ \ {o}]
          /\ provider' = IF whitelist.enabled THEN Expel(provider, o) ELSE provider
    /\ UNCHANGED <<vaults, auto, nonces, blacklisted, jailedUntil, now, spent>>

-----------------------------------------------------------------------------
(* Auto-deployment.                                                        *)
setAutoDeployStatus ==
    /\ \E status \in Statuses : auto' = [auto EXCEPT !.enabled = status]
    /\ UNCHANGED <<provider, vaults, nonces, lists, now, spent>>

setAutoDeployConfig ==
    /\ \E config \in Configs :
          /\ _validateConfig(provider, config)
          /\ auto' = [auto EXCEPT !.config = config]
    /\ UNCHANGED <<provider, vaults, nonces, lists, now, spent>>

setSetMaxNetworkLimitHookStatus ==
    /\ \E status \in Statuses : auto' = [auto EXCEPT !.hook = status]
    /\ UNCHANGED <<provider, vaults, nonces, lists, now, spent>>

Tick ==
    /\ now < MaxTime
    /\ now' = now + 1
    /\ UNCHANGED <<registry, nonces, lists, spent>>

Next ==
    \/ setSlashingData
    \/ registerToken \/ unregisterToken
    \/ registerSharedVault \/ unregisterSharedVault
    \/ registerOperatorVault \/ unregisterOperatorVault
    \/ registerOperator \/ unregisterOperator
    \/ registerOperatorWithSignature \/ unregisterOperatorWithSignature
    \/ invalidateOldSignatures
    \/ blacklistOperator \/ unblacklistOperator
    \/ jailOperator \/ unjailOperator
    \/ setWhitelistStatus \/ whitelistOperator \/ unwhitelistOperator
    \/ setAutoDeployStatus \/ setAutoDeployConfig \/ setSetMaxNetworkLimitHookStatus
    \/ Tick

Spec == Init /\ [][Next]_vars

-----------------------------------------------------------------------------
(* Properties.                                                             *)

(* The storage of the provider and its extensions has its types.           *)
TypeOK ==
    /\ provider \in Provider
    /\ vaults \in [Vaults -> VaultInfo]
    /\ nonces \in [Operators -> 0 .. MaxNonce]
    /\ blacklisted \subseteq Operators
    /\ jailedUntil \in [Operators -> Nat]
    /\ whitelist \in [enabled : BOOLEAN, operators : SUBSET Operators]
    /\ auto \in [enabled : Statuses, vaultOf : [Operators -> Vaults \union {NoVault}],
                 config : AutoDeployConfig, hook : BOOLEAN]
    /\ now \in 1 .. MaxTime
    /\ spent \subseteq {"RegisterOperator", "UnregisterOperator"} \X Operators \X (0 .. MaxNonce)

(* The three sets of vaults agree: the set of all operator vaults holds    *)
(* exactly those of the operators, no vault is both shared and an          *)
(* operator's, and an operator's vault delegates to that operator, so that *)
(* it has no second owner.  The vault recorded as deployed for an operator *)
(* is registered as its vault, so that registration after its removal      *)
(* deploys another.                                                        *)
VaultSetsConsistent ==
    /\ provider.allOperatorVaults = UNION {provider.operatorVaults[o] : o \in Operators}
    /\ provider.sharedVaults \intersect provider.allOperatorVaults = {}
    /\ \A o \in Operators : \A v \in provider.operatorVaults[o] :
          vaults[v].delegator \in OperatorDelegators /\ vaults[v].operator = o
    /\ \A o \in Operators :
          auto.vaultOf[o] # NoVault => auto.vaultOf[o] \in provider.operatorVaults[o]

(* getVotingPowers counts a vault's stake at most once for an operator,    *)
(* only for operators registered now, and an operator's own vault for no   *)
(* other operator.                                                         *)
StakeCountedOnce ==
    LET powers == getVotingPowers(provider, vaults)
    IN  /\ DOMAIN powers \subseteq provider.operators
        /\ \A o \in DOMAIN powers :
              /\ \A i, j \in DOMAIN powers[o] : powers[o][i] = powers[o][j] => i = j
              /\ \A p \in DOMAIN powers, i \in DOMAIN powers[o] :
                    p # o /\ powers[o][i] \in provider.operatorVaults[o]
                        => \A j \in DOMAIN powers[p] : powers[p][j] # powers[o][i]

(* A configuration that setAutoDeployConfig would accept now, over a       *)
(* registered collateral, never makes the registration of a permitted      *)
(* operator revert: the vault it deploys passes _validateVault.            *)
AutoDeployNeverBlocks ==
    \A o \in Operators, v \in Vaults :
        /\ Permitted(o) /\ CanRegisterOperator(provider, o) /\ Deploys(o)
        /\ vaults[v] = NotDeployed
        /\ _validateConfig(provider, auto.config)
        /\ auto.config.collateral \in provider.tokens
        => CanRegisterOperatorVault(AfterRegisterOperator(provider, o), o, v,
                                    createVault(auto.config, o, auto.hook))

(* No registered operator is blacklisted or serves a jail term.            *)
ExcludedAreOut ==
    \A o \in provider.operators : o \notin blacklisted /\ jailedUntil[o] <= now

(* While the whitelist is enabled, the registered operators that are not   *)
(* on it can only become fewer: those it found registered may stay, and    *)
(* taking an operator off the list unregisters it.                         *)
UnlistedOnlyLeave ==
    [][whitelist.enabled /\ whitelist'.enabled =>
          provider'.operators \ whitelist'.operators
              \subseteq provider.operators \ whitelist.operators]_vars

(* A signature a call has accepted is over a nonce that is past, so no     *)
(* later call accepts it again, whatever unregisters the operator between. *)
SpentSignaturesAreDead == \A sig \in spent : sig[3] < nonces[sig[2]]

(* The interface's words on the error of setAutoDeployConfig: a            *)
(* configuration without a slasher is accepted only when the slashing      *)
(* window is zero.                                                         *)
NoSlasherNoWindow ==
    [][auto'.config # auto.config /\ ~auto'.config.withSlasher
          => provider.minVaultEpochDuration = 0]_vars
=============================================================================
