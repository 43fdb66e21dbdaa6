-------------------------- MODULE VotingPowerProofs --------------------------
(***************************************************************************)
(* Safety of the voting power provider for any operators, vaults, tokens   *)
(* and inputs: the sets of vaults agree, a deployment never blocks a       *)
(* registration, excluded operators are out, a signature is accepted once, *)
(* unlisted operators only leave, and no stake counts twice.  Then of the  *)
(* price feed and the calculators for any aggregators, rounds, hops and    *)
(* weights: the round found at a timestamp is the last one, the present    *)
(* agrees with what is read without a timestamp, and past power is final.  *)
(***************************************************************************)
EXTENDS VotingPowerProvider, VotingPowerCalc, CheckpointsProofs, SequenceTheorems

-----------------------------------------------------------------------------
(* The handlers of VotingPowerProviderLogic keep the types of its storage. *)
LEMMA HandlerTypes ==
    ASSUME NEW s \in Provider
    PROVE  /\ \A data \in BOOLEAN \X Durations :
                 AfterSetSlashingData(s, data[1], data[2]) \in Provider
           /\ \A t \in Tokens : CanRegisterToken(s, t) => AfterRegisterToken(s, t) \in Provider
           /\ \A t \in Tokens : AfterUnregisterToken(s, t) \in Provider
           /\ \A o \in Operators :
                 CanRegisterOperator(s, o) => AfterRegisterOperator(s, o) \in Provider
           /\ \A o \in Operators : AfterUnregisterOperator(s, o) \in Provider
           /\ \A v \in Vaults : AfterRegisterSharedVault(s, v) \in Provider
           /\ \A v \in Vaults : AfterUnregisterSharedVault(s, v) \in Provider
<1>1. \A data \in BOOLEAN \X Durations :
          AfterSetSlashingData(s, data[1], data[2]) \in Provider
  BY DEF Provider, AfterSetSlashingData
<1>2. \A t \in Tokens : CanRegisterToken(s, t) => AfterRegisterToken(s, t) \in Provider
  BY DEF Provider, CanRegisterToken, AfterRegisterToken
<1>3. \A t \in Tokens : AfterUnregisterToken(s, t) \in Provider
  BY DEF Provider, AfterUnregisterToken
<1>4. \A o \in Operators :
          CanRegisterOperator(s, o) => AfterRegisterOperator(s, o) \in Provider
  BY DEF Provider, CanRegisterOperator, _validateOperator, AfterRegisterOperator
<1>5. \A o \in Operators : AfterUnregisterOperator(s, o) \in Provider
  BY DEF Provider, AfterUnregisterOperator
<1>6. \A v \in Vaults : AfterRegisterSharedVault(s, v) \in Provider
  BY DEF Provider, AfterRegisterSharedVault
<1>7. \A v \in Vaults : AfterUnregisterSharedVault(s, v) \in Provider
  BY DEF Provider, AfterUnregisterSharedVault
<1> QED
  BY <1>1, <1>2, <1>3, <1>4, <1>5, <1>6, <1>7

(* What the two operator-vault handlers leave, field by field.             *)
LEMMA AfterRegistration ==
    ASSUME NEW s \in Provider, NEW o \in Operators, NEW v \in Vaults,
           NEW r, r = AfterRegisterOperatorVault(s, o, v)
    PROVE  /\ r \in Provider
           /\ r.operators = s.operators /\ r.sharedVaults = s.sharedVaults
           /\ r.allOperatorVaults = s.allOperatorVaults \union {v}
           /\ r.operatorVaults[o] = s.operatorVaults[o] \union {v}
           /\ \A p \in Operators \ {o} : r.operatorVaults[p] = s.operatorVaults[p]
<1>1. /\ s.operatorVaults \in [Operators -> SUBSET Vaults]
      /\ s.allOperatorVaults \subseteq Vaults
  BY DEF Provider
<1>2. r = [s EXCEPT !.allOperatorVaults = s.allOperatorVaults \union {v},
                    !.operatorVaults = [s.operatorVaults EXCEPT
                        ![o] = s.operatorVaults[o] \union {v}]]
  BY <1>1 DEF AfterRegisterOperatorVault, Provider
<1>3. [s.operatorVaults EXCEPT ![o] = s.operatorVaults[o] \union {v}]
          \in [Operators -> SUBSET Vaults]
  BY <1>1
<1> QED
  BY <1>1, <1>2, <1>3 DEF Provider

LEMMA AfterRemoval ==
    ASSUME NEW s \in Provider, NEW o \in Operators, NEW v \in Vaults,
           NEW r, r = AfterUnregisterOperatorVault(s, o, v)
    PROVE  /\ r \in Provider
           /\ r.operators = s.operators /\ r.sharedVaults = s.sharedVaults
           /\ r.allOperatorVaults = s.allOperatorVaults \ {v}
           /\ r.operatorVaults[o] = s.operatorVaults[o] \ {v}
           /\ \A p \in Operators \ {o} : r.operatorVaults[p] = s.operatorVaults[p]
<1>1. /\ s.operatorVaults \in [Operators -> SUBSET Vaults]
      /\ s.allOperatorVaults \subseteq Vaults
  BY DEF Provider
<1>2. r = [s EXCEPT !.operatorVaults = [s.operatorVaults EXCEPT
                        ![o] = s.operatorVaults[o] \ {v}],
                    !.allOperatorVaults = s.allOperatorVaults \ {v}]
  BY <1>1 DEF AfterUnregisterOperatorVault, Provider
<1>3. [s.operatorVaults EXCEPT ![o] = s.operatorVaults[o] \ {v}]
          \in [Operators -> SUBSET Vaults]
  BY <1>1
<1> QED
  BY <1>1, <1>2, <1>3 DEF Provider

(* Registering or removing an operator leaves the vaults alone.            *)
LEMMA AfterOperator ==
    ASSUME NEW s \in Provider, NEW o \in Operators
    PROVE  /\ AfterRegisterOperator(s, o).operators = s.operators \union {o}
           /\ AfterUnregisterOperator(s, o).operators = s.operators \ {o}
           /\ \A r \in {AfterRegisterOperator(s, o), AfterUnregisterOperator(s, o)} :
                 /\ r.sharedVaults = s.sharedVaults
                 /\ r.allOperatorVaults = s.allOperatorVaults
                 /\ r.operatorVaults = s.operatorVaults
BY DEF Provider, AfterRegisterOperator, AfterUnregisterOperator

-----------------------------------------------------------------------------
(* Type correctness.                                                       *)

(* What the configurator creates, and an address before it does.          *)
LEMMA CreatedVaultType ==
    ASSUME NEW config \in AutoDeployConfig, NEW o \in Operators, NEW hook \in BOOLEAN
    PROVE  createVault(config, o, hook) \in VaultInfo
BY ProviderAssumption DEF AutoDeployConfig, createVault, VaultInfo, OperatorDelegators

LEMMA NotDeployedType == NotDeployed \in VaultInfo
<1>1. (CHOOSE o \in Operators : TRUE) \in Operators
  BY ProviderAssumption
<1> QED
  BY <1>1, ProviderAssumption DEF NotDeployed, VaultInfo, SharedDelegators

(* A provider starts with the types of its storage, whatever its inputs.   *)
LEMMA InitTypes == Init => TypeOK
<1> SUFFICES ASSUME Init PROVE TypeOK
  OBVIOUS
<1> USE DEF Init
<1>1. provider \in Provider
  BY CompositionAssumption DEF Provider
<1>2. vaults \in [Vaults -> VaultInfo]
  BY CompositionAssumption, NotDeployedType
<1>3. auto \in [enabled : Statuses, vaultOf : [Operators -> Vaults \union {NoVault}],
                config : AutoDeployConfig, hook : BOOLEAN]
  BY CompositionAssumption
<1>4. whitelist \in [enabled : BOOLEAN, operators : SUBSET Operators]
  BY CompositionAssumption
<1>5. nonces \in [Operators -> 0 .. MaxNonce] /\ jailedUntil \in [Operators -> Nat]
  BY CompositionAssumption
<1>6. now \in 1 .. MaxTime /\ blacklisted \subseteq Operators /\ spent = {}
  BY CompositionAssumption
<1> QED
  BY <1>1, <1>2, <1>3, <1>4, <1>5, <1>6 DEF TypeOK

(* The registration of an operator, with or without a deployment.          *)
LEMMA RegistrationTypes ==
    ASSUME TypeOK, NEW o \in Operators, _registerOperatorImpl(o)
    PROVE  /\ provider' \in Provider
           /\ vaults' \in [Vaults -> VaultInfo]
           /\ nonces' \in [Operators -> 0 .. MaxNonce]
           /\ auto' \in [enabled : Statuses, vaultOf : [Operators -> Vaults \union {NoVault}],
                         config : AutoDeployConfig, hook : BOOLEAN]
<1> DEFINE s == AfterRegisterOperator(provider, o)
<1>1. s \in Provider
  BY HandlerTypes DEF TypeOK, _registerOperatorImpl
<1>2. nonces' \in [Operators -> 0 .. MaxNonce]
  BY CompositionAssumption DEF TypeOK, _registerOperatorImpl, _useNonce
<1>3. CASE Deploys(o)
  <2>1. PICK v \in Vaults : DeployVault(s, o, v)
    BY <1>3 DEF _registerOperatorImpl
  <2>2. provider' \in Provider
    BY <1>1, <2>1, AfterRegistration DEF DeployVault
  <2>3. createVault(auto.config, o, auto.hook) \in VaultInfo
    BY CreatedVaultType DEF TypeOK
  <2>4. vaults' \in [Vaults -> VaultInfo]
    BY <2>1, <2>3 DEF TypeOK, DeployVault
  <2>5. /\ auto' = [auto EXCEPT !.vaultOf = [auto.vaultOf EXCEPT ![o] = v]]
        /\ [auto.vaultOf EXCEPT ![o] = v] \in [Operators -> Vaults \union {NoVault}]
    BY <2>1 DEF TypeOK, DeployVault
  <2> QED
    BY <1>2, <2>2, <2>4, <2>5 DEF TypeOK
<1>4. CASE ~Deploys(o)
  BY <1>1, <1>2, <1>4 DEF TypeOK, _registerOperatorImpl
<1> QED
  BY <1>3, <1>4

(* Removing an operator from the registry, when it is there.               *)
LEMMA ExpelTypes ==
    ASSUME NEW s \in Provider, NEW o \in Operators
    PROVE  /\ Expel(s, o) \in Provider
           /\ Expel(s, o).operators = s.operators \ {o}
           /\ Expel(s, o).sharedVaults = s.sharedVaults
           /\ Expel(s, o).allOperatorVaults = s.allOperatorVaults
           /\ Expel(s, o).operatorVaults = s.operatorVaults
<1>1. CASE o \in s.operators
  BY <1>1, HandlerTypes, AfterOperator DEF Expel
<1>2. CASE o \notin s.operators
  BY <1>2 DEF Expel
<1> QED
  BY <1>1, <1>2

(* The calls on an operator's registration, by whomever they are made.     *)
LEMMA RegistrationStepTypes ==
    ASSUME TypeOK
    PROVE  /\ registerOperator \/ registerOperatorWithSignature => TypeOK'
           /\ unregisterOperator \/ unregisterOperatorWithSignature => TypeOK'
<1>1. ASSUME NEW o \in Operators, _registerOperatorImpl(o), UNCHANGED <<lists, now>>,
             spent' \subseteq {"RegisterOperator", "UnregisterOperator"}
                                \X Operators \X (0 .. MaxNonce)
      PROVE  TypeOK'
  BY <1>1, RegistrationTypes DEF TypeOK, lists
<1>2. ASSUME NEW o \in Operators, _unregisterOperatorImpl(o), UNCHANGED <<lists, now>>,
             spent' \subseteq {"RegisterOperator", "UnregisterOperator"}
                                \X Operators \X (0 .. MaxNonce)
      PROVE  TypeOK'
  <2>1. provider' \in Provider
    BY <1>2, HandlerTypes DEF TypeOK, _unregisterOperatorImpl
  <2>2. nonces' \in [Operators -> 0 .. MaxNonce]
    BY <1>2, CompositionAssumption DEF TypeOK, _unregisterOperatorImpl, _useNonce
  <2> QED
    BY <1>2, <2>1, <2>2 DEF TypeOK, lists, _unregisterOperatorImpl
<1>3. registerOperator => TypeOK'
  BY <1>1 DEF registerOperator, TypeOK
<1>4. unregisterOperator => TypeOK'
  BY <1>2 DEF unregisterOperator, TypeOK
<1>5. registerOperatorWithSignature => TypeOK'
  BY <1>1, CompositionAssumption DEF registerOperatorWithSignature, TypeOK
<1>6. unregisterOperatorWithSignature => TypeOK'
  BY <1>2, CompositionAssumption DEF unregisterOperatorWithSignature, TypeOK
<1> QED
  BY <1>3, <1>4, <1>5, <1>6

(* Every call keeps the types.                                             *)
LEMMA TypesStep == TypeOK /\ [Next]_vars => TypeOK'
<1> SUFFICES ASSUME TypeOK, [Next]_vars PROVE TypeOK'
  OBVIOUS
<1> USE DEF TypeOK, lists, registry
<1>1. CASE setSlashingData
  BY <1>1, HandlerTypes, CompositionAssumption DEF setSlashingData
<1>2. CASE registerToken
  BY <1>2, HandlerTypes DEF registerToken
<1>3. CASE unregisterToken
  BY <1>3, HandlerTypes DEF unregisterToken
<1>4. CASE registerSharedVault
  BY <1>4, HandlerTypes DEF registerSharedVault
<1>5. CASE unregisterSharedVault
  BY <1>5, HandlerTypes DEF unregisterSharedVault
<1>6. CASE registerOperatorVault
  BY <1>6, AfterRegistration DEF registerOperatorVault
<1>7. CASE unregisterOperatorVault
  <2>1. PICK o \in Operators, v \in Vaults :
            /\ provider' = AfterUnregisterOperatorVault(provider, o, v)
            /\ auto' = ForgetVault(auto, o, v)
    BY <1>7 DEF unregisterOperatorVault
  <2>2. provider' \in Provider
    BY <2>1, AfterRemoval
  <2>3. auto' = auto \/ auto' = [auto EXCEPT !.vaultOf = [auto.vaultOf EXCEPT ![o] = NoVault]]
    BY <2>1 DEF ForgetVault
  <2>4. [auto.vaultOf EXCEPT ![o] = NoVault] \in [Operators -> Vaults \union {NoVault}]
    OBVIOUS
  <2>5. auto' \in [enabled : Statuses, vaultOf : [Operators -> Vaults \union {NoVault}],
                   config : AutoDeployConfig, hook : BOOLEAN]
    BY <2>3, <2>4
  <2> QED
    BY <1>7, <2>2, <2>5 DEF unregisterOperatorVault
<1>8. CASE \/ registerOperator \/ registerOperatorWithSignature
           \/ unregisterOperator \/ unregisterOperatorWithSignature
  BY <1>8, RegistrationStepTypes
<1>9. CASE invalidateOldSignatures
  BY <1>9, CompositionAssumption DEF invalidateOldSignatures, _useNonce
<1>10. CASE blacklistOperator \/ unblacklistOperator
  BY <1>10, ExpelTypes DEF blacklistOperator, unblacklistOperator
<1>11. CASE jailOperator
  <2>1. PICK o \in Operators, duration \in JailDurations :
            /\ jailedUntil' = [jailedUntil EXCEPT ![o] = now + duration]
            /\ provider' = Expel(provider, o)
    BY <1>11 DEF jailOperator
  <2>2. provider' \in Provider
    BY <2>1, ExpelTypes
  <2>3. now + duration \in Nat
    BY CompositionAssumption
  <2>4. jailedUntil' \in [Operators -> Nat]
    BY <2>1, <2>3
  <2> QED
    BY <1>11, <2>2, <2>4 DEF jailOperator
<1>12. CASE unjailOperator
  BY <1>12 DEF unjailOperator
<1>13. CASE setWhitelistStatus
  <2>1. whitelist' \in [enabled : BOOLEAN, operators : SUBSET Operators]
    <3> DEFINE flipped == ~whitelist.enabled
    <3>1. flipped \in BOOLEAN
      OBVIOUS
    <3>2. whitelist' = [whitelist EXCEPT !.enabled = flipped]
      BY <1>13 DEF setWhitelistStatus
    <3> HIDE DEF flipped
    <3> QED
      BY <3>1, <3>2
  <2> QED
    BY <1>13, <2>1 DEF setWhitelistStatus
<1>14. CASE whitelistOperator \/ unwhitelistOperator
  <2>1. PICK o \in Operators :
            \/ whitelist' = [whitelist EXCEPT !.operators = whitelist.operators \union {o}]
            \/ whitelist' = [whitelist EXCEPT !.operators = whitelist.operators \ {o}]
    BY <1>14, Zenon DEF whitelistOperator, unwhitelistOperator
  <2>2. whitelist' \in [enabled : BOOLEAN, operators : SUBSET Operators]
    BY <2>1
  <2>3. provider' \in Provider
    BY <1>14, ExpelTypes DEF whitelistOperator, unwhitelistOperator
  <2> QED
    BY <1>14, <2>2, <2>3 DEF whitelistOperator, unwhitelistOperator
<1>15. CASE setAutoDeployStatus \/ setAutoDeployConfig \/ setSetMaxNetworkLimitHookStatus
  BY <1>15, CompositionAssumption
     DEF setAutoDeployStatus, setAutoDeployConfig, setSetMaxNetworkLimitHookStatus
<1>16. CASE Tick
  BY <1>16, CompositionAssumption DEF Tick
<1>17. CASE UNCHANGED vars
  BY <1>17 DEF vars
<1> QED
  BY <1>1, <1>2, <1>3, <1>4, <1>5, <1>6, <1>7, <1>8, <1>9, <1>10, <1>11, <1>12,
     <1>13, <1>14, <1>15, <1>16, <1>17 DEF Next

-----------------------------------------------------------------------------
(* Operators and lists.                                                    *)

RegistryCall ==
    \/ setSlashingData
    \/ registerToken \/ unregisterToken
    \/ registerSharedVault \/ unregisterSharedVault
    \/ registerOperatorVault \/ unregisterOperatorVault
    \/ setAutoDeployStatus \/ setAutoDeployConfig \/ setSetMaxNetworkLimitHookStatus

(* The calls on tokens, vaults and configurations touch no operator.       *)
LEMMA RegistryCallKeepsOperators ==
    ASSUME TypeOK, RegistryCall
    PROVE  provider'.operators = provider.operators /\ UNCHANGED <<nonces, lists, now, spent>>
<1>1. UNCHANGED <<nonces, lists, now, spent>>
  BY DEF RegistryCall, setSlashingData, registerToken, unregisterToken,
         registerSharedVault, unregisterSharedVault, registerOperatorVault,
         unregisterOperatorVault, setAutoDeployStatus, setAutoDeployConfig,
         setSetMaxNetworkLimitHookStatus
<1>2. CASE setSlashingData
  BY <1>1, <1>2 DEF TypeOK, Provider, setSlashingData, AfterSetSlashingData
<1>6. CASE registerToken \/ unregisterToken
  BY <1>1, <1>6 DEF TypeOK, Provider, registerToken, AfterRegisterToken,
                    unregisterToken, AfterUnregisterToken
<1>3. CASE registerSharedVault \/ unregisterSharedVault
  BY <1>1, <1>3 DEF TypeOK, Provider, registerSharedVault, AfterRegisterSharedVault,
                    unregisterSharedVault, AfterUnregisterSharedVault
<1>4. CASE registerOperatorVault \/ unregisterOperatorVault
  <2>1. PICK o \in Operators, v \in Vaults :
            \/ provider' = AfterRegisterOperatorVault(provider, o, v)
            \/ provider' = AfterUnregisterOperatorVault(provider, o, v)
    BY <1>4, Zenon DEF registerOperatorVault, unregisterOperatorVault
  <2> QED
    BY <1>1, <2>1, AfterRegistration, AfterRemoval DEF TypeOK
<1>5. CASE setAutoDeployStatus \/ setAutoDeployConfig \/ setSetMaxNetworkLimitHookStatus
  BY <1>1, <1>5 DEF setAutoDeployStatus, setAutoDeployConfig, setSetMaxNetworkLimitHookStatus
<1> QED
  BY <1>2, <1>3, <1>4, <1>5, <1>6 DEF RegistryCall

(* A registration adds one permitted operator, and uses a nonce.           *)
LEMMA RegistrationAdds ==
    ASSUME TypeOK, NEW o \in Operators, _registerOperatorImpl(o)
    PROVE  /\ Permitted(o)
           /\ provider'.operators = provider.operators \union {o}
           /\ nonces' = [nonces EXCEPT ![o] = nonces[o] + 1]
<1> DEFINE s == AfterRegisterOperator(provider, o)
<1>1. s \in Provider /\ s.operators = provider.operators \union {o}
  BY HandlerTypes, AfterOperator DEF TypeOK, _registerOperatorImpl
<1>2. Permitted(o) /\ nonces' = [nonces EXCEPT ![o] = nonces[o] + 1]
  BY DEF _registerOperatorImpl, _useNonce
<1>3. CASE Deploys(o)
  <2>1. PICK v \in Vaults : DeployVault(s, o, v)
    BY <1>3 DEF _registerOperatorImpl
  <2>2. provider' = AfterRegisterOperatorVault(s, o, v)
    BY <2>1 DEF DeployVault
  <2> HIDE DEF s
  <2>3. provider'.operators = s.operators
    BY <1>1, <2>2, AfterRegistration
  <2> QED
    BY <1>1, <1>2, <2>3
<1>4. CASE ~Deploys(o)
  BY <1>1, <1>2, <1>4 DEF _registerOperatorImpl
<1> QED
  BY <1>3, <1>4

(* Listing an operator expels it, and a listed one cannot come back: its   *)
(* term ends or it is taken off the list first.                            *)
LEMMA ListsStep == TypeOK /\ ExcludedAreOut /\ [Next]_vars => ExcludedAreOut'
<1> SUFFICES ASSUME TypeOK, ExcludedAreOut, [Next]_vars PROVE ExcludedAreOut'
  OBVIOUS
<1> USE DEF ExcludedAreOut
<1>0. /\ now \in Nat /\ jailedUntil \in [Operators -> Nat]
      /\ provider \in Provider /\ provider.operators \subseteq Operators
  BY ProviderAssumption DEF TypeOK, Provider
<1>1. CASE RegistryCall
  BY <1>1, RegistryCallKeepsOperators DEF lists
<1>2. CASE registerOperator \/ registerOperatorWithSignature
  <2>1. PICK o \in Operators : _registerOperatorImpl(o) /\ UNCHANGED <<lists, now>>
    BY <1>2, CompositionAssumption DEF registerOperator, registerOperatorWithSignature
  <2> QED
    BY <2>1, RegistrationAdds DEF Permitted, lists
<1>3. CASE unregisterOperator \/ unregisterOperatorWithSignature
  <2>1. PICK o \in Operators : _unregisterOperatorImpl(o) /\ UNCHANGED <<lists, now>>
    BY <1>3, CompositionAssumption DEF unregisterOperator, unregisterOperatorWithSignature
  <2> QED
    BY <1>0, <2>1, AfterOperator DEF _unregisterOperatorImpl, lists
<1>4. CASE \/ invalidateOldSignatures \/ setWhitelistStatus \/ whitelistOperator
           \/ unblacklistOperator
  <2>1. provider' = provider /\ UNCHANGED <<jailedUntil, now>> /\ blacklisted' \subseteq blacklisted
    BY <1>4 DEF invalidateOldSignatures, setWhitelistStatus, whitelistOperator,
                unblacklistOperator, registry, lists
  <2> QED
    BY <2>1
<1>5. CASE blacklistOperator
  BY <1>0, <1>5, ExpelTypes DEF blacklistOperator
<1>6. CASE jailOperator
  <2>1. PICK o \in Operators, duration \in JailDurations :
            /\ jailedUntil' = [jailedUntil EXCEPT ![o] = now + duration]
            /\ provider' = Expel(provider, o)
            /\ UNCHANGED <<blacklisted, now>>
    BY <1>6 DEF jailOperator
  <2> QED
    BY <1>0, <2>1, ExpelTypes
<1>7. CASE unjailOperator
  <2>1. PICK o \in Operators : jailedUntil' = [jailedUntil EXCEPT ![o] = 0]
    BY <1>7 DEF unjailOperator
  <2> QED
    BY <1>0, <1>7, <2>1 DEF unjailOperator, registry
<1>8. CASE unwhitelistOperator
  BY <1>0, <1>8, ExpelTypes DEF unwhitelistOperator
<1>9. CASE Tick
  <2>1. UNCHANGED <<registry, lists>> /\ now' = now + 1
    BY <1>9 DEF Tick
  <2>2. ASSUME NEW o \in provider.operators PROVE jailedUntil[o] <= now + 1
    <3>1. jailedUntil[o] <= now /\ jailedUntil[o] \in Nat
      BY <1>0
    <3> QED
      BY <1>0, <3>1
  <2> QED
    BY <2>1, <2>2 DEF registry, lists
<1>10. CASE UNCHANGED vars
  BY <1>10 DEF vars
<1> QED
  BY <1>1, <1>2, <1>3, <1>4, <1>5, <1>6, <1>7, <1>8, <1>9, <1>10 DEF Next, RegistryCall

-----------------------------------------------------------------------------
(* Signatures.                                                             *)

(* Every call that accepts a signature uses the nonce it was made over.    *)
LEMMA SignaturesStep ==
    TypeOK /\ SpentSignaturesAreDead /\ [Next]_vars => SpentSignaturesAreDead'
<1> SUFFICES ASSUME TypeOK, SpentSignaturesAreDead, [Next]_vars
             PROVE  SpentSignaturesAreDead'
  OBVIOUS
<1> USE DEF SpentSignaturesAreDead
<1>1. /\ nonces \in [Operators -> Nat]
      /\ \A sig \in spent : sig[2] \in Operators /\ sig[3] \in Nat
  BY CompositionAssumption DEF TypeOK
(* A used nonce is past for the signature spent with it and all others.    *)
<1>2. ASSUME NEW o \in Operators, nonces' = [nonces EXCEPT ![o] = nonces[o] + 1],
             NEW call, spent' \subseteq spent \union {<<call, o, nonces[o]>>}
      PROVE  SpentSignaturesAreDead'
  <2> SUFFICES ASSUME NEW sig \in spent' PROVE sig[3] < nonces'[sig[2]]
    OBVIOUS
  <2>1. CASE sig \in spent
    BY <1>1, <1>2, <2>1
  <2>2. CASE sig = <<call, o, nonces[o]>>
    BY <1>1, <1>2, <2>2
  <2> QED
    BY <1>2, <2>1, <2>2
<1>3. CASE RegistryCall
  BY <1>3, RegistryCallKeepsOperators
<1>4. CASE registerOperator \/ unregisterOperator \/ invalidateOldSignatures
  <2>1. PICK o \in Operators : /\ nonces' = [nonces EXCEPT ![o] = nonces[o] + 1]
                               /\ spent' = spent
    BY <1>4, RegistrationAdds
       DEF registerOperator, unregisterOperator, invalidateOldSignatures,
           _unregisterOperatorImpl, _useNonce
  <2> QED
    BY <1>2, <2>1
<1>5. CASE registerOperatorWithSignature
  <2>1. PICK o \in Operators : /\ _registerOperatorImpl(o)
                               /\ spent' = spent \union {<<"RegisterOperator", o, nonces[o]>>}
    BY <1>5, CompositionAssumption DEF registerOperatorWithSignature
  <2> QED
    BY <1>2, <2>1, RegistrationAdds
<1>6. CASE unregisterOperatorWithSignature
  <2>1. PICK o \in Operators : /\ _unregisterOperatorImpl(o)
                               /\ spent' = spent \union {<<"UnregisterOperator", o, nonces[o]>>}
    BY <1>6, CompositionAssumption DEF unregisterOperatorWithSignature
  <2> QED
    BY <1>2, <2>1 DEF _unregisterOperatorImpl, _useNonce
<1>7. CASE \/ blacklistOperator \/ unblacklistOperator \/ jailOperator \/ unjailOperator
           \/ setWhitelistStatus \/ whitelistOperator \/ unwhitelistOperator
           \/ Tick \/ UNCHANGED vars
  BY <1>7 DEF blacklistOperator, unblacklistOperator, jailOperator, unjailOperator,
              setWhitelistStatus, whitelistOperator, unwhitelistOperator, Tick, vars
<1> QED
  BY <1>3, <1>4, <1>5, <1>6, <1>7 DEF Next, RegistryCall

-----------------------------------------------------------------------------
(* The sets of vaults.                                                     *)

(* A new operator vault is in neither set before, and is the operator's by *)
(* its delegator; a vault of a set is never the address of a deployment.   *)
LEMMA VaultAdded ==
    ASSUME TypeOK, VaultSetsConsistent,
           NEW s \in Provider, s.sharedVaults = provider.sharedVaults,
           s.allOperatorVaults = provider.allOperatorVaults,
           s.operatorVaults = provider.operatorVaults,
           NEW o \in Operators, NEW v \in Vaults, NEW info \in VaultInfo,
           CanRegisterOperatorVault(s, o, v, info),
           provider' = AfterRegisterOperatorVault(s, o, v),
           vaults' = [vaults EXCEPT ![v] = info],
           \/ auto' = auto
           \/ auto' = [auto EXCEPT !.vaultOf = [auto.vaultOf EXCEPT ![o] = v]]
    PROVE  VaultSetsConsistent'
<1>1. /\ provider'.sharedVaults = provider.sharedVaults
      /\ provider'.allOperatorVaults = provider.allOperatorVaults \union {v}
      /\ provider'.operatorVaults[o] = provider.operatorVaults[o] \union {v}
      /\ \A p \in Operators \ {o} : provider'.operatorVaults[p] = provider.operatorVaults[p]
  BY AfterRegistration
<1>2. /\ v \notin provider.sharedVaults /\ v \notin provider.allOperatorVaults
      /\ info.delegator \in OperatorDelegators /\ info.operator = o
  BY DEF CanRegisterOperatorVault, _validateOperatorVault
<1>3. /\ vaults'[v] = info
      /\ \A w \in Vaults \ {v} : vaults'[w] = vaults[w]
  BY DEF TypeOK
<1>4. \A p \in Operators : provider.operatorVaults[p] \subseteq Vaults \ {v}
  BY <1>2 DEF TypeOK, Provider, VaultSetsConsistent
<1>5. provider'.allOperatorVaults = UNION {provider'.operatorVaults[p] : p \in Operators}
  <2>1. ASSUME NEW w
        PROVE  w \in provider'.allOperatorVaults
                  <=> \E p \in Operators : w \in provider'.operatorVaults[p]
    <3>1. w \in provider.allOperatorVaults
             <=> \E p \in Operators : w \in provider.operatorVaults[p]
      BY DEF VaultSetsConsistent
    <3> QED
      BY <1>1, <3>1
  <2> QED
    BY <2>1
<1>6. provider'.sharedVaults \intersect provider'.allOperatorVaults = {}
  BY <1>1, <1>2 DEF VaultSetsConsistent
<1>7. \A p \in Operators : \A w \in provider'.operatorVaults[p] :
          vaults'[w].delegator \in OperatorDelegators /\ vaults'[w].operator = p
  <2> SUFFICES ASSUME NEW p \in Operators, NEW w \in provider'.operatorVaults[p]
               PROVE  vaults'[w].delegator \in OperatorDelegators /\ vaults'[w].operator = p
    OBVIOUS
  <2>1. CASE w \in provider.operatorVaults[p]
    <3>1. vaults[w].delegator \in OperatorDelegators /\ vaults[w].operator = p
      BY <2>1 DEF VaultSetsConsistent
    <3> QED
      BY <1>3, <1>4, <2>1, <3>1
  <2>2. CASE w \notin provider.operatorVaults[p]
    <3>1. p = o /\ w = v
      BY <1>1, <2>2
    <3> QED
      BY <1>2, <1>3, <3>1
  <2> QED
    BY <2>1, <2>2
<1>8. \A p \in Operators :
          auto'.vaultOf[p] # NoVault => auto'.vaultOf[p] \in provider'.operatorVaults[p]
  <2>1. \A p \in Operators : \/ auto'.vaultOf[p] = auto.vaultOf[p]
                             \/ p = o /\ auto'.vaultOf[p] = v
    BY DEF TypeOK
  <2>2. \A p \in Operators :
            auto.vaultOf[p] # NoVault => auto.vaultOf[p] \in provider.operatorVaults[p]
    BY DEF VaultSetsConsistent
  <2> QED
    BY <1>1, <2>1, <2>2
<1> QED
  BY <1>5, <1>6, <1>7, <1>8 DEF VaultSetsConsistent

(* The removal of an operator's vault, which forgets it as deployed.       *)
LEMMA VaultRemoved ==
    TypeOK /\ VaultSetsConsistent /\ unregisterOperatorVault => VaultSetsConsistent'
<1> SUFFICES ASSUME TypeOK, VaultSetsConsistent, unregisterOperatorVault
             PROVE  VaultSetsConsistent'
  OBVIOUS
<1>0. PICK o \in Operators, v \in Vaults :
          /\ v \in provider.operatorVaults[o]
          /\ provider' = AfterUnregisterOperatorVault(provider, o, v)
          /\ auto' = ForgetVault(auto, o, v)
          /\ vaults' = vaults
  BY DEF unregisterOperatorVault, CanUnregisterOperatorVault
<1>1. /\ provider'.sharedVaults = provider.sharedVaults
      /\ provider'.allOperatorVaults = provider.allOperatorVaults \ {v}
      /\ provider'.operatorVaults[o] = provider.operatorVaults[o] \ {v}
      /\ \A p \in Operators \ {o} : provider'.operatorVaults[p] = provider.operatorVaults[p]
  BY <1>0, AfterRemoval DEF TypeOK
<1>2. \A p \in Operators \ {o} : v \notin provider.operatorVaults[p]
  <2>1. vaults[v].operator = o
    BY <1>0 DEF VaultSetsConsistent
  <2> QED
    BY <2>1 DEF VaultSetsConsistent
<1>3. provider'.allOperatorVaults = UNION {provider'.operatorVaults[p] : p \in Operators}
  <2>1. ASSUME NEW w
        PROVE  w \in provider'.allOperatorVaults
                  <=> \E p \in Operators : w \in provider'.operatorVaults[p]
    <3>1. w \in provider.allOperatorVaults
             <=> \E p \in Operators : w \in provider.operatorVaults[p]
      BY DEF VaultSetsConsistent
    <3> QED
      BY <1>1, <1>2, <3>1
  <2> QED
    BY <2>1
<1>4. provider'.sharedVaults \intersect provider'.allOperatorVaults = {}
  BY <1>1 DEF VaultSetsConsistent
<1>5. \A p \in Operators : \A w \in provider'.operatorVaults[p] :
          vaults'[w].delegator \in OperatorDelegators /\ vaults'[w].operator = p
  <2>1. \A p \in Operators : provider'.operatorVaults[p] \subseteq provider.operatorVaults[p]
    BY <1>1
  <2> QED
    BY <1>0, <2>1 DEF VaultSetsConsistent
<1>6. \A p \in Operators :
          auto'.vaultOf[p] # NoVault => auto'.vaultOf[p] \in provider'.operatorVaults[p]
  <2>1. \A p \in Operators :
            auto'.vaultOf[p] = auto.vaultOf[p] \/ auto'.vaultOf[p] = NoVault
    BY <1>0 DEF ForgetVault, TypeOK
  <2>2. auto'.vaultOf[o] # v \/ auto'.vaultOf[o] = NoVault
    BY <1>0 DEF ForgetVault, TypeOK
  <2>3. \A p \in Operators :
            auto.vaultOf[p] # NoVault => auto.vaultOf[p] \in provider.operatorVaults[p]
    BY DEF VaultSetsConsistent
  <2> QED
    BY <1>1, <2>1, <2>2, <2>3
<1> QED
  BY <1>3, <1>4, <1>5, <1>6 DEF VaultSetsConsistent

(* What a step has to leave alone to keep the sets consistent.             *)
LEMMA VaultsKept ==
    ASSUME VaultSetsConsistent,
           provider'.sharedVaults \subseteq provider.sharedVaults,
           provider'.allOperatorVaults = provider.allOperatorVaults,
           provider'.operatorVaults = provider.operatorVaults,
           vaults' = vaults, auto'.vaultOf = auto.vaultOf
    PROVE  VaultSetsConsistent'
BY DEF VaultSetsConsistent

(* Every call keeps the sets of vaults consistent.                         *)
LEMMA VaultsStep == TypeOK /\ VaultSetsConsistent /\ [Next]_vars => VaultSetsConsistent'
<1> SUFFICES ASSUME TypeOK, VaultSetsConsistent, [Next]_vars PROVE VaultSetsConsistent'
  OBVIOUS
<1>0. provider \in Provider
  BY DEF TypeOK
<1>1. CASE setSlashingData
  BY <1>0, <1>1, VaultsKept DEF Provider, setSlashingData, AfterSetSlashingData
<1>2. CASE registerToken \/ unregisterToken
  BY <1>0, <1>2, VaultsKept DEF Provider, registerToken, AfterRegisterToken,
                                unregisterToken, AfterUnregisterToken
<1>3. CASE registerSharedVault
  <2>1. PICK v \in Vaults : v \notin provider.allOperatorVaults
                            /\ provider' = AfterRegisterSharedVault(provider, v)
    BY <1>3 DEF registerSharedVault, CanRegisterSharedVault
  <2>2. /\ provider'.sharedVaults = provider.sharedVaults \union {v}
        /\ provider'.allOperatorVaults = provider.allOperatorVaults
        /\ provider'.operatorVaults = provider.operatorVaults
        /\ vaults' = vaults /\ auto' = auto
    BY <1>0, <1>3, <2>1 DEF Provider, registerSharedVault, AfterRegisterSharedVault
  <2> QED
    BY <2>1, <2>2 DEF VaultSetsConsistent
<1>4. CASE unregisterSharedVault
  BY <1>0, <1>4, VaultsKept DEF Provider, unregisterSharedVault, AfterUnregisterSharedVault
<1>5. CASE registerOperatorVault
  <2>1. PICK o \in Operators, v \in Vaults :
            /\ CanRegisterOperatorVault(provider, o, v, vaults[v])
            /\ provider' = AfterRegisterOperatorVault(provider, o, v)
    BY <1>5 DEF registerOperatorVault
  <2>2. auto' = auto /\ vaults' = vaults
    BY <1>5 DEF registerOperatorVault
  <2>3. vaults[v] \in VaultInfo /\ vaults' = [vaults EXCEPT ![v] = vaults[v]]
    BY <2>2 DEF TypeOK
  <2> QED
    BY <1>0, <2>1, <2>2, <2>3, VaultAdded
<1>6. CASE unregisterOperatorVault
  BY <1>6, VaultRemoved
<1>7. CASE registerOperator \/ registerOperatorWithSignature
  <2>1. PICK o \in Operators : _registerOperatorImpl(o)
    BY <1>7, CompositionAssumption DEF registerOperator, registerOperatorWithSignature
  <2> DEFINE s == AfterRegisterOperator(provider, o)
  <2>2. /\ s \in Provider /\ s.sharedVaults = provider.sharedVaults
        /\ s.allOperatorVaults = provider.allOperatorVaults
        /\ s.operatorVaults = provider.operatorVaults
    BY <1>0, <2>1, HandlerTypes, AfterOperator DEF _registerOperatorImpl
  <2>3. CASE Deploys(o)
    <3>1. PICK v \in Vaults : DeployVault(s, o, v)
      BY <2>1, <2>3 DEF _registerOperatorImpl
    <3> DEFINE info == createVault(auto.config, o, auto.hook)
    <3>2. info \in VaultInfo
      BY CreatedVaultType DEF TypeOK
    <3>3. auto' = [auto EXCEPT !.vaultOf = [auto.vaultOf EXCEPT ![o] = v]]
      BY <3>1 DEF DeployVault, TypeOK
    <3>4. /\ CanRegisterOperatorVault(s, o, v, info)
          /\ provider' = AfterRegisterOperatorVault(s, o, v)
          /\ vaults' = [vaults EXCEPT ![v] = info]
      BY <3>1 DEF DeployVault
    <3> HIDE DEF info, s
    <3> QED
      BY <2>2, <3>2, <3>3, <3>4, VaultAdded
  <2>4. CASE ~Deploys(o)
    BY <2>1, <2>2, <2>4, VaultsKept DEF _registerOperatorImpl
  <2> QED
    BY <2>3, <2>4
<1>8. CASE unregisterOperator \/ unregisterOperatorWithSignature
  <2>1. PICK o \in Operators : _unregisterOperatorImpl(o)
    BY <1>8, CompositionAssumption DEF unregisterOperator, unregisterOperatorWithSignature
  <2> QED
    BY <1>0, <2>1, AfterOperator, VaultsKept DEF _unregisterOperatorImpl
<1>9. CASE blacklistOperator \/ jailOperator \/ unwhitelistOperator
  <2>1. /\ \E o \in Operators : provider' = Expel(provider, o) \/ provider' = provider
        /\ UNCHANGED <<vaults, auto>>
    BY <1>9 DEF blacklistOperator, jailOperator, unwhitelistOperator
  <2> QED
    BY <1>0, <2>1, ExpelTypes, VaultsKept
<1>10. CASE setAutoDeployStatus \/ setAutoDeployConfig \/ setSetMaxNetworkLimitHookStatus
  BY <1>10, VaultsKept DEF TypeOK, setAutoDeployStatus, setAutoDeployConfig,
                           setSetMaxNetworkLimitHookStatus
<1>11. CASE \/ invalidateOldSignatures \/ unblacklistOperator \/ unjailOperator
            \/ setWhitelistStatus \/ whitelistOperator \/ Tick \/ UNCHANGED vars
  <2>1. UNCHANGED registry
    BY <1>11 DEF invalidateOldSignatures, unblacklistOperator, unjailOperator,
                 setWhitelistStatus, whitelistOperator, Tick, vars, registry
  <2> QED
    BY <2>1, VaultsKept DEF registry
<1> QED
  BY <1>1, <1>2, <1>3, <1>4, <1>5, <1>6, <1>7, <1>8, <1>9, <1>10, <1>11 DEF Next

-----------------------------------------------------------------------------
(* Auto-deployment.  The address a vault is to be deployed at is in no set *)
(* of vaults: what is registered has a contract behind it.                 *)

SharedAreDeployed == \A v \in provider.sharedVaults : vaults[v].entity

(* A step that registers no shared vault, and deploys at most one vault.   *)
LEMMA SharedKept ==
    ASSUME TypeOK, SharedAreDeployed,
           provider'.sharedVaults \subseteq provider.sharedVaults,
           \/ vaults' = vaults
           \/ \E w \in Vaults, info \in VaultInfo :
                 info.entity /\ vaults' = [vaults EXCEPT ![w] = info]
    PROVE  SharedAreDeployed'
<1>1. provider.sharedVaults \subseteq Vaults
  BY DEF TypeOK, Provider
<1>2. CASE vaults' = vaults
  BY <1>2 DEF SharedAreDeployed
<1>3. ASSUME NEW w \in Vaults, NEW info \in VaultInfo, info.entity,
             vaults' = [vaults EXCEPT ![w] = info]
      PROVE  SharedAreDeployed'
  <2> SUFFICES ASSUME NEW v \in provider'.sharedVaults PROVE vaults'[v].entity
    BY DEF SharedAreDeployed
  <2>1. v \in Vaults /\ vaults[v].entity
    BY <1>1 DEF SharedAreDeployed
  <2>2. vaults'[v] = info \/ vaults'[v] = vaults[v]
    BY <1>3, <2>1 DEF TypeOK
  <2> QED
    BY <1>3, <2>1, <2>2
<1> QED
  BY <1>2, <1>3

(* Only registered entities become shared vaults, and none is undeployed.  *)
LEMMA SharedStep == TypeOK /\ SharedAreDeployed /\ [Next]_vars => SharedAreDeployed'
<1> SUFFICES ASSUME TypeOK, SharedAreDeployed, [Next]_vars PROVE SharedAreDeployed'
  OBVIOUS
<1>0. provider \in Provider
  BY DEF TypeOK
<1>1. CASE setSlashingData
  BY <1>0, <1>1, SharedKept DEF Provider, setSlashingData, AfterSetSlashingData
<1>2. CASE registerToken \/ unregisterToken
  BY <1>0, <1>2, SharedKept DEF Provider, registerToken, AfterRegisterToken,
                                unregisterToken, AfterUnregisterToken
<1>3. CASE registerSharedVault
  <2>1. PICK v \in Vaults : /\ CanRegisterSharedVault(provider, v, vaults[v])
                            /\ provider' = AfterRegisterSharedVault(provider, v)
    BY <1>3 DEF registerSharedVault
  <2>2. vaults[v].entity
    BY <2>1 DEF CanRegisterSharedVault, _validateVault
  <2>3. provider'.sharedVaults = provider.sharedVaults \union {v} /\ vaults' = vaults
    BY <1>0, <1>3, <2>1 DEF Provider, registerSharedVault, AfterRegisterSharedVault
  <2> QED
    BY <2>2, <2>3 DEF SharedAreDeployed
<1>4. CASE unregisterSharedVault
  BY <1>0, <1>4, SharedKept DEF Provider, unregisterSharedVault, AfterUnregisterSharedVault
<1>5. CASE registerOperatorVault \/ unregisterOperatorVault
  <2>1. PICK o \in Operators, v \in Vaults :
            \/ provider' = AfterRegisterOperatorVault(provider, o, v)
            \/ provider' = AfterUnregisterOperatorVault(provider, o, v)
    BY <1>5, Zenon DEF registerOperatorVault, unregisterOperatorVault
  <2>2. vaults' = vaults
    BY <1>5 DEF registerOperatorVault, unregisterOperatorVault
  <2> QED
    BY <1>0, <2>1, <2>2, AfterRegistration, AfterRemoval, SharedKept
<1>6. CASE registerOperator \/ registerOperatorWithSignature
  <2>1. PICK o \in Operators : _registerOperatorImpl(o)
    BY <1>6, CompositionAssumption DEF registerOperator, registerOperatorWithSignature
  <2> DEFINE s == AfterRegisterOperator(provider, o)
  <2>2. s \in Provider /\ s.sharedVaults = provider.sharedVaults
    BY <1>0, <2>1, HandlerTypes, AfterOperator DEF _registerOperatorImpl
  <2>3. CASE Deploys(o)
    <3>1. PICK v \in Vaults : DeployVault(s, o, v)
      BY <2>1, <2>3 DEF _registerOperatorImpl
    <3> DEFINE info == createVault(auto.config, o, auto.hook)
    <3>2. info \in VaultInfo /\ info.entity
      BY CreatedVaultType DEF TypeOK, createVault
    <3>3. /\ provider' = AfterRegisterOperatorVault(s, o, v)
          /\ vaults' = [vaults EXCEPT ![v] = info]
      BY <3>1 DEF DeployVault
    <3> HIDE DEF info, s
    <3>4. provider'.sharedVaults = provider.sharedVaults
      BY <2>2, <3>3, AfterRegistration
    <3> QED
      BY <3>2, <3>3, <3>4, SharedKept
  <2>4. CASE ~Deploys(o)
    BY <2>1, <2>2, <2>4, SharedKept DEF _registerOperatorImpl
  <2> QED
    BY <2>3, <2>4
<1>7. CASE unregisterOperator \/ unregisterOperatorWithSignature
  <2>1. PICK o \in Operators : _unregisterOperatorImpl(o)
    BY <1>7, CompositionAssumption DEF unregisterOperator, unregisterOperatorWithSignature
  <2> QED
    BY <1>0, <2>1, AfterOperator, SharedKept DEF _unregisterOperatorImpl
<1>8. CASE blacklistOperator \/ jailOperator \/ unwhitelistOperator
  <2>1. /\ \E o \in Operators : provider' = Expel(provider, o) \/ provider' = provider
        /\ UNCHANGED vaults
    BY <1>8 DEF blacklistOperator, jailOperator, unwhitelistOperator
  <2> QED
    BY <1>0, <2>1, ExpelTypes, SharedKept
<1>9. CASE \/ setAutoDeployStatus \/ setAutoDeployConfig \/ setSetMaxNetworkLimitHookStatus
           \/ invalidateOldSignatures \/ unblacklistOperator \/ unjailOperator
           \/ setWhitelistStatus \/ whitelistOperator \/ Tick \/ UNCHANGED vars
  <2>1. UNCHANGED <<provider, vaults>>
    BY <1>9 DEF setAutoDeployStatus, setAutoDeployConfig, setSetMaxNetworkLimitHookStatus,
                invalidateOldSignatures, unblacklistOperator, unjailOperator,
                setWhitelistStatus, whitelistOperator, Tick, vars, registry
  <2> QED
    BY <2>1, SharedKept
<1> QED
  BY <1>1, <1>2, <1>3, <1>4, <1>5, <1>6, <1>7, <1>8, <1>9 DEF Next

(* An accepted configuration makes a vault that _validateVault accepts.    *)
LEMMA Deployable ==
    TypeOK /\ VaultSetsConsistent /\ SharedAreDeployed => AutoDeployNeverBlocks
<1> SUFFICES ASSUME TypeOK, VaultSetsConsistent, SharedAreDeployed,
                    NEW o \in Operators, NEW v \in Vaults,
                    CanRegisterOperator(provider, o), vaults[v] = NotDeployed,
                    _validateConfig(provider, auto.config),
                    auto.config.collateral \in provider.tokens
             PROVE  CanRegisterOperatorVault(AfterRegisterOperator(provider, o), o, v,
                                             createVault(auto.config, o, auto.hook))
  BY DEF AutoDeployNeverBlocks
<1> DEFINE s == AfterRegisterOperator(provider, o)
           info == createVault(auto.config, o, auto.hook)
<1>1. /\ s.operators = provider.operators \union {o}
      /\ s.tokens = provider.tokens
      /\ s.sharedVaults = provider.sharedVaults
      /\ s.allOperatorVaults = provider.allOperatorVaults
      /\ s.requireSlasher = provider.requireSlasher
      /\ s.minVaultEpochDuration = provider.minVaultEpochDuration
  BY DEF TypeOK, Provider, AfterRegisterOperator
<1>2. ~vaults[v].entity /\ vaults[v].delegator \notin OperatorDelegators
  BY DEF NotDeployed, OperatorDelegators
<1>3. v \notin provider.sharedVaults
  BY <1>2 DEF SharedAreDeployed
<1>4. v \notin provider.allOperatorVaults
  BY <1>2 DEF VaultSetsConsistent
<1>5. /\ info.entity /\ info.isInitialized /\ info.ownNetwork
      /\ info.delegator = "OPERATOR_NETWORK_SPECIFIC" /\ info.operator = o
      /\ info.collateral = auto.config.collateral
      /\ info.epochDuration = auto.config.epochDuration
      /\ info.slasher = IF auto.config.withSlasher THEN "INSTANT" ELSE "NONE"
  BY DEF createVault
<1> HIDE DEF s, info
<1>6. auto.config.epochDuration \in Nat /\ provider.minVaultEpochDuration \in Nat
  BY ProviderAssumption DEF TypeOK, AutoDeployConfig, Provider
<1>7. SlashingWindow(info) = auto.config.epochDuration
  BY <1>5, <1>6 DEF SlashingWindow
<1>8. s.requireSlasher => info.slasher # "NONE"
  BY <1>1, <1>5 DEF _validateConfig
<1>9. _validateVaultSlashing(s, info)
  BY <1>1, <1>5, <1>6, <1>7, <1>8 DEF _validateVaultSlashing, _validateConfig
<1>10. _validateVault(s, info) /\ _validateOperatorVault(o, info)
  BY <1>1, <1>5, <1>9 DEF _validateVault, _validateOperatorVault, OperatorDelegators
<1> QED
  BY <1>1, <1>3, <1>4, <1>10 DEF CanRegisterOperatorVault, s, info

-----------------------------------------------------------------------------
(* The whitelist: what one step may do to the operators that are off it.   *)

UnlistedShrink ==
    whitelist.enabled /\ whitelist'.enabled =>
        provider'.operators \ whitelist'.operators
            \subseteq provider.operators \ whitelist.operators

(* A registration asks the whitelist; leaving it unregisters the operator. *)
LEMMA WhitelistStep == TypeOK /\ [Next]_vars => UnlistedShrink
<1> SUFFICES ASSUME TypeOK, [Next]_vars, whitelist.enabled, whitelist'.enabled
             PROVE  provider'.operators \ whitelist'.operators
                        \subseteq provider.operators \ whitelist.operators
  BY DEF UnlistedShrink
<1>0. provider \in Provider
  BY DEF TypeOK
<1>1. CASE RegistryCall
  BY <1>1, RegistryCallKeepsOperators DEF lists
<1>2. CASE registerOperator \/ registerOperatorWithSignature
  <2>1. PICK o \in Operators : _registerOperatorImpl(o) /\ UNCHANGED lists
    BY <1>2, CompositionAssumption DEF registerOperator, registerOperatorWithSignature
  <2> QED
    BY <2>1, RegistrationAdds DEF Permitted, lists
<1>3. CASE unregisterOperator \/ unregisterOperatorWithSignature
  <2>1. PICK o \in Operators : _unregisterOperatorImpl(o) /\ UNCHANGED lists
    BY <1>3, CompositionAssumption DEF unregisterOperator, unregisterOperatorWithSignature
  <2> QED
    BY <1>0, <2>1, AfterOperator DEF _unregisterOperatorImpl, lists
<1>4. CASE blacklistOperator \/ jailOperator
  <2>1. /\ \E o \in Operators : provider' = Expel(provider, o)
        /\ UNCHANGED whitelist
    BY <1>4 DEF blacklistOperator, jailOperator
  <2> QED
    BY <1>0, <2>1, ExpelTypes
<1>5. CASE whitelistOperator
  <2>1. PICK o \in Operators : whitelist' = [whitelist EXCEPT !.operators = @ \union {o}]
    BY <1>5, Zenon DEF whitelistOperator
  <2>2. whitelist'.operators = whitelist.operators \union {o}
    BY <2>1 DEF TypeOK
  <2> QED
    BY <1>5, <2>2 DEF whitelistOperator, registry
<1>6. CASE unwhitelistOperator
  <2>1. PICK o \in Operators : /\ whitelist' = [whitelist EXCEPT !.operators = @ \ {o}]
                               /\ provider' = Expel(provider, o)
    BY <1>6 DEF unwhitelistOperator
  <2>2. whitelist'.operators = whitelist.operators \ {o}
    BY <2>1 DEF TypeOK
  <2> QED
    BY <1>0, <2>1, <2>2, ExpelTypes
<1>7. CASE setWhitelistStatus
  BY <1>7 DEF setWhitelistStatus, TypeOK
<1>8. CASE \/ invalidateOldSignatures \/ unblacklistOperator \/ unjailOperator
           \/ Tick \/ UNCHANGED vars
  BY <1>8 DEF invalidateOldSignatures, unblacklistOperator, unjailOperator, Tick, vars,
              registry, lists
<1> QED
  BY <1>1, <1>2, <1>3, <1>4, <1>5, <1>6, <1>7, <1>8 DEF Next, RegistryCall

-----------------------------------------------------------------------------
(* The lists voting power is collected from.  Every call adds at most one  *)
(* vault to the sets, so they stay finite and can be listed.               *)

VaultsFinite ==
    /\ IsFiniteSet(provider.sharedVaults)
    /\ \A o \in Operators : IsFiniteSet(provider.operatorVaults[o])

OneVaultMore(v) ==
    /\ provider'.sharedVaults \subseteq provider.sharedVaults \union {v}
    /\ \A o \in Operators :
          provider'.operatorVaults[o] \subseteq provider.operatorVaults[o] \union {v}

LEMMA OneMoreIsFinite ==
    ASSUME NEW S, IsFiniteSet(S), NEW v, NEW T, T \subseteq S \union {v}
    PROVE  IsFiniteSet(T)
<1>1. IsFiniteSet(S \union {v})
  BY FS_AddElement
<1> QED
  BY <1>1, FS_Subset

LEMMA FiniteKept ==
    ASSUME VaultsFinite, NEW v, OneVaultMore(v)
    PROVE  VaultsFinite'
<1>1. IsFiniteSet(provider'.sharedVaults)
  BY OneMoreIsFinite DEF VaultsFinite, OneVaultMore
<1>2. \A o \in Operators : IsFiniteSet(provider'.operatorVaults[o])
  BY OneMoreIsFinite DEF VaultsFinite, OneVaultMore
<1> QED
  BY <1>1, <1>2 DEF VaultsFinite

(* Every call adds at most one vault.                                      *)
LEMMA StepAddsOneVault == TypeOK /\ [Next]_vars => \E v : OneVaultMore(v)
<1> SUFFICES ASSUME TypeOK, [Next]_vars PROVE \E v : OneVaultMore(v)
  OBVIOUS
<1>0. provider \in Provider
  BY DEF TypeOK
<1>k. ASSUME provider'.sharedVaults \subseteq provider.sharedVaults,
             provider'.operatorVaults = provider.operatorVaults
      PROVE  \E v : OneVaultMore(v)
  BY <1>k DEF OneVaultMore
<1>1. CASE setSlashingData
  BY <1>0, <1>k, <1>1 DEF Provider, setSlashingData, AfterSetSlashingData
<1>2. CASE registerToken \/ unregisterToken
  BY <1>0, <1>k, <1>2 DEF Provider, registerToken, AfterRegisterToken,
                          unregisterToken, AfterUnregisterToken
<1>3. CASE registerSharedVault
  <2>1. PICK v \in Vaults : provider' = AfterRegisterSharedVault(provider, v)
    BY <1>3 DEF registerSharedVault
  <2>2. OneVaultMore(v)
    BY <1>0, <2>1 DEF Provider, AfterRegisterSharedVault, OneVaultMore
  <2> QED
    BY <2>2
<1>4. CASE unregisterSharedVault
  BY <1>0, <1>k, <1>4 DEF Provider, unregisterSharedVault, AfterUnregisterSharedVault
<1>a. ASSUME NEW s \in Provider, s.sharedVaults = provider.sharedVaults,
             s.operatorVaults = provider.operatorVaults,
             NEW o \in Operators, NEW v \in Vaults,
             \/ provider' = AfterRegisterOperatorVault(s, o, v)
             \/ provider' = AfterUnregisterOperatorVault(s, o, v)
      PROVE  \E w : OneVaultMore(w)
  <2>1. /\ provider'.sharedVaults = s.sharedVaults
        /\ provider'.operatorVaults[o] \subseteq s.operatorVaults[o] \union {v}
        /\ \A p \in Operators \ {o} : provider'.operatorVaults[p] = s.operatorVaults[p]
    BY <1>a, AfterRegistration, AfterRemoval
  <2>2. OneVaultMore(v)
    BY <1>a, <2>1 DEF OneVaultMore
  <2> QED
    BY <2>2
<1>5. CASE registerOperatorVault \/ unregisterOperatorVault
  <2>1. PICK o \in Operators, v \in Vaults :
            \/ provider' = AfterRegisterOperatorVault(provider, o, v)
            \/ provider' = AfterUnregisterOperatorVault(provider, o, v)
    BY <1>5, Zenon DEF registerOperatorVault, unregisterOperatorVault
  <2> QED
    BY <1>0, <1>a, <2>1
<1>6. CASE registerOperator \/ registerOperatorWithSignature
  <2>1. PICK o \in Operators : _registerOperatorImpl(o)
    BY <1>6, CompositionAssumption DEF registerOperator, registerOperatorWithSignature
  <2> DEFINE s == AfterRegisterOperator(provider, o)
  <2>2. /\ s \in Provider /\ s.sharedVaults = provider.sharedVaults
        /\ s.operatorVaults = provider.operatorVaults
    BY <1>0, <2>1, HandlerTypes, AfterOperator DEF _registerOperatorImpl
  <2>3. CASE Deploys(o)
    <3>1. PICK v \in Vaults : DeployVault(s, o, v)
      BY <2>1, <2>3 DEF _registerOperatorImpl
    <3>2. provider' = AfterRegisterOperatorVault(s, o, v)
      BY <3>1 DEF DeployVault
    <3> HIDE DEF s
    <3> QED
      BY <1>a, <2>2, <3>2
  <2>4. CASE ~Deploys(o)
    BY <1>k, <2>1, <2>2, <2>4 DEF _registerOperatorImpl
  <2> QED
    BY <2>3, <2>4
<1>7. CASE unregisterOperator \/ unregisterOperatorWithSignature
  <2>1. PICK o \in Operators : _unregisterOperatorImpl(o)
    BY <1>7, CompositionAssumption DEF unregisterOperator, unregisterOperatorWithSignature
  <2> QED
    BY <1>0, <1>k, <2>1, AfterOperator DEF _unregisterOperatorImpl
<1>8. CASE blacklistOperator \/ jailOperator \/ unwhitelistOperator
  <2>1. \E o \in Operators : provider' = Expel(provider, o) \/ provider' = provider
    BY <1>8 DEF blacklistOperator, jailOperator, unwhitelistOperator
  <2> QED
    BY <1>0, <1>k, <2>1, ExpelTypes
<1>9. CASE \/ setAutoDeployStatus \/ setAutoDeployConfig \/ setSetMaxNetworkLimitHookStatus
           \/ invalidateOldSignatures \/ unblacklistOperator \/ unjailOperator
           \/ setWhitelistStatus \/ whitelistOperator \/ Tick \/ UNCHANGED vars
  <2>1. provider' = provider
    BY <1>9 DEF setAutoDeployStatus, setAutoDeployConfig, setSetMaxNetworkLimitHookStatus,
                invalidateOldSignatures, unblacklistOperator, unjailOperator,
                setWhitelistStatus, whitelistOperator, Tick, vars, registry
  <2> QED
    BY <1>k, <2>1
<1> QED
  BY <1>1, <1>2, <1>3, <1>4, <1>5, <1>6, <1>7, <1>8, <1>9 DEF Next

(* The list of a finite set names each of its members once.                *)
ListingOf(S) == CHOOSE list \in [1 .. Cardinality(S) -> S] :
                    \A v \in S : \E i \in DOMAIN list : list[i] = v

LEMMA ListingLists ==
    ASSUME NEW S, IsFiniteSet(S)
    PROVE  /\ ListingOf(S) \in Seq(S)
           /\ Listed(ListingOf(S)) = S /\ NoRepeats(ListingOf(S))
<1> DEFINE n == Cardinality(S)
           list == ListingOf(S)
           IsOnto(f) == \A v \in S : \E i \in DOMAIN f : f[i] = v
<1>1. n \in Nat /\ ExistsBijection(1..n, S)
  BY FS_CardinalityType
<1>2. PICK f \in [1..n -> S] : IsOnto(f)
  <2>1. PICK f : f \in Bijection(1..n, S)
    BY <1>1 DEF ExistsBijection
  <2>2. f \in [1..n -> S] /\ \A v \in S : \E i \in 1..n : f[i] = v
    BY <2>1 DEF Bijection, Surjection
  <2> QED
    BY <2>2
<1>3. list \in [1..n -> S] /\ IsOnto(list)
  BY <1>2 DEF ListingOf
<1> HIDE DEF list
<1>4. list \in Seq(S) /\ Len(list) = n /\ DOMAIN list = 1..n
  <2>1. list \in Seq(S)
    BY <1>1, <1>3, SeqDef
  <2> QED
    BY <1>1, <1>3, <2>1
<1>5. Listed(list) = S
  BY <1>3, <1>4 DEF Listed
<1>6. NoRepeats(list)
  BY <1>4, <1>5, ListCounts
<1> QED
  BY <1>4, <1>5, <1>6 DEF list

(* Two lists that share no member make one without repetitions.            *)
LEMMA ListsJoin ==
    ASSUME NEW T, NEW s \in Seq(T), NEW t \in Seq(T), NoRepeats(s), NoRepeats(t),
           Listed(s) \intersect Listed(t) = {}
    PROVE  /\ s \o t \in Seq(T) /\ NoRepeats(s \o t)
           /\ Listed(s \o t) = Listed(s) \union Listed(t)
<1> DEFINE m == Len(s)
           n == Len(t)
           u == s \o t
<1>1. /\ m \in Nat /\ n \in Nat /\ u \in Seq(T) /\ Len(u) = m + n
      /\ \A i \in 1..m : u[i] = s[i]
      /\ \A i \in 1..n : u[m + i] = t[i]
  OBVIOUS
<1> HIDE DEF u, m, n
<1>2. ASSUME NEW i \in 1..Len(u)
      PROVE  \/ i \in 1..m /\ u[i] = s[i] /\ u[i] \in Listed(s)
             \/ i - m \in 1..n /\ u[i] = t[i - m] /\ u[i] \in Listed(t)
  <2>1. CASE i <= m
    <3>1. i \in 1..m
      BY <1>1, <2>1
    <3> QED
      BY <1>1, <3>1 DEF Listed, m
  <2>2. CASE i > m
    <3>1. i - m \in 1..n /\ m + (i - m) = i
      BY <1>1, <2>2
    <3>2. u[i] = t[i - m]
      BY <1>1, <3>1
    <3> QED
      BY <3>1, <3>2 DEF Listed, n
  <2> QED
    BY <1>1, <2>1, <2>2
<1>3. \A i \in 1..m : i \in 1..Len(u)
  BY <1>1
<1>4. \A i \in 1..n : m + i \in 1..Len(u)
  BY <1>1
<1>5. Listed(u) = Listed(s) \union Listed(t)
  <2>1. Listed(u) \subseteq Listed(s) \union Listed(t)
    BY <1>2 DEF Listed
  <2>2. Listed(s) \subseteq Listed(u)
    BY <1>1, <1>3 DEF Listed, m
  <2>3. Listed(t) \subseteq Listed(u)
    BY <1>1, <1>4 DEF Listed, n
  <2> QED
    BY <2>1, <2>2, <2>3
<1>6. NoRepeats(u)
  <2> SUFFICES ASSUME NEW i \in 1..Len(u), NEW j \in 1..Len(u), u[i] = u[j]
               PROVE  i = j
    BY DEF NoRepeats
  <2>1. CASE u[i] \in Listed(s)
    <3>1. i \in 1..m /\ u[i] = s[i] /\ j \in 1..m /\ u[j] = s[j]
      BY <1>2, <2>1
    <3> QED
      BY <3>1 DEF NoRepeats, m
  <2>2. CASE u[i] \notin Listed(s)
    <3>1. i - m \in 1..n /\ u[i] = t[i - m] /\ j - m \in 1..n /\ u[j] = t[j - m]
      BY <1>2, <2>2
    <3>2. i - m = j - m
      BY <3>1 DEF NoRepeats, n
    <3> QED
      BY <1>1, <3>2
  <2> QED
    BY <2>1, <2>2
<1> QED
  BY <1>1, <1>5, <1>6 DEF u

(* The vaults an operator's power is collected from: shared or its own,    *)
(* each once.                                                              *)
LEMMA PowersListed ==
    ASSUME TypeOK, VaultSetsConsistent, VaultsFinite, NEW o \in Operators,
           NEW powers, powers = getOperatorVotingPowers(provider, vaults, o)
    PROVE  /\ DOMAIN powers = 1..Len(powers) /\ NoRepeats(powers)
           /\ Listed(powers)
                \subseteq provider.sharedVaults \union provider.operatorVaults[o]
<1> DEFINE shared == provider.sharedVaults
           own == provider.operatorVaults[o]
           wanted == {v \in DOMAIN vaults :
                        getOperatorVotingPower(provider, o, vaults[v]) > 0}
<1>1. /\ shared \subseteq Vaults /\ own \subseteq Vaults
      /\ IsFiniteSet(shared) /\ IsFiniteSet(own)
  BY DEF TypeOK, Provider, VaultsFinite
<1>2. shared \intersect own = {}
  BY DEF VaultSetsConsistent
<1>3. powers = Sublist(ListingOf(shared) \o ListingOf(own), wanted)
  BY DEF getOperatorVotingPowers, VaultList, ListingOf
<1> HIDE DEF shared, own, wanted
<1>4. /\ ListingOf(shared) \in Seq(shared) /\ Listed(ListingOf(shared)) = shared
      /\ ListingOf(own) \in Seq(own) /\ Listed(ListingOf(own)) = own
      /\ NoRepeats(ListingOf(shared)) /\ NoRepeats(ListingOf(own))
  BY <1>1, ListingLists
<1>5. ListingOf(shared) \in Seq(Vaults) /\ ListingOf(own) \in Seq(Vaults)
  BY <1>1, <1>4, SeqMonotonic
<1> DEFINE list == ListingOf(shared) \o ListingOf(own)
<1>6. /\ list \in Seq(Vaults) /\ NoRepeats(list)
      /\ Listed(list) = shared \union own
  BY <1>2, <1>4, <1>5, ListsJoin
<1> HIDE DEF list
<1>7. powers \in Seq(Vaults) /\ Listed(powers) = Listed(list) \intersect wanted
      /\ (NoRepeats(list) => NoRepeats(powers))
  BY <1>3, <1>6, SublistKeeps DEF list
<1> QED
  BY <1>6, <1>7 DEF shared, own

LEMMA CountedOnce ==
    TypeOK /\ VaultSetsConsistent /\ VaultsFinite => StakeCountedOnce
<1> SUFFICES ASSUME TypeOK, VaultSetsConsistent, VaultsFinite PROVE StakeCountedOnce
  OBVIOUS
<1> DEFINE powers == getVotingPowers(provider, vaults)
           PowersOf(o) == getOperatorVotingPowers(provider, vaults, o)
<1>1. provider.operators \subseteq Operators
  BY ProviderAssumption DEF TypeOK, Provider, ProviderAssumption
<1>2. /\ DOMAIN powers \subseteq provider.operators
      /\ \A o \in DOMAIN powers : powers[o] = PowersOf(o)
  BY DEF getVotingPowers
<1> HIDE DEF powers, PowersOf
<1>3. ASSUME NEW o \in DOMAIN powers
      PROVE  /\ o \in Operators
             /\ DOMAIN powers[o] = 1..Len(powers[o]) /\ NoRepeats(powers[o])
             /\ Listed(powers[o])
                  \subseteq provider.sharedVaults \union provider.operatorVaults[o]
  <2>1. o \in Operators /\ powers[o] = PowersOf(o)
    BY <1>1, <1>2
  <2> QED
    BY <2>1, PowersListed DEF PowersOf
<1>4. ASSUME NEW o \in DOMAIN powers, NEW p \in DOMAIN powers, p # o,
             NEW v \in provider.operatorVaults[o], v \in Listed(powers[p])
      PROVE  FALSE
  <2>1. v \notin provider.sharedVaults /\ vaults[v].operator = o
    BY <1>3 DEF VaultSetsConsistent
  <2>2. v \in provider.operatorVaults[p] /\ p \in Operators
    BY <1>3, <1>4, <2>1
  <2>3. vaults[v].operator = p
    BY <2>2 DEF VaultSetsConsistent
  <2> QED
    BY <1>4, <2>1, <2>3
<1>5. ASSUME NEW o \in DOMAIN powers, NEW p \in DOMAIN powers,
             NEW i \in DOMAIN powers[o], NEW j \in DOMAIN powers[p],
             p # o, powers[o][i] \in provider.operatorVaults[o]
      PROVE  powers[p][j] # powers[o][i]
  <2>1. powers[p][j] \in Listed(powers[p])
    BY <1>3 DEF Listed
  <2> QED
    BY <1>4, <1>5, <2>1
<1>6. \A o \in DOMAIN powers : \A i, j \in DOMAIN powers[o] :
          powers[o][i] = powers[o][j] => i = j
  BY <1>3 DEF NoRepeats
<1> QED
  BY <1>2, <1>5, <1>6 DEF StakeCountedOnce, powers

-----------------------------------------------------------------------------
(* The theorems.                                                           *)

IInv == /\ TypeOK
        /\ VaultSetsConsistent /\ SharedAreDeployed /\ VaultsFinite
        /\ ExcludedAreOut
        /\ SpentSignaturesAreDead

(* The inductive invariant holds in every state of the specification.      *)
THEOREM Invariant == Spec => []IInv
<1>1. Init => IInv
  <2> SUFFICES ASSUME Init PROVE IInv
    OBVIOUS
  <2>1. TypeOK
    BY InitTypes
  <2>2. VaultSetsConsistent /\ SharedAreDeployed
    BY DEF Init, VaultSetsConsistent, SharedAreDeployed
  <2>3. ExcludedAreOut /\ SpentSignaturesAreDead
    BY DEF Init, ExcludedAreOut, SpentSignaturesAreDead
  <2>4. VaultsFinite
    BY FS_EmptySet DEF Init, VaultsFinite
  <2> QED
    BY <2>1, <2>2, <2>3, <2>4 DEF IInv
<1>2. IInv /\ [Next]_vars => IInv'
  BY TypesStep, VaultsStep, SharedStep, ListsStep, SignaturesStep,
     StepAddsOneVault, FiniteKept DEF IInv
<1> QED
  BY <1>1, <1>2, PTL DEF Spec

(* The storage of the provider and its extensions keeps its types.         *)
THEOREM TypesHold == Spec => []TypeOK
BY Invariant, PTL DEF IInv

(* The sets of shared and operators' vaults of VotingPowerProviderLogic    *)
(* and the deployed vaults of OpNetVaultAutoDeployLogic always agree.      *)
THEOREM VaultSetsHold == Spec => []VaultSetsConsistent
BY Invariant, PTL DEF IInv

(* getVotingPowers counts the stake of a vault once for an operator and    *)
(* the stake of an operator's own vault for no other.                      *)
THEOREM StakeHolds == Spec => []StakeCountedOnce
BY Invariant, CountedOnce, PTL DEF IInv

(* With a configuration that setAutoDeployConfig would accept now, the     *)
(* deployment never makes the registration of an operator revert.          *)
THEOREM AutoDeployHolds == Spec => []AutoDeployNeverBlocks
BY Invariant, Deployable, PTL DEF IInv

(* No blacklisted or jailed operator is ever registered.                   *)
THEOREM ExclusionHolds == Spec => []ExcludedAreOut
BY Invariant, PTL DEF IInv

(* No signature of an operator is accepted twice.                          *)
THEOREM SignaturesHold == Spec => []SpentSignaturesAreDead
BY Invariant, PTL DEF IInv

(* While the whitelist is enabled, unlisted operators only become fewer.   *)
THEOREM WhitelistHolds == Spec => UnlistedOnlyLeave
<1>1. TypeOK /\ [Next]_vars => [UnlistedShrink]_vars
  BY WhitelistStep
<1>2. Spec => [][UnlistedShrink]_vars
  BY TypesHold, <1>1, PTL DEF Spec
<1> QED
  BY <1>2 DEF UnlistedOnlyLeave, UnlistedShrink

-----------------------------------------------------------------------------
(* The price feed.  An identifier packs a phase and a number of a round,   *)
(* and gives both back.                                                    *)
LEMMA IdsUnpack ==
    ASSUME IdSpan \in Nat \ {0}, NEW p \in Nat, NEW i \in 0..(IdSpan - 1)
    PROVE  /\ serializeIds(p, i) \in Nat
           /\ PhaseOf(serializeIds(p, i)) = p
           /\ OriginalOf(serializeIds(p, i)) = i
<1> DEFINE x == p * IdSpan + i
           q == x \div IdSpan
<1>1. p * IdSpan \in Nat /\ x \in Nat
  BY SMT
<1>2. q \in Nat /\ q * IdSpan <= x /\ x < (q + 1) * IdSpan
  <2> HIDE DEF x
  <2> QED BY <1>1, DivBounds
<1> HIDE DEF q
<1>3. /\ p * IdSpan <= x /\ x < p * IdSpan + IdSpan
      /\ (p + 1) * IdSpan = p * IdSpan + IdSpan
  BY <1>1, TimesSuccessor
<1>4. q * IdSpan \in Int /\ (q + 1) * IdSpan \in Int /\ (p + 1) * IdSpan \in Int
  BY <1>2, SMT
<1>5. q * IdSpan < (p + 1) * IdSpan /\ p * IdSpan < (q + 1) * IdSpan
  <2> HIDE DEF x
  <2> QED BY <1>1, <1>2, <1>3, <1>4
<1>6. q = p
  BY <1>2, <1>5, TimesOrder
<1>7. x % IdSpan = i
  <2>1. x = IdSpan * q + (x % IdSpan) /\ x % IdSpan \in 0..(IdSpan - 1)
    <3> HIDE DEF x
    <3> QED BY <1>1, SMT DEF q
  <2> QED BY <1>1, <1>6, <2>1, SMT
<1> QED BY <1>1, <1>6, <1>7 DEF serializeIds, PhaseOf, OriginalOf, q

-----------------------------------------------------------------------------
(* The walk over the phases ends at the latest that has begun.             *)
IsLatestBegun(a, timestamp, p, q) ==
    /\ q \in 0..p
    /\ q = 0 \/ BegunBy(a, q, timestamp)
    /\ \A r \in (q + 1)..p : ~BegunBy(a, r, timestamp)

WalkStep(a, timestamp, walk, p) ==
    IF p = 0 \/ BegunBy(a, p, timestamp) THEN p ELSE walk[p - 1]

IsWalk(a, timestamp, walk) ==
    walk = [p \in 0..LatestPhase(a) |-> WalkStep(a, timestamp, walk, p)]

(* There is a latest phase that has begun, or none has.                    *)
LEMMA LatestBegunExists ==
    ASSUME NEW a, NEW timestamp, NEW p \in Nat
    PROVE  \E q : IsLatestBegun(a, timestamp, p, q)
<1> DEFINE B(q) == q = 0 \/ BegunBy(a, q, timestamp)
           S == {d \in 0..p : B(p - d)}
<1>1. p \in S /\ S \subseteq Nat
  OBVIOUS
<1>2. PICK d \in S : \A k \in S : d <= k
  <2> HIDE DEF S
  <2> QED BY <1>1, LeastNumber
<1>3. d \in 0..p /\ p - d \in 0..p /\ B(p - d)
  OBVIOUS
<1>4. ASSUME NEW r \in ((p - d) + 1)..p PROVE ~B(r)
  <2>1. p - r \in 0..p /\ p - (p - r) = r /\ ~(d <= p - r)
    BY <1>3
  <2>2. p - r \notin S
    BY <1>2, <2>1
  <2> HIDE DEF B
  <2> QED BY <2>1, <2>2
<1>5. IsLatestBegun(a, timestamp, p, p - d)
  BY <1>3, <1>4 DEF IsLatestBegun
<1> QED BY <1>5

(* There is only one.                                                      *)
LEMMA LatestBegunIsOne ==
    ASSUME NEW a, NEW timestamp, NEW p \in Nat, NEW q, NEW r,
           IsLatestBegun(a, timestamp, p, q), IsLatestBegun(a, timestamp, p, r)
    PROVE  q = r
<1>1. q \in 0..p /\ r \in 0..p
  BY DEF IsLatestBegun
<1>2. ~(q < r) /\ ~(r < q)
  BY <1>1 DEF IsLatestBegun
<1> QED BY <1>1, <1>2

(* The walk is a function: at each phase, the latest begun up to it.       *)
LEMMA WalkExists ==
    ASSUME NEW a, NEW timestamp, LatestPhase(a) \in Nat
    PROVE  \E walk : IsWalk(a, timestamp, walk)
<1> DEFINE n == LatestPhase(a)
           Is(p, q) == IsLatestBegun(a, timestamp, p, q)
           walk == [p \in 0..n |-> CHOOSE q : Is(p, q)]
<1>1. ASSUME NEW p \in 0..n PROVE Is(p, walk[p])
  <2> HIDE DEF Is
  <2>1. \E q : Is(p, q)
    BY LatestBegunExists DEF Is
  <2> QED BY <2>1
<1>2. ASSUME NEW p \in 0..n PROVE walk[p] = WalkStep(a, timestamp, walk, p)
  <2> HIDE DEF walk
  <2>1. CASE p = 0 \/ BegunBy(a, p, timestamp)
    <3>1. Is(p, p)
      BY <2>1 DEF IsLatestBegun
    <3> QED BY <1>1, <2>1, <3>1, LatestBegunIsOne DEF WalkStep
  <2>2. CASE ~(p = 0 \/ BegunBy(a, p, timestamp))
    <3>1. p - 1 \in 0..n /\ p - 1 \in Nat
      BY <2>2
    <3>2. Is(p - 1, walk[p - 1])
      BY <1>1, <3>1
    <3>3. Is(p, walk[p - 1])
      BY <2>2, <3>1, <3>2 DEF IsLatestBegun
    <3> QED BY <1>1, <2>2, <3>3, LatestBegunIsOne DEF WalkStep
  <2> QED BY <2>1, <2>2
<1>3. PICK w : w = walk
  OBVIOUS
<1>4. \A p \in 0..n : walk[p] = WalkStep(a, timestamp, w, p)
  <2> HIDE DEF walk
  <2> QED BY <1>2, <1>3
<1>5. walk = [p \in 0..n |-> WalkStep(a, timestamp, w, p)]
  BY <1>4
<1> QED BY <1>3, <1>5 DEF IsWalk

(* So the walk down from the latest phase finds it.                        *)
LEMMA PhaseAtFinds ==
    ASSUME NEW a, NEW timestamp, LatestPhase(a) \in Nat
    PROVE  IsLatestBegun(a, timestamp, LatestPhase(a), PhaseAt(a, timestamp))
<1> DEFINE n == LatestPhase(a)
           walk == CHOOSE f : IsWalk(a, timestamp, f)
           Is(p) == IsLatestBegun(a, timestamp, p, walk[p])
           S == {p \in 0..n : ~Is(p)}
<1>1. IsWalk(a, timestamp, walk)
  BY WalkExists
<1>2. PhaseAt(a, timestamp) = walk[n]
  BY DEF PhaseAt, IsWalk, WalkStep
<1> HIDE DEF walk
<1>3. \A p \in 0..n : walk[p] = WalkStep(a, timestamp, walk, p)
  <2>1. PICK w : w = walk
    OBVIOUS
  <2>2. walk = [p \in 0..n |-> WalkStep(a, timestamp, w, p)]
    BY <1>1, <2>1 DEF IsWalk
  <2> QED BY <2>1, <2>2
<1>4. S = {}
  <2> SUFFICES ASSUME S # {} PROVE FALSE
    OBVIOUS
  <2>1. PICK p \in S : \A k \in S : p <= k
    <3>1. S \subseteq Nat
      OBVIOUS
    <3> HIDE DEF S
    <3> QED BY <3>1, LeastNumber
  <2>2. p \in 0..n /\ ~Is(p)
    OBVIOUS
  <2>3. CASE p = 0 \/ BegunBy(a, p, timestamp)
    <3>1. walk[p] = p
      BY <1>3, <2>2, <2>3 DEF WalkStep
    <3> QED BY <2>2, <2>3, <3>1 DEF IsLatestBegun
  <2>4. CASE ~(p = 0 \/ BegunBy(a, p, timestamp))
    <3>1. p - 1 \in 0..n /\ p - 1 \in Nat /\ ~(p <= p - 1)
      BY <2>2, <2>4
    <3>2. p - 1 \notin S
      BY <2>1, <3>1
    <3>3. Is(p - 1)
      <4> HIDE DEF Is
      <4> QED BY <3>1, <3>2
    <3>4. walk[p] = walk[p - 1]
      BY <1>3, <2>2, <2>4 DEF WalkStep
    <3> QED BY <2>2, <2>4, <3>1, <3>3, <3>4 DEF IsLatestBegun
  <2> QED BY <2>3, <2>4
<1>5. Is(n)
  <2> HIDE DEF Is
  <2> QED BY <1>4
<1> QED BY <1>2, <1>5

-----------------------------------------------------------------------------
(* The doubling ends beyond the rounds of the phase, within its width.  n  *)
(* is the number of the rounds.                                            *)
DoubleStep(a, phase, double, id) ==
    IF HasRound(a, serializeIds(phase, id)) /\ id # IdSpan - 1
    THEN double[(2 * id) % IdSpan]
    ELSE id

IsDoubling(a, phase, double) ==
    double = [id \in 0..(IdSpan - 1) |-> DoubleStep(a, phase, double, id)]

HasRounds(a, phase, n) ==
    /\ n \in Nat /\ IdSpan \in Nat \ {0, 1} /\ 2 * n < IdSpan
    /\ \A id \in 0..(IdSpan - 1) :
          HasRound(a, serializeIds(phase, id)) <=> id \in 1..n

(* One turn, with the width of the identifier out of the way.              *)
LEMMA DoublingTurns ==
    ASSUME NEW a, NEW phase, NEW n, HasRounds(a, phase, n),
           NEW double, NEW id \in 0..(IdSpan - 1)
    PROVE  DoubleStep(a, phase, double, id) = IF id \in 1..n THEN double[2 * id] ELSE id
<1>1. CASE id \in 1..n
  <2>1. 2 * id \in 0..(IdSpan - 1) /\ id # IdSpan - 1 /\ IdSpan > 0
    BY <1>1 DEF HasRounds
  <2>2. (2 * id) % IdSpan = 2 * id
    BY <2>1 DEF HasRounds
  <2>3. HasRound(a, serializeIds(phase, id))
    BY <1>1 DEF HasRounds
  <2> QED BY <1>1, <2>1, <2>2, <2>3 DEF DoubleStep
<1>2. CASE id \notin 1..n
  <2>1. ~HasRound(a, serializeIds(phase, id))
    BY <1>2 DEF HasRounds
  <2> QED BY <1>2, <2>1 DEF DoubleStep
<1> QED BY <1>1, <1>2

(* The doubling is a function: ever more turns settle ever lower numbers.  *)
LEMMA DoublingExists ==
    ASSUME NEW a, NEW phase, NEW n, HasRounds(a, phase, n)
    PROVE  \E double : IsDoubling(a, phase, double)
<1> DEFINE Ids == 0..(IdSpan - 1)
           Step(f, id) == IF id \in 1..n THEN f[2 * id] ELSE id
           Turned(f) == [id \in Ids |-> Step(f, id)]
           Below(f, m) == \A id \in Ids : n - id < m => f[id] = Step(f, id)
           S == {m \in Nat : ~\E f : Below(f, m)}
<1>0. /\ n \in Nat /\ IdSpan \in Nat
      /\ \A id \in 1..n : 2 * id \in Ids /\ n - 2 * id < n - id
  BY DEF HasRounds
<1>1. ASSUME NEW f, NEW id \in Ids PROVE Turned(f)[id] = Step(f, id)
  OBVIOUS
<1>2. ASSUME NEW f, NEW m \in Nat, Below(f, m) PROVE Below(Turned(f), m + 1)
  <2> SUFFICES ASSUME NEW id \in Ids, n - id < m + 1
               PROVE  Turned(f)[id] = Step(Turned(f), id)
    OBVIOUS
  <2>1. CASE id \in 1..n
    <3>1. 2 * id \in Ids /\ n - 2 * id < m
      BY <1>0, <2>1
    <3>2. f[2 * id] = Step(f, 2 * id)
      BY <1>2, <3>1
    <3>3. Turned(f)[id] = f[2 * id] /\ Turned(f)[2 * id] = Step(f, 2 * id)
      BY <1>1, <2>1, <3>1
    <3> HIDE DEF Turned
    <3> QED BY <2>1, <3>2, <3>3
  <2>2. CASE id \notin 1..n
    <3>1. Turned(f)[id] = id
      BY <1>1, <2>2
    <3> HIDE DEF Turned
    <3> QED BY <2>2, <3>1
  <2> QED BY <2>1, <2>2
<1>3. S = {}
  <2> SUFFICES ASSUME S # {} PROVE FALSE
    OBVIOUS
  <2>1. PICK m \in S : \A k \in S : m <= k
    <3>1. S \subseteq Nat
      OBVIOUS
    <3> HIDE DEF S
    <3> QED BY <3>1, LeastNumber
  <2>2. m \in Nat /\ ~\E f : Below(f, m)
    BY <2>1
  <2>3. CASE m = 0
    <3> DEFINE f == [id \in Ids |-> id]
    <3>1. ASSUME NEW id \in Ids, n - id < 0 PROVE f[id] = Step(f, id)
      <4>1. id \notin 1..n /\ f[id] = id
        BY <1>0, <3>1
      <4> QED BY <4>1
    <3> HIDE DEF f, Step
    <3> QED BY <2>2, <2>3, <3>1
  <2>4. CASE m # 0
    <3>1. m - 1 \in Nat /\ ~(m <= m - 1) /\ (m - 1) + 1 = m
      BY <2>2, <2>4
    <3>2. PICK f : Below(f, m - 1)
      BY <2>1, <3>1
    <3> HIDE DEF Below, Turned
    <3>3. Below(Turned(f), m)
      BY <1>2, <3>1, <3>2
    <3> QED BY <2>2, <3>3
  <2> QED BY <2>3, <2>4
<1>4. PICK f : Below(f, n + 1)
  <2>1. n + 1 \in Nat /\ n + 1 \notin S
    <3> HIDE DEF S
    <3> QED BY <1>0, <1>3
  <2> HIDE DEF Below
  <2> QED BY <2>1
<1>5. PICK g : g = Turned(f)
  OBVIOUS
<1>6. \A id \in Ids : f[id] = g[id]
  <2>1. \A id \in Ids : n - id < n + 1
    BY <1>0
  <2> HIDE DEF Turned, Step
  <2> QED BY <1>1, <1>4, <1>5, <2>1
<1>7. ASSUME NEW id \in Ids PROVE Step(f, id) = DoubleStep(a, phase, g, id)
  <2>1. Step(f, id) = Step(g, id)
    BY <1>0, <1>6
  <2> QED BY <2>1, DoublingTurns
<1>8. g = [id \in Ids |-> DoubleStep(a, phase, g, id)]
  <2> HIDE DEF Step
  <2> QED BY <1>5, <1>7
<1> QED BY <1>8 DEF IsDoubling

(* It ends above the number of the rounds, and is itself a number.         *)
LEMMA UpperBoundIsBeyond ==
    ASSUME NEW a, NEW phase, NEW n, HasRounds(a, phase, n)
    PROVE  UpperBound(a, phase) \in (n + 1)..(IdSpan - 1)
<1> DEFINE double == CHOOSE f : IsDoubling(a, phase, f)
           Ids == 1..(IdSpan - 1)
           Is(id) == double[id] \in (n + 1)..(IdSpan - 1)
           S == {m \in Nat : \E id \in Ids : IdSpan - id = m /\ ~Is(id)}
<1>0. n \in Nat /\ IdSpan \in Nat
  BY DEF HasRounds
<1>1. IsDoubling(a, phase, double)
  BY DoublingExists
<1>2. UpperBound(a, phase) = double[1]
  BY DEF UpperBound, IsDoubling, DoubleStep
<1> HIDE DEF double
<1>3. ASSUME NEW id \in Ids
      PROVE  double[id] = IF id \in 1..n THEN double[2 * id] ELSE id
  <2>1. PICK d : d = double
    OBVIOUS
  <2>2. double = [i \in 0..(IdSpan - 1) |-> DoubleStep(a, phase, d, i)]
    BY <1>1, <2>1 DEF IsDoubling
  <2>3. id \in 0..(IdSpan - 1)
    BY <1>0
  <2>4. double[id] = DoubleStep(a, phase, d, id)
    BY <2>2, <2>3
  <2> QED BY <2>1, <2>3, <2>4, DoublingTurns
<1>4. S = {}
  <2> SUFFICES ASSUME S # {} PROVE FALSE
    OBVIOUS
  <2>1. PICK m \in S : \A k \in S : m <= k
    <3>1. S \subseteq Nat
      OBVIOUS
    <3> HIDE DEF S
    <3> QED BY <3>1, LeastNumber
  <2>2. PICK id \in Ids : IdSpan - id = m /\ ~Is(id)
    BY <2>1
  <2>3. CASE id \in 1..n
    <3>1. /\ 2 * id \in Ids /\ IdSpan - 2 * id \in Nat
          /\ ~(m <= IdSpan - 2 * id)
      BY <1>0, <2>2, <2>3 DEF HasRounds
    <3>2. IdSpan - 2 * id \notin S
      BY <2>1, <3>1
    <3>3. Is(2 * id)
      <4> HIDE DEF Is
      <4> QED BY <3>1, <3>2
    <3> QED BY <1>3, <2>2, <2>3, <3>3
  <2>4. CASE id \notin 1..n
    <3>1. double[id] = id /\ id \in (n + 1)..(IdSpan - 1)
      BY <1>0, <1>3, <2>4
    <3> QED BY <2>2, <3>1
  <2> QED BY <2>3, <2>4
<1>5. 1 \in Ids /\ IdSpan - 1 \in Nat
  BY DEF HasRounds
<1>6. IdSpan - 1 \notin S
  <2> HIDE DEF S
  <2> QED BY <1>4
<1>7. Is(1)
  <2> HIDE DEF Is
  <2> QED BY <1>5, <1>6
<1> QED BY <1>2, <1>7

-----------------------------------------------------------------------------
(* The halving ends at the last identifier that is not later: c, when      *)
(* those from the first to c are and those after it are not.               *)
HalveStep(a, timestamp, halve, low, high, result) ==
    IF low > high THEN result
    ELSE LET mid == low + ((high - low) \div 2)
         IN  IF IsNotLater(a, mid, timestamp)
             THEN halve[mid + 1][high][mid]
             ELSE halve[low][mid - 1][result]

IsHalving(a, timestamp, first, end, halve) ==
    halve = [low \in first..end |->
              [high \in (first - 1)..(end - 1) |->
                [result \in (first..end) \cup {NoRound} |->
                   HalveStep(a, timestamp, halve, low, high, result)]]]

SplitsAt(a, timestamp, first, end, c) ==
    /\ first \in Nat \ {0} /\ end \in Nat /\ first <= end
    /\ c \in (first - 1)..(end - 1)
    /\ \A id \in first..(end - 1) : IsNotLater(a, id, timestamp) <=> id <= c

(* What the halving returns.                                               *)
Halved(c, low, high, result) ==
    IF c < low \/ low > high THEN result ELSE IF c <= high THEN c ELSE high

(* The middle of two numbers is between them.                              *)
LEMMA HalfWay ==
    ASSUME NEW low \in Nat, NEW high \in Nat, low <= high
    PROVE  /\ low + ((high - low) \div 2) \in Nat
           /\ low <= low + ((high - low) \div 2)
           /\ low + ((high - low) \div 2) <= high
OBVIOUS

(* One turn leads from what is returned before it to what is after it.     *)
LEMMA HalveTurns ==
    ASSUME NEW a, NEW timestamp, NEW first, NEW end, NEW c,
           SplitsAt(a, timestamp, first, end, c),
           NEW low \in first..end, NEW high \in (first - 1)..(end - 1),
           NEW result \in (first..end) \cup {NoRound}, NEW halve,
           \A l \in first..end, h \in (first - 1)..(end - 1),
              r \in (first..end) \cup {NoRound} :
              low <= high /\ h - l < high - low => halve[l][h][r] = Halved(c, l, h, r)
    PROVE  HalveStep(a, timestamp, halve, low, high, result)
              = Halved(c, low, high, result)
<1>1. CASE low > high
  BY <1>1 DEF HalveStep, Halved
<1>2. CASE ~(low > high)
  <2> DEFINE mid == low + ((high - low) \div 2)
  <2>0. /\ first \in Nat /\ first > 0 /\ end \in Nat /\ c \in (first - 1)..(end - 1)
        /\ low \in Nat /\ high \in Nat /\ low <= high
    BY <1>2 DEF SplitsAt
  <2>1. mid \in Nat /\ low <= mid /\ mid <= high
    BY <2>0, HalfWay
  <2>2. HalveStep(a, timestamp, halve, low, high, result)
          = IF IsNotLater(a, mid, timestamp) THEN halve[mid + 1][high][mid]
                                             ELSE halve[low][mid - 1][result]
    BY <1>2 DEF HalveStep
  <2> HIDE DEF mid
  <2>3. /\ mid \in first..(end - 1) /\ mid \in first..end /\ mid + 1 \in first..end
        /\ mid - 1 \in (first - 1)..(end - 1)
        /\ high - (mid + 1) < high - low /\ (mid - 1) - low < high - low
    BY <2>0, <2>1
  <2>4. CASE mid <= c
    <3>1. IsNotLater(a, mid, timestamp)
      BY <2>3, <2>4 DEF SplitsAt
    <3>2. halve[mid + 1][high][mid] = Halved(c, mid + 1, high, mid)
      BY <2>0, <2>3
    <3>3. Halved(c, mid + 1, high, mid) = Halved(c, low, high, result)
      BY <2>0, <2>1, <2>4 DEF Halved
    <3> QED BY <2>2, <3>1, <3>2, <3>3
  <2>5. CASE ~(mid <= c)
    <3>1. ~IsNotLater(a, mid, timestamp)
      BY <2>3, <2>5 DEF SplitsAt
    <3>2. halve[low][mid - 1][result] = Halved(c, low, mid - 1, result)
      BY <2>0, <2>3
    <3>3. Halved(c, low, mid - 1, result) = Halved(c, low, high, result)
      BY <2>0, <2>1, <2>5 DEF Halved
    <3> QED BY <2>2, <3>1, <3>2, <3>3
  <2> QED BY <2>4, <2>5
<1> QED BY <1>1, <1>2

(* The halving is a function.                                              *)
LEMMA HalvingExists ==
    ASSUME NEW a, NEW timestamp, NEW first, NEW end, NEW c,
           SplitsAt(a, timestamp, first, end, c)
    PROVE  \E halve : IsHalving(a, timestamp, first, end, halve)
<1> DEFINE L == first..end
           H == (first - 1)..(end - 1)
           R == (first..end) \cup {NoRound}
           halve == [l \in L |-> [h \in H |-> [r \in R |-> Halved(c, l, h, r)]]]
<1>1. PICK f : f = halve
  OBVIOUS
<1>2. \A l \in L, h \in H, r \in R : f[l][h][r] = Halved(c, l, h, r)
  BY <1>1
<1>3. ASSUME NEW l \in L, NEW h \in H, NEW r \in R
      PROVE  HalveStep(a, timestamp, f, l, h, r) = Halved(c, l, h, r)
  BY <1>2, HalveTurns
<1>4. f = [l \in L |-> [h \in H |-> [r \in R |-> HalveStep(a, timestamp, f, l, h, r)]]]
  BY <1>1, <1>3
<1> QED BY <1>4 DEF IsHalving

(* Whatever section it starts from, it returns what was said above.        *)
LEMMA HalvingFinds ==
    ASSUME NEW a, NEW timestamp, NEW first, NEW end, NEW c,
           SplitsAt(a, timestamp, first, end, c),
           NEW halve, IsHalving(a, timestamp, first, end, halve),
           NEW low \in first..end, NEW high \in (first - 1)..(end - 1),
           NEW result \in (first..end) \cup {NoRound}
    PROVE  halve[low][high][result] = Halved(c, low, high, result)
<1> DEFINE L == first..end
           H == (first - 1)..(end - 1)
           R == (first..end) \cup {NoRound}
           Is(l, h, r) == halve[l][h][r] = Halved(c, l, h, r)
           S == {m \in Nat : \E l \in L, h \in H, r \in R :
                                l <= h /\ h - l = m /\ ~Is(l, h, r)}
<1>0. first \in Nat /\ first > 0 /\ end \in Nat
  BY DEF SplitsAt
<1>1. ASSUME NEW l \in L, NEW h \in H, NEW r \in R
      PROVE  halve[l][h][r] = HalveStep(a, timestamp, halve, l, h, r)
  <2>1. PICK f : f = halve
    OBVIOUS
  <2>2. halve = [x \in L |-> [y \in H |-> [z \in R |->
                    HalveStep(a, timestamp, f, x, y, z)]]]
    BY <2>1 DEF IsHalving
  <2>3. halve[l] = [y \in H |-> [z \in R |-> HalveStep(a, timestamp, f, l, y, z)]]
    BY <2>2
  <2>4. halve[l][h] = [z \in R |-> HalveStep(a, timestamp, f, l, h, z)]
    BY <2>3
  <2> QED BY <2>1, <2>4
<1>2. ASSUME NEW l \in L, NEW h \in H, NEW r \in R, l > h PROVE Is(l, h, r)
  BY <1>1, <1>2 DEF HalveStep, Halved
<1>3. S = {}
  <2> SUFFICES ASSUME S # {} PROVE FALSE
    OBVIOUS
  <2>1. PICK m \in S : \A k \in S : m <= k
    <3>1. S \subseteq Nat
      OBVIOUS
    <3> HIDE DEF S
    <3> QED BY <3>1, LeastNumber
  <2>2. PICK l \in L, h \in H, r \in R : l <= h /\ h - l = m /\ ~Is(l, h, r)
    BY <2>1
  <2>3. ASSUME NEW x \in L, NEW y \in H, NEW z \in R, y - x < h - l
        PROVE  halve[x][y][z] = Halved(c, x, y, z)
    <3>1. CASE x > y
      BY <1>2, <3>1
    <3>2. CASE ~(x > y)
      <4>1. x <= y /\ y - x \in Nat /\ ~(m <= y - x)
        BY <1>0, <2>2, <2>3, <3>2
      <4>2. y - x \notin S
        BY <2>1, <4>1
      <4>3. Is(x, y, z)
        <5> HIDE DEF Is
        <5> QED BY <4>1, <4>2
      <4> QED BY <4>3
    <3> QED BY <3>1, <3>2
  <2>4. HalveStep(a, timestamp, halve, l, h, r) = Halved(c, l, h, r)
    <3>1. \A x \in L, y \in H, z \in R :
             l <= h /\ y - x < h - l => halve[x][y][z] = Halved(c, x, y, z)
      BY <2>3
    <3> HIDE DEF S, Is
    <3> QED BY <3>1, HalveTurns
  <2> QED BY <1>1, <2>2, <2>4
<1>4. CASE low > high
  BY <1>2, <1>4
<1>5. CASE ~(low > high)
  <2>1. low <= high /\ high - low \in Nat /\ high - low \notin S
    <3> HIDE DEF S
    <3> QED BY <1>0, <1>3, <1>5
  <2>2. Is(low, high, result)
    <3> HIDE DEF Is
    <3> QED BY <2>1
  <2> QED BY <2>2
<1> QED BY <1>4, <1>5

-----------------------------------------------------------------------------
(* What the aggregators keep: times of rounds never decrease in a phase.   *)
Rounds == {Round(kind, time) : kind \in UNION {Answers[b] : b \in Aggregators},
                               time \in 1..MaxTime}

PhaseOK(a, rounds) ==
    /\ rounds \in Seq(Rounds) /\ Len(rounds) <= MaxRounds[a]
    /\ \A i \in 1..Len(rounds) : rounds[i].updatedAt \in 1..now
    /\ \A i, j \in 1..Len(rounds) :
          i <= j => rounds[i].updatedAt <= rounds[j].updatedAt

FeedOK ==
    /\ now \in 1..MaxTime
    /\ phases \in [Aggregators -> Seq(Seq(Rounds))]
    /\ adopted \in [Aggregators -> Seq(1..MaxTime)]
    /\ \A a \in Aggregators :
          /\ Len(phases[a]) >= 1 /\ Len(adopted[a]) = Len(phases[a])
          /\ \A p \in 1..Len(phases[a]) :
                PhaseOK(a, phases[a][p]) /\ adopted[a][p] <= now

(* The numbers of a phase are the rounds the aggregator answers for.       *)
LEMMA RoundsById ==
    ASSUME FeedOK, NEW a \in Aggregators, NEW p \in 1..LatestPhase(a),
           NEW i \in 0..(IdSpan - 1)
    PROVE  /\ HasRound(a, serializeIds(p, i)) <=> i \in 1..Len(phases[a][p])
           /\ RoundData(a, serializeIds(p, i)) = phases[a][p][i]
<1>1. IdSpan \in Nat \ {0} /\ p \in Nat
  BY FeedAssumption DEF LatestPhase
<1>2. PhaseOf(serializeIds(p, i)) = p /\ OriginalOf(serializeIds(p, i)) = i
  BY <1>1, IdsUnpack
<1> QED BY <1>2 DEF HasRound, RoundData, LatestPhase

(* The shape of the phases of one aggregator.                              *)
LEMMA FeedShape ==
    ASSUME FeedOK, NEW a \in Aggregators
    PROVE  /\ LatestPhase(a) \in Nat \ {0} /\ IdSpan \in Nat \ {0, 1}
           /\ \A p \in 1..LatestPhase(a) :
                 /\ Len(phases[a][p]) \in Nat
                 /\ phases[a][p] \in Seq(Rounds)
                 /\ phases[a][p] = <<>> <=> Len(phases[a][p]) = 0
                 /\ PhaseOK(a, phases[a][p])
                 /\ HasRounds(a, p, Len(phases[a][p]))
<1>1. LatestPhase(a) \in Nat \ {0} /\ IdSpan \in Nat \ {0, 1}
  BY FeedAssumption DEF FeedOK, LatestPhase
<1>2. ASSUME NEW p \in 1..LatestPhase(a)
      PROVE  /\ Len(phases[a][p]) \in Nat
             /\ phases[a][p] \in Seq(Rounds)
             /\ phases[a][p] = <<>> <=> Len(phases[a][p]) = 0
             /\ PhaseOK(a, phases[a][p])
             /\ HasRounds(a, p, Len(phases[a][p]))
  <2>1. PhaseOK(a, phases[a][p])
    BY <1>1 DEF FeedOK, LatestPhase
  <2>2. phases[a][p] \in Seq(Rounds)
    BY <2>1 DEF PhaseOK
  <2>3. Len(phases[a][p]) \in Nat /\ (phases[a][p] = <<>> <=> Len(phases[a][p]) = 0)
    BY <2>2
  <2>4. 2 * Len(phases[a][p]) < IdSpan
    <3>1. MaxRounds[a] \in Nat /\ 2 * MaxRounds[a] < IdSpan
      BY FeedAssumption
    <3>2. Len(phases[a][p]) <= MaxRounds[a]
      BY <2>1 DEF PhaseOK
    <3> QED BY <1>1, <2>3, <3>1, <3>2
  <2>5. HasRounds(a, p, Len(phases[a][p]))
    BY <1>1, <2>3, <2>4, RoundsById DEF HasRounds
  <2> QED BY <2>1, <2>2, <2>3, <2>5
<1> QED BY <1>1, <1>2

(* A phase has begun when its first round is not later.                    *)
LEMMA BegunMeans ==
    ASSUME FeedOK, NEW a \in Aggregators, NEW p \in 1..LatestPhase(a),
           NEW timestamp \in Nat
    PROVE  BegunBy(a, p, timestamp)
             <=> /\ phases[a][p] # <<>>
                 /\ phases[a][p][1].updatedAt <= timestamp
<1>1. 1 \in 0..(IdSpan - 1)
  BY FeedShape
<1>2. 1 \in 1..Len(phases[a][p]) <=> phases[a][p] # <<>>
  BY FeedShape
<1> QED BY <1>1, <1>2, RoundsById DEF BegunBy, IsNotLater

(* The rounds not later than a time are the first ones of a phase.         *)
FirstBy(rounds, timestamp, c) ==
    /\ c \in 0..Len(rounds)
    /\ \A j \in 1..Len(rounds) : rounds[j].updatedAt <= timestamp <=> j <= c

(* They are so many of the first ones, as times never decrease.            *)
LEMMA FirstExist ==
    ASSUME NEW a, NEW rounds, PhaseOK(a, rounds), NEW timestamp \in Nat, now \in Nat
    PROVE  \E c : FirstBy(rounds, timestamp, c)
<1> DEFINE n == Len(rounds)
           S == {j \in 1..(n + 1) : j <= n => rounds[j].updatedAt > timestamp}
<1>0. /\ n \in Nat
      /\ \A i \in 1..n : rounds[i].updatedAt \in Nat
      /\ \A i, j \in 1..n : i <= j => rounds[i].updatedAt <= rounds[j].updatedAt
  <2>1. n \in Nat
    BY DEF PhaseOK
  <2> QED BY <2>1 DEF PhaseOK
<1>1. n + 1 \in S /\ S \subseteq Nat
  BY <1>0
<1>2. PICK d \in S : \A k \in S : d <= k
  <2> HIDE DEF S
  <2> QED BY <1>1, LeastNumber
<1>3. d \in 1..(n + 1) /\ (d <= n => rounds[d].updatedAt > timestamp)
  OBVIOUS
<1>4. ASSUME NEW j \in 1..n PROVE rounds[j].updatedAt <= timestamp <=> j <= d - 1
  <2>1. CASE j <= d - 1
    <3>1. j \in 1..(n + 1) /\ ~(d <= j)
      BY <1>0, <1>3, <2>1
    <3>2. j \notin S
      BY <1>2, <3>1
    <3> QED BY <1>0, <2>1, <3>1, <3>2
  <2>2. CASE ~(j <= d - 1)
    <3>1. d \in 1..n /\ d <= j
      BY <1>0, <1>3, <2>2
    <3>2. rounds[d].updatedAt <= rounds[j].updatedAt
      BY <1>0, <3>1
    <3> QED BY <1>0, <1>3, <2>2, <3>1, <3>2
  <2> QED BY <2>1, <2>2
<1>5. FirstBy(rounds, timestamp, d - 1)
  BY <1>0, <1>3, <1>4 DEF FirstBy
<1> QED BY <1>5

(* Doubling and halving find the last round of a phase that has begun.     *)
LEMMA LastRoundFound ==
    ASSUME FeedOK, NEW a \in Aggregators, NEW p \in 1..LatestPhase(a),
           NEW timestamp \in Nat, NEW c, FirstBy(phases[a][p], timestamp, c),
           c # 0
    PROVE  LastRoundBy(a, p, timestamp) = serializeIds(p, c)
<1> DEFINE n == Len(phases[a][p])
           base == p * IdSpan
           first == serializeIds(p, 1)
           end == serializeIds(p + 1, 0)
           last == serializeIds(p, c)
           b == UpperBound(a, p)
           halve == CHOOSE f : IsHalving(a, timestamp, first, end, f)
<1>0. /\ p \in Nat \ {0} /\ IdSpan \in Nat \ {0, 1}
      /\ n \in Nat /\ c \in 1..n /\ HasRounds(a, p, n) /\ 2 * n < IdSpan
  <2>1. /\ p \in Nat \ {0} /\ IdSpan \in Nat \ {0, 1}
        /\ n \in Nat /\ HasRounds(a, p, n)
    BY FeedShape
  <2>2. c \in 1..n
    BY <2>1 DEF FirstBy
  <2> QED BY <2>1, <2>2 DEF HasRounds
<1>n. n \in Nat /\ c \in 1..n /\ IdSpan \in Nat /\ 2 * n < IdSpan
  BY <1>0
<1>1. base \in Nat
  BY <1>0, SMT
<1>s. (p + 1) * IdSpan = base + IdSpan
  BY <1>0, TimesSuccessor
<1>2. b \in (n + 1)..(IdSpan - 1)
  BY <1>0, UpperBoundIsBeyond
<1>3. /\ first = base + 1 /\ last = base + c /\ end = base + IdSpan
      /\ HighRoundId(a, p) = base + (b - 1)
  BY <1>1, <1>2, <1>s, <1>n DEF serializeIds, HighRoundId
<1> HIDE DEF b, base, first, end, last, n, halve
<1>4. ASSUME NEW id \in first..(end - 1)
      PROVE  IsNotLater(a, id, timestamp) <=> id <= last
  <2>1. id - base \in 1..(IdSpan - 1) /\ id = base + (id - base)
    BY <1>n, <1>1, <1>3
  <2>2. id = serializeIds(p, id - base)
    BY <2>1 DEF serializeIds, base
  <2>3. PICK i \in 1..(IdSpan - 1) : i = id - base
    BY <2>1
  <2>4. /\ HasRound(a, id) <=> i \in 1..n
        /\ RoundData(a, id) = phases[a][p][i]
    <3>1. id = serializeIds(p, i) /\ i \in 0..(IdSpan - 1)
      BY <1>n, <2>2, <2>3
    <3> QED BY <3>1, RoundsById DEF n
  <2>5. IsNotLater(a, id, timestamp) <=> i \in 1..n /\ i <= c
    BY <2>4 DEF IsNotLater, FirstBy, n
  <2> QED BY <1>n, <1>1, <1>3, <2>1, <2>3, <2>5
<1>5. SplitsAt(a, timestamp, first, end, last)
  BY <1>n, <1>1, <1>3, <1>4 DEF SplitsAt
<1>6. IsHalving(a, timestamp, first, end, halve)
  BY <1>5, HalvingExists DEF halve
<1>7. LastRoundBy(a, p, timestamp) = halve[first][HighRoundId(a, p)][NoRound]
  BY DEF LastRoundBy, IsHalving, HalveStep, first, end, halve
<1>8. /\ first \in first..end /\ HighRoundId(a, p) \in (first - 1)..(end - 1)
      /\ first <= last /\ last <= HighRoundId(a, p)
  BY <1>n, <1>1, <1>2, <1>3
<1>9. halve[first][HighRoundId(a, p)][NoRound]
        = Halved(last, first, HighRoundId(a, p), NoRound)
  <2>1. PICK high \in (first - 1)..(end - 1) : high = HighRoundId(a, p)
    BY <1>8
  <2>2. NoRound \in (first..end) \cup {NoRound}
    OBVIOUS
  <2>3. halve[first][high][NoRound] = Halved(last, first, high, NoRound)
    <3>1. \A l \in first..end, h \in (first - 1)..(end - 1),
             r \in (first..end) \cup {NoRound} :
             halve[l][h][r] = Halved(last, l, h, r)
      BY <1>5, <1>6, HalvingFinds
    <3> QED BY <1>8, <2>2, <3>1
  <2> QED BY <2>1, <2>3
<1>10. Halved(last, first, HighRoundId(a, p), NoRound) = last
  BY <1>n, <1>1, <1>2, <1>3, <1>8 DEF Halved
<1> QED BY <1>7, <1>9, <1>10 DEF last

(* What is found at a time, whether or not it has come: the last round of  *)
(* the latest phase that has begun.                                        *)
RoundBy(a, timestamp) ==
    IF PhaseAt(a, timestamp) = 0 THEN NoRound
    ELSE LastRoundBy(a, PhaseAt(a, timestamp), timestamp)

IsRoundBy(a, timestamp, p, i) ==
    /\ p \in 1..LatestPhase(a) /\ BegunBy(a, p, timestamp)
    /\ \A q \in (p + 1)..LatestPhase(a) : ~BegunBy(a, q, timestamp)
    /\ i # 0 /\ FirstBy(phases[a][p], timestamp, i)

(* The walk, the doubling and the halving together.                        *)
LEMMA RoundByFinds ==
    ASSUME FeedOK, NEW a \in Aggregators, NEW timestamp \in Nat
    PROVE  \/ /\ \A q \in 1..LatestPhase(a) : ~BegunBy(a, q, timestamp)
              /\ PhaseAt(a, timestamp) = 0
           \/ \E i : /\ IsRoundBy(a, timestamp, PhaseAt(a, timestamp), i)
                     /\ RoundBy(a, timestamp) = serializeIds(PhaseAt(a, timestamp), i)
<1> DEFINE p == PhaseAt(a, timestamp)
<1>1. LatestPhase(a) \in Nat
  BY FeedShape
<1>2. IsLatestBegun(a, timestamp, LatestPhase(a), p)
  BY <1>1, PhaseAtFinds
<1> HIDE DEF p
<1>3. CASE p = 0
  BY <1>1, <1>2, <1>3 DEF IsLatestBegun, p
<1>4. CASE p # 0
  <2>1. /\ p \in 1..LatestPhase(a) /\ BegunBy(a, p, timestamp)
        /\ \A q \in (p + 1)..LatestPhase(a) : ~BegunBy(a, q, timestamp)
    BY <1>1, <1>2, <1>4 DEF IsLatestBegun
  <2>2. PhaseOK(a, phases[a][p]) /\ now \in Nat
    <3>1. PhaseOK(a, phases[a][p])
      BY <2>1, FeedShape
    <3>2. now \in Nat
      BY FeedAssumption DEF FeedOK
    <3> QED BY <3>1, <3>2
  <2>3. PICK i : FirstBy(phases[a][p], timestamp, i)
    BY <2>2, FirstExist
  <2>4. i # 0
    <3>1. /\ phases[a][p] # <<>> /\ phases[a][p][1].updatedAt <= timestamp
          /\ Len(phases[a][p]) \in Nat
          /\ phases[a][p] = <<>> <=> Len(phases[a][p]) = 0
      BY <2>1, BegunMeans, FeedShape
    <3> QED BY <2>3, <3>1 DEF FirstBy
  <2>5. LastRoundBy(a, p, timestamp) = serializeIds(p, i)
    BY <2>1, <2>3, <2>4, LastRoundFound
  <2> QED BY <1>4, <2>1, <2>3, <2>4, <2>5 DEF IsRoundBy, RoundBy, p
<1> QED BY <1>3, <1>4

(* The number of the rounds not later than a time is one number.           *)
LEMMA FirstIsOne ==
    ASSUME NEW rounds, Len(rounds) \in Nat, NEW timestamp, NEW c, NEW d,
           FirstBy(rounds, timestamp, c), FirstBy(rounds, timestamp, d)
    PROVE  c = d
<1>1. c \in 0..Len(rounds) /\ d \in 0..Len(rounds)
  BY DEF FirstBy
<1>2. ~(c < d)
  <2> SUFFICES ASSUME c < d PROVE FALSE
    OBVIOUS
  <2>1. d \in 1..Len(rounds) /\ d <= d /\ ~(d <= c)
    BY <1>1
  <2> QED BY <2>1 DEF FirstBy
<1>3. ~(d < c)
  <2> SUFFICES ASSUME d < c PROVE FALSE
    OBVIOUS
  <2>1. c \in 1..Len(rounds) /\ c <= c /\ ~(c <= d)
    BY <1>1
  <2> QED BY <2>1 DEF FirstBy
<1> QED BY <1>1, <1>2, <1>3

-----------------------------------------------------------------------------
(* What getRoundDataAt answers is the last round.                          *)
LEMMA RoundFound == FeedOK => RoundIsLast
<1> SUFFICES ASSUME FeedOK, NEW a \in Aggregators,
                    NEW timestamp \in 0..(MaxTime + 1)
    PROVE  LET begun == {p \in 1..LatestPhase(a) :
                           /\ phases[a][p] # <<>>
                           /\ phases[a][p][1].updatedAt <= timestamp}
               roundId == getRoundDataAt(a, timestamp)
           IN  IF timestamp > now \/ ~HasLatestRound(a) \/ begun = {}
               THEN roundId = NoRound
               ELSE /\ HasRound(a, roundId)
                    /\ PhaseOf(roundId) \in begun
                    /\ \A p \in begun : p <= PhaseOf(roundId)
                    /\ LET rounds == phases[a][PhaseOf(roundId)]
                       IN  \A i \in 1..Len(rounds) :
                              rounds[i].updatedAt <= timestamp
                                <=> i <= OriginalOf(roundId)
  BY DEF RoundIsLast
<1> DEFINE begun == {p \in 1..LatestPhase(a) :
                       /\ phases[a][p] # <<>>
                       /\ phases[a][p][1].updatedAt <= timestamp}
           roundId == getRoundDataAt(a, timestamp)
<1>1. timestamp \in Nat
  BY FeedAssumption
<1>2. begun = {p \in 1..LatestPhase(a) : BegunBy(a, p, timestamp)}
  BY <1>1, BegunMeans
<1> HIDE DEF begun
<1>3. roundId = IF timestamp > now \/ ~HasLatestRound(a) \/ PhaseAt(a, timestamp) = 0
                THEN NoRound ELSE RoundBy(a, timestamp)
  BY DEF getRoundDataAt, RoundBy
<1> HIDE DEF roundId
<1>4. CASE timestamp > now \/ ~HasLatestRound(a) \/ begun = {}
  <2>1. begun = {} => PhaseAt(a, timestamp) = 0
    BY <1>1, <1>2, RoundByFinds DEF IsRoundBy
  <2> QED BY <1>3, <1>4, <2>1 DEF begun, roundId
<1>5. CASE ~(timestamp > now \/ ~HasLatestRound(a) \/ begun = {})
  <2> DEFINE p == PhaseAt(a, timestamp)
  <2>1. PICK i : IsRoundBy(a, timestamp, p, i) /\ RoundBy(a, timestamp) = serializeIds(p, i)
    BY <1>1, <1>2, <1>5, RoundByFinds
  <2>2. /\ p \in 1..LatestPhase(a) /\ LatestPhase(a) \in Nat /\ p \in Nat
        /\ IdSpan \in Nat \ {0, 1}
    BY <2>1, FeedShape DEF IsRoundBy
  <2>3. roundId = serializeIds(p, i)
    BY <1>3, <1>5, <2>1, <2>2
  <2> HIDE DEF p
  <2>4. /\ Len(phases[a][p]) \in Nat /\ 2 * Len(phases[a][p]) < IdSpan
    BY <2>2, FeedShape DEF HasRounds
  <2>5. i \in 1..Len(phases[a][p]) /\ i \in 0..(IdSpan - 1)
    BY <2>1, <2>2, <2>4 DEF IsRoundBy, FirstBy
  <2>6. HasRound(a, roundId) /\ PhaseOf(roundId) = p /\ OriginalOf(roundId) = i
    BY <2>2, <2>3, <2>5, RoundsById, IdsUnpack
  <2>7. p \in begun /\ \A q \in begun : q <= p
    BY <1>2, <2>1, <2>2 DEF IsRoundBy
  <2>8. \A j \in 1..Len(phases[a][p]) :
            phases[a][p][j].updatedAt <= timestamp <=> j <= i
    BY <2>1 DEF IsRoundBy, FirstBy
  <2> QED BY <1>5, <2>6, <2>7, <2>8 DEF begun, roundId
<1> QED BY <1>4, <1>5

(* At the present the round found is the one the aggregator serves.        *)
LEMMA LatestFound ==
    ASSUME FeedOK, NEW a \in Aggregators, HasLatestRound(a)
    PROVE  PhaseAt(a, now) # 0 /\ RoundBy(a, now) = LatestRoundId(a)
<1> DEFINE p == LatestPhase(a)
           n == Len(phases[a][p])
<1>1. now \in Nat
  BY FeedAssumption DEF FeedOK
<1>2. /\ p \in 1..LatestPhase(a) /\ p \in Nat /\ n \in Nat /\ n # 0
      /\ PhaseOK(a, phases[a][p])
  BY FeedShape DEF HasLatestRound
<1>3. \A j \in 1..n : phases[a][p][j].updatedAt <= now
  BY <1>1, <1>2 DEF PhaseOK
<1>4. BegunBy(a, p, now)
  <2>1. 1 \in 1..n /\ phases[a][p] # <<>>
    BY <1>2, FeedShape DEF HasLatestRound
  <2> QED BY <1>1, <1>2, <1>3, <2>1, BegunMeans
<1>5. PICK i : /\ IsRoundBy(a, now, PhaseAt(a, now), i)
               /\ RoundBy(a, now) = serializeIds(PhaseAt(a, now), i)
  BY <1>1, <1>2, <1>4, RoundByFinds
<1>6. PhaseAt(a, now) = p
  BY <1>2, <1>4, <1>5 DEF IsRoundBy
<1>7. i = n
  <2>1. FirstBy(phases[a][p], now, i)
    BY <1>5, <1>6 DEF IsRoundBy
  <2> QED BY <1>2, <1>3, <2>1 DEF FirstBy
<1> QED BY <1>2, <1>5, <1>6, <1>7 DEF LatestRoundId

(* What FeedOK says of an aggregator, before a step and after it.          *)
FeedReads(a) ==
    /\ LatestPhase(a) \in Nat \ {0}
    /\ \A p \in 1..LatestPhase(a) :
          /\ Len(phases[a][p]) \in Nat
          /\ 2 * Len(phases[a][p]) < IdSpan
          /\ phases[a][p] = <<>> <=> Len(phases[a][p]) = 0
          /\ \A i \in 1..Len(phases[a][p]) : phases[a][p][i].updatedAt \in Nat
          /\ adopted[a][p] \in Nat
          /\ \A i \in 0..(IdSpan - 1) :
                RoundData(a, serializeIds(p, i)) = phases[a][p][i]
    /\ \A timestamp \in Nat :
          /\ \A p \in 1..LatestPhase(a) :
                BegunBy(a, p, timestamp)
                  <=> /\ phases[a][p] # <<>>
                      /\ phases[a][p][1].updatedAt <= timestamp
          /\ \/ /\ \A p \in 1..LatestPhase(a) : ~BegunBy(a, p, timestamp)
                /\ RoundBy(a, timestamp) = NoRound
             \/ \E p, i : /\ IsRoundBy(a, timestamp, p, i)
                          /\ RoundBy(a, timestamp) = serializeIds(p, i)

(* FeedOK says so before a step.                                           *)
LEMMA FeedIsRead == FeedOK => \A a \in Aggregators : FeedReads(a)
<1> SUFFICES ASSUME FeedOK, NEW a \in Aggregators PROVE FeedReads(a)
  OBVIOUS
<1>1. LatestPhase(a) \in Nat \ {0}
  BY FeedShape
<1>2. ASSUME NEW p \in 1..LatestPhase(a)
      PROVE  /\ Len(phases[a][p]) \in Nat
             /\ 2 * Len(phases[a][p]) < IdSpan
             /\ phases[a][p] = <<>> <=> Len(phases[a][p]) = 0
             /\ \A i \in 1..Len(phases[a][p]) : phases[a][p][i].updatedAt \in Nat
             /\ \A i \in 0..(IdSpan - 1) :
                   RoundData(a, serializeIds(p, i)) = phases[a][p][i]
  <2>1. PhaseOK(a, phases[a][p]) /\ HasRounds(a, p, Len(phases[a][p]))
    BY FeedShape
  <2>2. \A i \in 1..Len(phases[a][p]) : phases[a][p][i].updatedAt \in Nat
    <3>1. now \in Nat
      BY FeedAssumption DEF FeedOK
    <3> QED BY <2>1, <3>1 DEF PhaseOK
  <2>3. \A i \in 0..(IdSpan - 1) :
            RoundData(a, serializeIds(p, i)) = phases[a][p][i]
    BY RoundsById
  <2> QED BY <2>1, <2>2, <2>3, FeedShape DEF HasRounds
<1>3. ASSUME NEW p \in 1..LatestPhase(a) PROVE adopted[a][p] \in Nat
  <2>1. adopted[a] \in Seq(1..MaxTime) /\ p \in 1..Len(adopted[a])
    BY DEF FeedOK, LatestPhase
  <2>2. adopted[a][p] \in 1..MaxTime
    BY <2>1, ElementIn
  <2> QED BY <2>2, FeedAssumption
<1>4. \A timestamp \in Nat, p \in 1..LatestPhase(a) :
         BegunBy(a, p, timestamp)
           <=> /\ phases[a][p] # <<>>
               /\ phases[a][p][1].updatedAt <= timestamp
  BY BegunMeans
<1>5. ASSUME NEW timestamp \in Nat
      PROVE  \/ /\ \A p \in 1..LatestPhase(a) : ~BegunBy(a, p, timestamp)
                /\ RoundBy(a, timestamp) = NoRound
             \/ \E p, i : /\ IsRoundBy(a, timestamp, p, i)
                          /\ RoundBy(a, timestamp) = serializeIds(p, i)
  <2>1. PhaseAt(a, timestamp) = 0 => RoundBy(a, timestamp) = NoRound
    BY DEF RoundBy
  <2> QED BY <2>1, RoundByFinds
<1> QED BY <1>1, <1>2, <1>3, <1>4, <1>5 DEF FeedReads

(* And after it.                                                           *)
LEMMA FeedIsReadLater == FeedOK' => (\A a \in Aggregators : FeedReads(a))'
BY FeedIsRead, PTL

-----------------------------------------------------------------------------
(* Rounds posted and phases adopted after a time leave what was found at   *)
(* it, while the phases that have begun by then are those adopted by then. *)
PhasesClear(a, timestamp) ==
    \A p \in 1..LatestPhase(a) :
        BegunBy(a, p, timestamp) <=> adopted[a][p] <= timestamp

GrowsAfter(a, timestamp) ==
    /\ LatestPhase(a) <= LatestPhase(a)'
    /\ \A p \in 1..LatestPhase(a) :
          /\ adopted'[a][p] = adopted[a][p]
          /\ Len(phases[a][p]) <= Len(phases'[a][p])
          /\ \A i \in 1..Len(phases[a][p]) : phases'[a][p][i] = phases[a][p][i]
          /\ \A i \in (Len(phases[a][p]) + 1)..Len(phases'[a][p]) :
                timestamp < phases'[a][p][i].updatedAt
    /\ \A p \in (LatestPhase(a) + 1)..LatestPhase(a)' : timestamp < adopted'[a][p]

(* What is found at a time survives what is added after it.                *)
LEMMA RoundKept ==
    ASSUME FeedOK, FeedOK', NEW a \in Aggregators, NEW timestamp \in Nat,
           GrowsAfter(a, timestamp), PhasesClear(a, timestamp)'
    PROVE  /\ PhasesClear(a, timestamp)
           /\ RoundBy(a, timestamp)' = RoundBy(a, timestamp)
           /\ RoundBy(a, timestamp) # NoRound
                => RoundData(a, RoundBy(a, timestamp))'
                     = RoundData(a, RoundBy(a, timestamp))
<1> DEFINE n == LatestPhase(a)
           N == LatestPhase(a)'
<1>1. FeedReads(a) /\ FeedReads(a)'
  BY FeedIsRead, FeedIsReadLater
<1>2. n \in Nat /\ N \in Nat /\ n <= N /\ IdSpan \in Nat
  BY <1>1, FeedAssumption DEF FeedReads, GrowsAfter
<1>3. ASSUME NEW p \in 1..n
      PROVE  BegunBy(a, p, timestamp)' <=> BegunBy(a, p, timestamp)
  <2> DEFINE k == Len(phases[a][p])
             m == Len(phases'[a][p])
  <2>1. p \in 1..N
    BY <1>2
  <2>2. /\ k \in Nat
        /\ BegunBy(a, p, timestamp)
             <=> k # 0 /\ phases[a][p][1].updatedAt <= timestamp
    BY <1>1 DEF FeedReads
  <2>3. /\ m \in Nat
        /\ \A i \in 1..m : phases'[a][p][i].updatedAt \in Nat
        /\ BegunBy(a, p, timestamp)'
             <=> m # 0 /\ phases'[a][p][1].updatedAt <= timestamp
    BY <1>1, <2>1 DEF FeedReads
  <2>4. /\ k <= m
        /\ \A i \in 1..k : phases'[a][p][i] = phases[a][p][i]
        /\ \A i \in (k + 1)..m : timestamp < phases'[a][p][i].updatedAt
    BY DEF GrowsAfter
  <2> HIDE DEF k, m
  <2>5. CASE k = 0
    <3>1. m # 0 => 1 \in 1..m /\ 1 \in (k + 1)..m
      BY <2>3, <2>5
    <3> QED BY <2>2, <2>3, <2>4, <2>5, <3>1
  <2>6. CASE k # 0
    <3>1. 1 \in 1..k /\ m # 0
      BY <2>2, <2>3, <2>4, <2>6
    <3> QED BY <2>2, <2>3, <2>4, <2>6, <3>1
  <2> QED BY <2>5, <2>6
<1>4. ASSUME NEW p \in (n + 1)..N PROVE ~BegunBy(a, p, timestamp)'
  <2>1. p \in 1..N
    BY <1>2
  <2>2. timestamp < adopted'[a][p] /\ adopted'[a][p] \in Nat
    BY <1>1, <2>1 DEF GrowsAfter, FeedReads
  <2> QED BY <2>1, <2>2 DEF PhasesClear
<1>5. PhasesClear(a, timestamp)
  <2>1. ASSUME NEW p \in 1..n
        PROVE  BegunBy(a, p, timestamp) <=> adopted[a][p] <= timestamp
    <3>1. p \in 1..N /\ adopted'[a][p] = adopted[a][p]
      BY <1>2 DEF GrowsAfter
    <3>2. BegunBy(a, p, timestamp)' <=> adopted'[a][p] <= timestamp
      BY <3>1 DEF PhasesClear
    <3> QED BY <1>3, <3>1, <3>2
  <2> QED BY <2>1 DEF PhasesClear
<1>6. ASSUME NEW p, NEW i, IsRoundBy(a, timestamp, p, i)
      PROVE  /\ p \in 1..n /\ p \in 1..N /\ i \in 1..Len(phases[a][p])
             /\ i \in 0..(IdSpan - 1) /\ i # 0
             /\ BegunBy(a, p, timestamp)'
             /\ phases'[a][p][i] = phases[a][p][i]
             /\ FirstBy(phases'[a][p], timestamp, i)
  <2> DEFINE k == Len(phases[a][p])
             m == Len(phases'[a][p])
  <2>1. /\ p \in 1..n /\ BegunBy(a, p, timestamp) /\ i # 0
        /\ FirstBy(phases[a][p], timestamp, i)
    BY <1>6 DEF IsRoundBy
  <2>2. p \in 1..N
    BY <1>2, <2>1
  <2>3. k \in Nat /\ 2 * k < IdSpan /\ m \in Nat
    BY <1>1, <2>1, <2>2 DEF FeedReads
  <2>4. /\ k <= m
        /\ \A j \in 1..k : phases'[a][p][j] = phases[a][p][j]
        /\ \A j \in (k + 1)..m : timestamp < phases'[a][p][j].updatedAt
    BY <2>1 DEF GrowsAfter
  <2>5. \A j \in 1..m : phases'[a][p][j].updatedAt \in Nat
    BY <1>1, <2>2 DEF FeedReads
  <2>6. /\ i \in 0..k
        /\ \A j \in 1..k : phases[a][p][j].updatedAt <= timestamp <=> j <= i
    BY <2>1 DEF FirstBy
  <2> HIDE DEF k, m
  <2>7. i \in 1..k /\ i \in 0..(IdSpan - 1) /\ i \in 0..m
    BY <1>2, <2>1, <2>3, <2>4, <2>6
  <2>8. ASSUME NEW j \in 1..m
        PROVE  phases'[a][p][j].updatedAt <= timestamp <=> j <= i
    <3>1. CASE j \in 1..k
      BY <2>4, <2>6, <3>1
    <3>2. CASE j \notin 1..k
      <4>1. j \in (k + 1)..m /\ ~(j <= i)
        BY <2>3, <2>7, <3>2
      <4>2. timestamp < phases'[a][p][j].updatedAt
        BY <2>4, <4>1
      <4> QED BY <2>5, <4>1, <4>2
    <3> QED BY <3>1, <3>2
  <2>9. FirstBy(phases'[a][p], timestamp, i)
    BY <2>7, <2>8 DEF FirstBy, m
  <2> QED BY <1>3, <2>1, <2>2, <2>4, <2>7, <2>9 DEF k
<1>7. CASE \E p, i : IsRoundBy(a, timestamp, p, i) /\ RoundBy(a, timestamp) = serializeIds(p, i)
  <2>1. PICK p, i : IsRoundBy(a, timestamp, p, i) /\ RoundBy(a, timestamp) = serializeIds(p, i)
    BY <1>7
  <2>2. PICK q, j : IsRoundBy(a, timestamp, q, j)' /\ RoundBy(a, timestamp)' = serializeIds(q, j)
    BY <1>1, <1>6, <2>1 DEF FeedReads, serializeIds
  <2>3. /\ q \in 1..N /\ BegunBy(a, q, timestamp)' /\ j # 0
        /\ \A r \in (q + 1)..N : ~BegunBy(a, r, timestamp)'
        /\ FirstBy(phases'[a][q], timestamp, j)
    BY <2>2 DEF IsRoundBy, FirstBy
  <2>4. p = q
    <3>1. q \in 1..n /\ BegunBy(a, q, timestamp)
      BY <1>2, <1>3, <1>4, <2>3
    <3>2. \A r \in (p + 1)..n : ~BegunBy(a, r, timestamp)
      BY <2>1 DEF IsRoundBy
    <3> QED BY <1>2, <1>6, <2>1, <2>3, <3>1, <3>2
  <2>5. i = j
    <3>1. FirstBy(phases'[a][p], timestamp, i) /\ FirstBy(phases'[a][p], timestamp, j)
      BY <1>6, <2>1, <2>3, <2>4
    <3>2. Len(phases'[a][p]) \in Nat
      BY <1>1, <2>3, <2>4 DEF FeedReads
    <3> QED BY <3>1, <3>2, FirstIsOne
  <2>6. RoundBy(a, timestamp)' = RoundBy(a, timestamp)
    BY <2>1, <2>2, <2>4, <2>5
  <2>7. /\ RoundData(a, serializeIds(p, i)) = phases[a][p][i]
        /\ RoundData(a, serializeIds(p, i))' = phases'[a][p][i]
    BY <1>1, <1>6, <2>1 DEF FeedReads, serializeIds
  <2> QED BY <1>5, <1>6, <2>1, <2>6, <2>7 DEF serializeIds
<1>8. CASE /\ \A p \in 1..n : ~BegunBy(a, p, timestamp)
           /\ RoundBy(a, timestamp) = NoRound
  <2>1. \A p \in 1..N : ~BegunBy(a, p, timestamp)'
    BY <1>2, <1>3, <1>4, <1>8
  <2>2. ASSUME NEW p, NEW i PROVE ~IsRoundBy(a, timestamp, p, i)'
    BY <2>1 DEF IsRoundBy
  <2>3. RoundBy(a, timestamp)' = NoRound
    BY <1>1, <2>2 DEF FeedReads, NoRound
  <2> QED BY <1>5, <1>8, <2>3
<1> QED BY <1>1, <1>7, <1>8 DEF FeedReads

-----------------------------------------------------------------------------
(* What the aggregators do keeps FeedOK and only adds to what there was.   *)
FeedInputs == UNION {Answers[b] : b \in Aggregators}

Extended(a, rounds, grown) ==
    /\ PhaseOK(a, grown) /\ grown \in Seq(Rounds)
    /\ Len(rounds) \in Nat /\ Len(grown) = Len(rounds) + 1
    /\ \A i \in 1..Len(rounds) : grown[i] = rounds[i]
    /\ grown[Len(grown)].updatedAt = now

(* A round posted at the present keeps the times of a phase in order.      *)
LEMMA PhaseGrows ==
    ASSUME NEW a, NEW rounds, PhaseOK(a, rounds), now \in 1..MaxTime,
           Len(rounds) < MaxRounds[a], MaxRounds[a] \in Nat, MaxTime \in Nat,
           NEW kind \in FeedInputs, NEW grown,
           grown = Append(rounds, Round(kind, now))
    PROVE  Extended(a, rounds, grown)
<1> DEFINE n == Len(rounds)
           r == Round(kind, now)
<1>1. /\ rounds \in Seq(Rounds) /\ n \in Nat
      /\ \A i \in 1..n : rounds[i].updatedAt \in 1..now
      /\ \A i, j \in 1..n : i <= j => rounds[i].updatedAt <= rounds[j].updatedAt
  BY DEF PhaseOK
<1>2. r \in Rounds /\ r.updatedAt = now
  BY DEF Rounds, Round, FeedInputs
<1> HIDE DEF r
<1>3. /\ grown \in Seq(Rounds) /\ Len(grown) = n + 1
      /\ \A i \in 1..n : grown[i] = rounds[i]
      /\ grown[n + 1] = r
  BY <1>1, <1>2 DEF r
<1> HIDE DEF n
<1>4. ASSUME NEW i \in 1..Len(grown) PROVE i \in 1..n \/ i = n + 1
  BY <1>1, <1>3
<1>5. \A i \in 1..Len(grown) : grown[i].updatedAt \in 1..now
  BY <1>1, <1>2, <1>3, <1>4
<1>6. ASSUME NEW i \in 1..Len(grown), NEW j \in 1..Len(grown), i <= j
      PROVE  grown[i].updatedAt <= grown[j].updatedAt
  <2>1. CASE j \in 1..n
    <3>1. i \in 1..n
      BY <1>1, <1>3, <1>6, <2>1
    <3> QED BY <1>1, <1>3, <1>6, <2>1, <3>1
  <2>2. CASE j = n + 1
    <3>1. grown[j].updatedAt = now /\ grown[i].updatedAt \in 1..now
      BY <1>2, <1>3, <1>5, <2>2
    <3> QED BY <3>1
  <2> QED BY <1>4, <2>1, <2>2
<1>7. Len(grown) <= MaxRounds[a]
  BY <1>1, <1>3 DEF n
<1> QED BY <1>1, <1>2, <1>3, <1>5, <1>6, <1>7 DEF PhaseOK, Extended, n

(* A contract posts a round.                                               *)
LEMMA PostKeeps ==
    ASSUME FeedOK, now' = now, NEW a \in Aggregators,
           NEW phase \in 1..LatestPhase(a), NEW kind \in FeedInputs,
           PostRound(a, phase, kind)
    PROVE  /\ FeedOK'
           /\ \A b \in Aggregators, timestamp \in Nat :
                 timestamp < now => GrowsAfter(b, timestamp)
<1> DEFINE rounds == phases[a][phase]
           grown == Append(rounds, Round(kind, now))
           all == [phases[a] EXCEPT ![phase] = grown]
<1>0. /\ MaxTime \in Nat /\ MaxRounds[a] \in Nat /\ now \in 1..MaxTime
      /\ now \in Nat
  BY FeedAssumption DEF FeedOK
<1>1. /\ PhaseOK(a, rounds) /\ LatestPhase(a) = Len(phases[a])
      /\ Len(phases[a]) \in Nat \ {0} /\ phases[a] \in Seq(Seq(Rounds))
  BY FeedShape DEF FeedOK, LatestPhase
<1>2. /\ PhaseOK(a, grown) /\ grown \in Seq(Rounds)
      /\ Len(rounds) \in Nat /\ Len(grown) = Len(rounds) + 1
      /\ \A i \in 1..Len(rounds) : grown[i] = rounds[i]
      /\ grown[Len(grown)].updatedAt = now
  <2>1. Len(rounds) < MaxRounds[a]
    BY DEF PostRound
  <2>2. grown = Append(rounds, Round(kind, now))
    OBVIOUS
  <2>3. PhaseOK(a, rounds)
    BY <1>1
  <2>4. Extended(a, rounds, grown)
    <3> HIDE DEF grown, rounds, all
    <3> QED BY <1>0, <2>1, <2>2, <2>3, PhaseGrows
  <2> QED BY <2>4 DEF Extended
<1>3. /\ phases' = [phases EXCEPT ![a] = all] /\ adopted' = adopted
      /\ phases \in [Aggregators -> Seq(Seq(Rounds))]
  BY DEF PostRound, FeedOK
<1> HIDE DEF grown, rounds
<1>4. /\ all \in Seq(Seq(Rounds)) /\ Len(all) = Len(phases[a])
      /\ all[phase] = grown
      /\ \A p \in 1..Len(phases[a]) : p # phase => all[p] = phases[a][p]
  BY <1>1, <1>2
<1> HIDE DEF all
<1>5. /\ phases' \in [Aggregators -> Seq(Seq(Rounds))]
      /\ phases'[a] = all
      /\ \A b \in Aggregators : b # a => phases'[b] = phases[b]
  BY <1>3, <1>4
<1>6. \A b \in Aggregators : Len(phases'[b]) = Len(phases[b])
  BY <1>4, <1>5
<1>7. ASSUME NEW b \in Aggregators, NEW p \in 1..Len(phases[b])
      PROVE  PhaseOK(b, phases'[b][p])
  <2>1. CASE b = a /\ p = phase
    BY <1>2, <1>4, <1>5, <2>1
  <2>2. CASE ~(b = a /\ p = phase)
    <3>1. phases'[b][p] = phases[b][p]
      BY <1>4, <1>5, <2>2
    <3> QED BY <3>1 DEF FeedOK
  <2> QED BY <2>1, <2>2
<1>8. FeedOK'
  <2>1. \A b \in Aggregators :
          /\ Len(phases'[b]) >= 1 /\ Len(adopted'[b]) = Len(phases'[b])
          /\ \A p \in 1..Len(phases'[b]) :
                PhaseOK(b, phases[b][p])' /\ adopted'[b][p] <= now'
    BY <1>3, <1>6, <1>7 DEF FeedOK, PhaseOK
  <2> QED BY <1>3, <1>5, <2>1 DEF FeedOK
<1>9. ASSUME NEW b \in Aggregators, NEW timestamp \in Nat, timestamp < now
      PROVE  GrowsAfter(b, timestamp)
  <2>1. /\ LatestPhase(b) = Len(phases[b]) /\ LatestPhase(b)' = Len(phases[b])
        /\ Len(phases[b]) \in Nat
    BY <1>6, FeedShape DEF LatestPhase
  <2>2. ASSUME NEW p \in 1..Len(phases[b])
        PROVE  /\ Len(phases[b][p]) <= Len(phases'[b][p])
               /\ \A i \in 1..Len(phases[b][p]) : phases'[b][p][i] = phases[b][p][i]
               /\ \A i \in (Len(phases[b][p]) + 1)..Len(phases'[b][p]) :
                     timestamp < phases'[b][p][i].updatedAt
    <3>1. CASE b = a /\ p = phase
      <4>1. phases'[b][p] = grown /\ phases[b][p] = rounds
        BY <1>4, <1>5, <3>1 DEF rounds
      <4>2. \A i \in (Len(rounds) + 1)..Len(grown) : i = Len(grown)
        BY <1>2
      <4> QED BY <1>2, <1>9, <4>1, <4>2
    <3>2. CASE ~(b = a /\ p = phase)
      <4>1. phases'[b][p] = phases[b][p]
        BY <1>4, <1>5, <3>2
      <4>2. Len(phases[b][p]) \in Nat
        BY <2>1, FeedShape
      <4> QED BY <4>1, <4>2
    <3> QED BY <3>1, <3>2
  <2> QED BY <1>3, <2>1, <2>2 DEF GrowsAfter
<1> QED BY <1>8, <1>9

(* The proxy adopts a contract.                                            *)
LEMMA AdoptKeeps ==
    ASSUME FeedOK, now' = now, NEW a \in Aggregators, NEW kind \in FeedInputs,
           NEW count \in Earlier[a], NEW time \in 1..now,
           AdoptPhase(a, count, kind, time)
    PROVE  /\ FeedOK'
           /\ \A b \in Aggregators, timestamp \in Nat :
                 timestamp < now => GrowsAfter(b, timestamp)
<1> DEFINE new == [i \in 1..count |-> Round(kind, time)]
           n == Len(phases[a])
           all == Append(phases[a], new)
           times == Append(adopted[a], now)
<1>0. /\ MaxTime \in Nat /\ MaxRounds[a] \in Nat /\ now \in 1..MaxTime
      /\ now \in Nat /\ count \in Nat
  BY FeedAssumption DEF FeedOK
<1>1. /\ n \in Nat \ {0} /\ phases[a] \in Seq(Seq(Rounds))
      /\ adopted[a] \in Seq(1..MaxTime) /\ Len(adopted[a]) = n
  BY FeedShape DEF FeedOK, LatestPhase
<1>2. PhaseOK(a, new) /\ new \in Seq(Rounds)
  <2>1. Round(kind, time) \in Rounds /\ Round(kind, time).updatedAt = time
    BY <1>0 DEF Rounds, Round, FeedInputs
  <2>2. new \in Seq(Rounds) /\ Len(new) = count
    BY <1>0, <2>1
  <2>3. \A i \in 1..count : new[i].updatedAt = time
    BY <2>1
  <2>4. count <= MaxRounds[a]
    BY DEF AdoptPhase
  <2> QED BY <1>0, <2>2, <2>3, <2>4 DEF PhaseOK
<1>3. /\ phases' = [phases EXCEPT ![a] = all]
      /\ adopted' = [adopted EXCEPT ![a] = times]
      /\ phases \in [Aggregators -> Seq(Seq(Rounds))]
      /\ adopted \in [Aggregators -> Seq(1..MaxTime)]
  BY DEF AdoptPhase, FeedOK
<1> HIDE DEF new
<1>4. /\ all \in Seq(Seq(Rounds)) /\ Len(all) = n + 1 /\ all[n + 1] = new
      /\ \A p \in 1..n : all[p] = phases[a][p]
      /\ times \in Seq(1..MaxTime) /\ Len(times) = n + 1 /\ times[n + 1] = now
      /\ \A p \in 1..n : times[p] = adopted[a][p]
  <2>1. /\ all \in Seq(Seq(Rounds)) /\ Len(all) = n + 1 /\ all[n + 1] = new
        /\ \A p \in 1..n : all[p] = phases[a][p]
    BY <1>1, <1>2
  <2>2. /\ times \in Seq(1..MaxTime) /\ Len(times) = n + 1 /\ times[n + 1] = now
        /\ \A p \in 1..n : times[p] = adopted[a][p]
    <3> HIDE DEF n
    <3> QED BY <1>0, <1>1
  <2> QED BY <2>1, <2>2
<1> HIDE DEF all, times, n
<1>5. /\ phases' \in [Aggregators -> Seq(Seq(Rounds))]
      /\ adopted' \in [Aggregators -> Seq(1..MaxTime)]
      /\ phases'[a] = all /\ adopted'[a] = times
      /\ \A b \in Aggregators : b # a => phases'[b] = phases[b] /\ adopted'[b] = adopted[b]
  BY <1>3, <1>4
<1>6. ASSUME NEW b \in Aggregators
      PROVE  /\ Len(phases'[b]) >= 1 /\ Len(adopted'[b]) = Len(phases'[b])
             /\ \A p \in 1..Len(phases'[b]) :
                   PhaseOK(b, phases'[b][p]) /\ adopted'[b][p] <= now
  <2>1. CASE b = a
    <3>1. Len(phases'[b]) = n + 1 /\ Len(adopted'[b]) = n + 1 /\ n + 1 >= 1
      BY <1>1, <1>4, <1>5, <2>1
    <3>2. ASSUME NEW p \in 1..(n + 1)
          PROVE  PhaseOK(b, phases'[b][p]) /\ adopted'[b][p] <= now
      <4>1. CASE p \in 1..n
        <5>1. phases'[b][p] = phases[b][p] /\ adopted'[b][p] = adopted[b][p]
          BY <1>4, <1>5, <2>1, <4>1
        <5> QED BY <2>1, <4>1, <5>1 DEF FeedOK, n
      <4>2. CASE p = n + 1
        BY <1>0, <1>2, <1>4, <1>5, <2>1, <4>2
      <4> QED BY <1>1, <4>1, <4>2
    <3> QED BY <3>1, <3>2
  <2>2. CASE b # a
    <3>1. phases'[b] = phases[b] /\ adopted'[b] = adopted[b]
      BY <1>5, <2>2
    <3> QED BY <3>1 DEF FeedOK
  <2> QED BY <2>1, <2>2
<1>7. FeedOK'
  <2>1. \A b \in Aggregators :
          /\ Len(phases'[b]) >= 1 /\ Len(adopted'[b]) = Len(phases'[b])
          /\ \A p \in 1..Len(phases'[b]) :
                PhaseOK(b, phases[b][p])' /\ adopted'[b][p] <= now'
    BY <1>6 DEF PhaseOK
  <2> QED BY <1>0, <1>5, <2>1 DEF FeedOK
<1>8. ASSUME NEW b \in Aggregators, NEW timestamp \in Nat, timestamp < now
      PROVE  GrowsAfter(b, timestamp)
  <2>1. \A p \in 1..Len(phases[b]) : Len(phases[b][p]) \in Nat
    BY FeedShape DEF LatestPhase
  <2>2. Len(phases[b]) \in Nat
    BY FeedShape DEF LatestPhase
  <2>3. CASE b = a
    <3>1. Len(phases[b]) = n /\ Len(phases'[b]) = n + 1
      BY <1>4, <1>5, <2>3 DEF n
    <3>2. \A p \in 1..n :
             /\ phases'[b][p] = phases[b][p] /\ adopted'[b][p] = adopted[b][p]
             /\ Len(phases[b][p]) \in Nat
      BY <1>4, <1>5, <2>1, <2>3, <3>1
    <3>3. \A p \in (n + 1)..(n + 1) : timestamp < adopted'[b][p]
      BY <1>1, <1>4, <1>5, <1>8, <2>3
    <3> QED BY <1>1, <3>1, <3>2, <3>3 DEF GrowsAfter, LatestPhase
  <2>4. CASE b # a
    <3>1. phases'[b] = phases[b] /\ adopted'[b] = adopted[b]
      BY <1>5, <2>4
    <3> QED BY <2>1, <2>2, <3>1 DEF GrowsAfter, LatestPhase
  <2> QED BY <2>3, <2>4
<1> QED BY <1>7, <1>8

(* At first every aggregator has one empty phase.                          *)
LEMMA FeedStarts == FeedInit => FeedOK
<1> SUFFICES ASSUME FeedInit PROVE FeedOK
  OBVIOUS
<1>1. now = 1 /\ MaxTime \in Nat \ {0}
  BY FeedAssumption DEF FeedInit
<1>2. /\ phases = [a \in Aggregators |-> << <<>> >>]
      /\ adopted = [a \in Aggregators |-> <<1>>]
  BY <1>1 DEF FeedInit
<1>3. \A a \in Aggregators : PhaseOK(a, <<>>)
  <2>1. \A a \in Aggregators : MaxRounds[a] \in Nat
    BY FeedAssumption
  <2> QED BY <2>1 DEF PhaseOK
<1>4. << <<>> >> \in Seq(Seq(Rounds)) /\ <<1>> \in Seq(1..MaxTime)
  BY <1>1
<1>5. \A a \in Aggregators : phases[a] = << <<>> >> /\ adopted[a] = <<1>>
  BY <1>2
<1>6. \A a \in Aggregators :
         /\ Len(phases[a]) >= 1 /\ Len(adopted[a]) = Len(phases[a])
         /\ \A p \in 1..Len(phases[a]) :
               PhaseOK(a, phases[a][p]) /\ adopted[a][p] <= now
  BY <1>1, <1>3, <1>5
<1> QED BY <1>1, <1>2, <1>4, <1>6 DEF FeedOK

(* Whatever an aggregator does.                                            *)
LEMMA FeedKeeps ==
    ASSUME FeedOK, FeedNext, now' = now
    PROVE  /\ FeedOK'
           /\ \A b \in Aggregators, timestamp \in Nat :
                 timestamp < now => GrowsAfter(b, timestamp)
<1>1. PICK a \in Aggregators, kind \in FeedInputs :
         \/ \E phase \in 1..LatestPhase(a) : PostRound(a, phase, kind)
         \/ \E count \in Earlier[a], time \in 1..now :
               AdoptPhase(a, count, kind, time)
  BY DEF FeedNext, FeedInputs
<1>2. CASE \E phase \in 1..LatestPhase(a) : PostRound(a, phase, kind)
  BY <1>2, PostKeeps
<1>3. CASE \E count \in Earlier[a], time \in 1..now : AdoptPhase(a, count, kind, time)
  BY <1>3, AdoptKeeps
<1> QED BY <1>1, <1>2, <1>3

-----------------------------------------------------------------------------
(* The settings: traces by time, none of a time to come.                   *)
TraceOK(trace, V) ==
    /\ trace \in Traces(1..MaxTime, V)
    /\ trace # <<>> => LastKey(trace) <= now

SettingsOK ==
    /\ tokenHops \in [PowerTokens -> Traces(1..MaxTime, Hops)]
    /\ tokenWeight \in [PowerTokens -> Traces(1..MaxTime, TokenWeights)]
    /\ vaultWeight \in [PowerVaults -> Traces(1..MaxTime, VaultWeights)]
    /\ \A t \in PowerTokens : TraceOK(tokenHops[t], Hops)
    /\ \A t \in PowerTokens : TraceOK(tokenWeight[t], TokenWeights)
    /\ \A v \in PowerVaults : TraceOK(vaultWeight[v], VaultWeights)

(* Times are keys of a trace.                                              *)
LEMMA TimesAreKeys == AreKeys(1..MaxTime)
BY FeedAssumption DEF AreKeys

(* What a lookup in a setting returns is kept below a time.                *)
ReadsSame(old, new, timestamp) ==
    \A zero : UpperLookupRecent(new, timestamp, zero)
                = UpperLookupRecent(old, timestamp, zero)

(* Setting a value leaves what was read at an earlier time.                *)
LEMMA SetKeeps ==
    ASSUME NEW V, NEW trace, TraceOK(trace, V), now \in 1..MaxTime,
           CanPush(trace, now), NEW value \in V,
           NEW pushed, pushed = Push(trace, now, value)
    PROVE  /\ TraceOK(pushed, V)
           /\ \A timestamp \in Nat : timestamp < now => ReadsSame(trace, pushed, timestamp)
<1> DEFINE K == 1..MaxTime
<1>0. trace \in Traces(K, V) /\ now \in K /\ now \in Nat /\ AreKeys(K)
  BY TimesAreKeys, FeedAssumption DEF TraceOK
<1> HIDE DEF K
<1>1. Push(trace, now, value) \in Traces(K, V) /\ LastKey(Push(trace, now, value)) = now
  BY <1>0, PushType
<1>2. ASSUME NEW zero, NEW timestamp \in Nat, timestamp < now
      PROVE  UpperLookupRecent(Push(trace, now, value), timestamp, zero)
               = UpperLookupRecent(trace, timestamp, zero)
  <2>1. ~(timestamp >= now)
    BY <1>0, <1>2
  <2>2. UpperLookupRecent(Push(trace, now, value), timestamp, zero) =
          IF timestamp >= now THEN value ELSE UpperLookupRecent(trace, timestamp, zero)
    BY <1>0, LookupAfterPush
  <2> QED BY <2>1, <2>2
<1> QED BY <1>0, <1>1, <1>2 DEF TraceOK, ReadsSame, K

SettingsSame(timestamp) ==
    /\ \A t \in PowerTokens : ReadsSame(tokenHops[t], tokenHops'[t], timestamp)
    /\ \A t \in PowerTokens : ReadsSame(tokenWeight[t], tokenWeight'[t], timestamp)
    /\ \A v \in PowerVaults : ReadsSame(vaultWeight[v], vaultWeight'[v], timestamp)

(* Settings that do not change read the same at every time.                *)
LEMMA SettingsKept ==
    ASSUME SettingsOK, UNCHANGED settings, NEW timestamp
    PROVE  SettingsSame(timestamp)
BY DEF settings, SettingsSame, ReadsSame

(* They stay well formed as time passes.                                   *)
LEMMA SettingsStay ==
    ASSUME SettingsOK, UNCHANGED settings, now \in Nat, now' \in Nat, now <= now'
    PROVE  SettingsOK'
<1>1. ASSUME NEW trace, NEW V, TraceOK(trace, V)
      PROVE  /\ trace \in Traces(1..MaxTime, V)
             /\ trace # <<>> => LastKey(trace) <= now'
  <2>1. trace \in Traces(1..MaxTime, V) /\ (trace # <<>> => LastKey(trace) <= now)
    BY <1>1 DEF TraceOK
  <2>2. trace # <<>> => LastKey(trace) \in Nat
    BY <2>1, TimesAreKeys, TraceShape
  <2> QED BY <2>1, <2>2
<1>2. /\ \A t \in PowerTokens : TraceOK(tokenHops[t], Hops)'
      /\ \A t \in PowerTokens : TraceOK(tokenWeight[t], TokenWeights)'
      /\ \A v \in PowerVaults : TraceOK(vaultWeight[v], VaultWeights)'
  BY <1>1 DEF SettingsOK, settings, TraceOK
<1> QED BY <1>2 DEF SettingsOK, settings

(* The owner sets something.                                               *)
LEMMA SettingsSet ==
    ASSUME SettingsOK, CalcSet, now \in 1..MaxTime
    PROVE  /\ SettingsOK'
           /\ \A timestamp \in Nat : timestamp < now => SettingsSame(timestamp)
           /\ UNCHANGED <<now, feed, counted>>
<1> USE DEF SettingsOK
<1>1. ASSUME NEW t \in PowerTokens, NEW hops \in Hops, setTokenHops(t, hops)
      PROVE  /\ SettingsOK'
             /\ \A timestamp \in Nat : timestamp < now => SettingsSame(timestamp)
             /\ UNCHANGED <<now, feed, counted>>
  <2> DEFINE pushed == Push(tokenHops[t], now, hops)
  <2>1. /\ TraceOK(pushed, Hops)
        /\ \A timestamp \in Nat : timestamp < now =>
              ReadsSame(tokenHops[t], pushed, timestamp)
    BY <1>1, SetKeeps DEF setTokenHops
  <2>2. /\ tokenHops' = [tokenHops EXCEPT ![t] = pushed]
        /\ now' = now /\ tokenWeight' = tokenWeight /\ vaultWeight' = vaultWeight
        /\ UNCHANGED <<now, feed, counted>>
    BY <1>1 DEF setTokenHops
  <2> HIDE DEF pushed
  <2>3. tokenHops' \in [PowerTokens -> Traces(1..MaxTime, Hops)]
    BY <2>1, <2>2 DEF TraceOK
  <2>4. /\ tokenHops'[t] = pushed
        /\ \A u \in PowerTokens : u # t => tokenHops'[u] = tokenHops[u]
    BY <2>2
  <2>5. SettingsOK'
    BY <2>1, <2>2, <2>3, <2>4 DEF TraceOK
  <2> QED BY <2>1, <2>2, <2>4, <2>5 DEF SettingsSame, ReadsSame
<1>2. ASSUME NEW t \in PowerTokens, NEW weight \in TokenWeights, setTokenWeight(t, weight)
      PROVE  /\ SettingsOK'
             /\ \A timestamp \in Nat : timestamp < now => SettingsSame(timestamp)
             /\ UNCHANGED <<now, feed, counted>>
  <2> DEFINE pushed == Push(tokenWeight[t], now, weight)
  <2>1. /\ TraceOK(pushed, TokenWeights)
        /\ \A timestamp \in Nat : timestamp < now =>
              ReadsSame(tokenWeight[t], pushed, timestamp)
    BY <1>2, SetKeeps DEF setTokenWeight
  <2>2. /\ tokenWeight' = [tokenWeight EXCEPT ![t] = pushed]
        /\ now' = now /\ tokenHops' = tokenHops /\ vaultWeight' = vaultWeight
        /\ UNCHANGED <<now, feed, counted>>
    BY <1>2 DEF setTokenWeight
  <2> HIDE DEF pushed
  <2>3. tokenWeight' \in [PowerTokens -> Traces(1..MaxTime, TokenWeights)]
    BY <2>1, <2>2 DEF TraceOK
  <2>4. /\ tokenWeight'[t] = pushed
        /\ \A u \in PowerTokens : u # t => tokenWeight'[u] = tokenWeight[u]
    BY <2>2
  <2>5. SettingsOK'
    BY <2>1, <2>2, <2>3, <2>4 DEF TraceOK
  <2> QED BY <2>1, <2>2, <2>4, <2>5 DEF SettingsSame, ReadsSame
<1>3. ASSUME NEW v \in PowerVaults, NEW weight \in VaultWeights, setVaultWeight(v, weight)
      PROVE  /\ SettingsOK'
             /\ \A timestamp \in Nat : timestamp < now => SettingsSame(timestamp)
             /\ UNCHANGED <<now, feed, counted>>
  <2> DEFINE pushed == Push(vaultWeight[v], now, weight)
  <2>1. /\ TraceOK(pushed, VaultWeights)
        /\ \A timestamp \in Nat : timestamp < now =>
              ReadsSame(vaultWeight[v], pushed, timestamp)
    BY <1>3, SetKeeps DEF setVaultWeight
  <2>2. /\ vaultWeight' = [vaultWeight EXCEPT ![v] = pushed]
        /\ now' = now /\ tokenHops' = tokenHops /\ tokenWeight' = tokenWeight
        /\ UNCHANGED <<now, feed, counted>>
    BY <1>3 DEF setVaultWeight
  <2> HIDE DEF pushed
  <2>3. vaultWeight' \in [PowerVaults -> Traces(1..MaxTime, VaultWeights)]
    BY <2>1, <2>2 DEF TraceOK
  <2>4. /\ vaultWeight'[v] = pushed
        /\ \A u \in PowerVaults : u # v => vaultWeight'[u] = vaultWeight[u]
    BY <2>2
  <2>5. SettingsOK'
    BY <2>1, <2>2, <2>3, <2>4 DEF TraceOK
  <2> QED BY <2>1, <2>2, <2>4, <2>5 DEF SettingsSame, ReadsSame
<1> QED BY <1>1, <1>2, <1>3 DEF CalcSet

(* What the settings say at a time, and at the present.                    *)
LEMMA SettingsReads ==
    ASSUME SettingsOK, NEW vault \in PowerVaults, NEW timestamp \in Nat
    PROVE  LET token == Collateral[vault]
           IN  /\ token \in PowerTokens
               /\ DynamicHops(getTokenHopsAt(token, timestamp)) \in Seq(Hop)
               /\ getTokenWeightAt(token, timestamp)
                    = UpperLookupRecent(tokenWeight[token], timestamp, DefaultTokenWeight)
               /\ getVaultWeightAt(vault, timestamp)
                    = UpperLookupRecent(vaultWeight[vault], timestamp, DefaultVaultWeight)
<1> DEFINE token == Collateral[vault]
           hops == getTokenHopsAt(token, timestamp)
<1>1. token \in PowerTokens
  BY CalcAssumption
<1> HIDE DEF token
<1>2. /\ tokenHops[token] \in Traces(1..MaxTime, Hops)
      /\ tokenWeight[token] \in Traces(1..MaxTime, TokenWeights)
      /\ vaultWeight[vault] \in Traces(1..MaxTime, VaultWeights)
  BY <1>1 DEF SettingsOK
<1>3. hops \in Hops \cup {NoHops}
  BY <1>2, TimesAreKeys, LookupType DEF getTokenHopsAt
<1> HIDE DEF hops
<1>4. hops[1] \in Hop \cup {NoHop} /\ hops[2] \in Hop \cup {NoHop}
  BY <1>3, CalcAssumption DEF NoHops
<1>5. DynamicHops(hops) \in Seq(Hop)
  <2> DEFINE one == IF hops[1] = NoHop THEN <<>> ELSE <<hops[1]>>
             two == IF hops[2] = NoHop THEN <<>> ELSE <<hops[2]>>
  <2>1. one \in Seq(Hop) /\ two \in Seq(Hop)
    BY <1>4
  <2>2. DynamicHops(hops) = one \o two
    BY DEF DynamicHops
  <2> HIDE DEF one, two
  <2> QED BY <2>1, <2>2
<1>6. getTokenWeightAt(token, timestamp)
        = UpperLookupRecent(tokenWeight[token], timestamp, DefaultTokenWeight)
  BY <1>2, TimesAreKeys, FoundIsLookup DEF getTokenWeightAt
<1>7. getVaultWeightAt(vault, timestamp)
        = UpperLookupRecent(vaultWeight[vault], timestamp, DefaultVaultWeight)
  BY <1>2, TimesAreKeys, FoundIsLookup DEF getVaultWeightAt
<1> QED BY <1>1, <1>5, <1>6, <1>7 DEF token, hops

(* At the present the settings say their latest values.                    *)
LEMMA SettingsNow ==
    ASSUME SettingsOK, NEW vault \in PowerVaults, now \in Nat
    PROVE  LET token == Collateral[vault]
           IN  /\ getTokenHopsAt(token, now) = getTokenHops(token)
               /\ getTokenWeightAt(token, now) = getTokenWeight(token)
               /\ getVaultWeightAt(vault, now) = getVaultWeight(vault)
<1> DEFINE token == Collateral[vault]
<1>1. token \in PowerTokens
  BY CalcAssumption
<1> HIDE DEF token
<1>2. /\ TraceOK(tokenHops[token], Hops)
      /\ TraceOK(tokenWeight[token], TokenWeights)
      /\ TraceOK(vaultWeight[vault], VaultWeights)
  BY <1>1 DEF SettingsOK
<1>3. ASSUME NEW trace, NEW V, TraceOK(trace, V), NEW zero
      PROVE  UpperLookupRecent(trace, now, zero) = Latest(trace, zero)
  BY <1>3, TimesAreKeys, LookupLast DEF TraceOK
<1> QED BY <1>2, <1>3, SettingsReads DEF token, getTokenHopsAt, getTokenHops,
             getTokenWeight, getVaultWeight

-----------------------------------------------------------------------------
(* The power at a time, from the rounds and settings of then.              *)
HopPriceBy(hop, timestamp) ==
    PriceOf(hop.aggregator, RoundBy(hop.aggregator, timestamp), timestamp, hop)

PriceBy(hops, timestamp) ==
    PriceThrough([i \in 1..Len(hops) |-> HopPriceBy(hops[i], timestamp)])

PowerBy(vault, timestamp) ==
    LET token == Collateral[vault]
    IN  Power(vault, Stake,
              PriceBy(DynamicHops(getTokenHopsAt(token, timestamp)), timestamp),
              getTokenWeightAt(token, timestamp) * getVaultWeightAt(vault, timestamp))

AllClear(vault, timestamp) ==
    \A a \in AggregatorsAt(vault, timestamp) : PhasesClear(a, timestamp)

(* The hops of a vault go through its aggregators.                         *)
LEMMA HopsOfVault ==
    ASSUME SettingsOK, NEW vault \in PowerVaults, NEW timestamp \in Nat
    PROVE  LET hops == DynamicHops(getTokenHopsAt(Collateral[vault], timestamp))
           IN  /\ \A i \in 1..Len(hops) :
                     /\ hops[i].aggregator \in Aggregators
                     /\ hops[i].aggregator \in AggregatorsAt(vault, timestamp)
               /\ AggregatorsAt(vault, timestamp) \subseteq Aggregators
<1> DEFINE hops == DynamicHops(getTokenHopsAt(Collateral[vault], timestamp))
<1>1. hops \in Seq(Hop)
  BY SettingsReads
<1>2. AggregatorsAt(vault, timestamp) = {hops[i].aggregator : i \in 1..Len(hops)}
  BY DEF AggregatorsAt
<1> HIDE DEF hops
<1>3. \A i \in 1..Len(hops) : hops[i].aggregator \in Aggregators
  <2>1. \A i \in 1..Len(hops) : hops[i] \in Hop
    BY <1>1, ElementIn
  <2> QED BY <2>1 DEF Hop
<1> QED BY <1>2, <1>3 DEF hops

(* At a time that is not later than the present, and once every phase has  *)
(* its rounds, this is the power that the calculators return.              *)
LEMMA PriceAtIs ==
    ASSUME NEW hop, NEW timestamp \in Nat, now \in Nat, timestamp <= now,
           HasLatestRound(hop.aggregator)
    PROVE  getPriceAt(hop, timestamp) = HopPriceBy(hop, timestamp)
<1>1. ~(timestamp > now)
  OBVIOUS
<1>2. getRoundDataAt(hop.aggregator, timestamp) = RoundBy(hop.aggregator, timestamp)
  BY <1>1 DEF getRoundDataAt, RoundBy
<1> QED BY <1>2 DEF getPriceAt, HopPriceBy

(* The same of the power of a vault.                                       *)
LEMMA PowerAtIs ==
    ASSUME SettingsOK, NEW vault \in PowerVaults, NEW timestamp \in Nat,
           now \in Nat, timestamp <= now,
           \A a \in AggregatorsAt(vault, timestamp) : HasLatestRound(a)
    PROVE  stakeToVotingPowerAt(vault, Stake, timestamp) = PowerBy(vault, timestamp)
<1> DEFINE token == Collateral[vault]
           hops == DynamicHops(getTokenHopsAt(token, timestamp))
<1>1. \A i \in 1..Len(hops) :
         getPriceAt(hops[i], timestamp) = HopPriceBy(hops[i], timestamp)
  <2>1. \A i \in 1..Len(hops) : HasLatestRound(hops[i].aggregator)
    BY HopsOfVault
  <2> HIDE DEF hops
  <2> QED BY <2>1, PriceAtIs
<1>2. getTokenPriceAt(token, timestamp)
        = PriceThrough([i \in 1..Len(hops) |-> getPriceAt(hops[i], timestamp)])
  BY DEF getTokenPriceAt
<1> HIDE DEF hops
<1>3. getTokenPriceAt(token, timestamp) = PriceBy(hops, timestamp)
  <2>1. [i \in 1..Len(hops) |-> getPriceAt(hops[i], timestamp)]
          = [i \in 1..Len(hops) |-> HopPriceBy(hops[i], timestamp)]
    BY <1>1
  <2> QED BY <1>2, <2>1 DEF PriceBy
<1> QED BY <1>3 DEF stakeToVotingPowerAt, PowerBy, hops

(* At the present it is the power without a timestamp, while every phase   *)
(* of the price's aggregators has begun.                                   *)
LEMMA PowerNowIs ==
    ASSUME FeedOK, SettingsOK, NEW vault \in PowerVaults,
           \A a \in AggregatorsAt(vault, now) : HasLatestRound(a)
    PROVE  PowerBy(vault, now) = stakeToVotingPower(vault, Stake)
<1> DEFINE token == Collateral[vault]
           hops == DynamicHops(getTokenHopsAt(token, now))
<1>0. now \in Nat
  BY FeedAssumption DEF FeedOK
<1>1. \A i \in 1..Len(hops) : /\ hops[i].aggregator \in Aggregators
                              /\ HasLatestRound(hops[i].aggregator)
  BY <1>0, HopsOfVault
<1>2. /\ hops = DynamicHops(getTokenHops(token))
      /\ getTokenWeightAt(token, now) = getTokenWeight(token)
      /\ getVaultWeightAt(vault, now) = getVaultWeight(vault)
  BY <1>0, SettingsNow
<1>3. getTokenPrice(token)
        = PriceThrough([i \in 1..Len(hops) |-> getLatestPrice(hops[i])])
  BY <1>2 DEF getTokenPrice
<1> HIDE DEF hops
<1>4. ASSUME NEW i \in 1..Len(hops)
      PROVE  HopPriceBy(hops[i], now) = getLatestPrice(hops[i])
  <2> DEFINE a == hops[i].aggregator
  <2>1. RoundBy(a, now) = LatestRoundId(a) /\ HasLatestRound(a)
    BY <1>1, LatestFound
  <2>2. getLatestRoundData(a) = RoundBy(a, now)
    BY <2>1 DEF getLatestRoundData
  <2> QED BY <2>2 DEF HopPriceBy, getLatestPrice
<1>5. PriceBy(hops, now) = getTokenPrice(token)
  <2>1. [i \in 1..Len(hops) |-> getLatestPrice(hops[i])]
          = [i \in 1..Len(hops) |-> HopPriceBy(hops[i], now)]
    BY <1>4
  <2> QED BY <1>3, <2>1 DEF PriceBy
<1> QED BY <1>2, <1>5 DEF stakeToVotingPower, PowerBy, hops

(* The round at the present is the round served without a timestamp.       *)
LEMMA PresentFound ==
    ASSUME FeedOK, NEW a \in Aggregators
    PROVE  getRoundDataAt(a, now) = getLatestRoundData(a)
<1>1. now \in Nat /\ ~(now > now)
  BY FeedAssumption DEF FeedOK
<1>2. HasLatestRound(a) =>
         PhaseAt(a, now) # 0 /\ RoundBy(a, now) = LatestRoundId(a)
  BY LatestFound
<1> QED BY <1>1, <1>2 DEF getRoundDataAt, getLatestRoundData, RoundBy

(* And so is the power.                                                    *)
LEMMA PresentFollows == FeedOK /\ SettingsOK => PresentAgrees
<1> SUFFICES ASSUME FeedOK, SettingsOK PROVE PresentAgrees
  OBVIOUS
<1>1. \A a \in Aggregators : getRoundDataAt(a, now) = getLatestRoundData(a)
  BY PresentFound
<1>2. ASSUME NEW vault \in PowerVaults
      PROVE  stakeToVotingPowerAt(vault, Stake, now) = stakeToVotingPower(vault, Stake)
  <2> DEFINE token == Collateral[vault]
             hops == DynamicHops(getTokenHopsAt(token, now))
  <2>0. now \in Nat
    BY FeedAssumption DEF FeedOK
  <2>1. \A i \in 1..Len(hops) : hops[i].aggregator \in Aggregators
    BY <2>0, HopsOfVault
  <2>2. /\ hops = DynamicHops(getTokenHops(token))
        /\ getTokenWeightAt(token, now) = getTokenWeight(token)
        /\ getVaultWeightAt(vault, now) = getVaultWeight(vault)
    BY <2>0, SettingsNow
  <2>3. /\ getTokenPrice(token)
             = PriceThrough([i \in 1..Len(hops) |-> getLatestPrice(hops[i])])
        /\ getTokenPriceAt(token, now)
             = PriceThrough([i \in 1..Len(hops) |-> getPriceAt(hops[i], now)])
    BY <2>2 DEF getTokenPrice, getTokenPriceAt
  <2> HIDE DEF hops
  <2>4. \A i \in 1..Len(hops) : getPriceAt(hops[i], now) = getLatestPrice(hops[i])
    BY <1>1, <2>1 DEF getPriceAt, getLatestPrice
  <2>5. [i \in 1..Len(hops) |-> getPriceAt(hops[i], now)]
          = [i \in 1..Len(hops) |-> getLatestPrice(hops[i])]
    BY <2>4
  <2>6. getTokenPriceAt(token, now) = getTokenPrice(token)
    BY <2>3, <2>5
  <2> QED BY <2>2, <2>6 DEF stakeToVotingPowerAt, stakeToVotingPower
<1> QED BY <1>1, <1>2 DEF PresentAgrees

-----------------------------------------------------------------------------
(* What is added after a time leaves the power at it.                      *)
LEMMA HopPriceKept ==
    ASSUME FeedOK, FeedOK', NEW hop, hop.aggregator \in Aggregators,
           NEW timestamp \in Nat, GrowsAfter(hop.aggregator, timestamp),
           PhasesClear(hop.aggregator, timestamp)'
    PROVE  HopPriceBy(hop, timestamp)' = HopPriceBy(hop, timestamp)
<1>1. PICK a, r : a = hop.aggregator /\ r = RoundBy(a, timestamp)
  OBVIOUS
<1>2. /\ RoundBy(a, timestamp)' = r
      /\ r # NoRound => RoundData(a, RoundBy(a, timestamp))' = RoundData(a, r)
  BY <1>1, RoundKept
<1>3. r # NoRound => RoundData(a, r)' = RoundData(a, r)
  BY <1>2 DEF RoundData
<1>4. HopPriceBy(hop, timestamp) = PriceOf(a, r, timestamp, hop)
  BY <1>1 DEF HopPriceBy
<1>5. HopPriceBy(hop, timestamp)' = PriceOf(a, r, timestamp, hop)'
  BY <1>1, <1>2 DEF HopPriceBy, PriceOf
<1>6. PriceOf(a, r, timestamp, hop)' = PriceOf(a, r, timestamp, hop)
  BY <1>3 DEF PriceOf
<1> QED BY <1>2, <1>4, <1>5, <1>6

(* The hops at a time are kept by a later setting.                         *)
LEMMA HopsKept ==
    ASSUME SettingsOK, SettingsOK', NEW vault \in PowerVaults,
           NEW timestamp \in Nat, SettingsSame(timestamp)
    PROVE  /\ getTokenHopsAt(Collateral[vault], timestamp)'
                = getTokenHopsAt(Collateral[vault], timestamp)
           /\ AggregatorsAt(vault, timestamp)' = AggregatorsAt(vault, timestamp)
<1>1. Collateral[vault] \in PowerTokens
  BY CalcAssumption
<1>2. getTokenHopsAt(Collateral[vault], timestamp)'
        = getTokenHopsAt(Collateral[vault], timestamp)
  BY <1>1 DEF SettingsSame, ReadsSame, getTokenHopsAt
<1>3. AggregatorsAt(vault, timestamp)' = AggregatorsAt(vault, timestamp)
  BY <1>2 DEF AggregatorsAt
<1> QED BY <1>2, <1>3

(* What the settings say is also so after a step.                          *)
WeightsRead(vault, timestamp) ==
    /\ getTokenWeightAt(Collateral[vault], timestamp)
         = UpperLookupRecent(tokenWeight[Collateral[vault]], timestamp, DefaultTokenWeight)
    /\ getVaultWeightAt(vault, timestamp)
         = UpperLookupRecent(vaultWeight[vault], timestamp, DefaultVaultWeight)

(* The search of the library reads the weights as a lookup does.           *)
LEMMA WeightsAreRead ==
    SettingsOK => \A vault \in PowerVaults, timestamp \in Nat :
                     WeightsRead(vault, timestamp)
BY SettingsReads DEF WeightsRead

(* After a step as well.                                                   *)
LEMMA WeightsAreReadLater ==
    SettingsOK' => (\A vault \in PowerVaults, timestamp \in Nat :
                       WeightsRead(vault, timestamp))'
BY WeightsAreRead, PTL

(* The weights at a time are kept by a later setting.                      *)
LEMMA WeightsKept ==
    ASSUME SettingsOK, SettingsOK', NEW vault \in PowerVaults,
           NEW timestamp \in Nat, SettingsSame(timestamp)
    PROVE  /\ getTokenWeightAt(Collateral[vault], timestamp)'
                = getTokenWeightAt(Collateral[vault], timestamp)
           /\ getVaultWeightAt(vault, timestamp)' = getVaultWeightAt(vault, timestamp)
<1>1. Collateral[vault] \in PowerTokens
  BY CalcAssumption
<1>2. WeightsRead(vault, timestamp) /\ WeightsRead(vault, timestamp)'
  BY WeightsAreRead, WeightsAreReadLater
<1>3. /\ ReadsSame(tokenWeight[Collateral[vault]], tokenWeight'[Collateral[vault]], timestamp)
      /\ ReadsSame(vaultWeight[vault], vaultWeight'[vault], timestamp)
  BY <1>1 DEF SettingsSame
<1> QED BY <1>2, <1>3 DEF WeightsRead, ReadsSame

(* And so the power is, while the phases of its aggregators are clear.     *)
LEMMA PowerKept ==
    ASSUME FeedOK, FeedOK', SettingsOK, SettingsOK',
           NEW vault \in PowerVaults, NEW timestamp \in Nat,
           SettingsSame(timestamp),
           \A a \in Aggregators : GrowsAfter(a, timestamp),
           AllClear(vault, timestamp)'
    PROVE  /\ AllClear(vault, timestamp)
           /\ PowerBy(vault, timestamp)' = PowerBy(vault, timestamp)
<1>1. PICK hops : hops = DynamicHops(getTokenHopsAt(Collateral[vault], timestamp))
  OBVIOUS
<1>2. /\ DynamicHops(getTokenHopsAt(Collateral[vault], timestamp))' = hops
      /\ AggregatorsAt(vault, timestamp)' = AggregatorsAt(vault, timestamp)
      /\ AggregatorsAt(vault, timestamp) \subseteq Aggregators
      /\ \A i \in 1..Len(hops) :
            /\ hops[i].aggregator \in Aggregators
            /\ hops[i].aggregator \in AggregatorsAt(vault, timestamp)
  <2>1. DynamicHops(getTokenHopsAt(Collateral[vault], timestamp))' = hops
    BY <1>1, HopsKept DEF DynamicHops
  <2> QED BY <1>1, <2>1, HopsKept, HopsOfVault
<1>3. \A a \in AggregatorsAt(vault, timestamp) : PhasesClear(a, timestamp)'
  BY <1>2 DEF AllClear
<1>4. AllClear(vault, timestamp)
  BY <1>2, <1>3, RoundKept DEF AllClear
<1>5. ASSUME NEW i \in 1..Len(hops)
      PROVE  HopPriceBy(hops[i], timestamp)' = HopPriceBy(hops[i], timestamp)
  <2>1. PICK hop : hop = hops[i]
    OBVIOUS
  <2>2. /\ hop.aggregator \in Aggregators /\ GrowsAfter(hop.aggregator, timestamp)
        /\ PhasesClear(hop.aggregator, timestamp)'
    BY <1>2, <1>3, <2>1
  <2>3. HopPriceBy(hop, timestamp)' = HopPriceBy(hop, timestamp)
    BY <2>2, HopPriceKept
  <2> QED BY <2>1, <2>3
<1>6. PriceBy(hops, timestamp)' = PriceBy(hops, timestamp)
  <2>1. [i \in 1..Len(hops) |-> HopPriceBy(hops[i], timestamp)']
          = [i \in 1..Len(hops) |-> HopPriceBy(hops[i], timestamp)]
    BY <1>5
  <2> QED BY <2>1 DEF PriceBy
<1>7. PowerBy(vault, timestamp) =
        Power(vault, Stake, PriceBy(hops, timestamp),
              getTokenWeightAt(Collateral[vault], timestamp)
                 * getVaultWeightAt(vault, timestamp))
  BY <1>1 DEF PowerBy
<1>8. PowerBy(vault, timestamp)' =
        Power(vault, Stake, PriceBy(hops, timestamp)',
              getTokenWeightAt(Collateral[vault], timestamp)'
                 * getVaultWeightAt(vault, timestamp)')
  BY <1>2 DEF PowerBy, PriceBy
<1> QED BY <1>4, <1>6, <1>7, <1>8, WeightsKept

-----------------------------------------------------------------------------
(* The power counted at the end of a second, while the phases tell what    *)
(* the aggregators served then, is the power by the rounds and settings of *)
(* that second, whatever has been added since.                             *)
CountedOK ==
    \A vault \in PowerVaults :
        /\ counted[vault] = [timestamp \in 1..(now - 1) |-> counted[vault][timestamp]]
        /\ \A timestamp \in 1..(now - 1) :
              AllClear(vault, timestamp) =>
                 counted[vault][timestamp] = PowerBy(vault, timestamp)

CalcOK == FeedOK /\ SettingsOK /\ CountedOK

(* What appending to a list of any values leaves.                          *)
LEMMA AppendAny ==
    ASSUME NEW n \in Nat, NEW s, s = [i \in 1..n |-> s[i]], NEW e,
           NEW t, t = Append(s, e)
    PROVE  /\ t = [i \in 1..(n + 1) |-> t[i]]
           /\ \A i \in 1..n : t[i] = s[i]
           /\ t[n + 1] = e
<1> DEFINE S == {s[i] : i \in 1..n} \cup {e}
<1>1. s \in Seq(S) /\ Len(s) = n
  <2>1. PICK f : f = s
    OBVIOUS
  <2>2. s = [i \in 1..n |-> f[i]] /\ \A i \in 1..n : f[i] \in S
    BY <2>1
  <2> HIDE DEF S
  <2> QED BY <2>2
<1>2. e \in S
  OBVIOUS
<1> HIDE DEF S
<1>3. /\ t \in Seq(S) /\ Len(t) = n + 1 /\ t[n + 1] = e
      /\ \A i \in 1..n : t[i] = s[i]
  BY <1>1, <1>2
<1>4. t = [i \in 1..(n + 1) |-> t[i]]
  BY <1>3
<1> QED BY <1>3, <1>4

(* A step that leaves the time and the counted power.                      *)
LEMMA CountedStays ==
    ASSUME CalcOK, FeedOK', SettingsOK', now' = now, counted' = counted,
           \A timestamp \in Nat : timestamp < now => SettingsSame(timestamp),
           \A a \in Aggregators, timestamp \in Nat :
              timestamp < now => GrowsAfter(a, timestamp)
    PROVE  CountedOK'
<1>1. ASSUME NEW vault \in PowerVaults, NEW timestamp \in 1..(now - 1),
             AllClear(vault, timestamp)'
      PROVE  counted[vault][timestamp] = PowerBy(vault, timestamp)'
  <2>1. timestamp \in Nat /\ timestamp < now
    BY FeedAssumption DEF CalcOK, FeedOK
  <2>2. AllClear(vault, timestamp) /\ PowerBy(vault, timestamp)' = PowerBy(vault, timestamp)
    BY <1>1, <2>1, PowerKept DEF CalcOK
  <2> QED BY <2>2 DEF CalcOK, CountedOK
<1>2. ASSUME NEW vault \in PowerVaults
      PROVE  counted'[vault] = [timestamp \in 1..(now' - 1) |-> counted'[vault][timestamp]]
  BY DEF CalcOK, CountedOK
<1>3. \A vault \in PowerVaults, timestamp \in 1..(now - 1) :
         AllClear(vault, timestamp)' =>
            counted'[vault][timestamp] = PowerBy(vault, timestamp)'
  BY <1>1
<1> QED BY <1>2, <1>3 DEF CountedOK

(* Without a change of its phases an aggregator grows.                     *)
LEMMA FeedStays ==
    ASSUME FeedOK, UNCHANGED feed, NEW a \in Aggregators, NEW timestamp \in Nat
    PROVE  GrowsAfter(a, timestamp)
<1>1. /\ LatestPhase(a) \in Nat
      /\ \A p \in 1..LatestPhase(a) : Len(phases[a][p]) \in Nat
  BY FeedShape
<1>2. phases' = phases /\ adopted' = adopted
  BY DEF feed
<1>3. LatestPhase(a)' = LatestPhase(a)
  BY <1>2 DEF LatestPhase
<1> QED BY <1>1, <1>2, <1>3 DEF GrowsAfter

(* As time passes the phases stay well formed.                             *)
LEMMA FeedIsOlder ==
    ASSUME FeedOK, UNCHANGED feed, now' \in 1..MaxTime, now <= now'
    PROVE  FeedOK'
<1>1. now \in Nat /\ now' \in Nat
  BY FeedAssumption DEF FeedOK
<1>2. phases' = phases /\ adopted' = adopted
  BY DEF feed
<1>3. ASSUME NEW a \in Aggregators, NEW p \in 1..Len(phases[a])
      PROVE  PhaseOK(a, phases[a][p])' /\ adopted'[a][p] <= now'
  <2>1. PhaseOK(a, phases[a][p]) /\ adopted[a][p] <= now
    BY DEF FeedOK
  <2>2. adopted[a][p] \in Nat
    <3>1. adopted[a] \in Seq(1..MaxTime) /\ p \in 1..Len(adopted[a])
      BY DEF FeedOK
    <3>2. adopted[a][p] \in 1..MaxTime
      BY <3>1, ElementIn
    <3> QED BY <3>2, FeedAssumption
  <2>3. \A i \in 1..Len(phases[a][p]) : phases[a][p][i].updatedAt \in 1..now'
    BY <1>1, <2>1 DEF PhaseOK
  <2> QED BY <1>1, <1>2, <2>1, <2>2, <2>3 DEF PhaseOK
<1> QED BY <1>2, <1>3 DEF FeedOK

(* Once the phases are clear at the present, each has begun.               *)
LEMMA ClearNow ==
    ASSUME FeedOK, NEW a \in Aggregators, PhasesClear(a, now)
    PROVE  HasLatestRound(a)
<1>1. now \in Nat /\ LatestPhase(a) \in 1..LatestPhase(a)
  BY FeedShape, FeedAssumption DEF FeedOK
<1>2. adopted[a][LatestPhase(a)] <= now
  BY <1>1 DEF FeedOK, LatestPhase
<1>3. BegunBy(a, LatestPhase(a), now)
  BY <1>1, <1>2 DEF PhasesClear
<1> QED BY <1>1, <1>3, BegunMeans DEF HasLatestRound

(* A second ends: its power is counted, and is the power by its rounds.    *)
LEMMA TickKeeps ==
    ASSUME CalcOK, CalcTick
    PROVE  CalcOK'
<1>1. /\ now \in 1..MaxTime /\ now \in Nat /\ now' = now + 1 /\ now' \in 1..MaxTime
      /\ now' \in Nat /\ now <= now' /\ now' - 1 = now
      /\ UNCHANGED feed /\ UNCHANGED settings
  BY FeedAssumption DEF CalcOK, FeedOK, CalcTick
<1>2. FeedOK /\ SettingsOK /\ CountedOK
  BY DEF CalcOK
<1>3. FeedOK' /\ SettingsOK'
  BY <1>1, <1>2, FeedIsOlder, SettingsStay
<1>4. ASSUME NEW vault \in PowerVaults
      PROVE  /\ counted'[vault] = [timestamp \in 1..now |-> counted'[vault][timestamp]]
             /\ \A timestamp \in 1..(now - 1) :
                   counted'[vault][timestamp] = counted[vault][timestamp]
             /\ counted'[vault][now] = stakeToVotingPower(vault, Stake)
  <2>1. counted'[vault] = Append(counted[vault], stakeToVotingPower(vault, Stake))
    BY DEF CalcTick
  <2>2. counted[vault] = [timestamp \in 1..(now - 1) |-> counted[vault][timestamp]]
    BY <1>2 DEF CountedOK
  <2>3. now - 1 \in Nat /\ (now - 1) + 1 = now
    BY <1>1
  <2>4. PICK n, s, t, e : /\ n = now - 1 /\ s = counted[vault] /\ t = counted'[vault]
                          /\ e = stakeToVotingPower(vault, Stake)
    OBVIOUS
  <2>5. n \in Nat /\ n + 1 = now /\ s = [i \in 1..n |-> s[i]] /\ t = Append(s, e)
    BY <2>1, <2>2, <2>3, <2>4
  <2>6. /\ t = [i \in 1..(n + 1) |-> t[i]]
        /\ \A i \in 1..n : t[i] = s[i]
        /\ t[n + 1] = e
    BY <2>5, AppendAny
  <2> QED BY <2>4, <2>5, <2>6
<1>5. ASSUME NEW vault \in PowerVaults, NEW timestamp \in 1..now,
             AllClear(vault, timestamp)'
      PROVE  counted'[vault][timestamp] = PowerBy(vault, timestamp)'
  <2>1. timestamp \in Nat
    BY <1>1
  <2>2. AllClear(vault, timestamp) /\ PowerBy(vault, timestamp)' = PowerBy(vault, timestamp)
    BY <1>1, <1>2, <1>3, <1>5, <2>1, PowerKept, SettingsKept, FeedStays
  <2>3. CASE timestamp \in 1..(now - 1)
    BY <1>2, <1>4, <2>2, <2>3 DEF CountedOK
  <2>4. CASE timestamp \notin 1..(now - 1)
    <3>1. timestamp = now
      BY <1>1, <2>4
    <3>2. \A a \in AggregatorsAt(vault, now) : HasLatestRound(a)
      BY <1>1, <1>2, <2>2, <3>1, ClearNow, HopsOfVault DEF AllClear
    <3>3. PowerBy(vault, now) = stakeToVotingPower(vault, Stake)
      BY <1>2, <3>2, PowerNowIs
    <3> QED BY <1>4, <2>2, <3>1, <3>3
  <2> QED BY <2>3, <2>4
<1>6. CountedOK'
  BY <1>1, <1>4, <1>5 DEF CountedOK
<1> QED BY <1>3, <1>6 DEF CalcOK

(* At first nothing is set and nothing is counted.                         *)
LEMMA CalcStarts == CalcInit => CalcOK
<1> SUFFICES ASSUME CalcInit PROVE CalcOK
  OBVIOUS
<1>1. FeedOK /\ now = 1
  BY FeedStarts DEF CalcInit, FeedInit
<1>2. SettingsOK
  <2>1. \A V : <<>> \in Traces(1..MaxTime, V)
    BY DEF Traces, Sorted
  <2> QED BY <2>1 DEF CalcInit, SettingsOK, TraceOK
<1>3. CountedOK
  <2>1. 1..(now - 1) = {}
    BY <1>1
  <2>2. \A vault \in PowerVaults : counted[vault] = <<>>
    BY DEF CalcInit
  <2>3. ASSUME NEW vault \in PowerVaults
        PROVE  counted[vault] = [timestamp \in 1..(now - 1) |-> counted[vault][timestamp]]
    <3>1. <<>> \in Seq({}) /\ Len(<<>>) = 0
      OBVIOUS
    <3>2. <<>> = [timestamp \in 1..0 |-> <<>>[timestamp]]
      BY <3>1
    <3> QED BY <1>1, <2>2, <3>2
  <2> QED BY <2>1, <2>3 DEF CountedOK
<1> QED BY <1>1, <1>2, <1>3 DEF CalcOK

(* Every step keeps the invariant.                                         *)
LEMMA CalcKeeps == CalcOK /\ [CalcNext]_calcVars => CalcOK'
<1> SUFFICES ASSUME CalcOK, [CalcNext]_calcVars PROVE CalcOK'
  OBVIOUS
<1>1. FeedOK /\ SettingsOK /\ now \in 1..MaxTime /\ now \in Nat /\ now <= now
  BY FeedAssumption DEF CalcOK, FeedOK
<1>2. CASE CalcFeed
  <2>1. now' = now /\ counted' = counted /\ UNCHANGED settings /\ FeedNext
    BY <1>2 DEF CalcFeed
  <2>2. /\ FeedOK'
        /\ \A a \in Aggregators, timestamp \in Nat :
              timestamp < now => GrowsAfter(a, timestamp)
    BY <1>1, <2>1, FeedKeeps
  <2>3. SettingsOK'
    BY <1>1, <2>1, SettingsStay
  <2>4. \A timestamp : SettingsSame(timestamp)
    BY <1>1, <2>1, SettingsKept
  <2> QED BY <2>1, <2>2, <2>3, <2>4, CountedStays DEF CalcOK
<1>3. CASE CalcSet
  <2>1. /\ SettingsOK' /\ now' = now /\ counted' = counted /\ UNCHANGED feed
        /\ \A timestamp \in Nat : timestamp < now => SettingsSame(timestamp)
    BY <1>1, <1>3, SettingsSet
  <2>2. FeedOK'
    BY <1>1, <2>1, FeedIsOlder
  <2>3. \A a \in Aggregators, timestamp \in Nat : GrowsAfter(a, timestamp)
    BY <1>1, <2>1, FeedStays
  <2> QED BY <2>1, <2>2, <2>3, CountedStays DEF CalcOK
<1>4. CASE CalcTick
  BY <1>4, TickKeeps
<1>5. CASE UNCHANGED calcVars
  <2>1. /\ now' = now /\ counted' = counted /\ UNCHANGED feed /\ UNCHANGED settings
    BY <1>5 DEF calcVars, feed
  <2>2. FeedOK' /\ SettingsOK'
    BY <1>1, <2>1, FeedIsOlder, SettingsStay
  <2>3. /\ \A a \in Aggregators, timestamp \in Nat : GrowsAfter(a, timestamp)
        /\ \A timestamp : SettingsSame(timestamp)
    BY <1>1, <2>1, FeedStays, SettingsKept
  <2> QED BY <2>1, <2>2, <2>3, CountedStays DEF CalcOK
<1> QED BY <1>2, <1>3, <1>4, <1>5 DEF CalcNext

(* The power read at a past time is the power counted then.                *)
LEMMA PastFollows == CalcOK => PastPowerIsFinal
<1> SUFFICES ASSUME CalcOK, NEW vault \in PowerVaults, NEW timestamp \in 1..(now - 1),
                    \A a \in AggregatorsAt(vault, timestamp) : ~PhaseUnclear(a, timestamp)
             PROVE  stakeToVotingPowerAt(vault, Stake, timestamp)
                      = counted[vault][timestamp]
  BY DEF PastPowerIsFinal
<1>1. now \in Nat /\ timestamp \in Nat /\ timestamp <= now
  BY FeedAssumption DEF CalcOK, FeedOK
<1>2. \A a \in AggregatorsAt(vault, timestamp) : a \in Aggregators
  BY <1>1, HopsOfVault DEF CalcOK
<1>3. ASSUME NEW a \in AggregatorsAt(vault, timestamp)
      PROVE  HasLatestRound(a) /\ PhasesClear(a, timestamp)
  <2>1. \A p \in 1..LatestPhase(a) : adopted[a][p] \in Nat
    BY <1>2, FeedIsRead DEF CalcOK, FeedReads
  <2> QED BY <1>1, <2>1 DEF PhaseUnclear, PhasesClear
<1>4. AllClear(vault, timestamp)
  BY <1>3 DEF AllClear
<1>5. counted[vault][timestamp] = PowerBy(vault, timestamp)
  BY <1>4 DEF CalcOK, CountedOK
<1> QED BY <1>1, <1>3, <1>5, PowerAtIs DEF CalcOK

(* The inductive invariant of the calculators: the phases and rounds of    *)
(* every aggregator are in order, the settings are traces up to the        *)
(* present, and the power counted at the end of every second is the power  *)
(* by the rounds and settings of that second.                              *)
THEOREM CalcInvariant == CalcSpec => []CalcOK
<1>1. CalcInit => CalcOK
  BY CalcStarts
<1>2. CalcOK /\ [CalcNext]_calcVars => CalcOK'
  BY CalcKeeps
<1> QED BY <1>1, <1>2, PTL DEF CalcSpec

(* getRoundDataAt answers with the last round not later than the           *)
(* timestamp, of the latest phase begun by then, for any number of         *)
(* phases, rounds and widths of the identifier: the walk, the doubling     *)
(* and the halving of the library lose no round.                           *)
THEOREM RoundIsLastHolds == CalcSpec => []RoundIsLast
<1>1. CalcOK => RoundIsLast
  BY RoundFound DEF CalcOK
<1> QED BY <1>1, CalcInvariant, PTL

(* A price, and a voting power, at the present timestamp is the price, or  *)
(* the power, without one, whatever the hops, weights and rounds.          *)
THEOREM PresentAgreesHolds == CalcSpec => []PresentAgrees
<1>1. CalcOK => PresentAgrees
  BY PresentFollows DEF CalcOK
<1> QED BY <1>1, CalcInvariant, PTL

(* The power of a stake at a past timestamp is the power it had when that  *)
(* second ended, whatever the owner has set and the aggregators have       *)
(* posted since, unless a phase of an aggregator of its price is unclear.  *)
THEOREM PastPowerIsFinalHolds == CalcSpec => []PastPowerIsFinal
<1>1. CalcOK => PastPowerIsFinal
  BY PastFollows
<1> QED BY <1>1, CalcInvariant, PTL
=============================================================================
