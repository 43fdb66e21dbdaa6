------------------------------- MODULE Slashing -------------------------------
(***************************************************************************)
(* Slashing of the vaults of a voting power provider:                      *)
(* src/src/modules/voting-power/extensions/BaseSlashing.sol and its        *)
(* logic, over the history of slashing data that                           *)
(* VotingPowerProviderLogic.sol keeps.  The slashers of the core           *)
(* contracts are external: they refuse a capture that is not in the past   *)
(* or has left the vault's epoch, and a request can be executed once its   *)
(* veto period is over.  Amounts and hints are left out; calls that        *)
(* revert or report a stale request change nothing and are no steps.       *)
(***************************************************************************)
EXTENDS VotingPowerHandlers, Checkpoints

CONSTANTS Info,         \* the vaults: name -> VaultInfo
          SlashingData, \* inputs of setSlashingData: {<<requireSlasher, min>>}
          Slashers,     \* inputs of setSlasher
          MaxTime, MaxRequests  \* bounds

ASSUME SlashingAssumption ==
    /\ Info \in [Vaults -> VaultInfo]
    /\ SlashingData \subseteq BOOLEAN \X Durations
    /\ MaxTime \in Nat \ {0} /\ MaxRequests \in Nat

VARIABLES slashingData,  \* Trace208 of <<requireSlasher, minVaultEpochDuration>>
          slasher,       \* BaseSlashingStorage: who may slash
          requests,      \* VetoSlasher.slashRequests of the vaults' slashers
          slashes,       \* history: the slashes that took place
          now

vars == <<slashingData, slasher, requests, slashes, now>>

Request == [vault : Vaults, captureTimestamp : Nat, requestedAt : Nat, completed : BOOLEAN]

Slash == [vault : Vaults, captureTimestamp : Nat, at : Nat]

(* Mutant: the latest data, whatever the capture.                          *)
getSlashingDataAtLatest(timestamp) == Latest(slashingData, <<FALSE, 0>>)

getSlashingDataAt(timestamp) == UpperLookupRecent(slashingData, timestamp, <<FALSE, 0>>)

requireSlasherAt(timestamp) == getSlashingDataAt(timestamp)[1]

minVaultEpochDurationAt(timestamp) == getSlashingDataAt(timestamp)[2]

vetoDuration(v) == IF Info[v].slasher = "VETO" THEN Info[v].vetoDuration ELSE 0

(* Mutant: the veto period to come does not count.                         *)
RequestIsFreshVeto(v, timestamp) ==
    now - timestamp <= minVaultEpochDurationAt(timestamp)

RequestIsFresh(v, timestamp) ==
    (now - timestamp) + vetoDuration(v) <= minVaultEpochDurationAt(timestamp)

ExecutionIsFresh(timestamp) ==
    now - timestamp <= minVaultEpochDurationAt(timestamp)

(* The core slasher's own limits on a capture timestamp.                   *)
CoreAccepts(v, timestamp) ==
    /\ timestamp < now
    /\ (now - timestamp) + vetoDuration(v) <= Info[v].epochDuration

(* Mutant: the data are recorded a second too early.                       *)
SlashingDataFromBefore == IF now = 1 THEN 1 ELSE now - 1

SlashingDataFrom == now

-----------------------------------------------------------------------------
Init ==
    /\ now = 1
    /\ \E data \in SlashingData : slashingData = Push(<< >>, SlashingDataFrom, data)
    /\ slasher \in Slashers
    /\ requests = << >>
    /\ slashes = {}

setSlashingData ==
    /\ \E data \in SlashingData :
          slashingData' = Push(slashingData, SlashingDataFrom, data)
    /\ UNCHANGED <<slasher, requests, slashes, now>>

setSlasher ==
    /\ slasher' \in Slashers
    /\ UNCHANGED <<slashingData, requests, slashes, now>>

(* What the contract lets its slasher slash, whoever that is.              *)
Slashable(v, timestamp) ==
    /\ Info[v].slasher \in {"INSTANT", "VETO"}
    /\ requireSlasherAt(timestamp)
    /\ RequestIsFresh(v, timestamp)

(* slashVault, up to the call to the vault's slasher.                      *)
MaySlash(caller, v, timestamp) == caller = slasher /\ Slashable(v, timestamp)

slashVaultInstant ==
    /\ \E caller \in Slashers, v \in Vaults, timestamp \in 0 .. now :
          /\ Info[v].slasher = "INSTANT"
          /\ MaySlash(caller, v, timestamp)
          /\ CoreAccepts(v, timestamp)
          /\ slashes' = slashes \union
                {[vault |-> v, captureTimestamp |-> timestamp, at |-> now]}
    /\ UNCHANGED <<slashingData, slasher, requests, now>>

slashVaultVeto ==
    /\ Len(requests) < MaxRequests
    /\ \E caller \in Slashers, v \in Vaults, timestamp \in 0 .. now :
          /\ Info[v].slasher = "VETO"
          /\ MaySlash(caller, v, timestamp)
          /\ CoreAccepts(v, timestamp)
          /\ requests' = Append(requests,
                [vault |-> v, captureTimestamp |-> timestamp,
                 requestedAt |-> now, completed |-> FALSE])
    /\ UNCHANGED <<slashingData, slasher, slashes, now>>

(* VetoSlasher.executeSlash: after the veto period, within the epoch.      *)
CoreExecutes(r) ==
    /\ ~r.completed
    /\ r.requestedAt + vetoDuration(r.vault) <= now
    /\ now - r.captureTimestamp <= Info[r.vault].epochDuration

executeSlashVault ==
    /\ \E caller \in Slashers, i \in DOMAIN requests :
          /\ caller = slasher
          /\ ExecutionIsFresh(requests[i].captureTimestamp)
          /\ CoreExecutes(requests[i])
          /\ requests' = [requests EXCEPT ![i].completed = TRUE]
          /\ slashes' = slashes \union
                {[vault |-> requests[i].vault,
                  captureTimestamp |-> requests[i].captureTimestamp, at |-> now]}
    /\ UNCHANGED <<slashingData, slasher, now>>

(* A resolver of the core contracts vetoes a request in its veto period.   *)
VetoSlash ==
    /\ \E i \in DOMAIN requests :
          /\ ~requests[i].completed
          /\ now < requests[i].requestedAt + vetoDuration(requests[i].vault)
          /\ requests' = [requests EXCEPT ![i].completed = TRUE]
    /\ UNCHANGED <<slashingData, slasher, slashes, now>>

Tick ==
    /\ now < MaxTime
    /\ now' = now + 1
    /\ UNCHANGED <<slashingData, slasher, requests, slashes>>

Next ==
    \/ setSlashingData
    \/ setSlasher
    \/ slashVaultInstant
    \/ slashVaultVeto
    \/ executeSlashVault
    \/ VetoSlash
    \/ Tick

Spec == Init /\ [][Next]_vars

-----------------------------------------------------------------------------
(* Properties.                                                             *)

(* The state has its types, and the slashing data in force are the last    *)
(* recorded, never ones to come.                                           *)
TypeOK ==
    /\ Sorted(slashingData) /\ LastKey(slashingData) \in 1 .. now
    /\ \A i \in DOMAIN slashingData : slashingData[i].value \in SlashingData
    /\ slasher \in Slashers
    /\ requests \in Seq(Request)
    /\ slashes \subseteq Slash
    /\ now \in 1 .. MaxTime

(* Every slash that took place, and every request made, was of a time at   *)
(* which slashing was required, and no later than the minimum epoch of     *)
(* that time allows - as the recorded history says now, after all later    *)
(* changes of the slashing data.                                           *)
SlashedWhenRequired ==
    /\ \A s \in slashes :
          /\ requireSlasherAt(s.captureTimestamp)
          /\ s.at - s.captureTimestamp <= minVaultEpochDurationAt(s.captureTimestamp)
    /\ \A i \in DOMAIN requests : requireSlasherAt(requests[i].captureTimestamp)

(* A request that was accepted can be executed: when its veto period ends, *)
(* neither this contract nor the slasher will find it stale.               *)
RequestsCanBeExecuted ==
    \A i \in DOMAIN requests :
        LET r == requests[i]
            deadline == r.requestedAt + vetoDuration(r.vault)
        IN  /\ deadline - r.captureTimestamp <= minVaultEpochDurationAt(r.captureTimestamp)
            /\ deadline - r.captureTimestamp <= Info[r.vault].epochDuration

(* What may be slashed of the past is decided by its own time: no call     *)
(* (setSlashingData and setSlasher above all) exposes the stake of a past  *)
(* capture to a slash nor takes it out of reach, and the passing of time   *)
(* only ever takes it out of reach.                                        *)
PastSlashabilityIsFinal ==
    [][\A v \in Vaults, timestamp \in 1 .. now - 1 :
          /\ Slashable(v, timestamp)' => Slashable(v, timestamp)
          /\ now' = now => (Slashable(v, timestamp) => Slashable(v, timestamp)')]_vars
=============================================================================
