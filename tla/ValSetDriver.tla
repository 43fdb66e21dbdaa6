------------------------------ MODULE ValSetDriver ------------------------------
(***************************************************************************)
(* src/src/modules/valset-driver/ValSetDriver.sol: the configuration from  *)
(* which validator sets are derived, with its history, on top of the       *)
(* epochs of EpochManager, which it inherits.  Ten parameters are single   *)
(* values; voting power providers, settlements and quorum thresholds are   *)
(* sets that hold one element per chain or key tag.  The off-chain relay   *)
(* reads getConfigAt at the start of an epoch.                             *)
(***************************************************************************)
EXTENDS EpochManager

CONSTANTS Inputs,         \* parameter -> the values its setter is called with
          Initial,        \* parameter -> its value in the init params
          Items,          \* set -> the elements [group, item] it is called with
          ItemWidth,      \* 2^160 or 2^248: what an item is packed into
          MAX_QUORUM_THRESHOLD

VARIABLES params,   \* parameter -> trace of its values
          sets,     \* set -> trace of its elements, serialized
          isAdded   \* set -> group -> is one of its elements in the set

configuration == <<params, sets, isAdded>>
driverVars == <<vars, configuration>>

Counts == {"numAggregators", "numCommitters", "committerSlotDuration", "maxValidatorsCount"}

Params == Counts \union {"keysProvider", "maxVotingPower", "minInclusionVotingPower",
                         "requiredKeyTags", "requiredHeaderKeyTag", "verificationType"}

CrossChainSets == {"votingPowerProviders", "settlements"}

SetNames == CrossChainSets \union {"quorumThresholds"}

TOTAL_KEY_TAGS == 128

Groups(name) == {element.group : element \in Items[name]}

ASSUME DriverAssumption ==
    /\ DOMAIN Inputs = Params /\ DOMAIN Initial = Params /\ DOMAIN Items = SetNames
    /\ ItemWidth \in Nat /\ MAX_QUORUM_THRESHOLD \in Nat
    /\ \A name \in SetNames : \A element \in Items[name] :
          /\ element = [group |-> element.group, item |-> element.item]
          /\ element.group \in Nat /\ element.item \in 0 .. ItemWidth - 1

-----------------------------------------------------------------------------
(* Elements are packed with the chain or key tag above the item.           *)
Serialize(element) == element.group * ItemWidth + element.item

Deserialize(packed) == [group |-> packed \div ItemWidth, item |-> packed % ItemWidth]

_validateCrossChainAddress(element) == element.group # 0 /\ element.item # 0

validateKeyTag(tag) == tag < TOTAL_KEY_TAGS

(* What each setter checks of its argument; requiredKeyTags is the array,  *)
(* which serialize refuses when a tag repeats.                             *)
IsValid(name, value) ==
    CASE name \in Counts -> value # 0
      [] name = "keysProvider" -> _validateCrossChainAddress(value)
      [] name = "requiredHeaderKeyTag" -> validateKeyTag(value)
      [] name = "requiredKeyTags" ->
            /\ \A i \in DOMAIN value : validateKeyTag(value[i])
            /\ \A i, j \in DOMAIN value : value[i] = value[j] => i = j
      [] OTHER -> TRUE

IsValidElement(name, element) ==
    IF name \in CrossChainSets THEN _validateCrossChainAddress(element)
    ELSE validateKeyTag(element.group) /\ element.item <= MAX_QUORUM_THRESHOLD

(* What an empty trace is read as.                                         *)
NoValue(name) ==
    CASE name = "keysProvider" -> Deserialize(0)
      [] name = "requiredKeyTags" -> << >>
      [] OTHER -> 0

At(name, timestamp) == UpperLookupRecent(params[name], timestamp, NoValue(name))

MembersAt(name, timestamp) ==
    {Deserialize(packed) : packed \in UpperLookupRecent(sets[name], timestamp, {})}

getConfigAt(timestamp) ==
    <<[name \in Params |-> At(name, timestamp)],
      [name \in SetNames |-> MembersAt(name, timestamp)]>>

-----------------------------------------------------------------------------
OnePerGroup(elements) ==
    \A e, f \in elements : e.group = f.group => e = f

(* What the loops of the initializer accept.                               *)
Lists(name) ==
    {elements \in SUBSET {e \in Items[name] : IsValidElement(name, e)} : OnePerGroup(elements)}

DriverInit ==
    /\ Init
    /\ \A name \in Params : IsValid(name, Initial[name])
    /\ params = [name \in Params |-> Push(<< >>, now, Initial[name])]
    /\ \E providers \in Lists("votingPowerProviders"),
          settlements \in Lists("settlements"),
          thresholds \in Lists("quorumThresholds") :
          LET initial == [votingPowerProviders |-> providers,
                          settlements |-> settlements,
                          quorumThresholds |-> thresholds]
          IN  /\ sets = [name \in SetNames |->
                            IF initial[name] = {} THEN << >>
                            ELSE Push(<< >>, now, {Serialize(e) : e \in initial[name]})]
              /\ isAdded = [name \in SetNames |-> [group \in Groups(name) |->
                                \E e \in initial[name] : e.group = group]]

(* Mutant: the history keeps its last time.                                *)
SetValueInPlace(trace, value) ==
    Push(trace, IF trace = << >> THEN now ELSE LastKey(trace), value)

SetValue(trace, value) == Push(trace, now, value)

(* setNumAggregators, setKeysProvider and the eight other setters.         *)
Set(name) ==
    /\ \E value \in Inputs[name] :
          /\ IsValid(name, value)
          /\ params' = [params EXCEPT ![name] = SetValue(@, value)]
    /\ UNCHANGED <<vars, sets, isAdded>>

Present(name) == Latest(sets[name], {})

(* Mutant: only the very same element is refused.                          *)
CanAddAnother(name, element) ==
    IsValidElement(name, element) /\ Serialize(element) \notin Present(name)

CanAdd(name, element) ==
    IsValidElement(name, element) /\ ~isAdded[name][element.group]

CanRemove(name, element) == Serialize(element) \in Present(name)

(* addVotingPowerProvider, addSettlement, addQuorumThreshold.              *)
Add(name) ==
    /\ \E element \in Items[name] :
          /\ CanAdd(name, element)
          /\ isAdded' = [isAdded EXCEPT ![name][element.group] = TRUE]
          /\ sets' = [sets EXCEPT ![name] =
                         SetValue(@, Present(name) \union {Serialize(element)})]
    /\ UNCHANGED <<vars, params>>

(* removeVotingPowerProvider, removeSettlement, removeQuorumThreshold.     *)
Remove(name) ==
    /\ \E element \in Items[name] :
          /\ CanRemove(name, element)
          /\ isAdded' = [isAdded EXCEPT ![name][element.group] = FALSE]
          /\ sets' = [sets EXCEPT ![name] =
                         SetValue(@, Present(name) \ {Serialize(element)})]
    /\ UNCHANGED <<vars, params>>

(* setEpochDuration and time are those of EpochManager.                    *)
DriverNext ==
    \/ \E name \in Params : Set(name)
    \/ \E name \in SetNames : Add(name) \/ Remove(name)
    \/ Next /\ UNCHANGED configuration

DriverSpec == DriverInit /\ [][DriverNext]_driverVars

-----------------------------------------------------------------------------
(* Properties.                                                             *)

(* Every history is in order and ends by now, and holds valid values and   *)
(* elements.                                                               *)
DriverTypeOK ==
    /\ EpochTypeOK
    /\ \A name \in Params :
          /\ Sorted(params[name]) /\ params[name] # << >> /\ LastKey(params[name]) <= now
          /\ \A i \in DOMAIN params[name] : IsValid(name, params[name][i].value)
    /\ \A name \in SetNames :
          /\ Sorted(sets[name]) /\ (sets[name] # << >> => LastKey(sets[name]) <= now)
          /\ \A i \in DOMAIN sets[name] : \A packed \in sets[name][i].value :
                Deserialize(packed) \in Items[name]
    /\ isAdded \in [SetNames -> UNION {[Groups(name) -> BOOLEAN] : name \in SetNames}]

(* Epochs that have started, up to the current one.                        *)
Started == IF BeforeFirst THEN {} ELSE 0 .. getCurrentEpoch

(* At every time a chain has at most one provider and one settlement and a *)
(* key tag one threshold, and the flag of a group tells whether it has     *)
(* one now: what was added can be removed and then added again.            *)
OneElementPerGroup ==
    /\ DriverTypeOK
    /\ \A name \in SetNames :
          /\ \A t \in 0 .. now : OnePerGroup(MembersAt(name, t))
          /\ \A group \in Groups(name) :
                isAdded[name][group] <=> \E e \in MembersAt(name, now) : e.group = group

(* The configuration an epoch starts with is settled once the block of its *)
(* start is over, whatever is set, added, removed or rescheduled later.    *)
EpochConfigIsFinal ==
    [][/\ \A epoch \in Started :
             getEpochStart(epoch)' = getEpochStart(epoch)
       /\ \A start \in {getEpochStart(epoch) : epoch \in Started} :
             start < now => getConfigAt(start)' = getConfigAt(start)]_driverVars
=============================================================================
