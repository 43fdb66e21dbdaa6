--------------------------- MODULE MCValSetDriver ---------------------------
(* The epochs: durations that divide each other and that do not, starts in  *)
(* the past of no block and in the future, and a width narrow enough that   *)
(* the next start overflows within the model's time.                        *)
(* The configuration: one parameter and one set that change - two voting    *)
(* power providers of the same chain - and invalid values for every check   *)
(* of the others.  It changes only while the times are those of BOUND_NOW   *)
(* and with short epochs: the two parts share only the clock.               *)
EXTENDS ValSetDriver, TLC

BOUND_NOW == 3

MCDurations == {1, 2, 3}

Address(chain, addr) == [group |-> chain, item |-> addr]

MCInitial == [name \in Params |->
    CASE name = "keysProvider" -> Address(1, 1)
      [] name = "requiredKeyTags" -> <<0>>
      [] OTHER -> 1]

(* Invalid: zero, no chain, no address, a tag too large, a tag twice.       *)
MCInputs == [name \in Params |->
    CASE name = "numAggregators" -> {0, 2}
      [] name = "keysProvider" -> {Address(0, 2), Address(1, 0)}
      [] name = "requiredKeyTags" -> {<<1, 1>>}
      [] name = "requiredHeaderKeyTag" -> {128}
      [] name \in {"numCommitters", "committerSlotDuration",
                   "maxValidatorsCount"} -> {0}
      [] OTHER -> {}]

MCItems == ("votingPowerProviders" :> {Address(1, 1), Address(1, 2), Address(0, 1)})
           @@ ("settlements" :> {Address(1, 0)})
           @@ ("quorumThresholds" :> {Address(128, 2), Address(15, 3)})

(* No call has changed the configuration.                                   *)
DriverIsNew ==
    /\ \A name \in Params : Len(params[name]) = 1
    /\ \A name \in SetNames : sets[name] = <<>>

IsShort ==
    /\ now <= BOUND_NOW /\ Len(byTimestamp) <= 2
    /\ \A i \in DOMAIN byTimestamp :
          /\ byTimestamp[i].key <= BOUND_NOW + 1
          /\ byTimestamp[i].value.duration <= 2

MCInit == DriverInit /\ (DriverIsNew \/ IsShort)

MCNext == DriverNext /\ (DriverIsNew' \/ IsShort')

MCSpec == MCInit /\ [][MCNext]_driverVars
=============================================================================
