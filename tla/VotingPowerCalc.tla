--------------------------- MODULE VotingPowerCalc ---------------------------
(***************************************************************************)
(* The calculators that turn a stake into voting power, all of them        *)
(* stacked: EqualStakeVPCalc, NormalizedTokenDecimalsVPCalc,               *)
(* PricedTokensChainlinkVPCalc, WeightedTokensVPCalc and                   *)
(* WeightedVaultsVPCalc, over the price feed.  Hops and weights are traces *)
(* by time; the owner sets them, at any moment.                            *)
(***************************************************************************)
EXTENDS PriceFeed, Checkpoints

CONSTANTS
    Collateral,          \* the token of every vault whose stake is counted
    TokenDecimals,       \* [PowerTokens -> Nat]
    Hops,                \* the hops the owner may set: pairs of a hop and a
                         \* hop or NoHop, or with NoHop first (refused)
    NoHop,               \* the zero address where an aggregator goes
    TokenWeights, VaultWeights,
    DefaultTokenWeight, DefaultVaultWeight,
    Stake                \* the stake whose power is followed

PowerVaults == DOMAIN Collateral
PowerTokens == {Collateral[v] : v \in PowerVaults}

Hop == [aggregator : Aggregators, invert : BOOLEAN, staleness : Nat]

ASSUME CalcAssumption ==
    /\ Collateral \in [PowerVaults -> PowerTokens]
    /\ TokenDecimals \in [PowerTokens -> Nat]
    /\ NoHop \notin Hop
    /\ Hops \subseteq (Hop \cup {NoHop}) \X (Hop \cup {NoHop})
    /\ TokenWeights \cup VaultWeights \subseteq Nat
    /\ DefaultTokenWeight \in Nat /\ DefaultVaultWeight \in Nat
    /\ Stake \in Nat

VARIABLES tokenHops,     \* _tokenHops, per token
          tokenWeight,   \* _tokenWeight, per token
          vaultWeight,   \* _vaultWeight, per vault
          counted        \* history: the power of Stake at the end of every
                         \* second, per vault

settings == <<tokenHops, tokenWeight, vaultWeight>>
calcVars == <<now, phases, adopted, settings, counted>>

CalcInit ==
    /\ FeedInit
    /\ tokenHops = [t \in PowerTokens |-> <<>>]
    /\ tokenWeight = [t \in PowerTokens |-> <<>>]
    /\ vaultWeight = [v \in PowerVaults |-> <<>>]
    /\ counted = [v \in PowerVaults |-> <<>>]

-----------------------------------------------------------------------------
NoHops == <<NoHop, NoHop>>

getTokenHopsAt(token, timestamp) ==
    UpperLookupRecent(tokenHops[token], timestamp, NoHops)

getTokenHops(token) == Latest(tokenHops[token], NoHops)

(* toDynamicArrays leaves the zero aggregators out.                        *)
DynamicHops(hops) ==
    LET Given(hop) == IF hop = NoHop THEN <<>> ELSE <<hop>>
    IN  Given(hops[1]) \o Given(hops[2])

mulDiv(a, b, c) == (a * b) \div c

(* The product of the hops' prices, each rounded down; no hop at all       *)
(* reverts (ZeroLength), and so does a hop that does.                      *)
PriceThrough(prices) ==
    LET Times(price, hopPrice) ==
          IF Reverted \in {price, hopPrice} THEN Reverted
          ELSE mulDiv(price, hopPrice, 10 ^ BaseDecimals)
        through[i \in 0..Len(prices)] ==
          IF i = 0 THEN 10 ^ BaseDecimals ELSE Times(through[i - 1], prices[i])
    IN  IF prices = <<>> THEN Reverted ELSE through[Len(prices)]

getTokenPriceAt(token, timestamp) ==
    LET hops == DynamicHops(getTokenHopsAt(token, timestamp))
    IN  PriceThrough([i \in 1..Len(hops) |-> getPriceAt(hops[i], timestamp)])

getTokenPrice(token) ==
    LET hops == DynamicHops(getTokenHops(token))
    IN  PriceThrough([i \in 1..Len(hops) |-> getLatestPrice(hops[i])])

getTokenWeightAt(token, timestamp) ==
    LET weight == UpperLookupRecentCheckpoint(tokenWeight[token], timestamp)
    IN  IF weight.exists THEN weight.value ELSE DefaultTokenWeight

getTokenWeight(token) == Latest(tokenWeight[token], DefaultTokenWeight)

getVaultWeightAt(vault, timestamp) ==
    LET weight == UpperLookupRecentCheckpoint(vaultWeight[vault], timestamp)
    IN  IF weight.exists THEN weight.value ELSE DefaultVaultWeight

getVaultWeight(vault) == Latest(vaultWeight[vault], DefaultVaultWeight)

Power(vault, stake, price, weights) ==
    IF price = Reverted THEN Reverted
    ELSE scale(stake, TokenDecimals[Collateral[vault]], BaseDecimals)
           * price * weights

stakeToVotingPowerAt(vault, stake, timestamp) ==
    LET token == Collateral[vault]
    IN  Power(vault, stake, getTokenPriceAt(token, timestamp),
              getTokenWeightAt(token, timestamp) * getVaultWeightAt(vault, timestamp))

stakeToVotingPower(vault, stake) ==
    LET token == Collateral[vault]
    IN  Power(vault, stake, getTokenPrice(token),
              getTokenWeight(token) * getVaultWeight(vault))

-----------------------------------------------------------------------------
(* _serializeHops refuses hops that begin with the zero address.           *)
setTokenHops(token, hops) ==
    /\ hops[1] # NoHop
    /\ CanPush(tokenHops[token], now)
    /\ tokenHops' = [tokenHops EXCEPT ![token] = Push(@, now, hops)]
    /\ UNCHANGED <<now, feed, counted, tokenWeight, vaultWeight>>

(* Mutant: weights are recorded one second back.                           *)
setTokenWeightBack(token, weight) ==
    /\ weight <= DefaultTokenWeight * DefaultTokenWeight
    /\ CanPush(tokenWeight[token], now - 1)
    /\ tokenWeight' = [tokenWeight EXCEPT ![token] = Push(@, now - 1, weight)]
    /\ UNCHANGED <<now, feed, counted, tokenHops, vaultWeight>>

setTokenWeight(token, weight) ==
    /\ weight <= DefaultTokenWeight * DefaultTokenWeight
    /\ CanPush(tokenWeight[token], now)
    /\ tokenWeight' = [tokenWeight EXCEPT ![token] = Push(@, now, weight)]
    /\ UNCHANGED <<now, feed, counted, tokenHops, vaultWeight>>

setVaultWeight(vault, weight) ==
    /\ weight <= DefaultVaultWeight * DefaultVaultWeight
    /\ CanPush(vaultWeight[vault], now)
    /\ vaultWeight' = [vaultWeight EXCEPT ![vault] = Push(@, now, weight)]
    /\ UNCHANGED <<now, feed, counted, tokenHops, tokenWeight>>

CalcTick ==
    /\ now < MaxTime
    /\ now' = now + 1
    /\ counted' = [v \in PowerVaults |-> Append(counted[v], stakeToVotingPower(v, Stake))]
    /\ UNCHANGED <<feed, settings>>

CalcFeed == FeedNext /\ UNCHANGED <<now, settings, counted>>

CalcSet ==
    \/ \E token \in PowerTokens :
          \/ \E hops \in Hops : setTokenHops(token, hops)
          \/ \E weight \in TokenWeights : setTokenWeight(token, weight)
    \/ \E vault \in PowerVaults, weight \in VaultWeights : setVaultWeight(vault, weight)

CalcNext == CalcFeed \/ CalcSet \/ CalcTick

CalcSpec == CalcInit /\ [][CalcNext]_calcVars

-----------------------------------------------------------------------------
(* What is read at the present timestamp is what is read without one: the  *)
(* search through phases and rounds ends at the round the proxy serves,    *)
(* and the traces at their latest value.                                   *)
PresentAgrees ==
    /\ \A a \in Aggregators : getRoundDataAt(a, now) = getLatestRoundData(a)
    /\ \A vault \in PowerVaults :
          stakeToVotingPowerAt(vault, Stake, now) = stakeToVotingPower(vault, Stake)

(* The aggregators that the price of a vault's token at a time goes        *)
(* through.                                                                *)
AggregatorsAt(vault, timestamp) ==
    LET hops == DynamicHops(getTokenHopsAt(Collateral[vault], timestamp))
    IN  {hops[i].aggregator : i \in 1..Len(hops)}

(* The power of a stake at a past timestamp, which validator sets are      *)
(* computed from, is the power it had when that second ended: no setter    *)
(* and no new round can touch it.  Only the aggregator can, by its phases. *)
PastPowerIsFinal ==
    \A vault \in PowerVaults, timestamp \in 1..(now - 1) :
        \/ stakeToVotingPowerAt(vault, Stake, timestamp) = counted[vault][timestamp]
        \/ \E a \in AggregatorsAt(vault, timestamp) : PhaseUnclear(a, timestamp)
=============================================================================
