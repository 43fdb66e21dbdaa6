------------------------------ MODULE PriceFeed ------------------------------
(***************************************************************************)
(* ChainlinkPriceFeed.sol: the price that an aggregator had at a past      *)
(* timestamp.  An aggregator is an external proxy.  It serves rounds of    *)
(* its current phase and answers for the rounds of all phases by packed    *)
(* identifiers; a new phase adopts another contract, which may have rounds *)
(* from before, or none yet, and the contract of an old phase may go on.   *)
(* Rounds of a phase are numbered from 1 without gaps, in time order.      *)
(***************************************************************************)
EXTENDS Integers, Sequences, BlockTime

CONSTANTS
    Aggregators,
    Decimals,        \* [Aggregators -> Nat]
    BaseDecimals,    \* what prices are normalised to (18 in the code)
    Answers,         \* [Aggregators -> sets of [answer, complete]]: complete
                     \* unless answeredInRound lags behind the round
    Earlier,         \* [Aggregators -> numbers of rounds a phase begins with]
    MaxPhases,       \* bound: phases of an aggregator
    MaxRounds,       \* bound: [Aggregators -> Nat], rounds of a phase
    IdSpan           \* numbers of a round in an identifier: 2 ^ PHASE_OFFSET

(* More rounds than half of the numbers would overflow the doubling; the   *)
(* code counts them with 64 bits.                                          *)
ASSUME FeedAssumption ==
    /\ Decimals \in [Aggregators -> Nat] /\ BaseDecimals \in Nat
    /\ MaxPhases \in Nat \ {0} /\ MaxRounds \in [Aggregators -> Nat]
    /\ Earlier \in [Aggregators -> SUBSET Nat]
    /\ IdSpan \in Nat \ {0, 1} /\ \A a \in Aggregators : 2 * MaxRounds[a] < IdSpan
    /\ MaxTime \in Nat \ {0}

VARIABLES phases,      \* per aggregator the rounds of each phase
          adopted      \* history: when each phase became the current one

feed == <<phases, adopted>>

-----------------------------------------------------------------------------
(* The aggregator's getRoundData and latestRoundData, with `success` of    *)
(* the library's wrappers: there is such a round.                          *)
serializeIds(phase, originalId) == phase * IdSpan + originalId

PhaseOf(roundId) == roundId \div IdSpan
OriginalOf(roundId) == roundId % IdSpan

HasRound(a, roundId) ==
    /\ PhaseOf(roundId) \in 1..Len(phases[a])
    /\ OriginalOf(roundId) \in 1..Len(phases[a][PhaseOf(roundId)])

RoundData(a, roundId) == phases[a][PhaseOf(roundId)][OriginalOf(roundId)]

LatestPhase(a) == Len(phases[a])
HasLatestRound(a) == phases[a][LatestPhase(a)] # <<>>
LatestRoundId(a) == serializeIds(LatestPhase(a), Len(phases[a][LatestPhase(a)]))

NoRound == 0

-----------------------------------------------------------------------------
(* Mutant: a round at the timestamp itself counts as later.                *)
IsEarlier(a, roundId, timestamp) ==
    HasRound(a, roundId) /\ RoundData(a, roundId).updatedAt < timestamp

(* There is such a round, and it is not later than the timestamp.          *)
IsNotLater(a, roundId, timestamp) ==
    HasRound(a, roundId) /\ RoundData(a, roundId).updatedAt <= timestamp

(* getRoundDataAt.  First the phase: from the latest down, the first whose *)
(* first round is not later than the timestamp.                            *)
BegunBy(a, phase, timestamp) ==
    IsNotLater(a, serializeIds(phase, 1), timestamp)

PhaseAt(a, timestamp) ==
    LET walk[phase \in 0..LatestPhase(a)] ==
          IF phase = 0 \/ BegunBy(a, phase, timestamp) THEN phase
                                                       ELSE walk[phase - 1]
    IN  walk[LatestPhase(a)]

(* Then a bound on the rounds of the phase: doubled, within its width,     *)
(* while it is a round.                                                    *)
UpperBound(a, phase) ==
    LET double[id \in 0..(IdSpan - 1)] ==
          IF HasRound(a, serializeIds(phase, id)) /\ id # IdSpan - 1
          THEN double[(2 * id) % IdSpan]
          ELSE id
    IN  double[1]

(* Mutant: the bound stops at the last power of two that is a round.       *)
HighRoundIdTooLow(a, phase) == serializeIds(phase, UpperBound(a, phase) \div 2)

HighRoundId(a, phase) == serializeIds(phase, UpperBound(a, phase) - 1)

(* Then the halving, over packed identifiers.                              *)
LastRoundBy(a, phase, timestamp) ==
    LET first == serializeIds(phase, 1)
        end == serializeIds(phase + 1, 0)
        halve[low \in first..end] ==
          [high \in (first - 1)..(end - 1) |->
            [result \in (first..end) \cup {NoRound} |->
               IF low > high THEN result
               ELSE LET mid == low + ((high - low) \div 2)
                    IN  IF IsNotLater(a, mid, timestamp)
                        THEN halve[mid + 1][high][mid]
                        ELSE halve[low][mid - 1][result]]]
    IN  halve[first][HighRoundId(a, phase)][NoRound]

getRoundDataAt(a, timestamp) ==
    LET phase == PhaseAt(a, timestamp)
    IN  IF timestamp > now \/ ~HasLatestRound(a) \/ phase = 0
        THEN NoRound
        ELSE LastRoundBy(a, phase, timestamp)

getLatestRoundData(a) == IF HasLatestRound(a) THEN LatestRoundId(a) ELSE NoRound

-----------------------------------------------------------------------------
(* Scaler.sol and the price of one hop.  A call that reverts answers       *)
(* Reverted.                                                               *)
Reverted == -1

scale(value, decimals, targetDecimals) ==
    IF decimals <= targetDecimals
    THEN value * 10 ^ (targetDecimals - decimals)
    ELSE value \div 10 ^ (decimals - targetDecimals)

(* Division by zero reverts.                                               *)
invert(value, decimals) ==
    IF value = 0 THEN Reverted ELSE 10 ^ (2 * decimals) \div value

(* A negative answer is a huge unsigned one.                               *)
isStale(timestamp, round, stalenessDuration) ==
    \/ round.answer <= 0
    \/ ~round.complete
    \/ round.updatedAt + stalenessDuration < timestamp

(* The price that a round gives at a time; zero when it gives none.        *)
PriceOf(a, roundId, timestamp, hop) ==
    IF roundId = NoRound \/ isStale(timestamp, RoundData(a, roundId), hop.staleness)
    THEN 0
    ELSE LET price == scale(RoundData(a, roundId).answer, Decimals[a], BaseDecimals)
         IN  IF hop.invert THEN invert(price, BaseDecimals) ELSE price

getPriceAt(hop, timestamp) ==
    PriceOf(hop.aggregator, getRoundDataAt(hop.aggregator, timestamp), timestamp, hop)

getLatestPrice(hop) ==
    PriceOf(hop.aggregator, getLatestRoundData(hop.aggregator), now, hop)

-----------------------------------------------------------------------------
FeedInit ==
    /\ now = 1
    /\ phases = [a \in Aggregators |-> << <<>> >>]
    /\ adopted = [a \in Aggregators |-> <<now>>]

Round(kind, time) ==
    [answer |-> kind.answer, complete |-> kind.complete, updatedAt |-> time]

(* The contract of a phase, the current one or an earlier, posts a round.  *)
PostRound(a, phase, kind) ==
    /\ Len(phases[a][phase]) < MaxRounds[a]
    /\ phases' = [phases EXCEPT ![a][phase] = Append(@, Round(kind, now))]
    /\ UNCHANGED adopted

(* The proxy adopts a contract that has `count` rounds already, posted at  *)
(* an earlier time.                                                        *)
AdoptPhase(a, count, kind, time) ==
    /\ LatestPhase(a) < MaxPhases
    /\ count <= MaxRounds[a]
    /\ phases' = [phases EXCEPT
                    ![a] = Append(@, [i \in 1..count |-> Round(kind, time)])]
    /\ adopted' = [adopted EXCEPT ![a] = Append(@, now)]

FeedNext ==
    \E a \in Aggregators, kind \in UNION {Answers[b] : b \in Aggregators} :
        /\ kind \in Answers[a]
        /\ \/ \E phase \in 1..LatestPhase(a) : PostRound(a, phase, kind)
           \/ \E count \in Earlier[a], time \in 1..now :
                 AdoptPhase(a, count, kind, time)

-----------------------------------------------------------------------------
(* The round found at a timestamp is the last one not later, in the latest *)
(* phase that has begun by then; there is none only before the first round *)
(* of every phase, in the future, or while the current phase is empty.     *)
RoundIsLast ==
    \A a \in Aggregators, timestamp \in 0..(MaxTime + 1) :
        LET begun == {p \in 1..LatestPhase(a) :
                        /\ phases[a][p] # <<>>
                        /\ phases[a][p][1].updatedAt <= timestamp}
            roundId == getRoundDataAt(a, timestamp)
        IN  IF timestamp > now \/ ~HasLatestRound(a) \/ begun = {}
            THEN roundId = NoRound
            ELSE /\ HasRound(a, roundId)
                 /\ PhaseOf(roundId) \in begun
                 /\ \A p \in begun : p <= PhaseOf(roundId)
                 /\ LET rounds == phases[a][PhaseOf(roundId)]
                    IN  \A i \in 1..Len(rounds) :
                           rounds[i].updatedAt <= timestamp
                             <=> i <= OriginalOf(roundId)

(* When the phases of an aggregator do not tell what it served at a time:  *)
(* the current phase is empty; or one adopted later had already begun by   *)
(* then; or the one that was current had not.                              *)
PhaseUnclear(a, timestamp) ==
    \/ ~HasLatestRound(a)
    \/ \E p \in 1..LatestPhase(a) :
          BegunBy(a, p, timestamp) <=> adopted[a][p] > timestamp
=============================================================================
