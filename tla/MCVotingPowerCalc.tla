-------------------------- MODULE MCVotingPowerCalc --------------------------
(* Two aggregators: one with many rounds over two phases, for the search;   *)
(* one whose rounds may be stale, zero, or too small for the base decimals. *)
(* While settings change, histories of rounds are kept short.               *)
EXTENDS VotingPowerCalc, Functions, TLC

CONSTANTS feedA, feedB, t, v, FewRounds

Good(answer) == [answer |-> answer, complete |-> TRUE]

MCDecimals == (feedA :> 0) @@ (feedB :> 2)
MCAnswers == (feedA :> {Good(2)})
               @@ (feedB :> {Good(400), Good(5), Good(0),
                         [answer |-> 400, complete |-> FALSE]})
MCEarlier == (feedA :> {0, 2}) @@ (feedB :> {})
MCMaxRounds == (feedA :> 5) @@ (feedB :> 2)
MCTokenDecimals == t :> 2

HopBy(aggregator, inverted, staleness) ==
    [aggregator |-> aggregator, invert |-> inverted, staleness |-> staleness]

MCHops == {<<HopBy(feedA, FALSE, 1), NoHop>>, <<HopBy(feedB, TRUE, 2), HopBy(feedA, FALSE, 2)>>,
           <<NoHop, HopBy(feedA, FALSE, 1)>>}

MCCollateral == v :> t

(* The rounds of all phases of an aggregator together.                      *)
RoundCount(a) ==
    FoldFunction(+, 0, [p \in DOMAIN phases[a] |-> Len(phases[a][p])])

FewChanges ==
    /\ Len(tokenHops[t]) <= 2
    /\ Len(tokenWeight[t]) <= 1 /\ Len(vaultWeight[v]) <= 1
    /\ Len(tokenHops[t]) + Len(tokenWeight[t]) + Len(vaultWeight[v]) <= 2

Untouched ==
    tokenHops[t] = <<>> /\ tokenWeight[t] = <<>> /\ vaultWeight[v] = <<>>

FewPosted == RoundCount(feedA) + RoundCount(feedB) <= FewRounds

(* Either many rounds of one aggregator or many changes of the settings.    *)
Bounded ==
    /\ \A a \in Aggregators : RoundCount(a) <= MaxRounds[a]
    /\ \/ FewChanges /\ FewPosted
       \/ Untouched /\ RoundCount(feedB) = 0

MCSpec == CalcInit /\ [][CalcNext /\ Bounded']_calcVars
=============================================================================
