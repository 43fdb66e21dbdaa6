SPECIFICATION MCSpec
CONSTANTS
    feedA = feedA
    feedB = feedB
    Aggregators = {feedA, feedB}
    Decimals <- MCDecimals
    BaseDecimals = 1
    Answers <- MCAnswers
    Earlier <- MCEarlier
    MaxPhases = 2
    MaxRounds <- MCMaxRounds
    IdSpan = 16
    MaxTime = 3
    t = t
    v = v
    Collateral <- MCCollateral
    TokenDecimals <- MCTokenDecimals
    Hops <- MCHops
    NoHop = NoHop
    TokenWeights = {3, 5}
    VaultWeights = {0}
    DefaultTokenWeight = 2
    DefaultVaultWeight = 1
    Stake = 15
    FewRounds = 3
INVARIANTS
    RoundIsLast
    PresentAgrees
    PastPowerIsFinal
CHECK_DEADLOCK FALSE
