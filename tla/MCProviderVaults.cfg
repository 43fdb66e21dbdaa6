SPECIFICATION Spec
CONSTANTS
    o1 = o1
    o2 = o2
    t1 = t1
    NoToken = NoToken
    NoVault = NoVault
    shared = shared
    own = own
    w1 = w1
    w2 = w2
    Tokens = {t1, NoToken}
    Durations = {0, 1, 2}
    Operators = {o1, o2}
    EntityOperators = {o1, o2}
    Vaults = {shared, own, w1, w2}
    ExternalVaults <- SharedAndOwn
    SlashingData <- Windows
    Configs <- TwoConfigs
    JailDurations = {}
    Lists = FALSE
    Statuses = {TRUE, FALSE}
    Signers = {}
    MaxTime = 1
    MaxNonce = 3
SYMMETRY Deployments
INVARIANTS
    TypeOK
    VaultSetsConsistent
    StakeCountedOnce
    AutoDeployNeverBlocks
CHECK_DEADLOCK FALSE
