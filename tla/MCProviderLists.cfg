SPECIFICATION Spec
CONSTANTS
    o1 = o1
    o2 = o2
    t1 = t1
    NoToken = NoToken
    NoVault = NoVault
    shared = shared
    own = own
    w1 = w1
    w2 = w2
    Tokens = {t1, NoToken}
    Durations = {0, 1, 2}
    Operators = {o1, o2}
    EntityOperators = {o1, o2}
    Vaults = {}
    ExternalVaults <- NoVaults
    SlashingData <- OneWindow
    Configs <- OneConfig
    JailDurations = {1}
    Lists = TRUE
    Statuses = {FALSE}
    Signers = {o1, o2}
    MaxTime = 3
    MaxNonce = 2
INVARIANTS
    ExcludedAreOut
    SpentSignaturesAreDead
PROPERTIES
    UnlistedOnlyLeave
CHECK_DEADLOCK FALSE
