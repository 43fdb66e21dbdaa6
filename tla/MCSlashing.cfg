SPECIFICATION Spec
CONSTANTS
    o1 = o1
    t1 = t1
    instant = instant
    veto = veto
    none = none
    NoToken = NoToken
    Tokens = {t1, NoToken}
    Operators = {o1}
    EntityOperators = {o1}
    Vaults = {instant, veto, none}
    Durations = {0, 1, 2, 3, 4}
    Info <- TheVaults
    SlashingData <- TheData
    Slashers = {s1, s2}
    s1 = s1
    s2 = s2
    MaxTime = 4
    MaxRequests = 1
INVARIANTS
    SlashedWhenRequired
    RequestsCanBeExecuted
PROPERTIES
    PastSlashabilityIsFinal
