SPECIFICATION MCSpec
CONSTANTS
    Durations <- MCDurations
    MaxUint48 = 9
    MaxTime = 8
    Inputs <- MCInputs
    Initial <- MCInitial
    Items <- MCItems
    ItemWidth = 4
    MAX_QUORUM_THRESHOLD = 2
INVARIANTS
    EpochTypeOK
    ScheduleOK
    SearchesAgree
    OneElementPerGroup
PROPERTIES
    ImplementsEpochClock
    EpochConfigIsFinal
CHECK_DEADLOCK FALSE
