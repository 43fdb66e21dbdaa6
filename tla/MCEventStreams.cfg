SPECIFICATION StreamsSpec
CONSTANTS
    NumLogs = 5
    Capacity = 2
INVARIANTS
    NothingLost
    EndIsExplained
PROPERTIES
    StreamsAreFeeds
    ShutdownReturns
    LogsArrive
CHECK_DEADLOCK FALSE
