SPECIFICATION Spec
CONSTANTS
    Epochs <- MCEpochs
    Roots = {"A", "B", "none"}
    NoRoot = "none"
    ExtraKeys = {"k"}
    ExtraValues = {"x", "y", "none"}
    NoValue = "none"
    Verifiers = {"v", "w", "none"}
    NoVerifier = "none"
    Candidates <- MCCandidates
    Extras <- MCExtras
    MaxTime = 4
INVARIANTS
    ChainOfTrust
    StorageConsistent
    CaptureOrder
    ForwardIsOperable
PROPERTIES
    PastIsFinal
CHECK_DEADLOCK FALSE
