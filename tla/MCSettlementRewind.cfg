SPECIFICATION Spec
CONSTANTS
    Epochs <- MCEpochs
    Roots = {"A", "B", "none"}
    NoRoot = "none"
    ExtraKeys = {"k"}
    ExtraValues = {"x", "y", "none"}
    NoValue = "none"
    Verifiers = {"v", "w", "none"}
    NoVerifier = "none"
    Candidates <- MCCandidates
    Extras <- MCFewExtras
    MaxTime = 4
INVARIANTS
    VerifierNotFromFuture
CHECK_DEADLOCK FALSE
