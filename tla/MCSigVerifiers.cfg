SPECIFICATION MCSpec
CONSTANTS
    FP_MODULUS = 31
    ValSets <- MCValSets
    MAX_VALIDATORS = 3
    MaxValidatorsInputs <- MCMaxValidatorsInputs
    DataInputs <- MCDataInputs
    NonSignersInputs <- MCNonSignersInputs
    Modulus = 16
    MaxEpoch = 2
INVARIANTS
    QuorumBehindCommits
    QuorumIsEnough
CHECK_DEADLOCK FALSE
