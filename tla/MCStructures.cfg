SPECIFICATION MCSpec
CONSTANTS
    Keys <- MCKeys
    Values = {0, 1}
    Zero = 0
    MaxPointer = 7
    Elements = {e1, e2}
    SetKeys <- MCSetKeys
    ValSets <- MCValSets
    VALIDATORS_LIST_TREE_HEIGHT = 1
    KEY_LIST_TREE_HEIGHT = 2
    VAULT_LIST_TREE_HEIGHT = 1
    LocalIndices <- MCLocalIndices
    SszProofs <- MCSszProofs
INVARIANTS
    StructuresWellFormed
    QueriesAgree
    ProofsAreExact
PROPERTIES
    ImplementsKeyedLog
    ImplementsHistorySet
