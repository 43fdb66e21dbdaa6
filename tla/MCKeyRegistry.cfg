SPECIFICATION Spec
CONSTANTS
    bls0 = bls0
    bls1 = bls1
    ecdsa0 = ecdsa0
    b1 = b1
    b2 = b2
    e1 = e1
    NoOperator = NoOperator
    NoKey = NoKey
    Operators = {o1, o2}
    KeyTags = {bls0, bls1, ecdsa0}
    Keys = {b1, b2, e1}
    TypeOfTag <- TheTagTypes
    TypeOfKey <- TheKeyTypes
    Signed <- Everything
    MaxTime = 3
INVARIANTS
    HistoriesAgree
    KeysAreExclusive
    OwnKeysStay
PROPERTIES
    PastKeysAreFinal
CHECK_DEADLOCK FALSE
