------------------------------ MODULE KeyRegistry ------------------------------
(***************************************************************************)
(* The registry of operators' public keys                                  *)
(* (src/src/modules/key-registry/KeyRegistry.sol): keys by operator and    *)
(* tag with their history, and the maps that keep a key to one operator    *)
(* and one tag.  fromBytes accepts one encoding of a key and each type's   *)
(* encodings have a length of their own, so a key payload is an abstract   *)
(* value of one type; its hash is the key itself.  The sets the code keeps *)
(* persistently are traces of sets here.  A multicall is several calls at  *)
(* one time.                                                               *)
(***************************************************************************)
EXTENDS Checkpoints, FiniteSets

CONSTANTS Operators, NoOperator,  \* NoOperator is the zero address
          KeyTags,                \* the valid tags in use
          TypeOfTag,              \* KeyTags.getType
          Keys, NoKey,            \* payloads; NoKey is the zero key
          TypeOfKey,
          Signed,                 \* <<operator, key>>: ownership was signed for
          MaxTime                 \* bound

ASSUME RegistryAssumption ==
    /\ NoOperator \notin Operators /\ NoKey \notin Keys
    /\ DOMAIN TypeOfTag = KeyTags /\ DOMAIN TypeOfKey = Keys
    /\ Signed \subseteq Operators \X Keys
    /\ MaxTime \in Nat \ {0}

VARIABLES keys,                 \* _keys32 and _keys64: a trace per operator and tag
          operatorByKey, operatorByTypeAndKey, operatorByTagAndKey,
          operators,            \* _operators: a trace of sets
          operatorKeyTags,      \* a trace of sets of tags per operator
          now

owners == <<operatorByKey, operatorByTypeAndKey, operatorByTagAndKey>>
vars == <<keys, operatorByKey, operatorByTypeAndKey, operatorByTagAndKey,
          operators, operatorKeyTags, now>>

KeyTypes == {TypeOfTag[tag] : tag \in KeyTags}

getKeyAt(operator, tag, timestamp) ==
    UpperLookupRecent(keys[<<operator, tag>>], timestamp, NoKey)

getKeyTagsAt(operator, timestamp) ==
    UpperLookupRecent(operatorKeyTags[operator], timestamp, {})

getKeysOperatorsAt(timestamp) == UpperLookupRecent(operators, timestamp, {})

getKeysAt(operator, timestamp) ==
    {[tag |-> tag, payload |-> getKeyAt(operator, tag, timestamp)] :
        tag \in getKeyTagsAt(operator, timestamp)}

Init ==
    /\ keys = [p \in Operators \X KeyTags |-> << >>]
    /\ operatorByKey = [k \in Keys |-> NoOperator]
    /\ operatorByTypeAndKey = [p \in KeyTypes \X Keys |-> NoOperator]
    /\ operatorByTagAndKey = [p \in KeyTags \X Keys |-> NoOperator]
    /\ operators = << >>
    /\ operatorKeyTags = [o \in Operators |-> << >>]
    /\ now = 1

-----------------------------------------------------------------------------
(* A key verifies under its own type, for the operator it was signed for.  *)
_verifyKey(operator, tag, key) ==
    TypeOfKey[key] = TypeOfTag[tag] /\ <<operator, key>> \in Signed

(* Mutant: another operator's key is free while it is under another tag.   *)
IsFreeAcrossOperators(operator, tag, key) ==
    operatorByKey[key] # NoOperator =>
        (operatorByTypeAndKey[<<TypeOfTag[tag], key>>] # NoOperator
            => operatorByTagAndKey[<<tag, key>>] # NoOperator)

(* Mutant: a key once used is never free again.                            *)
IsFreeOnce(operator, tag, key) ==
    operatorByKey[key] # NoOperator =>
        /\ operatorByKey[key] = operator
        /\ operatorByTypeAndKey[<<TypeOfTag[tag], key>>] = NoOperator

IsFree(operator, tag, key) ==
    operatorByKey[key] # NoOperator =>
        /\ operatorByKey[key] = operator
        /\ operatorByTypeAndKey[<<TypeOfTag[tag], key>>] # NoOperator
               => operatorByTagAndKey[<<tag, key>>] # NoOperator

CanSetKey(operator, tag, key) ==
    _verifyKey(operator, tag, key) /\ IsFree(operator, tag, key)

(* Mutant: the tags are replaced, not added to.                            *)
WithTagAlone(tags, tag) == {tag}

WithTag(tags, tag) == tags \union {tag}

(* Mutant: the current key is rewritten where it was set.                  *)
PushKeyInPlace(trace, key) ==
    IF trace = << >> THEN Push(trace, now, key)
    ELSE Push(trace, LastKey(trace), key)

PushKey(trace, key) == Push(trace, now, key)

setKey ==
    /\ \E operator \in Operators, tag \in KeyTags, key \in Keys :
          /\ CanSetKey(operator, tag, key)
          /\ operatorByKey' = [operatorByKey EXCEPT ![key] = operator]
          /\ operatorByTypeAndKey' =
                [operatorByTypeAndKey EXCEPT ![<<TypeOfTag[tag], key>>] = operator]
          /\ operatorByTagAndKey' =
                [operatorByTagAndKey EXCEPT ![<<tag, key>>] = operator]
          /\ operators' =
                Push(operators, now, Latest(operators, {}) \union {operator})
          /\ operatorKeyTags' =
                [operatorKeyTags EXCEPT ![operator] =
                    Push(@, now, WithTag(Latest(@, {}), tag))]
          /\ keys' = [keys EXCEPT ![<<operator, tag>>] = PushKey(@, key)]
    /\ now' = now

Tick ==
    /\ now < MaxTime
    /\ now' = now + 1
    /\ UNCHANGED <<keys, owners, operators, operatorKeyTags>>

Next == setKey \/ Tick

Spec == Init /\ [][Next]_vars

-----------------------------------------------------------------------------
(* Properties.                                                             *)

Trace(Values) ==
    {trace \in Seq([key : 1 .. MaxTime, value : Values]) :
        Sorted(trace) /\ (trace # << >> => LastKey(trace) <= now)}

(* The storage has its types, and every history ends by now.               *)
TypeOK ==
    /\ DOMAIN keys = Operators \X KeyTags
    /\ \A p \in DOMAIN keys : keys[p] \in Trace(Keys)
    /\ operatorByKey \in [Keys -> Operators \union {NoOperator}]
    /\ operatorByTypeAndKey \in [KeyTypes \X Keys -> Operators \union {NoOperator}]
    /\ operatorByTagAndKey \in [KeyTags \X Keys -> Operators \union {NoOperator}]
    /\ operators \in Trace(SUBSET Operators)
    /\ DOMAIN operatorKeyTags = Operators
    /\ \A o \in Operators : operatorKeyTags[o] \in Trace(SUBSET KeyTags)
    /\ now \in 1 .. MaxTime

(* A key never belongs to two operators and never serves two tags:         *)
(* whatever the times asked about, equal keys are one operator's under one *)
(* tag (KeyRegistry.sol:175-190).                                          *)
KeysAreExclusive ==
    \A o, p \in Operators, t, u \in 1 .. now :
        \A k \in getKeysAt(o, t), l \in getKeysAt(p, u) :
            k.payload = l.payload => o = p /\ k.tag = l.tag

(* The three histories agree at every time: a tag is listed for an         *)
(* operator exactly when it has a key under it, and an operator is listed  *)
(* exactly when it has a tag.                                              *)
HistoriesAgree ==
    /\ TypeOK
    /\ \A t \in 1 .. now, o \in Operators :
          /\ \A tag \in KeyTags :
                tag \in getKeyTagsAt(o, t) <=> getKeyAt(o, tag, t) # NoKey
          /\ o \in getKeysOperatorsAt(t) <=> getKeyTagsAt(o, t) # {}

(* A key an operator ever used stays its own: getOperator answers that     *)
(* operator for it, and the operator can return to it under the tag it had.*)
OwnKeysStay ==
    \A o \in Operators, t \in 1 .. now : \A k \in getKeysAt(o, t) :
        /\ operatorByKey[k.payload] = o
        /\ operatorByTypeAndKey[<<TypeOfTag[k.tag], k.payload>>] = o
        /\ operatorByTagAndKey[<<k.tag, k.payload>>] = o
        /\ CanSetKey(o, k.tag, k.payload)

(* The keys at a past time never change, whatever is set later.            *)
PastKeysAreFinal ==
    [][\A t \in 1 .. now - 1, o \in Operators :
            getKeysAt(o, t)' = getKeysAt(o, t)]_vars
=============================================================================
