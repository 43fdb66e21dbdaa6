------------------------- MODULE KeyRegistryProofs -------------------------
(***************************************************************************)
(* For any operators, tags, keys and signatures: a key is one operator's   *)
(* under one tag for ever, the histories of the registry agree, and what   *)
(* they say of a past time is final.                                       *)
(***************************************************************************)
EXTENDS KeyRegistry, CheckpointsProofs

-----------------------------------------------------------------------------
(* The histories of the registry are traces that end by now.               *)

LEMMA HistoryShape ==
    ASSUME now \in 1..MaxTime, NEW V, NEW trace \in Trace(V)
    PROVE  /\ trace \in Traces(1..MaxTime, V) /\ AreKeys(1..MaxTime)
           /\ now \in Nat
           /\ CanPush(trace, now) /\ (trace # <<>> => LastKey(trace) <= now)
BY RegistryAssumption DEF RegistryAssumption, Trace, Traces, CanPush, AreKeys

LEMMA HistoryValue ==
    ASSUME now \in 1..MaxTime, NEW V, NEW trace \in Trace(V), NEW time, NEW zero
    PROVE  UpperLookupRecent(trace, time, zero) \in V \union {zero}
BY HistoryShape, LookupType

(* From now on a lookup reads the last checkpoint.                         *)
LEMMA HistoryNow ==
    ASSUME now \in 1..MaxTime, NEW V, NEW trace \in Trace(V), NEW zero,
           NEW time \in Nat, time >= now
    PROVE  UpperLookupRecent(trace, time, zero) = Latest(trace, zero)
<1>1. /\ trace \in Traces(1..MaxTime, V) /\ AreKeys(1..MaxTime)
      /\ now \in Nat /\ (trace # <<>> => LastKey(trace) <= now)
  BY HistoryShape
<1>2. trace # <<>> => LastKey(trace) <= time
  <2>1. trace # <<>> => LastKey(trace) \in Nat
    BY <1>1, TraceShape
  <2> QED BY <1>1, <2>1
<1> QED BY <1>1, <1>2, LookupLast

LEMMA HistoryPush ==
    ASSUME now \in 1..MaxTime, NEW V, NEW trace \in Trace(V), NEW value \in V
    PROVE  Push(trace, now, value) \in Trace(V)
<1>1. /\ trace \in Traces(1..MaxTime, V) /\ AreKeys(1..MaxTime)
      /\ now \in Nat /\ CanPush(trace, now)
  BY HistoryShape
<1>2. PICK K : K = 1..MaxTime
  OBVIOUS
<1>3. AreKeys(K) /\ trace \in Traces(K, V) /\ now \in K
  BY <1>1, <1>2
<1>4. /\ Push(trace, now, value) \in Traces(K, V)
      /\ LastKey(Push(trace, now, value)) = now
  BY <1>1, <1>3, PushType
<1> QED BY <1>1, <1>2, <1>4 DEF Trace, Traces

(* A push now changes what is read from now on, and nothing before.        *)
LEMMA HistoryAfterPush ==
    ASSUME now \in 1..MaxTime, NEW V, NEW trace \in Trace(V), NEW value \in V,
           NEW zero, NEW time \in Nat
    PROVE  UpperLookupRecent(Push(trace, now, value), time, zero) =
             IF time >= now THEN value ELSE UpperLookupRecent(trace, time, zero)
<1>1. /\ trace \in Traces(1..MaxTime, V) /\ AreKeys(1..MaxTime)
      /\ CanPush(trace, now)
  BY HistoryShape
<1>2. PICK K : K = 1..MaxTime
  OBVIOUS
<1>3. AreKeys(K) /\ trace \in Traces(K, V) /\ now \in K
  BY <1>1, <1>2
<1> QED BY <1>1, <1>3, LookupAfterPush

-----------------------------------------------------------------------------
(* What every call leaves in the maps and in the histories.                *)

(* The key is this operator's under this tag in all that the registry      *)
(* knows of it.                                                            *)
Owns(operator, tag, key) ==
    /\ key \in Keys
    /\ operatorByKey[key] = operator
    /\ operatorByTypeAndKey[<<TypeOfTag[tag], key>>] = operator
    /\ operatorByTagAndKey[<<tag, key>>] = operator
    /\ _verifyKey(operator, tag, key)

Owned ==
    \A o \in Operators, tag \in KeyTags, t \in 1..now :
        getKeyAt(o, tag, t) # NoKey => Owns(o, tag, getKeyAt(o, tag, t))

(* The three maps tell of one operator, and one tag.                       *)
MapsAgree ==
    \A key \in Keys :
        /\ \A type \in KeyTypes : operatorByTypeAndKey[<<type, key>>] # NoOperator =>
              operatorByKey[key] = operatorByTypeAndKey[<<type, key>>]
        /\ \A tag \in KeyTags : operatorByTagAndKey[<<tag, key>>] # NoOperator =>
              /\ operatorByTypeAndKey[<<TypeOfTag[tag], key>>]
                    = operatorByTagAndKey[<<tag, key>>]
              /\ TypeOfTag[tag] = TypeOfKey[key]
        /\ \A tag, other \in KeyTags :
              /\ operatorByTagAndKey[<<tag, key>>] # NoOperator
              /\ operatorByTagAndKey[<<other, key>>] # NoOperator
              => tag = other

IInv == HistoriesAgree /\ Owned /\ MapsAgree

LEMMA InitHolds == Init => IInv
<1> SUFFICES ASSUME Init PROVE IInv OBVIOUS
<1> USE RegistryAssumption DEF RegistryAssumption
<1>1. \A t, zero : UpperLookupRecent(<<>>, t, zero) = zero
  BY DEF UpperLookupRecent, Covers
<1>2. \A V : <<>> \in Trace(V)
  BY DEF Trace, Sorted
<1>3. TypeOK
  <2>1. now \in 1..MaxTime
    BY DEF Init
  <2>2. /\ DOMAIN keys = Operators \X KeyTags
        /\ \A p \in DOMAIN keys : keys[p] \in Trace(Keys)
    BY <1>2 DEF Init
  <2>3. /\ operatorByKey \in [Keys -> Operators \union {NoOperator}]
        /\ operatorByTypeAndKey \in [KeyTypes \X Keys -> Operators \union {NoOperator}]
        /\ operatorByTagAndKey \in [KeyTags \X Keys -> Operators \union {NoOperator}]
    BY DEF Init
  <2>4. /\ operators \in Trace(SUBSET Operators)
        /\ DOMAIN operatorKeyTags = Operators
        /\ \A o \in Operators : operatorKeyTags[o] \in Trace(SUBSET KeyTags)
    BY <1>2 DEF Init
  <2> QED BY <2>1, <2>2, <2>3, <2>4 DEF TypeOK
<1>4. \A o \in Operators, tag \in KeyTags : \A t : getKeyAt(o, tag, t) = NoKey
  BY <1>1 DEF Init, getKeyAt
<1>5. \A o \in Operators : \A t : getKeyTagsAt(o, t) = {} /\ getKeysOperatorsAt(t) = {}
  BY <1>1 DEF Init, getKeyTagsAt, getKeysOperatorsAt
<1>6. HistoriesAgree
  BY <1>3, <1>4, <1>5 DEF HistoriesAgree
<1>7. Owned
  BY <1>4 DEF Owned
<1>8. MapsAgree
  BY DEF Init, MapsAgree, KeyTypes
<1> QED BY <1>6, <1>7, <1>8 DEF IInv
-----------------------------------------------------------------------------
(* The call with its arguments.                                            *)
SetKey(operator, tag, key) ==
    /\ CanSetKey(operator, tag, key)
    /\ operatorByKey' = [operatorByKey EXCEPT ![key] = operator]
    /\ operatorByTypeAndKey' =
          [operatorByTypeAndKey EXCEPT ![<<TypeOfTag[tag], key>>] = operator]
    /\ operatorByTagAndKey' =
          [operatorByTagAndKey EXCEPT ![<<tag, key>>] = operator]
    /\ operators' = Push(operators, now, Latest(operators, {}) \union {operator})
    /\ operatorKeyTags' =
          [operatorKeyTags EXCEPT ![operator] =
              Push(@, now, WithTag(Latest(@, {}), tag))]
    /\ keys' = [keys EXCEPT ![<<operator, tag>>] = PushKey(@, key)]
    /\ now' = now

LEMMA SetKeyCases ==
    setKey => \E operator \in Operators, tag \in KeyTags, key \in Keys :
                  SetKey(operator, tag, key)
BY Zenon DEF setKey, SetKey

LEMMA Types ==
    ASSUME TypeOK
    PROVE  /\ now \in 1..MaxTime /\ now \in Nat
           /\ \A o \in Operators, tag \in KeyTags :
                 /\ <<o, tag>> \in DOMAIN keys
                 /\ keys[<<o, tag>>] \in Trace(Keys)
           /\ operators \in Trace(SUBSET Operators)
           /\ DOMAIN operatorKeyTags = Operators
           /\ \A o \in Operators : operatorKeyTags[o] \in Trace(SUBSET KeyTags)
<1>1. now \in 1..MaxTime /\ now \in Nat
  BY RegistryAssumption DEF RegistryAssumption, TypeOK
<1>2. \A o \in Operators, tag \in KeyTags :
        <<o, tag>> \in DOMAIN keys /\ keys[<<o, tag>>] \in Trace(Keys)
  <2>1. /\ DOMAIN keys = Operators \X KeyTags
        /\ \A p \in DOMAIN keys : keys[p] \in Trace(Keys)
    BY DEF TypeOK
  <2> QED BY <2>1
<1>3. /\ operators \in Trace(SUBSET Operators)
      /\ DOMAIN operatorKeyTags = Operators
      /\ \A o \in Operators : operatorKeyTags[o] \in Trace(SUBSET KeyTags)
  BY DEF TypeOK
<1> QED BY <1>1, <1>2, <1>3

LEMMA HistoryLatest ==
    ASSUME now \in 1..MaxTime, NEW V, NEW trace \in Trace(V), NEW zero
    PROVE  Latest(trace, zero) \in V \union {zero}
<1>1. trace \in Traces(1..MaxTime, V) /\ AreKeys(1..MaxTime)
  BY HistoryShape
<1> QED BY <1>1, LatestType

(* What setKey adds to the histories, and that it adds it now.             *)
LEMMA SetKeyHistories ==
    ASSUME TypeOK, NEW operator \in Operators, NEW tag \in KeyTags,
           NEW key \in Keys, SetKey(operator, tag, key)
    PROVE  /\ \A o \in Operators, g \in KeyTags, t \in 1..now :
                 getKeyAt(o, g, t)' =
                     IF o = operator /\ g = tag /\ t = now THEN key
                                                           ELSE getKeyAt(o, g, t)
           /\ \A o \in Operators, t \in 1..now :
                 getKeyTagsAt(o, t)' =
                     IF o = operator /\ t = now
                     THEN getKeyTagsAt(o, t) \union {tag} ELSE getKeyTagsAt(o, t)
           /\ \A t \in 1..now :
                 getKeysOperatorsAt(t)' =
                     IF t = now THEN getKeysOperatorsAt(t) \union {operator}
                                ELSE getKeysOperatorsAt(t)
<1>0. /\ now \in 1..MaxTime /\ now \in Nat
      /\ \A t \in 1..now : t \in Nat /\ (t >= now <=> t = now)
  BY Types
<1>1. ASSUME NEW o \in Operators, NEW g \in KeyTags, NEW t \in 1..now
      PROVE  getKeyAt(o, g, t)' =
                 IF o = operator /\ g = tag /\ t = now THEN key
                                                       ELSE getKeyAt(o, g, t)
  <2>1. keys[<<o, g>>] \in Trace(Keys) /\ <<o, g>> \in DOMAIN keys
    BY Types
  <2>2. CASE o = operator /\ g = tag
    <3>1. keys'[<<o, g>>] = Push(keys[<<o, g>>], now, key)
      BY <2>1, <2>2 DEF SetKey, PushKey
    <3>2. UpperLookupRecent(Push(keys[<<o, g>>], now, key), t, NoKey) =
            IF t >= now THEN key ELSE UpperLookupRecent(keys[<<o, g>>], t, NoKey)
      BY <1>0, <2>1, HistoryAfterPush
    <3> QED BY <1>0, <2>2, <3>1, <3>2 DEF getKeyAt
  <2>3. CASE ~(o = operator /\ g = tag)
    <3>1. keys'[<<o, g>>] = keys[<<o, g>>]
      BY <2>1, <2>3 DEF SetKey
    <3> QED BY <2>3, <3>1 DEF getKeyAt
  <2> QED BY <2>2, <2>3
<1>2. ASSUME NEW o \in Operators, NEW t \in 1..now
      PROVE  getKeyTagsAt(o, t)' =
                 IF o = operator /\ t = now
                 THEN getKeyTagsAt(o, t) \union {tag} ELSE getKeyTagsAt(o, t)
  <2>1. operatorKeyTags[o] \in Trace(SUBSET KeyTags) /\ o \in DOMAIN operatorKeyTags
    BY Types
  <2>2. CASE o = operator
    <3> DEFINE tags == Latest(operatorKeyTags[o], {}) \union {tag}
    <3>1. operatorKeyTags'[o] = Push(operatorKeyTags[o], now, tags)
      BY <2>1, <2>2 DEF SetKey, WithTag
    <3>0. tags \in SUBSET KeyTags
      <4>1. Latest(operatorKeyTags[o], {}) \in (SUBSET KeyTags) \union {{}}
        BY <1>0, <2>1, HistoryLatest
      <4> QED BY <4>1
    <3>2. UpperLookupRecent(Push(operatorKeyTags[o], now, tags), t, {}) =
            IF t >= now THEN tags ELSE UpperLookupRecent(operatorKeyTags[o], t, {})
      <4> HIDE DEF tags
      <4> QED BY <1>0, <2>1, <3>0, HistoryAfterPush
    <3>3. t = now => UpperLookupRecent(operatorKeyTags[o], t, {})
                        = Latest(operatorKeyTags[o], {})
      BY <1>0, <2>1, HistoryNow
    <3> QED BY <1>0, <2>2, <3>1, <3>2, <3>3 DEF getKeyTagsAt
  <2>3. CASE o # operator
    <3>1. operatorKeyTags'[o] = operatorKeyTags[o]
      BY <2>1, <2>3 DEF SetKey
    <3> QED BY <2>3, <3>1 DEF getKeyTagsAt
  <2> QED BY <2>2, <2>3
<1>3. ASSUME NEW t \in 1..now
      PROVE  getKeysOperatorsAt(t)' =
                 IF t = now THEN getKeysOperatorsAt(t) \union {operator}
                            ELSE getKeysOperatorsAt(t)
  <2> DEFINE all == Latest(operators, {}) \union {operator}
  <2>1. operators \in Trace(SUBSET Operators) /\ operators' = Push(operators, now, all)
    BY Types DEF SetKey
  <2>0. all \in SUBSET Operators
    <3>1. Latest(operators, {}) \in (SUBSET Operators) \union {{}}
      BY <1>0, <2>1, HistoryLatest
    <3> QED BY <3>1
  <2>2. UpperLookupRecent(Push(operators, now, all), t, {}) =
          IF t >= now THEN all ELSE UpperLookupRecent(operators, t, {})
    <3> HIDE DEF all
    <3> QED BY <1>0, <2>0, <2>1, HistoryAfterPush
  <2>3. t = now => UpperLookupRecent(operators, t, {}) = Latest(operators, {})
    BY <1>0, <2>1, HistoryNow
  <2> QED BY <1>0, <2>1, <2>2, <2>3 DEF getKeysOperatorsAt
<1> QED BY <1>1, <1>2, <1>3

LEMMA SetKeyTypes ==
    ASSUME TypeOK, NEW operator \in Operators, NEW tag \in KeyTags,
           NEW key \in Keys, SetKey(operator, tag, key)
    PROVE  TypeOK'
<1>0. now \in 1..MaxTime /\ now' = now
  BY Types DEF SetKey
<1>1. /\ DOMAIN keys' = Operators \X KeyTags
      /\ \A p \in DOMAIN keys' : keys'[p] \in Trace(Keys)
  <2>1. /\ DOMAIN keys = Operators \X KeyTags
        /\ \A p \in DOMAIN keys : keys[p] \in Trace(Keys)
        /\ keys' = [keys EXCEPT ![<<operator, tag>>] =
                       Push(keys[<<operator, tag>>], now, key)]
    BY DEF TypeOK, SetKey, PushKey
  <2>2. Push(keys[<<operator, tag>>], now, key) \in Trace(Keys)
    BY <1>0, <2>1, HistoryPush
  <2> QED BY <2>1, <2>2
<1>2. /\ DOMAIN operatorKeyTags' = Operators
      /\ \A o \in Operators : operatorKeyTags'[o] \in Trace(SUBSET KeyTags)
  <2> DEFINE tags == Latest(operatorKeyTags[operator], {}) \union {tag}
  <2>1. /\ DOMAIN operatorKeyTags = Operators
        /\ \A o \in Operators : operatorKeyTags[o] \in Trace(SUBSET KeyTags)
        /\ operatorKeyTags' = [operatorKeyTags EXCEPT ![operator] =
                                  Push(operatorKeyTags[operator], now, tags)]
    BY DEF TypeOK, SetKey, WithTag
  <2>2. Latest(operatorKeyTags[operator], {}) \in (SUBSET KeyTags) \union {{}}
    BY <1>0, <2>1, HistoryLatest
  <2>3. tags \in SUBSET KeyTags
    BY <2>2
  <2>4. Push(operatorKeyTags[operator], now, tags) \in Trace(SUBSET KeyTags)
    BY <1>0, <2>1, <2>3, HistoryPush
  <2> QED BY <2>1, <2>4
<1>3. operators' \in Trace(SUBSET Operators)
  <2> DEFINE all == Latest(operators, {}) \union {operator}
  <2>1. operators \in Trace(SUBSET Operators) /\ operators' = Push(operators, now, all)
    BY DEF TypeOK, SetKey
  <2>2. Latest(operators, {}) \in (SUBSET Operators) \union {{}}
    BY <1>0, <2>1, HistoryLatest
  <2>3. all \in SUBSET Operators
    BY <2>2
  <2> QED BY <1>0, <2>1, <2>3, HistoryPush
<1>4. /\ operatorByKey' \in [Keys -> Operators \union {NoOperator}]
      /\ operatorByTypeAndKey' \in [KeyTypes \X Keys -> Operators \union {NoOperator}]
      /\ operatorByTagAndKey' \in [KeyTags \X Keys -> Operators \union {NoOperator}]
  BY DEF TypeOK, SetKey
<1>5. \A V : Trace(V)' = Trace(V)
  BY <1>0 DEF Trace
<1> QED BY <1>0, <1>1, <1>2, <1>3, <1>4, <1>5 DEF TypeOK
(* Time passing leaves the past and makes the present last.                *)
LEMMA TickHistories ==
    ASSUME TypeOK, Tick
    PROVE  /\ now' = now + 1 /\ now \in Nat
           /\ \A o \in Operators, g \in KeyTags, t \in Nat :
                 /\ getKeyAt(o, g, t)' = getKeyAt(o, g, t)
                 /\ t >= now => getKeyAt(o, g, t) = getKeyAt(o, g, now)
           /\ \A o \in Operators, t \in Nat :
                 /\ getKeyTagsAt(o, t)' = getKeyTagsAt(o, t)
                 /\ t >= now => getKeyTagsAt(o, t) = getKeyTagsAt(o, now)
           /\ \A t \in Nat :
                 /\ getKeysOperatorsAt(t)' = getKeysOperatorsAt(t)
                 /\ t >= now => getKeysOperatorsAt(t) = getKeysOperatorsAt(now)
<1>0. now \in 1..MaxTime /\ now \in Nat /\ now >= now
  BY Types
<1>1. now' = now + 1 /\ UNCHANGED <<keys, owners, operators, operatorKeyTags>>
  BY DEF Tick
<1>2. ASSUME NEW o \in Operators, NEW g \in KeyTags, NEW t \in Nat
      PROVE  /\ getKeyAt(o, g, t)' = getKeyAt(o, g, t)
             /\ t >= now => getKeyAt(o, g, t) = getKeyAt(o, g, now)
  <2>1. keys[<<o, g>>] \in Trace(Keys)
    BY Types
  <2>2. UpperLookupRecent(keys[<<o, g>>], now, NoKey) = Latest(keys[<<o, g>>], NoKey)
    BY <1>0, <2>1, HistoryNow
  <2>3. t >= now =>
          UpperLookupRecent(keys[<<o, g>>], t, NoKey) = Latest(keys[<<o, g>>], NoKey)
    BY <1>0, <2>1, HistoryNow
  <2> QED BY <1>1, <2>2, <2>3 DEF getKeyAt
<1>3. ASSUME NEW o \in Operators, NEW t \in Nat
      PROVE  /\ getKeyTagsAt(o, t)' = getKeyTagsAt(o, t)
             /\ t >= now => getKeyTagsAt(o, t) = getKeyTagsAt(o, now)
  <2>1. operatorKeyTags[o] \in Trace(SUBSET KeyTags)
    BY Types
  <2>2. UpperLookupRecent(operatorKeyTags[o], now, {}) = Latest(operatorKeyTags[o], {})
    BY <1>0, <2>1, HistoryNow
  <2>3. t >= now =>
          UpperLookupRecent(operatorKeyTags[o], t, {}) = Latest(operatorKeyTags[o], {})
    BY <1>0, <2>1, HistoryNow
  <2> QED BY <1>1, <2>2, <2>3 DEF getKeyTagsAt
<1>4. ASSUME NEW t \in Nat
      PROVE  /\ getKeysOperatorsAt(t)' = getKeysOperatorsAt(t)
             /\ t >= now => getKeysOperatorsAt(t) = getKeysOperatorsAt(now)
  <2>1. operators \in Trace(SUBSET Operators)
    BY Types
  <2>2. UpperLookupRecent(operators, now, {}) = Latest(operators, {})
    BY <1>0, <2>1, HistoryNow
  <2>3. t >= now => UpperLookupRecent(operators, t, {}) = Latest(operators, {})
    BY <1>0, <2>1, HistoryNow
  <2> QED BY <1>1, <2>2, <2>3 DEF getKeysOperatorsAt
<1> QED BY <1>0, <1>1, <1>2, <1>3, <1>4

LEMMA TickTypes ==
    ASSUME TypeOK, Tick
    PROVE  TypeOK'
<1>0. now \in 1..MaxTime /\ now \in Nat /\ now' = now + 1 /\ now' \in 1..MaxTime
  BY Types, RegistryAssumption DEF Tick, RegistryAssumption
<1>1. ASSUME NEW V, NEW trace \in Trace(V) PROVE trace \in Trace(V)'
  <2>1. /\ trace \in Seq([key : 1..MaxTime, value : V]) /\ Len(trace) \in Nat
        /\ \A j \in 1..Len(trace) : trace[j].key \in Nat
    BY <1>0, HistoryShape, TraceShape
  <2>2. trace # <<>> => Len(trace) \in 1..Len(trace)
    BY <2>1
  <2>3. trace # <<>> => LastKey(trace) \in Nat
    BY <2>1, <2>2 DEF LastKey
  <2> QED BY <1>0, <1>1, <2>3 DEF Trace
<1>2. UNCHANGED <<keys, operatorByKey, operatorByTypeAndKey, operatorByTagAndKey,
                  operators, operatorKeyTags>>
  BY DEF Tick, owners
<1> QED BY <1>0, <1>1, <1>2 DEF TypeOK

-----------------------------------------------------------------------------
(* The step of each part of the invariant.                                 *)

LEMMA SetKeyMaps ==
    ASSUME TypeOK, MapsAgree, NEW operator \in Operators, NEW tag \in KeyTags,
           NEW key \in Keys, SetKey(operator, tag, key)
    PROVE  MapsAgree' /\ Owns(operator, tag, key)'
<1> DEFINE Ty(k, type) == operatorByTypeAndKey[<<type, k>>]
           Tg(k, g) == operatorByTagAndKey[<<g, k>>]
<1>1. \A g \in KeyTags : TypeOfTag[g] \in KeyTypes
  BY DEF KeyTypes
<1>2. /\ \A k \in Keys : operatorByKey'[k] =
            IF k = key THEN operator ELSE operatorByKey[k]
      /\ \A k \in Keys, type \in KeyTypes : operatorByTypeAndKey'[<<type, k>>] =
            IF k = key /\ type = TypeOfTag[tag] THEN operator ELSE Ty(k, type)
      /\ \A k \in Keys, g \in KeyTags : operatorByTagAndKey'[<<g, k>>] =
            IF k = key /\ g = tag THEN operator ELSE Tg(k, g)
  BY <1>1 DEF SetKey, TypeOK
<1>3. operator # NoOperator
  BY RegistryAssumption DEF RegistryAssumption
<1>4. /\ TypeOfKey[key] = TypeOfTag[tag] /\ <<operator, key>> \in Signed
      /\ operatorByKey[key] # NoOperator =>
            /\ operatorByKey[key] = operator
            /\ Ty(key, TypeOfTag[tag]) # NoOperator => Tg(key, tag) # NoOperator
  BY DEF SetKey, CanSetKey, _verifyKey, IsFree
<1>5. ASSUME NEW k \in Keys
      PROVE  /\ \A type \in KeyTypes :
                   Ty(k, type) # NoOperator => operatorByKey[k] = Ty(k, type)
             /\ \A g \in KeyTags : Tg(k, g) # NoOperator =>
                   Ty(k, TypeOfTag[g]) = Tg(k, g) /\ TypeOfTag[g] = TypeOfKey[k]
             /\ \A g, h \in KeyTags :
                   Tg(k, g) # NoOperator /\ Tg(k, h) # NoOperator => g = h
  BY DEF MapsAgree
<1>6. ASSUME NEW g \in KeyTags, Tg(key, g) # NoOperator PROVE g = tag
  <2>1. /\ Ty(key, TypeOfTag[g]) = Tg(key, g) /\ TypeOfTag[g] = TypeOfTag[tag]
        /\ TypeOfTag[g] \in KeyTypes
    BY <1>1, <1>4, <1>5, <1>6
  <2>2. operatorByKey[key] = Ty(key, TypeOfTag[g])
    BY <1>5, <1>6, <2>1
  <2>3. Tg(key, tag) # NoOperator
    BY <1>4, <1>6, <2>1, <2>2
  <2> QED BY <1>5, <1>6, <2>3
<1>7. \A type \in KeyTypes : Ty(key, type) # NoOperator => Ty(key, type) = operator
  BY <1>4, <1>5
<1>8. MapsAgree'
  BY <1>1, <1>2, <1>3, <1>4, <1>5, <1>6, <1>7 DEF MapsAgree, KeyTypes
<1> QED BY <1>1, <1>2, <1>4, <1>8 DEF Owns, _verifyKey

(* Nobody takes a key from its owner.                                      *)
LEMMA OwnsStays ==
    ASSUME TypeOK, NEW operator \in Operators, NEW tag \in KeyTags,
           NEW key \in Keys, SetKey(operator, tag, key),
           NEW o \in Operators, NEW g \in KeyTags, NEW k, Owns(o, g, k)
    PROVE  Owns(o, g, k)'
<1>1. k \in Keys /\ TypeOfTag[g] \in KeyTypes /\ o # NoOperator
  BY RegistryAssumption DEF Owns, KeyTypes, RegistryAssumption
<1>2. k = key => o = operator
  BY <1>1 DEF SetKey, CanSetKey, IsFree, Owns
<1>3. /\ operatorByKey'[k] \in {operatorByKey[k], operator}
      /\ k # key => operatorByKey'[k] = operatorByKey[k]
  BY <1>1 DEF SetKey, TypeOK
<1>4. /\ operatorByTypeAndKey'[<<TypeOfTag[g], k>>]
            \in {operatorByTypeAndKey[<<TypeOfTag[g], k>>], operator}
      /\ k # key => operatorByTypeAndKey'[<<TypeOfTag[g], k>>]
                        = operatorByTypeAndKey[<<TypeOfTag[g], k>>]
  BY <1>1 DEF SetKey, TypeOK
<1>5. /\ operatorByTagAndKey'[<<g, k>>] \in {operatorByTagAndKey[<<g, k>>], operator}
      /\ k # key => operatorByTagAndKey'[<<g, k>>] = operatorByTagAndKey[<<g, k>>]
  BY <1>1 DEF SetKey, TypeOK
<1> QED BY <1>1, <1>2, <1>3, <1>4, <1>5 DEF Owns, _verifyKey

LEMMA SetKeyHolds ==
    ASSUME IInv, NEW operator \in Operators, NEW tag \in KeyTags,
           NEW key \in Keys, SetKey(operator, tag, key)
    PROVE  IInv'
<1>0. TypeOK /\ MapsAgree /\ Owned /\ now' = now /\ key # NoKey
  BY RegistryAssumption DEF IInv, HistoriesAgree, SetKey, RegistryAssumption
<1>1. TypeOK'
  BY <1>0, SetKeyTypes
<1>2. MapsAgree' /\ Owns(operator, tag, key)'
  BY <1>0, SetKeyMaps
<1>3. Owned'
  <2> SUFFICES ASSUME NEW o \in Operators, NEW g \in KeyTags, NEW t \in 1..now,
                      getKeyAt(o, g, t)' # NoKey
               PROVE  Owns(o, g, getKeyAt(o, g, t))'
    BY <1>0 DEF Owned
  <2>1. getKeyAt(o, g, t)' = IF o = operator /\ g = tag /\ t = now THEN key
                                                    ELSE getKeyAt(o, g, t)
    BY <1>0, SetKeyHistories
  <2>2. CASE o = operator /\ g = tag /\ t = now
    BY <1>2, <2>1, <2>2 DEF Owns, _verifyKey
  <2>3. CASE ~(o = operator /\ g = tag /\ t = now)
    <3> DEFINE k == getKeyAt(o, g, t)
    <3>1. getKeyAt(o, g, t)' = k /\ Owns(o, g, k)
      BY <1>0, <2>1, <2>3 DEF Owned
    <3> HIDE DEF k
    <3> QED BY <1>0, <3>1, OwnsStays DEF Owns, _verifyKey
  <2> QED BY <2>2, <2>3
<1>4. HistoriesAgree'
  <2>1. ASSUME NEW t \in 1..now, NEW o \in Operators, NEW g \in KeyTags
        PROVE  g \in getKeyTagsAt(o, t)' <=> getKeyAt(o, g, t)' # NoKey
    <3>1. g \in getKeyTagsAt(o, t) <=> getKeyAt(o, g, t) # NoKey
      BY DEF IInv, HistoriesAgree
    <3>2. /\ getKeyAt(o, g, t)' = IF o = operator /\ g = tag /\ t = now THEN key
                                                      ELSE getKeyAt(o, g, t)
          /\ getKeyTagsAt(o, t)' = IF o = operator /\ t = now
                THEN getKeyTagsAt(o, t) \union {tag} ELSE getKeyTagsAt(o, t)
      BY <1>0, SetKeyHistories
    <3> QED BY <1>0, <3>1, <3>2
  <2>2. ASSUME NEW t \in 1..now, NEW o \in Operators
        PROVE  o \in getKeysOperatorsAt(t)' <=> getKeyTagsAt(o, t)' # {}
    <3>1. o \in getKeysOperatorsAt(t) <=> getKeyTagsAt(o, t) # {}
      BY DEF IInv, HistoriesAgree
    <3>2. /\ getKeysOperatorsAt(t)' =
                IF t = now THEN getKeysOperatorsAt(t) \union {operator}
                           ELSE getKeysOperatorsAt(t)
          /\ getKeyTagsAt(o, t)' = IF o = operator /\ t = now
                THEN getKeyTagsAt(o, t) \union {tag} ELSE getKeyTagsAt(o, t)
      BY <1>0, SetKeyHistories
    <3> QED BY <3>1, <3>2
  <2> QED BY <1>0, <1>1, <2>1, <2>2 DEF HistoriesAgree
<1> QED BY <1>2, <1>3, <1>4 DEF IInv
LEMMA TickHolds ==
    ASSUME IInv, Tick
    PROVE  IInv'
<1>0. /\ TypeOK /\ now' = now + 1 /\ now \in Nat /\ now \in 1..now
      /\ \A t \in 1..now' : t \in Nat /\ (t \in 1..now \/ t >= now)
  <2>1. TypeOK
    BY DEF IInv, HistoriesAgree
  <2>2. now' = now + 1 /\ now \in Nat /\ now \in 1..now
    BY <2>1, Types DEF Tick
  <2> QED BY <2>1, <2>2
<1>1. TypeOK'
  BY <1>0, TickTypes
<1>2. MapsAgree'
  BY DEF IInv, MapsAgree, Tick, owners
(* Every time up to the new present reads as one up to the old.            *)
<1>3. ASSUME NEW t \in 1..now'
      PROVE  \E u \in 1..now :
                /\ \A o \in Operators, g \in KeyTags :
                      getKeyAt(o, g, t)' = getKeyAt(o, g, u)
                /\ \A o \in Operators : getKeyTagsAt(o, t)' = getKeyTagsAt(o, u)
                /\ getKeysOperatorsAt(t)' = getKeysOperatorsAt(u)
  <2>1. CASE t \in 1..now
    <3> WITNESS t \in 1..now
    <3> QED BY <1>0, TickHistories
  <2>2. CASE t >= now
    <3> USE <1>0
    <3> WITNESS now \in 1..now
    <3>1. ASSUME NEW o \in Operators, NEW g \in KeyTags
          PROVE  getKeyAt(o, g, t)' = getKeyAt(o, g, now)
      BY <1>0, <2>2, TickHistories
    <3>2. ASSUME NEW o \in Operators
          PROVE  getKeyTagsAt(o, t)' = getKeyTagsAt(o, now)
      BY <1>0, <2>2, TickHistories
    <3>3. getKeysOperatorsAt(t)' = getKeysOperatorsAt(now)
      BY <1>0, <2>2, TickHistories
    <3> QED BY <3>1, <3>2, <3>3
  <2> QED BY <1>0, <2>1, <2>2
<1>4. Owned'
  <2> SUFFICES ASSUME NEW o \in Operators, NEW g \in KeyTags, NEW t \in 1..now',
                      getKeyAt(o, g, t)' # NoKey
               PROVE  Owns(o, g, getKeyAt(o, g, t))'
    BY DEF Owned
  <2>1. PICK u \in 1..now : getKeyAt(o, g, t)' = getKeyAt(o, g, u)
    BY <1>3
  <2>2. Owns(o, g, getKeyAt(o, g, u))
    BY <2>1 DEF IInv, Owned
  <2> QED BY <2>1, <2>2 DEF Owns, _verifyKey, Tick, owners
<1>5. HistoriesAgree'
  <2>1. ASSUME NEW t \in 1..now', NEW o \in Operators
        PROVE  /\ \A g \in KeyTags :
                     g \in getKeyTagsAt(o, t)' <=> getKeyAt(o, g, t)' # NoKey
               /\ o \in getKeysOperatorsAt(t)' <=> getKeyTagsAt(o, t)' # {}
    <3>1. PICK u \in 1..now :
                /\ \A p \in Operators, g \in KeyTags :
                      getKeyAt(p, g, t)' = getKeyAt(p, g, u)
                /\ \A p \in Operators : getKeyTagsAt(p, t)' = getKeyTagsAt(p, u)
                /\ getKeysOperatorsAt(t)' = getKeysOperatorsAt(u)
      BY <1>3
    <3>2. /\ \A g \in KeyTags :
                g \in getKeyTagsAt(o, u) <=> getKeyAt(o, g, u) # NoKey
          /\ o \in getKeysOperatorsAt(u) <=> getKeyTagsAt(o, u) # {}
      BY DEF IInv, HistoriesAgree
    <3> QED BY <3>1, <3>2
  <2> QED BY <1>1, <2>1 DEF HistoriesAgree
<1> QED BY <1>2, <1>4, <1>5 DEF IInv

LEMMA UnchangedHolds ==
    ASSUME IInv, UNCHANGED vars
    PROVE  IInv'
<1> USE DEF vars
<1>1. TypeOK'
  BY DEF IInv, HistoriesAgree, TypeOK, Trace
<1>2. \A o \in Operators : \A t, g :
        /\ getKeyAt(o, g, t)' = getKeyAt(o, g, t)
        /\ getKeyTagsAt(o, t)' = getKeyTagsAt(o, t)
        /\ getKeysOperatorsAt(t)' = getKeysOperatorsAt(t)
  BY DEF getKeyAt, getKeyTagsAt, getKeysOperatorsAt
<1>3. HistoriesAgree'
  BY <1>1, <1>2 DEF IInv, HistoriesAgree
<1>4. Owned' /\ MapsAgree'
  BY <1>2 DEF IInv, Owned, Owns, _verifyKey, MapsAgree
<1> QED BY <1>3, <1>4 DEF IInv

LEMMA InvariantHolds == Spec => []IInv
<1>1. Init => IInv
  BY InitHolds
<1>2. IInv /\ [Next]_vars => IInv'
  <2> SUFFICES ASSUME IInv, [Next]_vars PROVE IInv' OBVIOUS
  <2>1. CASE setKey
    BY <2>1, SetKeyCases, SetKeyHolds
  <2>2. CASE Tick
    BY <2>2, TickHolds
  <2>3. CASE UNCHANGED vars
    BY <2>3, UnchangedHolds
  <2> QED BY <2>1, <2>2, <2>3 DEF Next
<1> QED BY <1>1, <1>2, PTL DEF Spec

-----------------------------------------------------------------------------
(* The keys listed for an operator are keys it owns.                       *)
LEMMA ListedAreOwned ==
    ASSUME IInv, NEW o \in Operators, NEW t \in 1..now, NEW k \in getKeysAt(o, t)
    PROVE  /\ k.tag \in KeyTags /\ k.payload \in Keys
           /\ k.payload = getKeyAt(o, k.tag, t)
           /\ Owns(o, k.tag, k.payload)
<1>1. TypeOK /\ now \in 1..MaxTime /\ operatorKeyTags[o] \in Trace(SUBSET KeyTags)
  BY Types DEF IInv, HistoriesAgree
<1>2. PICK tag \in getKeyTagsAt(o, t) :
        k = [tag |-> tag, payload |-> getKeyAt(o, tag, t)]
  BY DEF getKeysAt
<1>3. getKeyTagsAt(o, t) \in (SUBSET KeyTags) \union {{}}
  BY <1>1, HistoryValue DEF getKeyTagsAt
<1>4. tag \in KeyTags /\ k.tag = tag /\ k.payload = getKeyAt(o, tag, t)
  BY <1>2, <1>3
<1>5. getKeyAt(o, tag, t) # NoKey
  BY <1>2, <1>4 DEF IInv, HistoriesAgree
<1>6. Owns(o, tag, getKeyAt(o, tag, t))
  BY <1>4, <1>5 DEF IInv, Owned
<1> QED BY <1>4, <1>6 DEF Owns

(* At every time, the lists of operators and tags are exactly those that   *)
(* have keys; and the storage keeps its types.                             *)
THEOREM HistoriesHold == Spec => []HistoriesAgree
<1>1. IInv => HistoriesAgree BY DEF IInv
<1> QED BY <1>1, InvariantHolds, PTL

(* No key is ever two operators' or under two tags, at whatever times one  *)
(* asks.                                                                   *)
THEOREM ExclusiveHolds == Spec => []KeysAreExclusive
<1>1. ASSUME IInv PROVE KeysAreExclusive
  <2> SUFFICES ASSUME NEW o \in Operators, NEW p \in Operators,
                      NEW t \in 1..now, NEW u \in 1..now,
                      NEW k \in getKeysAt(o, t), NEW l \in getKeysAt(p, u),
                      k.payload = l.payload
               PROVE  o = p /\ k.tag = l.tag
    BY DEF KeysAreExclusive
  <2>1. k.tag \in KeyTags /\ k.payload \in Keys /\ Owns(o, k.tag, k.payload)
    BY <1>1, ListedAreOwned
  <2>2. l.tag \in KeyTags /\ Owns(p, l.tag, k.payload)
    BY <1>1, ListedAreOwned
  <2>3. o # NoOperator
    BY RegistryAssumption DEF RegistryAssumption
  <2> QED BY <1>1, <2>1, <2>2, <2>3 DEF Owns, IInv, MapsAgree
<1> QED BY <1>1, InvariantHolds, PTL

(* A key an operator ever had stays its own, and it may return to it.      *)
THEOREM OwnKeysHold == Spec => []OwnKeysStay
<1>1. ASSUME IInv PROVE OwnKeysStay
  <2> SUFFICES ASSUME NEW o \in Operators, NEW t \in 1..now,
                      NEW k \in getKeysAt(o, t)
               PROVE  /\ operatorByKey[k.payload] = o
                      /\ operatorByTypeAndKey[<<TypeOfTag[k.tag], k.payload>>] = o
                      /\ operatorByTagAndKey[<<k.tag, k.payload>>] = o
                      /\ CanSetKey(o, k.tag, k.payload)
    BY DEF OwnKeysStay
  <2>1. Owns(o, k.tag, k.payload) /\ o # NoOperator
    BY <1>1, ListedAreOwned, RegistryAssumption DEF RegistryAssumption
  <2> QED BY <2>1 DEF Owns, CanSetKey, IsFree
<1> QED BY <1>1, InvariantHolds, PTL

(* What the registry says of a past time never changes.                    *)
THEOREM PastKeysHold == Spec => PastKeysAreFinal
<1> DEFINE Final == \A t \in 1..(now - 1), o \in Operators :
                        getKeysAt(o, t)' = getKeysAt(o, t)
<1>1. ASSUME IInv, [Next]_vars PROVE Final
  <2> SUFFICES ASSUME NEW t \in 1..(now - 1), NEW o \in Operators
               PROVE  getKeysAt(o, t)' = getKeysAt(o, t)
    OBVIOUS
  <2>0. /\ TypeOK /\ now \in 1..MaxTime /\ now \in Nat /\ t \in Nat
        /\ t \in 1..now /\ t # now
        /\ operatorKeyTags[o] \in Trace(SUBSET KeyTags)
    <3>1. TypeOK
      BY <1>1 DEF IInv, HistoriesAgree
    <3>2. /\ now \in 1..MaxTime /\ now \in Nat
          /\ operatorKeyTags[o] \in Trace(SUBSET KeyTags)
      BY <3>1, Types
    <3> QED BY <3>1, <3>2
  <2>1. getKeyTagsAt(o, t) \in (SUBSET KeyTags) \union {{}}
    BY <2>0, HistoryValue DEF getKeyTagsAt
  <2>2. ASSUME /\ getKeyTagsAt(o, t)' = getKeyTagsAt(o, t)
               /\ \A g \in KeyTags : getKeyAt(o, g, t)' = getKeyAt(o, g, t)
        PROVE  getKeysAt(o, t)' = getKeysAt(o, t)
    BY <2>1, <2>2 DEF getKeysAt
  <2>3. CASE setKey
    <3>1. PICK operator \in Operators, tag \in KeyTags, key \in Keys :
            SetKey(operator, tag, key)
      BY <2>3, SetKeyCases
    <3>2. /\ getKeyTagsAt(o, t)' = getKeyTagsAt(o, t)
          /\ \A g \in KeyTags : getKeyAt(o, g, t)' = getKeyAt(o, g, t)
      BY <2>0, <3>1, SetKeyHistories
    <3> QED BY <2>2, <3>2
  <2>4. CASE Tick
    <3>1. /\ getKeyTagsAt(o, t)' = getKeyTagsAt(o, t)
          /\ \A g \in KeyTags : getKeyAt(o, g, t)' = getKeyAt(o, g, t)
      BY <2>0, <2>4, TickHistories
    <3> QED BY <2>2, <3>1
  <2>5. CASE UNCHANGED vars
    BY <2>5 DEF vars, getKeysAt, getKeyTagsAt, getKeyAt
  <2> QED BY <1>1, <2>3, <2>4, <2>5 DEF Next
<1>2. IInv /\ [Next]_vars => [Final]_vars
  BY <1>1
<1> QED BY <1>2, InvariantHolds, PTL DEF Spec, PastKeysAreFinal
=============================================================================
