------------------------- MODULE CheckpointsProofs -------------------------
(***************************************************************************)
(* What lookups and pushes do to a trace of any length, for the modules    *)
(* that prove something about a history; and the arithmetic they share.    *)
(***************************************************************************)
EXTENDS Checkpoints, Sublists, FiniteSetTheorems, WellFoundedInduction, TLAPS

Traces(K, V) == {trace \in Seq([key : K, value : V]) : Sorted(trace)}

AreKeys(K) == K \subseteq Nat

(* The least element of a set of numbers: a statement about every length   *)
(* is proved from its least counterexample.                                *)
LEMMA LeastNumber ==
    ASSUME NEW S, S \subseteq Nat, S # {}
    PROVE  \E d \in S : \A k \in S : d <= k
<1> DEFINE R == OpToRel(<, Nat)
<1>1. IsWellFoundedOn(R, Nat) /\ R = {ss \in Nat \X Nat : ss[1] < ss[2]}
  BY NatLessThanWellFounded DEF OpToRel
<1> HIDE DEF R
<1>2. PICK d \in S : \A k \in S : <<k, d>> \notin R
  BY <1>1, WFMin
<1>3. ASSUME NEW k \in S PROVE d <= k
  <2>1. \A a, b \in Nat : a < b => <<a, b>> \in R
    BY <1>1
  <2>2. ~(k < d)
    BY <1>2, <2>1, Zenon
  <2> QED BY <2>2
<1> QED BY <1>3

(* Division rounds down.                                                   *)
LEMMA DivBounds ==
    ASSUME NEW a \in Nat, NEW d \in Nat \ {0}
    PROVE  /\ a \div d \in Nat
           /\ (a \div d) * d <= a
           /\ a < (a \div d + 1) * d
BY SMT

LEMMA TimesOrder ==
    ASSUME NEW d \in Nat \ {0}, NEW a \in Int, NEW b \in Int
    PROVE  /\ a * d < b * d => a < b
           /\ a * d <= b * d => a <= b
BY SMT

LEMMA TimesSuccessor ==
    ASSUME NEW d \in Nat, NEW a \in Int
    PROVE  (a + 1) * d = a * d + d
BY SMT

(* Keys that increase from each checkpoint to the next increase along the  *)
(* whole trace.                                                            *)
LEMMA StepsSort ==
    ASSUME NEW trace, Len(trace) \in Nat,
           \A i \in 1..Len(trace) : trace[i].key \in Nat,
           \A i \in 1..(Len(trace) - 1) : trace[i].key < trace[i + 1].key
    PROVE  Sorted(trace)
<1> DEFINE n == Len(trace)
<1> SUFFICES ASSUME NEW i \in 1..n, NEW j \in 1..n, i < j,
                    ~(trace[i].key < trace[j].key)
             PROVE  FALSE
  BY DEF Sorted
<1> DEFINE S == {k \in 1..n : i < k /\ ~(trace[i].key < trace[k].key)}
<1>1. PICK d \in S : \A k \in S : d <= k
  <2>1. S \subseteq Nat /\ j \in S
    OBVIOUS
  <2> HIDE DEF S
  <2> QED BY <2>1, LeastNumber
<1>2. d \in 1..n /\ i < d /\ ~(trace[i].key < trace[d].key)
  BY <1>1
<1>3. d - 1 \in 1..(n - 1) /\ d - 1 \in 1..n /\ (d - 1) + 1 = d
  BY <1>2
<1>4. trace[d - 1].key < trace[d].key
  BY <1>3
<1>5. CASE i = d - 1
  BY <1>2, <1>4, <1>5
<1>6. CASE i < d - 1
  <2>1. d - 1 \notin S
    BY <1>1, <1>3
  <2>2. trace[i].key < trace[d - 1].key
    BY <1>3, <1>6, <2>1
  <2>3. /\ trace[i].key \in Nat /\ trace[d - 1].key \in Nat
        /\ trace[d].key \in Nat
    BY <1>2, <1>3
  <2> QED BY <1>2, <1>4, <2>2, <2>3
<1> QED BY <1>2, <1>3, <1>5, <1>6

(* A checkpoint whose neighbour lies beyond the key is the one found.      *)
LEMMA UpperBetween ==
    ASSUME NEW trace, Len(trace) \in Nat, Sorted(trace),
           \A j \in 1..Len(trace) : trace[j].key \in Nat,
           NEW key \in Nat, NEW i \in 1..Len(trace), trace[i].key <= key,
           i < Len(trace) => key < trace[i + 1].key
    PROVE  IsUpper(trace, key, i)
<1>1. ASSUME NEW j \in 1..Len(trace), trace[j].key <= key PROVE j <= i
  <2>1. SUFFICES ASSUME i < j PROVE FALSE
    OBVIOUS
  <2>2. i + 1 \in 1..Len(trace) /\ key < trace[i + 1].key
    BY <2>1
  <2>3. CASE j = i + 1
    BY <1>1, <2>2, <2>3
  <2>4. CASE i + 1 < j
    <3>1. trace[i + 1].key < trace[j].key
      BY <2>2, <2>4 DEF Sorted
    <3>2. trace[i + 1].key \in Nat /\ trace[j].key \in Nat
      BY <2>2
    <3> QED BY <1>1, <2>2, <3>1, <3>2
  <2> QED BY <2>1, <2>3, <2>4
<1> QED BY <1>1 DEF IsUpper

(* From the first key on, some checkpoint is found.                        *)
LEMMA UpperExists ==
    ASSUME NEW trace, Len(trace) \in Nat \ {0}, Sorted(trace),
           \A j \in 1..Len(trace) : trace[j].key \in Nat,
           NEW key \in Nat, trace[1].key <= key
    PROVE  \E i \in 1..Len(trace) : IsUpper(trace, key, i)
<1> DEFINE n == Len(trace)
           S == {d \in Nat : n - d \in 1..n /\ trace[n - d].key <= key}
<1>1. PICK d \in S : \A k \in S : d <= k
  <2>1. n - 1 \in Nat /\ n - (n - 1) = 1
    OBVIOUS
  <2>2. S \subseteq Nat /\ n - 1 \in S
    BY <2>1
  <2> HIDE DEF S
  <2> QED BY <2>2, LeastNumber
<1>2. d \in Nat /\ n - d \in 1..n /\ trace[n - d].key <= key
  BY <1>1
<1>3. ASSUME NEW j \in 1..n, trace[j].key <= key PROVE j <= n - d
  <2>1. n - j \in Nat /\ n - (n - j) = j
    OBVIOUS
  <2>2. n - j \in S
    BY <1>3, <2>1
  <2>3. d <= n - j
    BY <1>1, <2>2
  <2> HIDE DEF S
  <2> QED BY <1>2, <2>3
<1> HIDE DEF S
<1> QED BY <1>2, <1>3 DEF IsUpper

LEMMA ElementIn ==
    ASSUME NEW S, NEW t \in Seq(S), NEW j \in 1..Len(t)
    PROVE  t[j] \in S
OBVIOUS

(* What the type of a trace says of its checkpoints.                       *)
LEMMA TraceShape ==
    ASSUME NEW K, AreKeys(K), NEW V, NEW trace \in Traces(K, V)
    PROVE  /\ trace \in Seq([key : K, value : V])
           /\ Sorted(trace) /\ Len(trace) \in Nat
           /\ \A j \in 1..Len(trace) : /\ trace[j].key \in K
                                       /\ trace[j].key \in Nat
                                       /\ trace[j].key <= LastKey(trace)
                                       /\ trace[j].value \in V
           /\ trace # <<>> => /\ Len(trace) \in 1..Len(trace)
                              /\ LastKey(trace) \in K /\ LastKey(trace) \in Nat
<1> USE DEF AreKeys
<1>1. /\ trace \in Seq([key : K, value : V]) /\ Sorted(trace)
      /\ Len(trace) \in Nat
  BY DEF Traces
<1>2. ASSUME NEW j \in 1..Len(trace)
      PROVE  trace[j].key \in K /\ trace[j].value \in V
  <2>1. trace[j] \in [key : K, value : V]
    BY <1>1, ElementIn
  <2> QED BY <2>1
<1>3. trace # <<>> => Len(trace) \in 1..Len(trace)
  BY <1>1
<1>4. trace # <<>> => LastKey(trace) \in K /\ LastKey(trace) \in Nat
  BY <1>2, <1>3 DEF LastKey
<1>5. ASSUME NEW j \in 1..Len(trace) PROVE trace[j].key <= LastKey(trace)
  <2>1. trace # <<>> /\ Len(trace) \in 1..Len(trace)
    BY <1>1, <1>3
  <2>2. j < Len(trace) => trace[j].key < LastKey(trace)
    BY <1>1, <2>1 DEF Sorted, LastKey
  <2>3. j = Len(trace) => trace[j].key = LastKey(trace)
    BY DEF LastKey
  <2> QED BY <1>1, <1>2, <1>4, <2>1, <2>2, <2>3
<1> QED BY <1>1, <1>2, <1>3, <1>4, <1>5

-----------------------------------------------------------------------------
(* The checkpoint a lookup finds is the only one it can.                   *)
LEMMA LookupFinds ==
    ASSUME NEW trace, Len(trace) \in Nat, NEW time, NEW zero, NEW i,
           IsUpper(trace, time, i)
    PROVE  UpperLookupRecent(trace, time, zero) = trace[i].value
<1>1. i \in 1..Len(trace) /\ Covers(trace, time)
  BY DEF IsUpper, Covers
<1>2. ASSUME NEW j \in 1..Len(trace), IsUpper(trace, time, j) PROVE j = i
  BY <1>1, <1>2 DEF IsUpper
<1>3. UpperIndex(trace, time) = i
  BY <1>1, <1>2 DEF UpperIndex
<1> QED BY <1>1, <1>3 DEF UpperLookupRecent

LEMMA LookupType ==
    ASSUME NEW K, AreKeys(K), NEW V, NEW trace \in Traces(K, V),
           NEW time, NEW zero
    PROVE  UpperLookupRecent(trace, time, zero) \in V \union {zero}
<1>0. Len(trace) \in Nat /\ \A j \in 1..Len(trace) : trace[j].value \in V
  BY TraceShape
<1>1. CASE Covers(trace, time)
  <2>1. PICK i \in 1..Len(trace) : IsUpper(trace, time, i)
    BY <1>1 DEF Covers
  <2>2. UpperLookupRecent(trace, time, zero) = trace[i].value
    BY <1>0, <2>1, LookupFinds
  <2> QED BY <1>0, <2>1, <2>2
<1>2. CASE ~Covers(trace, time)
  BY <1>2 DEF UpperLookupRecent
<1> QED BY <1>1, <1>2

(* A lookup at a key of the trace reads the checkpoint of that key.        *)
LEMMA LookupAtKey ==
    ASSUME NEW K, AreKeys(K), NEW V, NEW trace \in Traces(K, V),
           NEW i \in 1..Len(trace), NEW zero
    PROVE  UpperLookupRecent(trace, trace[i].key, zero) = trace[i].value
<1>0. /\ Sorted(trace) /\ Len(trace) \in Nat
      /\ \A j \in 1..Len(trace) : trace[j].key \in Nat
  BY TraceShape
<1>1. ASSUME NEW j \in 1..Len(trace), trace[j].key <= trace[i].key PROVE j <= i
  <2>1. i < j => trace[i].key < trace[j].key
    BY <1>0 DEF Sorted
  <2> QED BY <1>0, <1>1, <2>1
<1>2. IsUpper(trace, trace[i].key, i)
  BY <1>0, <1>1 DEF IsUpper
<1> QED BY <1>0, <1>2, LookupFinds

(* From the last key on, a lookup reads the last checkpoint.               *)
LEMMA LookupLast ==
    ASSUME NEW K, AreKeys(K), NEW V, NEW trace \in Traces(K, V), NEW zero,
           NEW time \in Nat, trace # <<>> => LastKey(trace) <= time
    PROVE  UpperLookupRecent(trace, time, zero) = Latest(trace, zero)
<1>1. CASE trace = <<>>
  BY <1>1 DEF UpperLookupRecent, Latest, Covers
<1>2. CASE trace # <<>>
  <2>1. /\ Len(trace) \in Nat /\ Len(trace) \in 1..Len(trace)
        /\ \A j \in 1..Len(trace) : trace[j].key \in Nat
    BY <1>2, TraceShape
  <2>2. IsUpper(trace, time, Len(trace))
    BY <1>2, <2>1 DEF IsUpper, LastKey
  <2> QED BY <1>2, <2>1, <2>2, LookupFinds DEF Latest
<1> QED BY <1>1, <1>2

LEMMA LatestType ==
    ASSUME NEW K, AreKeys(K), NEW V, NEW trace \in Traces(K, V), NEW zero
    PROVE  Latest(trace, zero) \in V \union {zero}
BY TraceShape DEF Latest

-----------------------------------------------------------------------------
(* A push writes the last checkpoint and keeps those before it.            *)
PushedAt(m, pushed, trace, key, value) ==
    /\ m >= 1 /\ Len(pushed) = m
    /\ pushed[m] = [key |-> key, value |-> value]
    /\ \A j \in 1..(m - 1) : /\ j \in 1..Len(trace)
                             /\ pushed[j] = trace[j]
                             /\ trace[j].key < key
    /\ \/ Len(trace) = m - 1
       \/ Len(trace) = m /\ trace[m].key = key

LEMMA PushShape ==
    ASSUME NEW K, AreKeys(K), NEW V, NEW trace \in Traces(K, V),
           NEW key \in K, NEW value \in V, CanPush(trace, key),
           NEW pushed, pushed = Push(trace, key, value)
    PROVE  \E m \in Nat : /\ PushedAt(m, pushed, trace, key, value)
                          /\ pushed \in Seq([key : K, value : V])
<1> DEFINE n == Len(trace)
<1>0. /\ trace \in Seq([key : K, value : V])
      /\ Sorted(trace) /\ n \in Nat /\ key \in Nat
      /\ \A j \in 1..n : trace[j].key \in Nat /\ trace[j].key <= LastKey(trace)
      /\ trace # <<>> => LastKey(trace) \in Nat /\ LastKey(trace) <= key
  BY TraceShape DEF CanPush, AreKeys
<1>2. [key |-> key, value |-> value] \in [key : K, value : V]
  OBVIOUS
<1>3. CASE trace # <<>> /\ LastKey(trace) = key
  <2>1. pushed = [trace EXCEPT ![n] = [key |-> key, value |-> value]]
    BY <1>3 DEF Push, Checkpoint
  <2>2. /\ n >= 1 /\ n \in 1..n /\ Len(pushed) = n
        /\ pushed[n] = [key |-> key, value |-> value]
        /\ \A j \in 1..(n - 1) : pushed[j] = trace[j] /\ j \in 1..n /\ j < n
        /\ pushed \in Seq([key : K, value : V])
    BY <1>0, <1>2, <1>3, <2>1
  <2>3. \A j \in 1..(n - 1) : trace[j].key < key
    BY <1>0, <1>3, <2>2 DEF Sorted, LastKey
  <2> QED BY <1>0, <1>3, <2>2, <2>3 DEF LastKey, PushedAt
<1>4. CASE ~(trace # <<>> /\ LastKey(trace) = key)
  <2>1. pushed = Append(trace, [key |-> key, value |-> value])
    BY <1>4 DEF Push, Checkpoint
  <2>2. /\ n + 1 >= 1 /\ Len(pushed) = n + 1
        /\ pushed[n + 1] = [key |-> key, value |-> value]
        /\ \A j \in 1..(n + 1 - 1) : pushed[j] = trace[j] /\ j \in 1..n
        /\ n = n + 1 - 1
        /\ pushed \in Seq([key : K, value : V])
    BY <1>0, <1>2, <2>1
  <2>3. ASSUME NEW j \in 1..n PROVE trace[j].key < key
    <3>1. trace # <<>>
      BY <1>0
    <3> QED BY <1>0, <1>4, <3>1
  <2>4. \A j \in 1..(n + 1 - 1) : trace[j].key < key
    BY <2>2, <2>3
  <2> WITNESS n + 1 \in Nat
  <2> QED BY <1>0, <2>2, <2>4 DEF PushedAt
<1> QED BY <1>3, <1>4

LEMMA PushType ==
    ASSUME NEW K, AreKeys(K), NEW V, NEW trace \in Traces(K, V),
           NEW key \in K, NEW value \in V, CanPush(trace, key)
    PROVE  /\ Push(trace, key, value) \in Traces(K, V)
           /\ Push(trace, key, value) # <<>>
           /\ LastKey(Push(trace, key, value)) = key
<1> DEFINE pushed == Push(trace, key, value)
<1>0. pushed = Push(trace, key, value)
  OBVIOUS
<1> HIDE DEF pushed
<1>p. PICK m \in Nat : /\ PushedAt(m, pushed, trace, key, value)
                       /\ pushed \in Seq([key : K, value : V])
  BY <1>0, PushShape
<1>1. /\ m >= 1 /\ Len(pushed) = m
      /\ pushed[m] = [key |-> key, value |-> value]
      /\ \A j \in 1..(m - 1) : /\ j \in 1..Len(trace)
                               /\ pushed[j] = trace[j]
                               /\ trace[j].key < key
  BY <1>p, Zenon DEF PushedAt
<1>2. key \in Nat /\ pushed[m].key = key
  <2>1. key \in Nat
    BY DEF AreKeys
  <2>2. pushed[m] = [key |-> key, value |-> value]
    BY <1>1
  <2>3. pushed[m].key = key
    BY <2>2
  <2> QED BY <2>1, <2>3
<1>3. /\ Sorted(trace) /\ Len(trace) \in Nat
      /\ \A j \in 1..Len(trace) : trace[j].key \in Nat
  BY TraceShape
<1>4. Sorted(pushed)
  <2> SUFFICES ASSUME NEW i \in 1..m, NEW j \in 1..m, i < j
               PROVE  pushed[i].key < pushed[j].key
    BY <1>1, Zenon DEF Sorted
  <2>1. i \in 1..(m - 1) /\ i \in 1..Len(trace) /\ pushed[i] = trace[i]
        /\ trace[i].key < key
    BY <1>1
  <2>2. CASE j = m
    BY <1>2, <2>1, <2>2
  <2>3. CASE j # m
    <3>1. j \in 1..(m - 1) /\ j \in 1..Len(trace) /\ pushed[j] = trace[j]
      BY <1>1, <2>3
    <3> QED BY <1>3, <2>1, <3>1 DEF Sorted
  <2> QED BY <2>2, <2>3
<1>5. pushed # <<>> /\ LastKey(pushed) = key
  BY <1>1, <1>2 DEF LastKey
<1> QED BY <1>0, <1>p, <1>4, <1>5 DEF Traces

(* A push at a key above a bound keeps all the keys above it.              *)
LEMMA PushAbove ==
    ASSUME NEW K, AreKeys(K), NEW V, NEW trace \in Traces(K, V),
           NEW key \in K, NEW value \in V, CanPush(trace, key),
           NEW pushed, pushed = Push(trace, key, value), NEW low
    PROVE  /\ key >= low
           /\ \A i \in 1..Len(trace) : trace[i].key >= low
           => \A i \in 1..Len(pushed) : pushed[i].key >= low
<1>1. PICK m \in Nat : /\ PushedAt(m, pushed, trace, key, value)
                       /\ pushed \in Seq([key : K, value : V])
  BY PushShape
<1>2. /\ Len(pushed) = m /\ pushed[m] = [key |-> key, value |-> value]
      /\ \A j \in 1..(m - 1) : j \in 1..Len(trace) /\ pushed[j] = trace[j]
  BY <1>1, Zenon DEF PushedAt
<1>3. \A i \in 1..m : i = m \/ i \in 1..(m - 1)
  OBVIOUS
<1> QED BY <1>2, <1>3

(* A push changes what is read from its key on, and nothing before.        *)
LEMMA LookupAfterPush ==
    ASSUME NEW K, AreKeys(K), NEW V, NEW trace \in Traces(K, V),
           NEW key \in K, NEW value \in V, CanPush(trace, key),
           NEW zero, NEW time \in Nat
    PROVE  UpperLookupRecent(Push(trace, key, value), time, zero) =
             IF time >= key THEN value ELSE UpperLookupRecent(trace, time, zero)
<1> DEFINE pushed == Push(trace, key, value)
<1>0. pushed = Push(trace, key, value)
  OBVIOUS
<1> HIDE DEF pushed
<1>p. PICK m \in Nat : /\ PushedAt(m, pushed, trace, key, value)
                       /\ pushed \in Seq([key : K, value : V])
  BY <1>0, PushShape
<1>1. /\ m >= 1 /\ Len(pushed) = m
      /\ pushed[m] = [key |-> key, value |-> value]
      /\ \A j \in 1..(m - 1) : /\ j \in 1..Len(trace)
                               /\ pushed[j] = trace[j]
                               /\ trace[j].key < key
      /\ \/ Len(trace) = m - 1
         \/ Len(trace) = m /\ trace[m].key = key
  BY <1>p, Zenon DEF PushedAt
<1>2. key \in Nat /\ pushed[m].key = key /\ pushed[m].value = value
  <2>1. key \in Nat
    BY DEF AreKeys
  <2>2. pushed[m] = [key |-> key, value |-> value]
    BY <1>1
  <2>3. pushed[m].key = key /\ pushed[m].value = value
    BY <2>2
  <2> QED BY <2>1, <2>3
<1>3. /\ Len(trace) \in Nat
      /\ \A j \in 1..Len(trace) : trace[j].key \in Nat
  BY TraceShape
<1>4. CASE time >= key
  <2>1. \A j \in 1..m : pushed[j].key <= time => j <= m
    OBVIOUS
  <2>2. IsUpper(pushed, time, m)
    BY <1>1, <1>2, <1>4, <2>1 DEF IsUpper
  <2>3. UpperLookupRecent(pushed, time, zero) = value
    BY <1>1, <1>2, <2>2, LookupFinds
  <2> QED BY <1>0, <1>4, <2>3
<1>5. CASE ~(time >= key)
  <2>1. \A j \in 1..m : pushed[j].key <= time =>
          j \in 1..(m - 1) /\ j \in 1..Len(trace) /\ pushed[j] = trace[j]
    BY <1>1, <1>2, <1>5
  <2>2. \A j \in 1..Len(trace) : trace[j].key <= time =>
          j \in 1..(m - 1) /\ j \in 1..m /\ pushed[j] = trace[j]
    BY <1>1, <1>2, <1>5
  <2>3. \A i : IsUpper(pushed, time, i) <=> IsUpper(trace, time, i)
    BY <1>1, <2>1, <2>2 DEF IsUpper
  <2>4. CASE Covers(trace, time)
    <3>1. PICK i \in 1..Len(trace) : IsUpper(trace, time, i)
      BY <2>4 DEF Covers
    <3>2. IsUpper(pushed, time, i) /\ pushed[i].value = trace[i].value
      BY <2>2, <2>3, <3>1 DEF IsUpper
    <3>3. UpperLookupRecent(pushed, time, zero) = pushed[i].value
      BY <1>1, <3>2, LookupFinds
    <3>4. UpperLookupRecent(trace, time, zero) = trace[i].value
      BY <1>3, <3>1, LookupFinds
    <3> QED BY <1>0, <1>5, <3>2, <3>3, <3>4
  <2>5. CASE ~Covers(trace, time)
    <3>1. ~Covers(pushed, time)
      BY <2>3, <2>5 DEF Covers, IsUpper
    <3> QED BY <1>0, <1>5, <2>5, <3>1 DEF UpperLookupRecent
  <2> QED BY <2>4, <2>5
<1> QED BY <1>4, <1>5

-----------------------------------------------------------------------------
(* The library's own search.  `SearchStep` is one turn of its loop on the  *)
(* section from l to h, `search` what the turns after it return; a trace   *)
(* is split at p for a key when the checkpoints below position p, and no   *)
(* others, have keys up to it.                                             *)
SearchStep(trace, key, search, l, h) ==
    IF l < h
    THEN LET mid == (l + h) \div 2
         IN  IF KeyAt(trace, mid) > key THEN search[l][mid]
                                        ELSE search[mid + 1][h]
    ELSE h

IsSearch(trace, key, search) ==
    search = [l \in 0..Len(trace) |->
                [h \in 0..Len(trace) |-> SearchStep(trace, key, search, l, h)]]

SplitBetween(trace, key, l, h) ==
    \A p \in 0..(Len(trace) - 1) : /\ p < l => KeyAt(trace, p) <= key
                                   /\ p >= h => KeyAt(trace, p) > key

IsSplit(trace, key, p) ==
    p \in 0..Len(trace) /\ SplitBetween(trace, key, p, p)

LEMMA Middle ==
    ASSUME NEW l \in Nat, NEW h \in Nat, l < h
    PROVE  /\ (l + h) \div 2 \in Nat
           /\ l <= (l + h) \div 2 /\ (l + h) \div 2 < h
OBVIOUS

SameBelow(trace, f, g, m) ==
    \A l, h \in 0..Len(trace) : h - l < m => f[l][h] = g[l][h]

(* A turn on a section only asks about shorter ones.                       *)
LEMMA StepIsLocal ==
    ASSUME NEW trace, Len(trace) \in Nat, NEW key, NEW f, NEW g, NEW m \in Nat,
           SameBelow(trace, f, g, m),
           NEW l \in 0..Len(trace), NEW h \in 0..Len(trace), h - l <= m
    PROVE  SearchStep(trace, key, f, l, h) = SearchStep(trace, key, g, l, h)
<1> DEFINE n == Len(trace)
<1>1. CASE ~(l < h)
  BY <1>1 DEF SearchStep
<1>2. CASE l < h
  <2> DEFINE mid == (l + h) \div 2
  <2>1. /\ mid \in 0..n /\ mid + 1 \in 0..n
        /\ mid - l < m /\ h - (mid + 1) < m
    BY <1>2, Middle
  <2>2. f[l][mid] = g[l][mid] /\ f[mid + 1][h] = g[mid + 1][h]
    BY <2>1 DEF SameBelow
  <2> QED BY <2>2 DEF SearchStep
<1> QED BY <1>1, <1>2

LEMMA SearchTurns ==
    ASSUME NEW trace, Len(trace) \in Nat, NEW key, NEW search,
           IsSearch(trace, key, search),
           NEW l \in 0..Len(trace), NEW h \in 0..Len(trace)
    PROVE  search[l][h] = SearchStep(trace, key, search, l, h)
<1> DEFINE turns == [i \in 0..Len(trace) |->
                       [j \in 0..Len(trace) |->
                          SearchStep(trace, key, search, i, j)]]
<1>1. turns[l][h] = SearchStep(trace, key, search, l, h)
  OBVIOUS
<1>2. search = turns
  BY DEF IsSearch
<1> HIDE DEF turns
<1> QED BY <1>1, <1>2

(* The recursion is well founded: a search that is right on the sections   *)
(* shorter than m is right on those of length m after one more turn.       *)
LEMMA SearchExists ==
    ASSUME NEW trace, Len(trace) \in Nat, NEW key
    PROVE  \E search : IsSearch(trace, key, search)
<1> DEFINE n == Len(trace)
           Step(f, l, h) == SearchStep(trace, key, f, l, h)
           Below(f, m) == \A l, h \in 0..n : h - l < m => f[l][h] = Step(f, l, h)
           Turned(f) == [l \in 0..n |-> [h \in 0..n |-> Step(f, l, h)]]
           S == {m \in Nat : ~\E f : Below(f, m)}
<1>1. ASSUME NEW f, NEW l \in 0..n, NEW h \in 0..n
      PROVE  Turned(f)[l][h] = Step(f, l, h)
  OBVIOUS
<1>2. ASSUME NEW f, NEW m \in Nat, Below(f, m) PROVE Below(Turned(f), m + 1)
  <2> SUFFICES ASSUME NEW l \in 0..n, NEW h \in 0..n, h - l < m + 1
               PROVE  Turned(f)[l][h] = Step(Turned(f), l, h)
    OBVIOUS
  <2>1. PICK g : g = Turned(f)
    OBVIOUS
  <2>2. SameBelow(trace, f, g, m)
    <3> HIDE DEF Turned, Step
    <3> QED BY <1>1, <1>2, <2>1 DEF SameBelow
  <2>3. h - l <= m
    OBVIOUS
  <2>4. SearchStep(trace, key, f, l, h) = SearchStep(trace, key, g, l, h)
    BY <2>2, <2>3, StepIsLocal
  <2> HIDE DEF Turned
  <2> QED BY <1>1, <2>1, <2>4
<1>3. S = {}
  <2> SUFFICES ASSUME S # {} PROVE FALSE
    OBVIOUS
  <2>1. PICK m \in S : \A k \in S : m <= k
    <3>1. S \subseteq Nat
      OBVIOUS
    <3> HIDE DEF S
    <3> QED BY <3>1, LeastNumber
  <2>2. m \in Nat /\ ~\E f : Below(f, m)
    BY <2>1
  <2>3. CASE m = 0
    <3> DEFINE f == [l \in 0..n |-> [h \in 0..n |-> h]]
    <3>1. ASSUME NEW l \in 0..n, NEW h \in 0..n, h - l < 0
          PROVE  f[l][h] = Step(f, l, h)
      <4>1. f[l][h] = h /\ ~(l < h)
        BY <3>1
      <4> HIDE DEF f
      <4> QED BY <4>1 DEF SearchStep
    <3> HIDE DEF f
    <3> QED BY <2>2, <2>3, <3>1
  <2>4. CASE m # 0
    <3>1. m - 1 \in Nat /\ ~(m <= m - 1) /\ (m - 1) + 1 = m
      BY <2>2, <2>4
    <3>2. PICK f : Below(f, m - 1)
      BY <2>1, <3>1
    <3> HIDE DEF Below, Turned
    <3>3. Below(Turned(f), m)
      BY <1>2, <3>1, <3>2
    <3> QED BY <2>2, <3>3
  <2> QED BY <2>3, <2>4
<1>4. PICK f : Below(f, n + 1)
  <2>1. n + 1 \in Nat /\ n + 1 \notin S
    <3> HIDE DEF S
    <3> QED BY <1>3
  <2> HIDE DEF Below
  <2> QED BY <2>1
<1>5. PICK g : g = Turned(f)
  OBVIOUS
<1>6. \A l, h \in 0..n : h - l < n + 1
  OBVIOUS
<1>7. ASSUME NEW l \in 0..n, NEW h \in 0..n PROVE Step(g, l, h) = Step(f, l, h)
  <2>1. SameBelow(trace, f, g, n + 1)
    <3> HIDE DEF Turned, Step
    <3> QED BY <1>1, <1>4, <1>5, <1>6 DEF SameBelow
  <2>2. n + 1 \in Nat /\ h - l <= n + 1
    OBVIOUS
  <2> QED BY <2>1, <2>2, StepIsLocal
<1>8. Turned(g) = Turned(f)
  <2> HIDE DEF Step
  <2> QED BY <1>7
<1>9. IsSearch(trace, key, g)
  <2>1. g = Turned(g)
    BY <1>5, <1>8
  <2> QED BY <2>1 DEF IsSearch
<1> QED BY <1>9

(* On a section that the split of the trace lies in, the search finds it.  *)
LEMMA SearchSplits ==
    ASSUME NEW trace, Len(trace) \in Nat, Sorted(trace),
           \A j \in 1..Len(trace) : trace[j].key \in Nat,
           NEW key \in Nat, NEW search, IsSearch(trace, key, search),
           NEW low \in 0..Len(trace), NEW high \in 0..Len(trace), low <= high,
           SplitBetween(trace, key, low, high)
    PROVE  IsSplit(trace, key, search[low][high])
<1> DEFINE n == Len(trace)
           Goal(l, h) == IsSplit(trace, key, search[l][h])
           Between(l, h) == l <= h /\ SplitBetween(trace, key, l, h)
           S == {m \in Nat : \E l, h \in 0..n : /\ h - l = m
                                               /\ Between(l, h) /\ ~Goal(l, h)}
<1>1. \A l, h \in 0..n : search[l][h] = SearchStep(trace, key, search, l, h)
  BY SearchTurns
<1>2. SUFFICES S = {}
  <2>1. high - low \in Nat /\ high - low \notin S
    <3>1. high - low \in Nat
      OBVIOUS
    <3> HIDE DEF S
    <3> QED BY <1>2, <3>1
  <2>2. Between(low, high)
    OBVIOUS
  <2> HIDE DEF Between, Goal
  <2>3. Goal(low, high)
    BY <2>1, <2>2
  <2> QED BY <2>3 DEF Goal
<1>3. SUFFICES ASSUME S # {} PROVE FALSE
  OBVIOUS
<1>4. PICK m \in S : \A k \in S : m <= k
  <2>1. S \subseteq Nat
    OBVIOUS
  <2> HIDE DEF S
  <2> QED BY <1>3, <2>1, LeastNumber
<1>5. PICK l \in 0..n, h \in 0..n : h - l = m /\ Between(l, h) /\ ~Goal(l, h)
  BY <1>4
<1>6. ASSUME NEW a \in 0..n, NEW b \in 0..n, Between(a, b), b - a < h - l
      PROVE  Goal(a, b)
  <2>1. b - a \in Nat /\ ~(m <= b - a)
    BY <1>5, <1>6
  <2>2. b - a \notin S
    BY <1>4, <2>1
  <2> HIDE DEF Between, Goal
  <2> QED BY <1>6, <2>1, <2>2
<1>7. CASE ~(l < h)
  <2>1. l = h /\ search[l][h] = h
    BY <1>1, <1>5, <1>7 DEF SearchStep
  <2> QED BY <1>5, <2>1 DEF IsSplit
<1>8. CASE l < h
  <2> DEFINE mid == (l + h) \div 2
  <2>1. /\ mid \in Nat /\ l <= mid /\ mid < h
        /\ mid \in 0..(n - 1) /\ mid \in 0..n /\ mid + 1 \in 0..n
        /\ mid - l < h - l /\ h - (mid + 1) < h - l
    BY <1>8, Middle
  <2>2. /\ \A p \in 0..(n - 1) : KeyAt(trace, p) \in Nat
        /\ \A p, q \in 0..(n - 1) :
              p < q => KeyAt(trace, p) < KeyAt(trace, q)
    <3>1. \A p \in 0..(n - 1) : p + 1 \in 1..n
      OBVIOUS
    <3>2. \A p, q \in 0..(n - 1) : p < q => p + 1 < q + 1
      OBVIOUS
    <3> QED BY <3>1, <3>2 DEF KeyAt, Sorted
  <2>3. search[l][h] = IF KeyAt(trace, mid) > key THEN search[l][mid]
                                                 ELSE search[mid + 1][h]
    BY <1>1, <1>8 DEF SearchStep
  <2> HIDE DEF mid
  <2>4. CASE KeyAt(trace, mid) > key
    <3>1. ASSUME NEW p \in 0..(n - 1), p >= mid PROVE KeyAt(trace, p) > key
      <4>1. p = mid \/ KeyAt(trace, mid) < KeyAt(trace, p)
        BY <2>1, <2>2, <3>1
      <4> QED BY <2>1, <2>2, <2>4, <4>1
    <3>2. Between(l, mid)
      BY <1>5, <2>1, <3>1 DEF SplitBetween
    <3> HIDE DEF Between
    <3>3. Goal(l, mid)
      BY <1>6, <2>1, <3>2
    <3> QED BY <1>5, <2>3, <2>4, <3>3
  <2>5. CASE ~(KeyAt(trace, mid) > key)
    <3>1. ASSUME NEW p \in 0..(n - 1), p < mid + 1 PROVE KeyAt(trace, p) <= key
      <4>1. p = mid \/ p < mid
        BY <2>1, <3>1
      <4>2. p = mid \/ KeyAt(trace, p) < KeyAt(trace, mid)
        BY <2>1, <2>2, <4>1
      <4> QED BY <2>1, <2>2, <2>5, <4>2
    <3>2. Between(mid + 1, h)
      BY <1>5, <2>1, <3>1 DEF SplitBetween
    <3> HIDE DEF Between
    <3>3. Goal(mid + 1, h)
      BY <1>6, <2>1, <3>2
    <3> QED BY <1>5, <2>3, <2>5, <3>3
  <2> QED BY <2>4, <2>5
<1> QED BY <1>7, <1>8

LEMMA BinaryLookupSplits ==
    ASSUME NEW trace, Len(trace) \in Nat, Sorted(trace),
           \A j \in 1..Len(trace) : trace[j].key \in Nat,
           NEW key \in Nat,
           NEW low \in 0..Len(trace), NEW high \in 0..Len(trace), low <= high,
           SplitBetween(trace, key, low, high)
    PROVE  IsSplit(trace, key, UpperBinaryLookup(trace, key, low, high))
<1> DEFINE search == CHOOSE f : IsSearch(trace, key, f)
<1>1. IsSearch(trace, key, search)
  BY SearchExists
<1>2. UpperBinaryLookup(trace, key, low, high) = search[low][high]
  BY DEF UpperBinaryLookup, IsSearch, SearchStep
<1> HIDE DEF search
<1> QED BY <1>1, <1>2, SearchSplits

(* The square root that splits a long trace lies strictly inside it.       *)
LEMMA SqrtInside ==
    ASSUME NEW n \in Nat \ {0}
    PROVE  Sqrt(n) \in 1..n
<1> DEFINE S == {r \in Nat : n < (r + 1) * (r + 1)}
<1>1. PICK r \in S : \A k \in S : r <= k
  <2>1. n < (n + 1) * (n + 1)
    BY SMT
  <2>2. S \subseteq Nat /\ n \in S
    BY <2>1
  <2> HIDE DEF S
  <2> QED BY <2>2, LeastNumber
<1>2. r \in Nat /\ n < (r + 1) * (r + 1) /\ r <= n
  <2>1. n < (n + 1) * (n + 1)
    BY SMT
  <2> QED BY <1>1, <2>1
<1>3. r * r <= n
  <2>1. CASE r = 0
    BY <2>1
  <2>2. CASE r # 0
    <3>1. r - 1 \in Nat /\ (r - 1) + 1 = r /\ ~(r <= r - 1)
      BY <1>2, <2>2
    <3>2. r - 1 \notin S
      BY <1>1, <3>1
    <3>3. ~(n < r * r)
      BY <3>1, <3>2
    <3>4. r * r \in Nat
      BY <1>2, SMT
    <3> QED BY <3>3, <3>4
  <2> QED BY <2>1, <2>2
<1>4. Sqrt(n) \in 0..n /\ n < (Sqrt(n) + 1) * (Sqrt(n) + 1)
  <2> DEFINE P(x) == x * x <= n /\ n < (x + 1) * (x + 1)
  <2>1. r \in 0..n /\ P(r)
    BY <1>2, <1>3
  <2>2. Sqrt(n) = CHOOSE x \in 0..n : P(x)
    BY DEF Sqrt
  <2> HIDE DEF P
  <2>3. Sqrt(n) \in 0..n /\ P(Sqrt(n))
    BY <2>1, <2>2
  <2> QED BY <2>3 DEF P
<1>5. Sqrt(n) # 0
  <2> SUFFICES ASSUME Sqrt(n) = 0 PROVE FALSE
    OBVIOUS
  <2>1. n < (0 + 1) * (0 + 1)
    BY <1>4
  <2> QED BY <2>1
<1> QED BY <1>4, <1>5

LEMMA LookupPosSplits ==
    ASSUME NEW trace, Len(trace) \in Nat, Sorted(trace),
           \A j \in 1..Len(trace) : trace[j].key \in Nat,
           NEW key \in Nat
    PROVE  IsSplit(trace, key, LookupPos(trace, key))
<1> DEFINE len == Len(trace)
           mid == len - Sqrt(len)
<1>1. 0 \in 0..len /\ len \in 0..len /\ SplitBetween(trace, key, 0, len)
  BY DEF SplitBetween
<1>2. CASE len <= 5
  <2>1. LookupPos(trace, key) = UpperBinaryLookup(trace, key, 0, len)
    BY <1>2 DEF LookupPos
  <2> QED BY <1>1, <2>1, BinaryLookupSplits
<1>3. CASE len > 5
  <2>1. mid \in 0..(len - 1) /\ mid \in 0..len /\ mid + 1 \in 0..len
        /\ mid + 1 <= len
    <3>1. len \in Nat \ {0}
      BY <1>3
    <3>2. Sqrt(len) \in 1..len
      BY <3>1, SqrtInside
    <3> QED BY <3>1, <3>2
  <2> DEFINE pivot == KeyAt(trace, mid)
  <2>2. /\ pivot \in Nat
        /\ \A p \in 0..(len - 1) :
              /\ KeyAt(trace, p) \in Nat
              /\ p < mid => KeyAt(trace, p) < pivot
              /\ p > mid => pivot < KeyAt(trace, p)
    <3>1. \A p \in 0..(len - 1) : p + 1 \in 1..len
      OBVIOUS
    <3> HIDE DEF mid
    <3>2. \A p, q \in 0..(len - 1) : p < q => p + 1 < q + 1
      OBVIOUS
    <3> QED BY <2>1, <3>1, <3>2 DEF KeyAt, Sorted
  <2>3. CASE key < pivot
    <3>1. LookupPos(trace, key) = UpperBinaryLookup(trace, key, 0, mid)
      BY <1>3, <2>2, <2>3 DEF LookupPos
    <3> HIDE DEF mid, pivot
    <3>2. SplitBetween(trace, key, 0, mid)
      <4> SUFFICES ASSUME NEW p \in 0..(len - 1), p >= mid
                   PROVE  KeyAt(trace, p) > key
        BY DEF SplitBetween
      <4>1. p > mid \/ p = mid
        BY <2>1
      <4> QED BY <2>2, <2>3, <4>1 DEF pivot
    <3> QED BY <1>1, <2>1, <3>1, <3>2, BinaryLookupSplits
  <2>4. CASE key >= pivot
    <3>1. LookupPos(trace, key) = UpperBinaryLookup(trace, key, mid + 1, len)
      BY <1>3, <2>2, <2>4 DEF LookupPos
    <3> HIDE DEF mid, pivot
    <3>2. SplitBetween(trace, key, mid + 1, len)
      <4> SUFFICES ASSUME NEW p \in 0..(len - 1), p < mid + 1
                   PROVE  KeyAt(trace, p) <= key
        BY DEF SplitBetween
      <4>1. p < mid \/ p = mid
        BY <2>1
      <4> QED BY <2>2, <2>4, <4>1 DEF pivot
    <3> QED BY <1>1, <2>1, <3>1, <3>2, BinaryLookupSplits
  <2> QED BY <2>2, <2>3, <2>4
<1> QED BY <1>2, <1>3

(* The library's search ends at the checkpoint that a lookup reads.        *)
LEMMA LookupPosFinds ==
    ASSUME NEW trace, Len(trace) \in Nat, Sorted(trace),
           \A j \in 1..Len(trace) : trace[j].key \in Nat,
           NEW key \in Nat
    PROVE  /\ LookupPos(trace, key) \in 0..Len(trace)
           /\ LookupPos(trace, key) # 0
                => IsUpper(trace, key, LookupPos(trace, key))
           /\ LookupPos(trace, key) = 0 => ~Covers(trace, key)
<1> DEFINE n == Len(trace)
           p == LookupPos(trace, key)
<1>2. IsSplit(trace, key, p)
  BY LookupPosSplits
<1> HIDE DEF p
<1>3. p \in 0..n /\ SplitBetween(trace, key, p, p)
  BY <1>2 DEF IsSplit
<1>4. ASSUME NEW j \in 1..n
      PROVE  /\ j <= p => trace[j].key <= key
             /\ j > p => trace[j].key > key
  <2>1. j - 1 \in 0..(n - 1) /\ (j - 1) + 1 = j
    OBVIOUS
  <2>2. /\ j - 1 < p => KeyAt(trace, j - 1) <= key
        /\ j - 1 >= p => KeyAt(trace, j - 1) > key
    BY <1>3, <2>1 DEF SplitBetween
  <2>3. KeyAt(trace, j - 1) = trace[j].key
    BY <2>1 DEF KeyAt
  <2> QED BY <1>3, <2>2, <2>3
<1>5. ASSUME NEW j \in 1..n, trace[j].key <= key PROVE j <= p
  BY <1>3, <1>4, <1>5
<1>6. p # 0 => IsUpper(trace, key, p)
  BY <1>3, <1>4, <1>5 DEF IsUpper
<1>7. p = 0 => ~Covers(trace, key)
  BY <1>3, <1>5 DEF Covers, IsUpper
<1> QED BY <1>3, <1>6, <1>7 DEF p

(* Read with a default, the checkpoint found is what a lookup returns.     *)
LEMMA FoundIsLookup ==
    ASSUME NEW K, AreKeys(K), NEW V, NEW trace \in Traces(K, V),
           NEW key \in Nat, NEW zero
    PROVE  LET found == UpperLookupRecentCheckpoint(trace, key)
           IN  (IF found.exists THEN found.value ELSE zero)
                  = UpperLookupRecent(trace, key, zero)
<1> DEFINE p == LookupPos(trace, key)
           found == UpperLookupRecentCheckpoint(trace, key)
<1>1. /\ Len(trace) \in Nat /\ Sorted(trace)
      /\ \A j \in 1..Len(trace) : trace[j].key \in Nat
  BY TraceShape
<1>2. /\ p \in 0..Len(trace)
      /\ p # 0 => IsUpper(trace, key, p)
      /\ p = 0 => ~Covers(trace, key)
  BY <1>1, LookupPosFinds
<1>3. found = IF p = 0 THEN Missing ELSE Found(trace, p - 1)
  BY DEF UpperLookupRecentCheckpoint
<1> HIDE DEF p, found
<1>4. CASE p = 0
  <2>1. ~found.exists
    BY <1>3, <1>4 DEF Missing
  <2> QED BY <1>2, <1>4, <2>1 DEF UpperLookupRecent, found
<1>5. CASE p # 0
  <2>1. (p - 1) + 1 = p
    BY <1>1, <1>2
  <2>2. found.exists /\ found.value = trace[p].value
    BY <1>3, <1>5, <2>1 DEF Found
  <2>3. UpperLookupRecent(trace, key, zero) = trace[p].value
    <3>1. IsUpper(trace, key, p) /\ Len(trace) \in Nat
      BY <1>1, <1>2, <1>5
    <3> QED BY <3>1, LookupFinds, Zenon
  <2> QED BY <2>2, <2>3 DEF found
<1> QED BY <1>4, <1>5

-----------------------------------------------------------------------------
(* Filtering a list.  `KeepStep` is one turn of the loop of Sublist, `kept`*)
(* what each number of turns has written.                                  *)
Listed(list) == {list[i] : i \in 1..Len(list)}

NoRepeats(list) == \A i, j \in 1..Len(list) : list[i] = list[j] => i = j

KeepStep(list, wanted, kept, i) ==
    IF i = 0 THEN << >>
    ELSE IF list[i] \in wanted THEN Append(kept[i - 1], list[i])
         ELSE kept[i - 1]

IsKept(list, wanted, kept) ==
    kept = [i \in 0..Len(list) |-> KeepStep(list, wanted, kept, i)]

(* A list without repetitions is as long as the set it lists.              *)
LEMMA ListCounts ==
    ASSUME NEW T, NEW list \in Seq(T)
    PROVE  /\ IsFiniteSet(Listed(list))
           /\ NoRepeats(list) <=> Len(list) = Cardinality(Listed(list))
<1> DEFINE n == Len(list)
<1>1. n \in Nat /\ list \in [1..n -> Listed(list)]
  BY DEF Listed
<1>2. list \in Surjection(1..n, Listed(list))
  BY <1>1 DEF Surjection, Listed
<1>3. IsFiniteSet(1..n) /\ Cardinality(1..n) = n
  BY <1>1, FS_Interval
<1>4. /\ IsFiniteSet(Listed(list))
      /\ Cardinality(Listed(list)) = Cardinality(1..n)
           <=> list \in Injection(1..n, Listed(list))
  BY <1>2, <1>3, FS_Surjection
<1>5. list \in Injection(1..n, Listed(list)) <=> NoRepeats(list)
  BY <1>1, Zenon DEF Injection, IsInjective, NoRepeats
<1> QED BY <1>3, <1>4, <1>5

LEMMA KeptExists ==
    ASSUME NEW list, Len(list) \in Nat, NEW wanted
    PROVE  \E kept : IsKept(list, wanted, kept)
<1> DEFINE n == Len(list)
           Step(f, i) == KeepStep(list, wanted, f, i)
           Below(f, m) == \A i \in 0..n : i < m => f[i] = Step(f, i)
           Turned(f) == [i \in 0..n |-> Step(f, i)]
           S == {m \in Nat : ~\E f : Below(f, m)}
<1>1. ASSUME NEW f, NEW i \in 0..n PROVE Turned(f)[i] = Step(f, i)
  OBVIOUS
<1>2. ASSUME NEW f, NEW m \in Nat, Below(f, m) PROVE Below(Turned(f), m + 1)
  <2> SUFFICES ASSUME NEW i \in 0..n, i < m + 1
               PROVE  Turned(f)[i] = Step(Turned(f), i)
    OBVIOUS
  <2>1. i # 0 => Turned(f)[i - 1] = f[i - 1]
    <3> SUFFICES ASSUME i # 0 PROVE Turned(f)[i - 1] = f[i - 1]
      OBVIOUS
    <3>1. i - 1 \in 0..n /\ i - 1 < m
      OBVIOUS
    <3> HIDE DEF Turned, Step
    <3> QED BY <1>1, <1>2, <3>1
  <2> HIDE DEF Turned
  <2> QED BY <1>1, <2>1 DEF KeepStep
<1>3. S = {}
  <2> SUFFICES ASSUME S # {} PROVE FALSE
    OBVIOUS
  <2>1. PICK m \in S : \A k \in S : m <= k
    <3>1. S \subseteq Nat
      OBVIOUS
    <3> HIDE DEF S
    <3> QED BY <3>1, LeastNumber
  <2>2. m \in Nat /\ ~\E f : Below(f, m)
    BY <2>1
  <2>3. CASE m = 0
    BY <2>2, <2>3
  <2>4. CASE m # 0
    <3>1. m - 1 \in Nat /\ ~(m <= m - 1) /\ (m - 1) + 1 = m
      BY <2>2, <2>4
    <3>2. PICK f : Below(f, m - 1)
      BY <2>1, <3>1
    <3> HIDE DEF Below, Turned
    <3>3. Below(Turned(f), m)
      BY <1>2, <3>1, <3>2
    <3> QED BY <2>2, <3>3
  <2> QED BY <2>3, <2>4
<1>4. PICK f : Below(f, n + 1)
  <2>1. n + 1 \in Nat
    OBVIOUS
  <2> QED BY <1>3, <2>1
<1>5. PICK g : g = Turned(f)
  OBVIOUS
<1>6. ASSUME NEW i \in 0..n PROVE f[i] = g[i]
  <2>1. i < n + 1
    OBVIOUS
  <2> HIDE DEF Turned, Step
  <2> QED BY <1>1, <1>4, <1>5, <2>1
<1>7. ASSUME NEW i \in 0..n PROVE Step(f, i) = Step(g, i)
  <2>1. i # 0 => i - 1 \in 0..n
    OBVIOUS
  <2> QED BY <1>6, <2>1 DEF KeepStep
<1>8. g = [i \in 0..n |-> Step(g, i)]
  <2> HIDE DEF Step
  <2> QED BY <1>5, <1>7
<1> QED BY <1>8 DEF IsKept

(* What m turns have written: the wanted ones of the first m members, each *)
(* as often as it was met.                                                 *)
Written(T, list, wanted, out, m) ==
    /\ out \in Seq(T)
    /\ Listed(out) = {list[i] : i \in 1..m} \cap wanted
    /\ NoRepeats(list) => NoRepeats(out)

LEMMA KeptIsWritten ==
    ASSUME NEW T, NEW list \in Seq(T), NEW wanted, NEW kept,
           IsKept(list, wanted, kept), NEW m \in 0..Len(list)
    PROVE  Written(T, list, wanted, kept[m], m)
<1> DEFINE n == Len(list)
           steps == [i \in 0..n |-> KeepStep(list, wanted, kept, i)]
           Good(k) == Written(T, list, wanted, kept[k], k)
           S == {k \in 0..n : ~Good(k)}
<1>1. ASSUME NEW i \in 0..n PROVE kept[i] = KeepStep(list, wanted, kept, i)
  <2>1. steps[i] = KeepStep(list, wanted, kept, i)
    OBVIOUS
  <2>2. kept = steps
    BY DEF IsKept
  <2> HIDE DEF steps
  <2> QED BY <2>1, <2>2
<1>2. Good(0)
  <2>1. kept[0] = << >>
    BY <1>1 DEF KeepStep
  <2>2. << >> \in Seq(T) /\ Listed(<< >>) = {} /\ NoRepeats(<< >>)
    BY DEF Listed, NoRepeats
  <2>3. {list[i] : i \in 1..0} = {}
    OBVIOUS
  <2> QED BY <2>1, <2>2, <2>3 DEF Written
<1>3. ASSUME NEW k \in 1..n, Good(k - 1) PROVE Good(k)
  <2> DEFINE e == list[k]
             before == {list[i] : i \in 1..(k - 1)}
             upto == {list[i] : i \in 1..k}
  <2>1. PICK old : old = kept[k - 1]
    OBVIOUS
  <2>2. /\ old \in Seq(T) /\ Listed(old) = before \cap wanted
        /\ NoRepeats(list) => NoRepeats(old)
    BY <1>3, <2>1 DEF Written
  <2>3. upto = before \cup {e}
    <3>1. \A i \in 1..k : i \in 1..(k - 1) \/ i = k
      OBVIOUS
    <3>2. \A i \in 1..(k - 1) : i \in 1..k
      OBVIOUS
    <3> QED BY <3>1, <3>2
  <2>4. NoRepeats(list) => e \notin before
    BY DEF NoRepeats
  <2>5. k \in 0..n /\ k # 0 /\ e \in T
    BY ElementIn
  <2>6. CASE e \notin wanted
    <3>1. kept[k] = old
      BY <1>1, <2>1, <2>5, <2>6 DEF KeepStep
    <3> QED BY <2>2, <2>3, <2>6, <3>1 DEF Written
  <2>7. CASE e \in wanted
    <3>1. kept[k] = Append(old, e)
      BY <1>1, <2>1, <2>5, <2>7 DEF KeepStep
    <3> DEFINE out == Append(old, e)
    <3> HIDE DEF e
    <3>2. /\ out \in Seq(T) /\ Len(out) = Len(old) + 1
          /\ out[Len(old) + 1] = e /\ Len(old) \in Nat
          /\ \A i \in 1..Len(old) : out[i] = old[i]
      BY <2>2, <2>5
    <3>3. \A i \in 1..Len(out) : i \in 1..Len(old) \/ i = Len(old) + 1
      BY <3>2
    <3>4. \A i \in 1..Len(old) : i \in 1..Len(out)
      BY <3>2
    <3>5. Len(old) + 1 \in 1..Len(out)
      BY <3>2
    <3> HIDE DEF out
    <3>6. Listed(out) = Listed(old) \cup {e}
      BY <3>2, <3>3, <3>4, <3>5 DEF Listed
    <3>7. NoRepeats(list) => NoRepeats(out)
      <4> SUFFICES ASSUME NoRepeats(list) PROVE NoRepeats(out)
        OBVIOUS
      <4>1. \A i \in 1..Len(old) : old[i] # e
        BY <2>2, <2>4 DEF Listed
      <4> QED BY <2>2, <3>2, <3>3, <4>1 DEF NoRepeats
    <3>8. Listed(out) = upto \cap wanted
      BY <2>2, <2>3, <2>7, <3>6
    <3> QED BY <3>1, <3>2, <3>7, <3>8 DEF Written, out
  <2> QED BY <2>6, <2>7
<1>4. S = {}
  <2> SUFFICES ASSUME S # {} PROVE FALSE
    OBVIOUS
  <2> HIDE DEF Good
  <2>1. PICK k \in S : \A j \in S : k <= j
    <3>1. S \subseteq Nat
      OBVIOUS
    <3> HIDE DEF S
    <3> QED BY <3>1, LeastNumber
  <2>2. k \in 0..n /\ ~Good(k)
    BY <2>1
  <2>3. k \in 1..n /\ k - 1 \in 0..n /\ ~(k <= k - 1)
    BY <1>2, <2>2
  <2>4. Good(k - 1)
    BY <2>1, <2>3
  <2> QED BY <1>3, <2>2, <2>3, <2>4
<1> HIDE DEF Good
<1>5. Good(m)
  BY <1>4
<1> QED BY <1>5 DEF Good

(* Filtering keeps exactly the wanted members, and keeps them apart.       *)
LEMMA SublistKeeps ==
    ASSUME NEW T, NEW list \in Seq(T), NEW wanted, NEW out,
           out = Sublist(list, wanted)
    PROVE  /\ out \in Seq(T)
           /\ Listed(out) = Listed(list) \cap wanted
           /\ NoRepeats(list) => NoRepeats(out)
<1> DEFINE kept == CHOOSE f : IsKept(list, wanted, f)
<1>1. Len(list) \in Nat /\ Len(list) \in 0..Len(list)
  OBVIOUS
<1>2. IsKept(list, wanted, kept)
  BY <1>1, KeptExists
<1>3. Sublist(list, wanted) = kept[Len(list)]
  BY DEF Sublist, IsKept, KeepStep
<1> HIDE DEF kept
<1>4. Written(T, list, wanted, out, Len(list))
  BY <1>1, <1>2, <1>3, KeptIsWritten
<1> QED BY <1>4 DEF Written, Listed

-----------------------------------------------------------------------------
(* A loop of n turns: each makes the next state of the one before.         *)
Runs(n, S, start, turn, f) ==
    /\ f \in [0..n -> S] /\ f[0] = start
    /\ \A i \in 1..n : f[i] = turn[i][f[i - 1]]

LEMMA LoopRuns ==
    ASSUME NEW n \in Nat, NEW S, NEW start \in S, NEW turn \in [1..n -> [S -> S]]
    PROVE  \E f : Runs(n, S, start, turn, f)
<1> DEFINE RunsTo(m, f) == Runs(m, S, start, turn, f)
           Stuck == {m \in 0..n : ~\E f : RunsTo(m, f)}
<1> USE DEF Runs
<1>1. \E f : RunsTo(0, f)
  <2> DEFINE f == [i \in 0..0 |-> start]
  <2>1. RunsTo(0, f)
    OBVIOUS
  <2> QED BY <2>1
<1>2. ASSUME NEW m \in 1..n, NEW f, RunsTo(m - 1, f) PROVE \E g : RunsTo(m, g)
  <2> DEFINE g == [i \in 0..m |-> IF i = m THEN turn[m][f[m - 1]] ELSE f[i]]
  <2>1. m - 1 \in 0..(m - 1) /\ f[m - 1] \in S
    BY <1>2
  <2>2. turn[m][f[m - 1]] \in S
    BY <2>1
  <2>3. \A i \in 0..m : i # m => i \in 0..(m - 1)
    OBVIOUS
  <2>4. g \in [0..m -> S]
    BY <1>2, <2>2, <2>3
  <2>5. g[0] = start
    BY <1>2
  <2>6. ASSUME NEW i \in 1..m PROVE g[i] = turn[i][g[i - 1]]
    <3>1. i - 1 \in 0..m /\ i - 1 # m /\ i \in 0..m
      OBVIOUS
    <3>2. g[i - 1] = f[i - 1]
      BY <3>1
    <3>3. CASE i = m
      BY <3>1, <3>2, <3>3
    <3>4. CASE i # m
      <4>1. i \in 1..(m - 1)
        BY <3>4
      <4>2. f[i] = turn[i][f[i - 1]]
        BY <1>2, <4>1
      <4>3. g[i] = f[i]
        BY <3>1, <3>4
      <4> QED BY <3>2, <4>2, <4>3
    <3> QED BY <3>3, <3>4
  <2> QED BY <2>4, <2>5, <2>6
<1>3. Stuck = {}
  <2> SUFFICES ASSUME Stuck # {} PROVE FALSE
    OBVIOUS
  <2> HIDE DEF RunsTo
  <2>1. PICK m \in Stuck : \A k \in Stuck : m <= k
    <3>1. Stuck \subseteq Nat
      OBVIOUS
    <3> HIDE DEF Stuck
    <3> QED BY <3>1, LeastNumber
  <2>2. m \in 0..n /\ ~\E f : RunsTo(m, f)
    BY <2>1
  <2>3. m \in 1..n /\ m - 1 \in 0..n /\ ~(m <= m - 1)
    BY <1>1, <2>2
  <2>4. \E f : RunsTo(m - 1, f)
    BY <2>1, <2>3
  <2> QED BY <1>2, <2>2, <2>3, <2>4
<1>4. \E f : RunsTo(n, f)
  <2> HIDE DEF RunsTo
  <2> QED BY <1>3
<1> QED BY <1>4

(* What holds before the first turn and is kept by each holds throughout.  *)
LEMMA Throughout ==
    ASSUME NEW n \in Nat, NEW S, 0 \in S,
           \A i \in 1..n : i - 1 \in S => i \in S
    PROVE  0..n \subseteq S
<1> DEFINE Out == {i \in 0..n : i \notin S}
<1> SUFFICES ASSUME Out # {} PROVE FALSE
  OBVIOUS
<1>1. PICK i \in Out : \A k \in Out : i <= k
  <2>1. Out \subseteq Nat
    OBVIOUS
  <2> HIDE DEF Out
  <2> QED BY <2>1, LeastNumber
<1>2. i \in 1..n /\ i - 1 \in 0..n /\ ~(i <= i - 1) /\ i \notin S
  BY <1>1
<1>3. i - 1 \in S
  BY <1>1, <1>2
<1> QED BY <1>2, <1>3

(* A list that grows at each step grows from any place to any later one.   *)
LEMMA GrowsThroughout ==
    ASSUME NEW list \in Seq(Nat),
           \A i \in 1..Len(list) : i # 1 => list[i - 1] < list[i]
    PROVE  \A j, m \in 1..Len(list) : j < m => list[j] < list[m]
<1>0. PICK n : n = Len(list)
  OBVIOUS
<1>1. n \in Nat /\ \A i \in 1..n : list[i] \in Nat
  BY <1>0
<1>2. \A i \in 1..n : i # 1 => list[i - 1] < list[i]
  BY <1>0
<1> DEFINE S == {m \in 0..n : \A j \in 1..n : j < m => list[j] < list[m]}
<1>3. 0 \in S
  BY <1>1
<1>4. ASSUME NEW m \in 1..n, m - 1 \in S PROVE m \in S
  <2> SUFFICES ASSUME NEW j \in 1..n, j < m PROVE list[j] < list[m]
    BY <1>1
  <2>1. m # 1 /\ m - 1 \in 1..n /\ list[m - 1] < list[m]
    BY <1>1, <1>2
  <2>2. j = m - 1 \/ list[j] < list[m - 1]
    BY <1>1, <1>4
  <2>3. list[j] \in Nat /\ list[m - 1] \in Nat /\ list[m] \in Nat
    BY <1>1, <2>1
  <2> QED BY <2>1, <2>2, <2>3
<1>5. 0..n \subseteq S
  <2> HIDE DEF S
  <2> QED BY <1>1, <1>3, <1>4, Throughout
<1>6. ASSUME NEW j \in 1..n, NEW m \in 1..n, j < m PROVE list[j] < list[m]
  <2>1. m \in 0..n
    BY <1>1
  <2>2. m \in S
    BY <1>5, <2>1
  <2> QED BY <1>6, <2>2
<1> QED BY <1>0, <1>6
=============================================================================
