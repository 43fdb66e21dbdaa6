-------------------------- MODULE StructuresProofs --------------------------
(***************************************************************************)
(* For any keys, values, elements and number of pointers.  Pointer traces: *)
(* the pointers of a trace are its positions and every slot past its end   *)
(* is clear, so a pointer trace implements KeyedLog, and the library's own *)
(* search, hinted or not, finds what OpenZeppelin's lookup reads.          *)
(* Persistent sets: the views and the counter agree, and the set           *)
(* implements HistorySet.  Trees of validator sets, of any height: the     *)
(* leaf of an accepted proof is the word at its place in the tree, so what *)
(* can be shown against a root is what is true of the set.                 *)
(***************************************************************************)
EXTENDS Structures, CheckpointsProofs, SequenceTheorems

IInv == TypeOK /\ PointersFresh

LEMMA Prefix ==
    ASSUME NEW S, NEW t, NEW n \in Nat, \A i \in 1..n : t[i] \in S
    PROVE  /\ SubSeq(t, 1, n) \in Seq(S) /\ Len(SubSeq(t, 1, n)) = n
           /\ \A j \in 1..n : SubSeq(t, 1, n)[j] = t[j]
<1>1. 1 \in Int /\ n \in Int
  OBVIOUS
<1>2. /\ SubSeq(t, 1, n) \in Seq(S)
      /\ Len(SubSeq(t, 1, n)) = IF 1 <= n THEN n - 1 + 1 ELSE 0
      /\ \A i \in 1..(n - 1 + 1) : SubSeq(t, 1, n)[i] = t[1 + i - 1]
  BY <1>1, SubSeqProperties
<1>3. \A j \in 1..n : j \in 1..(n - 1 + 1) /\ 1 + j - 1 = j
  OBVIOUS
<1>4. \A j \in 1..n : SubSeq(t, 1, n)[j] = t[j]
  BY <1>2, <1>3, Zenon
<1>5. (IF 1 <= n THEN n - 1 + 1 ELSE 0) = n
  OBVIOUS
<1> QED BY <1>2, <1>4, <1>5

LEMMA DropLast ==
    ASSUME NEW S, NEW t \in Seq(S), Len(t) # 0
    PROVE  /\ SubSeq(t, 1, Len(t) - 1) \in Seq(S)
           /\ Len(t) >= 1 /\ Len(SubSeq(t, 1, Len(t) - 1)) = Len(t) - 1
           /\ \A j \in 1..(Len(t) - 1) : SubSeq(t, 1, Len(t) - 1)[j] = t[j]
<1>1. Len(t) >= 1 /\ Len(t) - 1 \in Nat
  OBVIOUS
<1>2. PICK n \in Nat : n = Len(t) - 1
  BY <1>1
<1>3. \A j \in 1..n : t[j] \in S
  BY <1>2, ElementIn
<1>4. /\ SubSeq(t, 1, n) \in Seq(S) /\ Len(SubSeq(t, 1, n)) = n
      /\ \A j \in 1..n : SubSeq(t, 1, n)[j] = t[j]
  BY <1>3, Prefix
<1> QED BY <1>1, <1>2, <1>4

LEMMA Shape ==
    ASSUME IInv
    PROVE  /\ trace \in Seq([key : Keys, value : 1..MaxPointer])
           /\ Sorted(trace) /\ \A j \in 1..Len(trace) : trace[j].value = j
           /\ \A j \in 1..Len(trace) : trace[j].key \in Keys
           /\ Latest(trace, 0) = Len(trace)
           /\ Len(trace) \in Nat /\ Len(trace) <= MaxPointer
           /\ MaxPointer \in Nat /\ Keys \subseteq Nat
<1>1. /\ trace \in Seq([key : Keys, value : 1..MaxPointer])
      /\ Sorted(trace) /\ \A j \in 1..Len(trace) : trace[j].value = j
  BY DEF IInv, TypeOK, PointersFresh
<1>2. ASSUME NEW j \in 1..Len(trace)
      PROVE  trace[j].key \in Keys /\ trace[j].value \in 1..MaxPointer
  <2>1. trace[j] \in [key : Keys, value : 1..MaxPointer]
    BY <1>1, ElementIn
  <2> QED BY <2>1
<1>3. Len(trace) \in Nat
  BY <1>1
<1>4. MaxPointer \in Nat /\ Keys \subseteq Nat
  BY TraceAssumption DEF TraceAssumption
<1>5. CASE trace = <<>>
  BY <1>1, <1>3, <1>4, <1>5 DEF Latest
<1>6. CASE trace # <<>>
  <2>1. Len(trace) \in 1..Len(trace)
    BY <1>1, <1>6
  <2>2. Len(trace) <= MaxPointer /\ Latest(trace, 0) = Len(trace)
    BY <1>1, <1>2, <1>4, <1>6, <2>1 DEF Latest
  <2> QED BY <1>1, <1>2, <1>3, <1>4, <2>2
<1> QED BY <1>5, <1>6

(* What the log holds: at the i-th key, the i-th slot.                     *)
LEMMA SlotAtKey ==
    ASSUME NEW t \in Seq([key : Keys, value : 1..MaxPointer]), Sorted(t),
           \A j \in 1..Len(t) : t[j].value = j,
           NEW i \in 1..Len(t)
    PROVE  UpperLookupRecent(t, t[i].key, 0) = i
<1>1. t \in Traces(Keys, 1..MaxPointer) /\ AreKeys(Keys)
  BY TraceAssumption DEF Traces, AreKeys, TraceAssumption
<1>2. UpperLookupRecent(t, t[i].key, 0) = t[i].value
  BY <1>1, LookupAtKey
<1> QED BY <1>2

-----------------------------------------------------------------------------
(* The shape of the trace after each of the three calls.                   *)

LEMMA SameKeyShape ==
    ASSUME IInv, NEW key \in Keys, NEW value \in Values, PushSameKey(key, value)
    PROVE  /\ trace' = trace /\ Len(trace) >= 1 /\ trace[Len(trace)].key = key
           /\ values' = [values EXCEPT ![Len(trace)] = value]
           /\ IInv'
<1>1. /\ trace' = trace /\ trace # <<>> /\ trace[Len(trace)].key = key
      /\ values' = [values EXCEPT ![Len(trace)] = value]
  BY Shape DEF PushSameKey, LastKey
<1>2. Len(trace) >= 1
  BY <1>1, Shape
<1>3. TypeOK'
  BY <1>1 DEF IInv, TypeOK
<1>4. PointersFresh'
  BY <1>1, <1>2, Shape DEF IInv, TypeOK, PointersFresh
<1> QED BY <1>1, <1>2, <1>3, <1>4 DEF IInv

LEMMA NewKeyShape ==
    ASSUME IInv, NEW key \in Keys, NEW value \in Values, PushNewKey(key, value)
    PROVE  /\ trace' = Append(trace, [key |-> key, value |-> Len(trace) + 1])
           /\ \A j \in 1..Len(trace) : trace[j].key < key
           /\ values' = [values EXCEPT ![Len(trace) + 1] = value]
           /\ IInv'
<1> DEFINE n == Len(trace)
<1>1. /\ n + 1 <= MaxPointer /\ CanPush(trace, key)
      /\ ~(trace # <<>> /\ LastKey(trace) = key)
      /\ trace' = Append(trace, [key |-> key, value |-> n + 1])
      /\ values' = [values EXCEPT ![n + 1] = value]
  BY Shape DEF PushNewKey, Push, Checkpoint
<1>2. ASSUME NEW j \in 1..n PROVE trace[j].key < key
  <2>1. trace # <<>> /\ n \in 1..n
    BY Shape
  <2>2. trace[n].key < key
    BY <1>1, <2>1, Shape DEF CanPush, LastKey
  <2>3. j < n => trace[j].key < trace[n].key
    BY <2>1, Shape DEF Sorted
  <2>4. trace[j].key \in Nat /\ trace[n].key \in Nat /\ key \in Nat
    BY <2>1, Shape
  <2> QED BY <2>1, <2>2, <2>3, <2>4, Shape
<1>3. /\ Len(trace') = n + 1
      /\ trace'[n + 1] = [key |-> key, value |-> n + 1]
      /\ \A j \in 1..n : trace'[j] = trace[j]
  BY <1>1, Shape
<1>4. TypeOK'
  <2>1. [key |-> key, value |-> n + 1] \in [key : Keys, value : 1..MaxPointer]
    BY <1>1, Shape
  <2>2. trace' \in Seq([key : Keys, value : 1..MaxPointer])
    BY <1>1, <2>1, Shape
  <2>3. values' \in [0..MaxPointer -> Values]
    BY <1>1 DEF IInv, TypeOK
  <2> QED BY <2>2, <2>3 DEF TypeOK
<1>5. Sorted(trace')
  <2> SUFFICES ASSUME NEW i \in 1..Len(trace'), NEW j \in 1..Len(trace'), i < j
               PROVE  trace'[i].key < trace'[j].key
    BY DEF Sorted
  <2>1. i \in 1..n /\ trace'[i] = trace[i]
    BY <1>3, Shape
  <2>2. CASE j = n + 1
    BY <1>2, <1>3, <2>1, <2>2
  <2>3. CASE j # n + 1
    <3>1. j \in 1..n /\ trace'[j] = trace[j]
      BY <1>3, <2>3, Shape
    <3> QED BY <2>1, <3>1, Shape DEF Sorted
  <2> QED BY <2>2, <2>3
<1>6. \A j \in 1..Len(trace') : trace'[j].value = j
  <2> TAKE j \in 1..Len(trace')
  <2>1. CASE j = n + 1
    BY <1>3, <2>1
  <2>2. CASE j # n + 1
    BY <1>3, <2>2, Shape
  <2> QED BY <2>1, <2>2
<1>7. \A p \in 0..MaxPointer : p > Len(trace') => values'[p] = Zero
  BY <1>1, <1>3, Shape DEF IInv, TypeOK, PointersFresh
<1> QED BY <1>1, <1>2, <1>4, <1>5, <1>6, <1>7 DEF IInv, PointersFresh

LEMMA PopShape ==
    ASSUME IInv, Pop
    PROVE  /\ Len(trace) >= 1 /\ Len(trace') = Len(trace) - 1
           /\ \A j \in 1..Len(trace') : trace'[j] = trace[j]
           /\ values' = [values EXCEPT ![Len(trace)] = Zero]
           /\ IInv'
<1> DEFINE n == Len(trace)
<1>1. /\ n # 0 /\ trace' = SubSeq(trace, 1, n - 1)
      /\ values' = [values EXCEPT ![n] = Zero]
  BY Shape DEF Pop
<1>2. /\ n >= 1 /\ Len(trace') = n - 1
      /\ \A j \in 1..(n - 1) : trace'[j] = trace[j]
      /\ trace' \in Seq([key : Keys, value : 1..MaxPointer])
  BY <1>1, Shape, DropLast
<1>3. TypeOK'
  BY <1>1, <1>2, TraceAssumption DEF TraceAssumption, IInv, TypeOK
<1>4. Sorted(trace') /\ \A j \in 1..Len(trace') : trace'[j].value = j
  <2>1. \A j \in 1..Len(trace') : j \in 1..n /\ trace'[j] = trace[j]
    <3>1. /\ n \in Nat /\ Len(trace') = n - 1
          /\ \A j \in 1..(n - 1) : trace'[j] = trace[j]
      BY <1>2, Shape
    <3> HIDE DEF n
    <3>2. \A j \in 1..(n - 1) : j \in 1..n
      BY <3>1
    <3> QED BY <3>1, <3>2
  <2>2. Sorted(trace) /\ \A j \in 1..n : trace[j].value = j
    BY Shape
  <2>3. \A j \in 1..Len(trace') : trace'[j].value = j
    BY <2>1, <2>2
  <2>4. \A i, j \in 1..n : i < j => trace[i].key < trace[j].key
    BY <2>2 DEF Sorted
  <2>5. ASSUME NEW i \in 1..Len(trace'), NEW j \in 1..Len(trace'), i < j
        PROVE  trace'[i].key < trace'[j].key
    BY <2>1, <2>4, <2>5
  <2> QED BY <2>3, <2>5 DEF Sorted
<1>5. \A p \in 0..MaxPointer : p > Len(trace') => values'[p] = Zero
  BY <1>1, <1>2, Shape DEF IInv, TypeOK, PointersFresh
<1> QED BY <1>1, <1>2, <1>3, <1>4, <1>5 DEF IInv, PointersFresh

-----------------------------------------------------------------------------
LEMMA InitHolds == Init => IInv
<1> SUFFICES ASSUME Init PROVE IInv OBVIOUS
<1>1. TypeOK
  BY TraceAssumption DEF TraceAssumption, Init, TypeOK
<1>2. PointersFresh
  BY DEF Init, PointersFresh, Sorted
<1> QED BY <1>1, <1>2 DEF IInv

LEMMA StepHolds == IInv /\ [Next]_vars => IInv'
<1> SUFFICES ASSUME IInv, [Next]_vars PROVE IInv' OBVIOUS
<1>1. ASSUME NEW key \in Keys, NEW value \in Values, PushSameKey(key, value)
      PROVE  IInv'
  BY <1>1, SameKeyShape
<1>2. ASSUME NEW key \in Keys, NEW value \in Values, PushNewKey(key, value)
      PROVE  IInv'
  BY <1>2, NewKeyShape
<1>3. CASE Pop
  BY <1>3, PopShape
<1>4. CASE UNCHANGED vars
  BY <1>4 DEF vars, IInv, TypeOK, PointersFresh
<1> QED BY <1>1, <1>2, <1>3, <1>4 DEF Next

LEMMA InvariantHolds == Spec => []IInv
<1>1. Init => IInv BY InitHolds
<1>2. IInv /\ [Next]_vars => IInv' BY StepHolds
<1> QED BY <1>1, <1>2, PTL DEF Spec

(* The pointers of a trace are its positions, and the slots past its end   *)
(* are clear: a push after pops reads no old value.                        *)
THEOREM PointersHold == Spec => [](TypeOK /\ PointersFresh)
<1>1. IInv => TypeOK /\ PointersFresh BY DEF IInv
<1> QED BY <1>1, InvariantHolds, PTL

-----------------------------------------------------------------------------
(* What a trace records: at the i-th key, what the i-th slot holds.        *)
Entries == [k \in KeysHeld |-> upperLookupRecent(k)]

LEMMA EntryAt ==
    ASSUME IInv, NEW i \in 1..Len(trace)
    PROVE  trace[i].key \in KeysHeld /\ Entries[trace[i].key] = values[i]
<1>1. UpperLookupRecent(trace, trace[i].key, 0) = i
  BY Shape, SlotAtKey
<1>2. upperLookupRecent(trace[i].key) = values[i]
  BY <1>1 DEF upperLookupRecent, Read
<1> QED BY <1>2 DEF KeysHeld, Entries

(* The same of the state after a step.                                     *)
LEMMA EntryAfter ==
    ASSUME IInv', NEW i \in 1..Len(trace'), NEW k, k = trace'[i].key
    PROVE  k \in KeysHeld' /\ Entries'[k] = values'[i]
<1>1. /\ trace' \in Seq([key : Keys, value : 1..MaxPointer])
      /\ Sorted(trace') /\ \A j \in 1..Len(trace') : trace'[j].value = j
  BY DEF IInv, TypeOK, PointersFresh
<1>2. UpperLookupRecent(trace', trace'[i].key, 0) = i
  BY <1>1, SlotAtKey
<1>3. UpperLookupRecent(trace', k, 0) = i
  BY <1>2
<1>4. upperLookupRecent(k)' = values'[i]
  BY <1>3 DEF upperLookupRecent, Read
<1>5. k \in KeysHeld'
  BY DEF KeysHeld
<1> QED BY <1>4, <1>5 DEF Entries

LEMMA SameKeyRecords ==
    ASSUME IInv, NEW key \in Keys, NEW value \in Values, PushSameKey(key, value)
    PROVE  Log!Record(key, value)
<1>1. /\ trace' = trace /\ Len(trace) >= 1 /\ trace[Len(trace)].key = key
      /\ values' = [values EXCEPT ![Len(trace)] = value] /\ IInv'
  BY SameKeyShape
<1>2. KeysHeld' = KeysHeld /\ key \in KeysHeld
  BY <1>1, Shape DEF KeysHeld
<1>3. ASSUME NEW k \in KeysHeld
      PROVE  /\ k <= key
             /\ Entries'[k] = IF k = key THEN value ELSE Entries[k]
  <2>1. PICK i \in 1..Len(trace) : k = trace[i].key
    BY DEF KeysHeld
  <2>2. Entries[k] = values[i] /\ Entries'[k] = values'[i]
    BY <1>1, <2>1, EntryAt, EntryAfter
  <2>3. values \in [0..MaxPointer -> Values] /\ i \in 0..MaxPointer
    BY <2>1, Shape DEF IInv, TypeOK
  <2>4. CASE i = Len(trace)
    BY <1>1, <2>1, <2>2, <2>3, <2>4, Shape
  <2>5. CASE i # Len(trace)
    <3>1. k < key
      BY <1>1, <2>1, <2>5, Shape DEF Sorted
    <3> QED BY <1>1, <2>1, <2>2, <2>3, <2>5, <3>1, Shape
  <2> QED BY <2>4, <2>5
<1> QED BY <1>2, <1>3 DEF Log!Record, Entries

LEMMA NewKeyRecords ==
    ASSUME IInv, NEW key \in Keys, NEW value \in Values, PushNewKey(key, value)
    PROVE  Log!Record(key, value)
<1> DEFINE n == Len(trace)
<1>1. /\ trace' = Append(trace, [key |-> key, value |-> n + 1])
      /\ \A j \in 1..n : trace[j].key < key
      /\ values' = [values EXCEPT ![n + 1] = value] /\ IInv'
  BY NewKeyShape
<1>2. /\ n \in Nat /\ n + 1 \in 1..Len(trace') /\ Len(trace') = n + 1
      /\ trace'[n + 1].key = key
      /\ \A j \in 1..n : trace'[j] = trace[j] /\ j \in 1..Len(trace')
  BY <1>1, Shape
<1>3. KeysHeld' = KeysHeld \cup {key}
  <2>1. ASSUME NEW j \in 1..(n + 1), j \notin 1..n PROVE j = n + 1
    BY <1>2, <2>1
  <2> QED BY <1>2, <2>1 DEF KeysHeld
<1>4. values'[n + 1] = value
  <2>1. n + 1 <= MaxPointer /\ MaxPointer \in Nat
    BY Shape DEF PushNewKey
  <2>2. n + 1 \in 0..MaxPointer
    BY <1>2, <2>1
  <2> QED BY <1>1, <2>2 DEF IInv, TypeOK
<1>5. Entries'[key] = value
  BY <1>1, <1>2, <1>4, EntryAfter
<1>6. ASSUME NEW k \in KeysHeld
      PROVE  k <= key /\ k # key /\ Entries'[k] = Entries[k]
  <2>1. PICK i \in 1..n : k = trace[i].key
    BY DEF KeysHeld
  <2>2. Entries[k] = values[i] /\ Entries'[k] = values'[i]
    BY <1>1, <1>2, <2>1, EntryAt, EntryAfter
  <2>3. values'[i] = values[i]
    BY <1>1, <1>2, <2>1, Shape DEF IInv, TypeOK
  <2>4. k < key /\ k \in Nat /\ key \in Nat
    BY <1>1, <2>1, Shape
  <2> QED BY <2>2, <2>3, <2>4
<1>7. key <= key
  BY Shape
<1>8. Entries' = [k \in KeysHeld \cup {key} |->
                     IF k = key THEN value ELSE Entries[k]]
  BY <1>3, <1>5, <1>6 DEF Entries
<1>9. \A k \in KeysHeld \cup {key} : k <= key
  BY <1>6, <1>7, Shape DEF KeysHeld
<1>10. DOMAIN Entries = KeysHeld
  BY DEF Entries
<1> QED BY <1>8, <1>9, <1>10 DEF Log!Record, Entries

LEMMA PopForgets ==
    ASSUME IInv, Pop
    PROVE  \E key \in Keys : Log!Forget(key)
<1> DEFINE n == Len(trace)
           key == trace[n].key
<1>1. /\ n >= 1 /\ Len(trace') = n - 1
      /\ \A j \in 1..Len(trace') : trace'[j] = trace[j]
      /\ values' = [values EXCEPT ![n] = Zero] /\ IInv'
  BY PopShape
<1>2. n \in Nat /\ n \in 1..n /\ key \in Keys
  BY <1>1, Shape
<1>3. \A j \in 1..n : j # n => j \in 1..Len(trace') /\ trace[j].key < key
  BY <1>1, <1>2, Shape DEF Sorted
<1>4. KeysHeld' = KeysHeld \ {key}
  <2>1. ASSUME NEW j \in 1..Len(trace')
        PROVE  j \in 1..n /\ j # n /\ trace'[j].key = trace[j].key
               /\ trace[j].key # key
    BY <1>1, <1>2, <1>3, Shape
  <2>2. ASSUME NEW j \in 1..n, trace[j].key # key
        PROVE  j \in 1..Len(trace') /\ trace'[j].key = trace[j].key
    BY <1>1, <1>2, <1>3, <2>2
  <2> QED BY <2>1, <2>2 DEF KeysHeld
<1>5. key \in KeysHeld /\ \A k \in KeysHeld : k <= key
  BY <1>2, <1>3, Shape DEF KeysHeld
<1>6. ASSUME NEW k \in KeysHeld'
      PROVE  Entries'[k] = Entries[k]
  <2>1. PICK i \in 1..Len(trace') : k = trace'[i].key
    BY DEF KeysHeld
  <2>2. i \in 1..n /\ i # n /\ k = trace[i].key
    BY <1>1, <1>2, <2>1
  <2>3. Entries[k] = values[i] /\ Entries'[k] = values'[i]
    BY <1>1, <2>1, <2>2, EntryAt, EntryAfter
  <2>4. values'[i] = values[i]
    BY <1>1, <2>2, Shape DEF IInv, TypeOK
  <2> QED BY <2>3, <2>4
<1>7. Log!Forget(key)
  BY <1>4, <1>5, <1>6 DEF Log!Forget, Log!IsLast, Entries
<1> QED BY <1>2, <1>7

(* A pointer trace is a log: every push and every pop touches the last     *)
(* key only, whatever the pointers are.                                    *)
THEOREM ImplementsKeyedLogHolds == Spec => ImplementsKeyedLog
<1>1. Init => Log!Init
  BY DEF Init, Log!Init, KeysHeld
<1>2. IInv /\ [Next]_vars => [Log!Next]_Entries
  <2> SUFFICES ASSUME IInv, [Next]_vars PROVE [Log!Next]_Entries OBVIOUS
  <2>1. ASSUME NEW key \in Keys, NEW value \in Values,
               PushSameKey(key, value) \/ PushNewKey(key, value)
        PROVE  Log!Next
    BY <2>1, SameKeyRecords, NewKeyRecords DEF Log!Next
  <2>2. CASE Pop
    BY <2>2, PopForgets DEF Log!Next
  <2>3. CASE UNCHANGED vars
    BY <2>3 DEF vars, Entries, KeysHeld, upperLookupRecent, Read
  <2> QED BY <2>1, <2>2, <2>3 DEF Next
<1>3. Spec => [][Log!Next]_Entries
  BY <1>2, InvariantHolds, PTL DEF Spec
<1> QED BY <1>1, <1>3, PTL DEF Spec, Log!Spec, ImplementsKeyedLog, Entries

-----------------------------------------------------------------------------
(* The library's search ends at the checkpoint that a lookup reads.        *)

LEMMA SearchFinds ==
    ASSUME IInv, NEW key \in Keys
    PROVE  /\ LookupPos(trace, key) \in 0..Len(trace)
           /\ LookupPos(trace, key) # 0
                => IsUpper(trace, key, LookupPos(trace, key))
           /\ LookupPos(trace, key) = 0 => ~Covers(trace, key)
BY Shape, LookupPosFinds

(* A hint is believed only where the search would end.                     *)
LEMMA HintFinds ==
    ASSUME IInv, NEW key \in Keys, NEW hint \in 0..(Len(trace) - 1),
           HintHolds(trace, key, hint)
    PROVE  LookupPos(trace, key) = hint + 1
<1> DEFINE n == Len(trace)
           p == LookupPos(trace, key)
<1>1. /\ n \in Nat /\ Sorted(trace) /\ key \in Nat
      /\ \A j \in 1..n : trace[j].key \in Nat
  BY Shape
<1>2. hint + 1 \in 1..n /\ (hint + 1) + 1 = hint + 2
  BY <1>1
<1>3. trace[hint + 1].key <= key
  BY <1>1, <1>2 DEF HintHolds, KeyAt
<1>4. hint + 1 < n => key < trace[(hint + 1) + 1].key
  <2> SUFFICES ASSUME hint + 1 < n PROVE key < trace[hint + 2].key
    BY <1>2
  <2>1. hint # n - 1 /\ hint + 2 \in 1..n /\ hint + 1 < hint + 2
    BY <1>1
  <2>2. trace[hint + 1].key < trace[hint + 2].key
    BY <1>1, <1>2, <2>1 DEF Sorted
  <2> QED BY <1>1, <1>2, <2>1, <2>2 DEF HintHolds, KeyAt
<1>5. IsUpper(trace, key, hint + 1)
  BY <1>1, <1>2, <1>3, <1>4, UpperBetween
<1>6. p # 0 /\ IsUpper(trace, key, p)
  BY <1>2, <1>5, SearchFinds DEF Covers
<1>7. p \in 1..n
  BY <1>6 DEF IsUpper
<1> QED BY <1>2, <1>5, <1>6, <1>7 DEF IsUpper

LEMMA LookupsFollow == IInv => LookupsAgree
<1> SUFFICES ASSUME IInv, NEW key \in Keys
             PROVE  LET found == UpperLookupRecentCheckpoint(trace, key)
                    IN  /\ IF found.exists
                           THEN /\ IsUpper(trace, key, found.pos + 1)
                                /\ Read(found.value) = upperLookupRecent(key)
                           ELSE ~Covers(trace, key)
                        /\ \A hint \in 0..(Len(trace) - 1) :
                              HintedLookup(trace, key, hint) = found
  BY DEF LookupsAgree
<1> DEFINE n == Len(trace)
           p == LookupPos(trace, key)
           found == UpperLookupRecentCheckpoint(trace, key)
<1>1. /\ n \in Nat /\ p \in 0..n
      /\ p # 0 => IsUpper(trace, key, p)
      /\ p = 0 => ~Covers(trace, key)
  BY Shape, SearchFinds
<1>2. found = IF p = 0 THEN Missing ELSE Found(trace, p - 1)
  BY DEF UpperLookupRecentCheckpoint
<1>3. ASSUME NEW hint \in 0..(n - 1)
      PROVE  HintedLookup(trace, key, hint) = found
  <2>1. CASE HintHolds(trace, key, hint)
    <3>1. p = hint + 1
      BY <2>1, HintFinds
    <3>2. p # 0 /\ p - 1 = hint
      BY <1>1, <3>1
    <3> HIDE DEF p
    <3>3. found = Found(trace, hint)
      BY <1>2, <3>2
    <3> QED BY <2>1, <3>3 DEF HintedLookup
  <2>2. CASE ~HintHolds(trace, key, hint)
    BY <2>2 DEF HintedLookup
  <2> QED BY <2>1, <2>2
<1> HIDE DEF p
<1>4. CASE p = 0
  <2>1. ~found.exists
    BY <1>2, <1>4 DEF Missing
  <2> QED BY <1>1, <1>3, <1>4, <2>1
<1>5. CASE p # 0
  <2>1. p - 1 + 1 = p /\ IsUpper(trace, key, p)
    BY <1>1, <1>5
  <2>2. found.exists /\ found.pos + 1 = p /\ found.value = trace[p].value
    BY <1>2, <1>5, <2>1 DEF Found
  <2>3. UpperLookupRecent(trace, key, 0) = trace[p].value
    BY <1>1, <2>1, LookupFinds
  <2>4. Read(found.value) = upperLookupRecent(key)
    BY <2>2, <2>3 DEF upperLookupRecent
  <2> QED BY <1>3, <2>1, <2>2, <2>4
<1> QED BY <1>4, <1>5

-----------------------------------------------------------------------------
(* Persistent sets.  The operators on traces that PersistentSet reads are  *)
(* those the lemmas above are about.                                       *)

LEMMA SetReadsTraces ==
    /\ \A t, key, zero :
          Set!UpperLookupRecent(t, key, zero) = UpperLookupRecent(t, key, zero)
    /\ \A t, zero : Set!Latest(t, zero) = Latest(t, zero)
    /\ \A t : Set!LastKey(t) = LastKey(t)
    /\ \A t : Set!Sorted(t) <=> Sorted(t)
    /\ \A t, key : Set!CanPush(t, key) <=> CanPush(t, key)
    /\ \A t, key, value : Set!Push(t, key, value) = Push(t, key, value)
<1>1. \A t, key, zero :
         Set!UpperLookupRecent(t, key, zero) = UpperLookupRecent(t, key, zero)
  BY DEF Set!UpperLookupRecent, Set!Covers, Set!UpperIndex, Set!IsUpper,
         UpperLookupRecent, Covers, UpperIndex, IsUpper
<1>2. \A t, zero : Set!Latest(t, zero) = Latest(t, zero)
  BY DEF Set!Latest, Latest
<1>3. \A t : Set!LastKey(t) = LastKey(t)
  BY DEF Set!LastKey, LastKey
<1>4. \A t : Set!Sorted(t) <=> Sorted(t)
  BY DEF Set!Sorted, Sorted
<1>5. \A t, key : Set!CanPush(t, key) <=> CanPush(t, key)
  BY <1>3 DEF Set!CanPush, CanPush
<1>6. \A t, key, value : Set!Push(t, key, value) = Push(t, key, value)
  BY <1>3 DEF Set!Push, Push, Set!Checkpoint, Checkpoint
<1> QED BY <1>1, <1>2, <1>3, <1>4, <1>5, <1>6

LEMMA SetCounts == \A S : Set!Cardinality(S) = Cardinality(S)
BY DEF Set!Cardinality, Cardinality

LEMMA SetFilters ==
    \A list, wanted : Set!Sublist(list, wanted) = Sublist(list, wanted)
BY DEF Set!Sublist, Sublist

-----------------------------------------------------------------------------
(* One element: a status and what the views read from it.                  *)
Flags == {0, 1}

StatusOK(s) ==
    /\ s \in [isAdded : BOOLEAN, addedAt : SetKeys \cup {0},
              isRemoved : Traces(SetKeys, Flags)]
    /\ ~s.isAdded => s.isRemoved = <<>> /\ s.addedAt = 0
    /\ \A i \in 1..Len(s.isRemoved) : s.isRemoved[i].key >= s.addedAt

IsIn(s) == s.isAdded /\ Latest(s.isRemoved, 0) = 0

IsInAt(s, key) ==
    /\ s.isAdded
    /\ key >= s.addedAt
    /\ UpperLookupRecent(s.isRemoved, key, 0) = 0

ChangedAt(s) ==
    IF s.isRemoved # <<>> THEN LastKey(s.isRemoved) ELSE s.addedAt

(* A change of an element at a key: it decides from that key on.           *)
Moved(s, t, key, isIn) ==
    /\ StatusOK(t) /\ t.isAdded
    /\ ChangedAt(s) <= key /\ ChangedAt(t) = key
    /\ IsIn(t) <=> isIn
    /\ \A k \in SetKeys : /\ k >= key => (IsInAt(t, k) <=> isIn)
                          /\ k < key => (IsInAt(t, k) <=> IsInAt(s, k))

LEMMA KeysAreNumbers == SetKeys \subseteq Nat /\ AreKeys(SetKeys)
BY StructuresAssumption DEF StructuresAssumption, Set!KeysAssumption, AreKeys

LEMMA StatusShape ==
    ASSUME NEW s, StatusOK(s)
    PROVE  /\ s.isAdded \in BOOLEAN /\ s.addedAt \in Nat
           /\ s.isRemoved \in Traces(SetKeys, Flags)
           /\ Len(s.isRemoved) \in Nat
           /\ ChangedAt(s) \in Nat /\ s.addedAt <= ChangedAt(s)
           /\ s.isRemoved # <<>> => LastKey(s.isRemoved) \in SetKeys
           /\ Latest(s.isRemoved, 0) \in Flags
<1>1. /\ s.isAdded \in BOOLEAN /\ s.addedAt \in Nat
      /\ s.isRemoved \in Traces(SetKeys, Flags)
  <2>1. s \in [isAdded : BOOLEAN, addedAt : SetKeys \cup {0},
              isRemoved : Traces(SetKeys, Flags)]
    BY DEF StatusOK
  <2>2. SetKeys \cup {0} \subseteq Nat
    BY KeysAreNumbers
  <2> QED BY <2>1, <2>2
<1>2. /\ Len(s.isRemoved) \in Nat
      /\ s.isRemoved # <<>> => /\ Len(s.isRemoved) \in 1..Len(s.isRemoved)
                               /\ LastKey(s.isRemoved) \in SetKeys
                               /\ LastKey(s.isRemoved) \in Nat
  BY <1>1, KeysAreNumbers, TraceShape
<1>3. ChangedAt(s) \in Nat /\ s.addedAt <= ChangedAt(s)
  <2>1. CASE s.isRemoved = <<>>
    BY <1>1, <2>1 DEF ChangedAt
  <2>2. CASE s.isRemoved # <<>>
    BY <1>1, <1>2, <2>2 DEF ChangedAt, StatusOK, LastKey
  <2> QED BY <2>1, <2>2
<1>4. Latest(s.isRemoved, 0) \in Flags
  <2>1. Latest(s.isRemoved, 0) \in Flags \union {0}
    BY <1>1, KeysAreNumbers, LatestType
  <2> QED BY <2>1 DEF Flags
<1> QED BY <1>1, <1>2, <1>3, <1>4

(* From the last change on, the two reads of an element agree.             *)
LEMMA PresentRead ==
    ASSUME NEW s, StatusOK(s), s.isAdded, NEW k \in SetKeys,
           k >= s.addedAt, s.isRemoved # <<>> => LastKey(s.isRemoved) <= k
    PROVE  IsInAt(s, k) <=> IsIn(s)
<1>1. UpperLookupRecent(s.isRemoved, k, 0) = Latest(s.isRemoved, 0)
  BY KeysAreNumbers, StatusShape, LookupLast
<1> QED BY <1>1 DEF IsInAt, IsIn

LEMMA ReadFromChange ==
    ASSUME NEW s, StatusOK(s), NEW k \in SetKeys, k >= ChangedAt(s)
    PROVE  IsInAt(s, k) <=> IsIn(s)
<1>1. CASE ~s.isAdded
  BY <1>1 DEF IsInAt, IsIn
<1>2. CASE s.isAdded
  <2>1. k \in Nat /\ s.addedAt \in Nat /\ ChangedAt(s) \in Nat
        /\ s.addedAt <= ChangedAt(s)
    BY KeysAreNumbers, StatusShape
  <2>2. k >= s.addedAt
    BY <2>1
  <2>3. s.isRemoved # <<>> => LastKey(s.isRemoved) <= k
    BY <2>1 DEF ChangedAt
  <2> QED BY <1>2, <2>2, <2>3, PresentRead
<1> QED BY <1>1, <1>2

LEMMA FirstMoves ==
    ASSUME NEW s, StatusOK(s), ~s.isAdded, NEW key \in SetKeys, NEW t,
           t = [s EXCEPT !.isAdded = TRUE, !.addedAt = key]
    PROVE  Moved(s, t, key, TRUE)
<1>1. /\ s.isRemoved = <<>> /\ s.addedAt = 0
      /\ <<>> \in Traces(SetKeys, Flags)
  BY StatusShape DEF StatusOK
<1>2. t.isAdded = TRUE /\ t.addedAt = key /\ t.isRemoved = <<>>
  BY <1>1 DEF StatusOK
<1>3. StatusOK(t)
  <2>1. t = [isAdded |-> TRUE, addedAt |-> key, isRemoved |-> <<>>]
    BY <1>1 DEF StatusOK
  <2>2. \A i \in 1..Len(<<>>) : FALSE
    OBVIOUS
  <2>3. t \in [isAdded : BOOLEAN, addedAt : SetKeys \cup {0},
              isRemoved : Traces(SetKeys, Flags)]
    BY <1>1, <2>1
  <2> QED BY <1>2, <2>2, <2>3 DEF StatusOK
<1>4. ChangedAt(s) = 0 /\ ChangedAt(t) = key /\ key \in Nat
  BY <1>1, <1>2, KeysAreNumbers DEF ChangedAt
<1>5. IsIn(t)
  BY <1>2 DEF IsIn, Latest
<1>6. ASSUME NEW k \in SetKeys
      PROVE  /\ k >= key => IsInAt(t, k)
             /\ k < key => ~IsInAt(t, k) /\ ~IsInAt(s, k)
  <2>1. k \in Nat
    BY KeysAreNumbers
  <2>2. k >= key => IsInAt(t, k)
    BY <1>3, <1>4, <1>5, ReadFromChange
  <2>3. k < key => ~(k >= key)
    BY <1>4, <2>1
  <2> QED BY <1>2, <2>2, <2>3 DEF IsInAt
<1> QED BY <1>2, <1>3, <1>4, <1>5, <1>6 DEF Moved

LEMMA PushMoves ==
    ASSUME NEW s, StatusOK(s), s.isAdded, NEW key \in SetKeys,
           key >= s.addedAt, CanPush(s.isRemoved, key), NEW flag \in Flags,
           NEW t, t = [s EXCEPT !.isRemoved = Push(s.isRemoved, key, flag)]
    PROVE  Moved(s, t, key, flag = 0)
<1> DEFINE removals == s.isRemoved
           pushed == Push(removals, key, flag)
<1>1. /\ removals \in Traces(SetKeys, Flags) /\ key \in Nat
      /\ s.addedAt \in Nat /\ AreKeys(SetKeys)
  BY KeysAreNumbers, StatusShape
<1>2. /\ pushed \in Traces(SetKeys, Flags) /\ pushed # <<>>
      /\ LastKey(pushed) = key
  BY <1>1, PushType
<1>3. t.isAdded /\ t.addedAt = s.addedAt /\ t.isRemoved = pushed
  BY DEF StatusOK
<1>p. pushed = Push(removals, key, flag)
  OBVIOUS
<1> HIDE DEF pushed
<1>4. \A i \in 1..Len(pushed) : pushed[i].key >= s.addedAt
  <2>1. \A i \in 1..Len(removals) : removals[i].key >= s.addedAt
    BY DEF StatusOK
  <2> QED BY <1>1, <1>p, <2>1, PushAbove
<1>5. StatusOK(t)
  <2>1. s.addedAt \in SetKeys \cup {0}
    BY DEF StatusOK
  <2>2. t = [isAdded |-> TRUE, addedAt |-> s.addedAt, isRemoved |-> pushed]
    BY DEF StatusOK, pushed
  <2> QED BY <1>2, <1>3, <1>4, <2>1, <2>2 DEF StatusOK
<1>6. ChangedAt(t) = key /\ ChangedAt(s) <= key
  BY <1>2, <1>3 DEF ChangedAt, CanPush
<1>7. IsIn(t) <=> flag = 0
  <2>1. Len(pushed) \in 1..Len(pushed)
    BY <1>1, <1>2, TraceShape
  <2>2. key >= key
    BY <1>1
  <2>3. UpperLookupRecent(pushed, key, 0) = flag
    BY <1>1, <2>2, LookupAfterPush DEF pushed
  <2>4. key <= key
    BY <1>1
  <2>5. UpperLookupRecent(pushed, key, 0) = Latest(pushed, 0)
    BY <1>1, <1>2, <2>4, LookupLast
  <2> QED BY <1>3, <2>3, <2>5 DEF IsIn
<1>8. ASSUME NEW k \in SetKeys
      PROVE  /\ k >= key => (IsInAt(t, k) <=> flag = 0)
             /\ k < key => (IsInAt(t, k) <=> IsInAt(s, k))
  <2>1. k \in Nat
    BY KeysAreNumbers
  <2>2. k >= key => (IsInAt(t, k) <=> flag = 0)
    BY <1>5, <1>6, <1>7, ReadFromChange
  <2>3. UpperLookupRecent(pushed, k, 0) =
          IF k >= key THEN flag ELSE UpperLookupRecent(removals, k, 0)
    BY <1>1, <2>1, LookupAfterPush DEF pushed
  <2>4. k < key => ~(k >= key)
    BY <1>1, <2>1
  <2> QED BY <1>3, <2>2, <2>3, <2>4 DEF IsInAt
<1> QED BY <1>3, <1>5, <1>6, <1>7, <1>8 DEF Moved

-----------------------------------------------------------------------------
(* The whole set: elements are listed once, and the counter counts them.   *)
Members == {e \in Elements : IsIn(statuses[e])}

SetInv ==
    /\ elements \in Seq(Elements) /\ NoRepeats(elements)
    /\ statuses \in [Elements -> [isAdded : BOOLEAN, addedAt : SetKeys \cup {0},
                                  isRemoved : Traces(SetKeys, Flags)]]
    /\ \A e \in Elements : StatusOK(statuses[e])
    /\ \A e \in Elements : statuses[e].isAdded <=> e \in Listed(elements)
    /\ IsFiniteSet(Members) /\ length = Cardinality(Members)

(* What every call does: one element moves at a key, in or out.            *)
SetStep(e, key, isIn, t) ==
    /\ Moved(statuses[e], t, key, isIn)
    /\ statuses' = [statuses EXCEPT ![e] = t]
    /\ IsIn(statuses[e]) <=> ~isIn
    /\ length' = IF isIn THEN length + 1 ELSE length - 1
    /\ \/ elements' = elements /\ statuses[e].isAdded
       \/ elements' = Append(elements, e) /\ ~statuses[e].isAdded

LEMMA SetReads ==
    /\ \A e : Set!contains(e) = IsIn(statuses[e])
    /\ \A e, k : Set!containsAt(e, k) = IsInAt(statuses[e], k)
BY SetReadsTraces DEF Set!contains, Set!containsAt, IsIn, IsInAt

LEMMA AddFirstSteps ==
    ASSUME SetInv, NEW e \in Elements, NEW key \in SetKeys, Set!AddFirst(e, key)
    PROVE  \E isIn \in BOOLEAN : \E t : SetStep(e, key, isIn, t)
<1> DEFINE s == statuses[e]
           t == [s EXCEPT !.isAdded = TRUE, !.addedAt = key]
<1>1. /\ ~s.isAdded /\ elements' = Append(elements, e) /\ length' = length + 1
      /\ statuses' = [statuses EXCEPT ![e] = t]
  BY DEF Set!AddFirst
<1>2. Moved(s, t, key, TRUE)
  BY <1>1, FirstMoves DEF SetInv
<1>3. ~IsIn(s)
  BY <1>1 DEF IsIn
<1> HIDE DEF t
<1>4. SetStep(e, key, TRUE, t)
  BY <1>1, <1>2, <1>3 DEF SetStep
<1> QED BY <1>4

LEMMA PushSteps ==
    ASSUME SetInv, NEW e \in Elements, NEW key \in SetKeys, NEW flag \in Flags,
           statuses[e].isAdded, key >= statuses[e].addedAt,
           CanPush(statuses[e].isRemoved, key),
           IsIn(statuses[e]) <=> ~(flag = 0),
           statuses' = [statuses EXCEPT
                          ![e].isRemoved = Push(statuses[e].isRemoved, key, flag)],
           length' = IF flag = 0 THEN length + 1 ELSE length - 1,
           elements' = elements
    PROVE  \E isIn \in BOOLEAN : \E t : SetStep(e, key, isIn, t)
<1> DEFINE s == statuses[e]
           t == [s EXCEPT !.isRemoved = Push(s.isRemoved, key, flag)]
<1>1. statuses' = [statuses EXCEPT ![e] = t]
  OBVIOUS
<1>2. Moved(s, t, key, flag = 0)
  BY PushMoves DEF SetInv
<1> HIDE DEF t
<1>3. CASE flag = 0
  <2>1. Moved(s, t, key, TRUE)
    BY <1>2, <1>3 DEF Moved
  <2>2. SetStep(e, key, TRUE, t)
    BY <1>1, <1>3, <2>1 DEF SetStep
  <2> QED BY <2>2
<1>4. CASE flag # 0
  <2>1. Moved(s, t, key, FALSE)
    BY <1>2, <1>4 DEF Moved
  <2>2. SetStep(e, key, FALSE, t)
    BY <1>1, <1>4, <2>1 DEF SetStep
  <2> QED BY <2>2
<1> QED BY <1>3, <1>4

LEMMA AddAgainSteps ==
    ASSUME SetInv, NEW e \in Elements, NEW key \in SetKeys, Set!AddAgain(e, key)
    PROVE  \E isIn \in BOOLEAN : \E t : SetStep(e, key, isIn, t)
<1> DEFINE s == statuses[e]
<1>1. /\ s.isAdded /\ Latest(s.isRemoved, 0) # 0 /\ CanPush(s.isRemoved, key)
      /\ statuses' = [statuses EXCEPT
                        ![e].isRemoved = Push(statuses[e].isRemoved, key, 0)]
      /\ length' = length + 1 /\ elements' = elements
  BY SetReadsTraces DEF Set!AddAgain
<1>2. StatusOK(s)
  BY DEF SetInv
<1>3. key >= s.addedAt
  <2>1. s.isRemoved # <<>>
    BY <1>1 DEF Latest
  <2>2. LastKey(s.isRemoved) <= key /\ ChangedAt(s) = LastKey(s.isRemoved)
    BY <1>1, <2>1 DEF CanPush, ChangedAt
  <2>3. s.addedAt \in Nat /\ ChangedAt(s) \in Nat /\ s.addedAt <= ChangedAt(s)
    BY <1>2, StatusShape
  <2> QED BY <2>2, <2>3, KeysAreNumbers
<1>4. ~IsIn(s) /\ 0 \in Flags
  BY <1>1 DEF IsIn, Flags
<1> QED BY <1>1, <1>3, <1>4, PushSteps

LEMMA RemoveSteps ==
    ASSUME SetInv, NEW e \in Elements, NEW key \in SetKeys, Set!Remove(e, key)
    PROVE  \E isIn \in BOOLEAN : \E t : SetStep(e, key, isIn, t)
<1> DEFINE s == statuses[e]
<1>1. /\ IsIn(s) /\ key >= s.addedAt /\ CanPush(s.isRemoved, key)
      /\ statuses' = [statuses EXCEPT
                        ![e].isRemoved = Push(statuses[e].isRemoved, key, 1)]
      /\ length' = length - 1 /\ elements' = elements
  BY SetReadsTraces, SetReads DEF Set!Remove
<1>2. s.isAdded /\ 1 \in Flags /\ 1 # 0
  BY <1>1 DEF IsIn, Flags
<1> QED BY <1>1, <1>2, PushSteps

LEMMA SetNextSteps ==
    ASSUME SetInv, Set!Next
    PROVE  \E e \in Elements, key \in SetKeys :
              \E isIn \in BOOLEAN : \E t : SetStep(e, key, isIn, t)
<1>1. PICK e \in Elements, key \in SetKeys :
          Set!AddFirst(e, key) \/ Set!AddAgain(e, key) \/ Set!Remove(e, key)
  BY DEF Set!Next
<1>2. \E isIn \in BOOLEAN : \E t : SetStep(e, key, isIn, t)
  BY <1>1, AddFirstSteps, AddAgainSteps, RemoveSteps
<1> QED BY <1>2

LEMMA SetStepHolds ==
    ASSUME SetInv, NEW e \in Elements, NEW key \in SetKeys,
           NEW isIn \in BOOLEAN, NEW t, SetStep(e, key, isIn, t)
    PROVE  SetInv'
<1>1. /\ StatusOK(t) /\ t.isAdded /\ (IsIn(t) <=> isIn)
      /\ statuses' = [statuses EXCEPT ![e] = t]
      /\ IsIn(statuses[e]) <=> ~isIn
      /\ length' = IF isIn THEN length + 1 ELSE length - 1
      /\ \/ elements' = elements /\ statuses[e].isAdded
         \/ elements' = Append(elements, e) /\ ~statuses[e].isAdded
  BY DEF SetStep, Moved
<1>2. /\ statuses'[e] = t
      /\ \A x \in Elements : x # e => statuses'[x] = statuses[x]
  BY <1>1 DEF SetInv
<1>3. /\ elements' \in Seq(Elements) /\ NoRepeats(elements')
      /\ Listed(elements') = Listed(elements) \cup {e}
  <2>1. elements \in Seq(Elements) /\ NoRepeats(elements)
        /\ (statuses[e].isAdded <=> e \in Listed(elements))
    BY DEF SetInv
  <2>2. CASE elements' = elements /\ statuses[e].isAdded
    BY <2>1, <2>2
  <2>3. CASE elements' = Append(elements, e) /\ ~statuses[e].isAdded
    <3> DEFINE n == Len(elements)
    <3>1. /\ n \in Nat /\ Len(elements') = n + 1 /\ elements'[n + 1] = e
          /\ elements' \in Seq(Elements)
          /\ \A i \in 1..n : elements'[i] = elements[i] /\ i \in 1..(n + 1)
          /\ \A i \in 1..(n + 1) : i \in 1..n \/ i = n + 1
          /\ n + 1 \in 1..(n + 1)
      BY <2>1, <2>3
    <3>2. Listed(elements') = Listed(elements) \cup {e}
      BY <3>1 DEF Listed
    <3>3. \A i \in 1..n : elements[i] # e
      BY <2>1, <2>3 DEF Listed
    <3>4. NoRepeats(elements')
      BY <2>1, <3>1, <3>3 DEF NoRepeats
    <3> QED BY <3>1, <3>2, <3>4
  <2> QED BY <1>1, <2>2, <2>3
<1>4. statuses' \in [Elements -> [isAdded : BOOLEAN, addedAt : SetKeys \cup {0},
                                  isRemoved : Traces(SetKeys, Flags)]]
  BY <1>1 DEF SetInv, StatusOK
<1>5. \A x \in Elements : StatusOK(statuses'[x])
  BY <1>1, <1>2 DEF SetInv
<1>6. \A x \in Elements : statuses'[x].isAdded <=> x \in Listed(elements')
  BY <1>1, <1>2, <1>3 DEF SetInv
<1>7. Members' = IF isIn THEN Members \cup {e} ELSE Members \ {e}
  BY <1>1, <1>2 DEF Members
<1>8. IsFiniteSet(Members) /\ length = Cardinality(Members)
      /\ (e \in Members <=> ~isIn)
  BY <1>1 DEF SetInv, Members
<1>9. IsFiniteSet(Members') /\ length' = Cardinality(Members')
  <2>1. CASE isIn
    <3>1. /\ IsFiniteSet(Members \cup {e})
          /\ Cardinality(Members \cup {e}) = Cardinality(Members) + 1
      BY <1>8, <2>1, FS_AddElement
    <3> QED BY <1>1, <1>7, <1>8, <2>1, <3>1
  <2>2. CASE ~isIn
    <3>1. /\ IsFiniteSet(Members \ {e})
          /\ Cardinality(Members \ {e}) = Cardinality(Members) - 1
      BY <1>8, <2>2, FS_RemoveElement
    <3> QED BY <1>1, <1>7, <1>8, <2>2, <3>1
  <2> QED BY <2>1, <2>2
<1>10. \A x \in Elements : StatusOK(statuses[x])'
  BY <1>5 DEF StatusOK
<1> QED BY <1>3, <1>4, <1>6, <1>9, <1>10 DEF SetInv, NoRepeats, Listed

LEMMA SetInitHolds == Set!Init => SetInv
<1> SUFFICES ASSUME Set!Init PROVE SetInv
  OBVIOUS
<1> DEFINE new == [isAdded |-> FALSE, addedAt |-> 0, isRemoved |-> <<>>]
<1>1. elements = <<>> /\ statuses = [e \in Elements |-> new] /\ length = 0
  BY DEF Set!Init
<1>2. <<>> \in Traces(SetKeys, Flags)
  BY DEF Traces, Sorted
<1>3. StatusOK(new)
  BY <1>2 DEF StatusOK
<1>4. Members = {}
  BY <1>1 DEF Members, IsIn
<1>5. NoRepeats(elements) /\ Listed(elements) = {}
  BY <1>1 DEF NoRepeats, Listed
<1>6. \A e \in Elements : statuses[e] = new /\ ~statuses[e].isAdded
  BY <1>1
<1>7. statuses \in [Elements -> [isAdded : BOOLEAN, addedAt : SetKeys \cup {0},
                                 isRemoved : Traces(SetKeys, Flags)]]
  BY <1>1, <1>2
<1> HIDE DEF new
<1> QED BY <1>1, <1>3, <1>4, <1>5, <1>6, <1>7, FS_EmptySet DEF SetInv

LEMMA SetInvariantHolds == Set!Spec => []SetInv
<1>1. Set!Init => SetInv
  BY SetInitHolds
<1>2. SetInv /\ [Set!Next]_Set!vars => SetInv'
  <2>1. SetInv /\ Set!Next => SetInv'
    BY SetNextSteps, SetStepHolds
  <2>2. SetInv /\ UNCHANGED Set!vars => SetInv'
    BY DEF Set!vars, SetInv, Members, Listed, NoRepeats, StatusOK, IsIn
  <2> QED BY <2>1, <2>2
<1> QED BY <1>1, <1>2, PTL DEF Set!Spec

-----------------------------------------------------------------------------
LEMMA SetShape == SetInv => Set!TypeOK /\ Set!StatusesWellFormed
<1> SUFFICES ASSUME SetInv PROVE Set!TypeOK /\ Set!StatusesWellFormed
  OBVIOUS
<1>1. Traces(SetKeys, Flags) \subseteq Seq([key : SetKeys, value : {0, 1}])
  BY DEF Traces, Flags
<1>2. length \in Nat
  BY FS_CardinalityType DEF SetInv
<1>3. Set!TypeOK
  BY <1>1, <1>2 DEF Set!TypeOK, Set!Status, SetInv
<1>4. \A e \in Elements :
         statuses[e].isAdded <=> \E i \in 1..Len(elements) : elements[i] = e
  BY DEF SetInv, Listed
<1>5. ASSUME NEW e \in Elements
      PROVE  LET removals == statuses[e].isRemoved
             IN  /\ Set!Sorted(removals)
                 /\ ~statuses[e].isAdded => removals = <<>>
                 /\ \A i \in 1..Len(removals) :
                       removals[i].key >= statuses[e].addedAt
  <2>1. StatusOK(statuses[e])
    BY DEF SetInv
  <2> QED BY <2>1, SetReadsTraces, StatusShape DEF StatusOK, Traces
<1> QED BY <1>3, <1>4, <1>5 DEF Set!StatusesWellFormed

(* The counter, the status, the membership at a key and the list of the    *)
(* values are four reads of one set.                                       *)
LEMMA SetReadsAgree == SetInv => Set!ReadsAgree
<1> SUFFICES ASSUME SetInv PROVE Set!ReadsAgree
  OBVIOUS
<1>1. Set!LengthIsCardinality
  BY SetReads, SetCounts DEF Set!LengthIsCardinality, SetInv, Members
<1>2. Set!PresentAgrees
  <2> SUFFICES ASSUME NEW e \in Elements, NEW k \in SetKeys,
                      statuses[e].isAdded, k >= statuses[e].addedAt,
                      Set!CanPush(statuses[e].isRemoved, k)
               PROVE  Set!containsAt(e, k) <=> Set!contains(e)
    BY DEF Set!PresentAgrees
  <2>1. StatusOK(statuses[e])
    BY DEF SetInv
  <2>2. statuses[e].isRemoved # <<>> => LastKey(statuses[e].isRemoved) <= k
    BY SetReadsTraces DEF CanPush
  <2>3. IsInAt(statuses[e], k) <=> IsIn(statuses[e])
    BY <2>1, <2>2, PresentRead
  <2> QED BY <2>3, SetReads
<1>3. Set!ValuesAtIsMembership
  <2> SUFFICES ASSUME NEW k \in SetKeys
               PROVE  LET listed == Set!valuesAt(k)
                      IN  /\ {listed[i] : i \in 1..Len(listed)}
                               = {e \in Elements : Set!containsAt(e, k)}
                          /\ Len(listed)
                               = Set!Cardinality({e \in Elements : Set!containsAt(e, k)})
    BY DEF Set!ValuesAtIsMembership
  <2> DEFINE wanted == {e \in Elements : Set!containsAt(e, k)}
             listed == Set!valuesAt(k)
  <2>1. listed = Sublist(elements, wanted)
    BY SetFilters DEF Set!valuesAt
  <2>2. wanted \subseteq Listed(elements)
    BY SetReads DEF IsInAt, SetInv
  <2>3. elements \in Seq(Elements) /\ NoRepeats(elements)
    BY DEF SetInv
  <2> HIDE DEF wanted, listed
  <2>4. /\ listed \in Seq(Elements) /\ NoRepeats(listed)
        /\ Listed(listed) = wanted
    <3>1. /\ listed \in Seq(Elements)
          /\ Listed(listed) = Listed(elements) \cap wanted
          /\ NoRepeats(elements) => NoRepeats(listed)
      BY <2>1, <2>3, SublistKeeps
    <3> QED BY <2>2, <2>3, <3>1
  <2>5. Len(listed) = Cardinality(wanted)
    BY <2>4, ListCounts
  <2> QED BY <2>4, <2>5, SetCounts DEF Listed, wanted, listed
<1> QED BY <1>1, <1>2, <1>3 DEF Set!ReadsAgree

-----------------------------------------------------------------------------
(* What HistorySet sees of a set.                                          *)
MemberAt == [e \in Elements |-> [k \in SetKeys |-> Set!containsAt(e, k)]]

LastChanges == [e \in Elements |->
                  IF statuses[e].isRemoved # <<>>
                  THEN Set!LastKey(statuses[e].isRemoved)
                  ELSE statuses[e].addedAt]

LEMMA ChangesRead == LastChanges = [e \in Elements |-> ChangedAt(statuses[e])]
BY SetReadsTraces DEF LastChanges, ChangedAt

LEMMA MembersRead ==
    MemberAt = [e \in Elements |-> [k \in SetKeys |-> IsInAt(statuses[e], k)]]
BY SetReads DEF MemberAt

LEMMA SetStepRefines ==
    ASSUME SetInv, NEW e \in Elements, NEW key \in SetKeys,
           NEW isIn \in BOOLEAN, NEW t, SetStep(e, key, isIn, t)
    PROVE  Set!History!Next
<1> DEFINE s == statuses[e]
<1>1. /\ StatusOK(s) /\ StatusOK(t) /\ ChangedAt(s) <= key /\ ChangedAt(t) = key
      /\ \A k \in SetKeys : /\ k >= key => (IsInAt(t, k) <=> isIn)
                            /\ k < key => (IsInAt(t, k) <=> IsInAt(s, k))
      /\ IsIn(s) <=> ~isIn
      /\ length' = IF isIn THEN length + 1 ELSE length - 1
  BY DEF SetStep, Moved, SetInv
<1>2. /\ statuses'[e] = t
      /\ \A x \in Elements : x # e => statuses'[x] = statuses[x]
  BY DEF SetStep, SetInv
<1>3. \A k \in SetKeys : k >= ChangedAt(s) => (IsInAt(s, k) <=> ~isIn)
  BY <1>1, ReadFromChange
<1>4. LastChanges[e] = ChangedAt(s)
      /\ \A k \in SetKeys : MemberAt[e][k] = IsInAt(s, k)
  BY ChangesRead, MembersRead
<1>5. LastChanges' = [LastChanges EXCEPT ![e] = key]
  <2>1. LastChanges' = [x \in Elements |-> ChangedAt(statuses'[x])]
    BY SetReadsTraces DEF LastChanges, ChangedAt
  <2> QED BY <1>1, <1>2, <2>1, ChangesRead
<1>6. ASSUME NEW k \in SetKeys
      PROVE  IsInAt(t, k) = IF k >= key THEN isIn ELSE MemberAt[e][k]
  <2>1. k < key <=> ~(k >= key)
    BY KeysAreNumbers
  <2>2. IsInAt(t, k) \in BOOLEAN /\ IsInAt(s, k) \in BOOLEAN
    BY DEF IsInAt
  <2>3. CASE k >= key
    BY <1>1, <2>2, <2>3
  <2>4. CASE ~(k >= key)
    BY <1>1, <1>4, <2>1, <2>2, <2>4
  <2> QED BY <2>3, <2>4
<1>7. MemberAt' = [MemberAt EXCEPT ![e] =
                     [k \in SetKeys |-> IF k >= key THEN isIn ELSE MemberAt[e][k]]]
  <2>1. MemberAt' = [x \in Elements |-> [k \in SetKeys |-> IsInAt(statuses'[x], k)]]
    BY SetReadsTraces DEF MemberAt, Set!containsAt, IsInAt
  <2>2. [k \in SetKeys |-> IsInAt(t, k)]
          = [k \in SetKeys |-> IF k >= key THEN isIn ELSE MemberAt[e][k]]
    BY <1>6
  <2> QED BY <1>2, <2>1, <2>2, MembersRead
<1>8. Set!History!Set(e, key, isIn)
  BY <1>1, <1>4, <1>5, <1>7 DEF Set!History!Set, MemberAt, LastChanges
<1>9. CASE isIn
  <2>1. Set!History!Add(e, key)
    BY <1>1, <1>3, <1>4, <1>8, <1>9 DEF Set!History!Add, MemberAt, LastChanges
  <2> QED BY <2>1 DEF Set!History!Next
<1>10. CASE ~isIn
  <2>1. Set!History!Remove(e, key)
    BY <1>1, <1>3, <1>4, <1>8, <1>10 DEF Set!History!Remove, MemberAt, LastChanges
  <2> QED BY <2>1 DEF Set!History!Next
<1> QED BY <1>9, <1>10

-----------------------------------------------------------------------------
(* The trees of validator sets.  The climb along a proof: the nodes it     *)
(* meets, with the index of each in its layer.                             *)
ClimbStep(p, x, c, i) ==
    IF i = 0 THEN [node |-> p.leaf, index |-> x]
    ELSE [node |-> IF c[i - 1].index % 2 = 0 THEN Hash(c[i - 1].node, p.proof[i])
                   ELSE Hash(p.proof[i], c[i - 1].node),
          index |-> c[i - 1].index \div 2]

IsClimb(p, x, h, c) == c = [i \in 0..h |-> ClimbStep(p, x, c, i)]

LEMMA ClimbExists ==
    ASSUME NEW p, NEW x, NEW h \in Nat
    PROVE  \E c : IsClimb(p, x, h, c)
<1> DEFINE Step(f, i) == ClimbStep(p, x, f, i)
           Below(f, m) == \A i \in 0..h : i < m => f[i] = Step(f, i)
           Turned(f) == [i \in 0..h |-> Step(f, i)]
           S == {m \in Nat : ~\E f : Below(f, m)}
<1>1. ASSUME NEW f, NEW i \in 0..h PROVE Turned(f)[i] = Step(f, i)
  OBVIOUS
<1>2. ASSUME NEW f, NEW m \in Nat, Below(f, m) PROVE Below(Turned(f), m + 1)
  <2> SUFFICES ASSUME NEW i \in 0..h, i < m + 1
               PROVE  Turned(f)[i] = Step(Turned(f), i)
    OBVIOUS
  <2>1. i # 0 => Turned(f)[i - 1] = f[i - 1]
    <3> SUFFICES ASSUME i # 0 PROVE Turned(f)[i - 1] = f[i - 1]
      OBVIOUS
    <3>1. i - 1 \in 0..h /\ i - 1 < m
      OBVIOUS
    <3> HIDE DEF Turned, Step
    <3> QED BY <1>1, <1>2, <3>1
  <2> HIDE DEF Turned
  <2> QED BY <1>1, <2>1 DEF ClimbStep
<1>3. S = {}
  <2> SUFFICES ASSUME S # {} PROVE FALSE
    OBVIOUS
  <2>1. PICK m \in S : \A k \in S : m <= k
    <3>1. S \subseteq Nat
      OBVIOUS
    <3> HIDE DEF S
    <3> QED BY <3>1, LeastNumber
  <2>2. m \in Nat /\ ~\E f : Below(f, m)
    BY <2>1
  <2>3. CASE m = 0
    BY <2>2, <2>3
  <2>4. CASE m # 0
    <3>1. m - 1 \in Nat /\ ~(m <= m - 1) /\ (m - 1) + 1 = m
      BY <2>2, <2>4
    <3>2. PICK f : Below(f, m - 1)
      BY <2>1, <3>1
    <3> HIDE DEF Below, Turned
    <3>3. Below(Turned(f), m)
      BY <1>2, <3>1, <3>2
    <3> QED BY <2>2, <3>3
  <2> QED BY <2>3, <2>4
<1>4. PICK f : Below(f, h + 1)
  <2>1. h + 1 \in Nat
    OBVIOUS
  <2> QED BY <1>3, <2>1
<1>5. PICK g : g = Turned(f)
  OBVIOUS
<1>6. ASSUME NEW i \in 0..h PROVE f[i] = g[i]
  <2>1. i < h + 1
    OBVIOUS
  <2> HIDE DEF Turned, Step
  <2> QED BY <1>1, <1>4, <1>5, <2>1
<1>7. ASSUME NEW i \in 0..h PROVE Step(f, i) = Step(g, i)
  <2>1. i # 0 => i - 1 \in 0..h
    OBVIOUS
  <2> QED BY <1>6, <2>1 DEF ClimbStep
<1>8. g = [i \in 0..h |-> Step(g, i)]
  <2> HIDE DEF Step
  <2> QED BY <1>5, <1>7
<1> QED BY <1>8 DEF IsClimb

(* What a climb is, place by place.                                        *)
Climbs(p, x, h, c) ==
    /\ c[0] = [node |-> p.leaf, index |-> x]
    /\ \A i \in 1..h :
          /\ c[i].index = c[i - 1].index \div 2
          /\ c[i].node = IF c[i - 1].index % 2 = 0
                         THEN Hash(c[i - 1].node, p.proof[i])
                         ELSE Hash(p.proof[i], c[i - 1].node)
          /\ c[i] = [node |-> c[i].node, index |-> c[i].index]

LEMMA ClimbIs ==
    ASSUME NEW p, NEW x, NEW h \in Nat, NEW c, IsClimb(p, x, h, c)
    PROVE  Climbs(p, x, h, c)
<1>1. \A i \in 0..h : c[i] = ClimbStep(p, x, c, i)
  <2> DEFINE d == [i \in 0..h |-> ClimbStep(p, x, c, i)]
  <2>1. \A i \in 0..h : d[i] = ClimbStep(p, x, c, i)
    OBVIOUS
  <2>2. c = d
    BY DEF IsClimb
  <2> HIDE DEF d
  <2> QED BY <2>1, <2>2
<1>2. 0 \in 0..h /\ \A i \in 1..h : i \in 0..h /\ i # 0
  OBVIOUS
<1>3. ASSUME NEW i \in 1..h
      PROVE  /\ c[i].index = c[i - 1].index \div 2
             /\ c[i].node = IF c[i - 1].index % 2 = 0
                            THEN Hash(c[i - 1].node, p.proof[i])
                            ELSE Hash(p.proof[i], c[i - 1].node)
             /\ c[i] = [node |-> c[i].node, index |-> c[i].index]
  <2> DEFINE node == IF c[i - 1].index % 2 = 0
                     THEN Hash(c[i - 1].node, p.proof[i])
                     ELSE Hash(p.proof[i], c[i - 1].node)
             index == c[i - 1].index \div 2
  <2>1. c[i] = [node |-> node, index |-> index]
    BY <1>1, <1>2 DEF ClimbStep
  <2> HIDE DEF node, index
  <2>2. c[i].node = node /\ c[i].index = index
    BY <2>1
  <2>3. c[i] = [node |-> c[i].node, index |-> c[i].index]
    BY <2>1, <2>2
  <2> QED BY <2>2, <2>3 DEF node, index
<1>4. c[0] = [node |-> p.leaf, index |-> x]
  BY <1>1, <1>2 DEF ClimbStep
<1> QED BY <1>3, <1>4 DEF Climbs

LEMMA ClimbIsOne ==
    ASSUME NEW p, NEW x, NEW h \in Nat, NEW c, Climbs(p, x, h, c),
           NEW d, Climbs(p, x, h, d)
    PROVE  c[h] = d[h]
<1> DEFINE S == {i \in 0..h : c[i] = d[i]}
<1>1. 0 \in S
  BY DEF Climbs
<1>2. ASSUME NEW i \in 1..h, i - 1 \in S PROVE i \in S
  <2>1. c[i - 1] = d[i - 1] /\ i \in 0..h
    BY <1>2
  <2>2. c[i].index = d[i].index /\ c[i].node = d[i].node
    BY <2>1 DEF Climbs
  <2>3. /\ c[i] = [node |-> c[i].node, index |-> c[i].index]
        /\ d[i] = [node |-> d[i].node, index |-> d[i].index]
    BY DEF Climbs
  <2>4. c[i] = d[i]
    BY <2>2, <2>3
  <2> QED BY <2>1, <2>4
<1>3. 0..h \subseteq S
  <2> HIDE DEF S
  <2> QED BY <1>1, <1>2, Throughout
<1>4. h \in 0..h
  OBVIOUS
<1> QED BY <1>3, <1>4

LEMMA VerifiedByClimb ==
    ASSUME NEW p, NEW r, NEW x, NEW h \in Nat
    PROVE  processInclusionProofSha256(p, r, x, h)
              <=> /\ Len(p.proof) = h
                  /\ \E c : Climbs(p, x, h, c) /\ c[h].node = r
<1> DEFINE b == CHOOSE c : IsClimb(p, x, h, c)
<1>1. IsClimb(p, x, h, b)
  BY ClimbExists
<1>2. processInclusionProofSha256(p, r, x, h) <=> Len(p.proof) = h /\ b[h].node = r
  BY DEF processInclusionProofSha256, IsClimb, ClimbStep
<1> HIDE DEF b
<1>3. Climbs(p, x, h, b)
  BY <1>1, ClimbIs
<1> QED BY <1>2, <1>3, ClimbIsOne

(* Two siblings, the first at the left or at the right.                    *)
Joined(b, node, sibling) ==
    IF b = 0 THEN Hash(node, sibling) ELSE Hash(sibling, node)

(* If a proof is accepted, so is that of the node above its leaf ...       *)
LEMMA StepDown ==
    ASSUME NEW p, NEW r, NEW h \in Nat \ {0}, NEW y \in Nat,
           processInclusionProofSha256(p, r, y, h)
    PROVE  \E q : /\ processInclusionProofSha256(q, r, y \div 2, h - 1)
                  /\ q.leaf = Joined(y % 2, p.leaf, p.proof[1])
<1>0. PICK a \in Nat, x \in Nat, b \in {0, 1} :
              h = a + 1 /\ a = h - 1 /\ y = 2 * x + b /\ x = y \div 2 /\ b = y % 2
  <2>1. /\ h - 1 \in Nat /\ y \div 2 \in Nat /\ y % 2 \in {0, 1}
        /\ h = (h - 1) + 1 /\ y = 2 * (y \div 2) + (y % 2)
    OBVIOUS
  <2> QED BY <2>1
<1>1. PICK c : /\ Climbs(p, 2 * x + b, a + 1, c) /\ c[a + 1].node = r
  BY <1>0, VerifiedByClimb
<1> DEFINE leaf == IF b = 0 THEN Hash(p.leaf, p.proof[1]) ELSE Hash(p.proof[1], p.leaf)
           proof == [i \in 1..a |-> p.proof[i + 1]]
           q == [leaf |-> leaf, proof |-> proof]
           d == [i \in 0..a |-> c[i + 1]]
<1>2. q.leaf = leaf /\ q.proof = proof
  OBVIOUS
<1>3. Len(proof) = a /\ \A i \in 1..a : proof[i] = p.proof[i + 1]
  OBVIOUS
<1>4. \A i \in 0..a : d[i] = c[i + 1]
  OBVIOUS
<1> HIDE DEF d, proof
<1>5. (2 * x + b) % 2 = b /\ (2 * x + b) \div 2 = x /\ 1 \in 1..(a + 1)
  OBVIOUS
<1>6. c[1] = [node |-> leaf, index |-> x]
  <2>1. c[0].index = 2 * x + b /\ c[0].node = p.leaf
    BY <1>1 DEF Climbs
  <2>2. c[1].index = x /\ c[1].node = leaf
    <3>1. 1 - 1 = 0
      OBVIOUS
    <3>2. /\ c[1].index = c[0].index \div 2
          /\ c[1].node = IF c[0].index % 2 = 0 THEN Hash(c[0].node, p.proof[1])
                         ELSE Hash(p.proof[1], c[0].node)
      BY <1>1, <1>5, <3>1 DEF Climbs
    <3> QED BY <1>5, <2>1, <3>2
  <2>3. c[1] = [node |-> c[1].node, index |-> c[1].index]
    BY <1>1, <1>5 DEF Climbs
  <2> QED BY <2>2, <2>3
<1> HIDE DEF leaf
<1>7. Climbs(q, x, a, d)
  <2>1. d[0] = [node |-> q.leaf, index |-> x]
    BY <1>2, <1>4, <1>6
  <2>2. ASSUME NEW i \in 1..a
        PROVE  /\ d[i].index = d[i - 1].index \div 2
               /\ d[i].node = IF d[i - 1].index % 2 = 0
                              THEN Hash(d[i - 1].node, q.proof[i])
                              ELSE Hash(q.proof[i], d[i - 1].node)
               /\ d[i] = [node |-> d[i].node, index |-> d[i].index]
    <3>1. i + 1 \in 1..(a + 1) /\ (i + 1) - 1 = (i - 1) + 1 /\ i \in 0..a /\ i - 1 \in 0..a
      OBVIOUS
    <3>2. d[i] = c[i + 1] /\ d[i - 1] = c[(i + 1) - 1] /\ q.proof[i] = p.proof[i + 1]
      BY <1>2, <1>3, <1>4, <3>1
    <3> QED BY <1>1, <3>1, <3>2 DEF Climbs
  <2> QED BY <2>1, <2>2 DEF Climbs
<1>8. d[a].node = r
  BY <1>1, <1>4
<1>9. processInclusionProofSha256(q, r, x, a)
  BY <1>2, <1>3, <1>7, <1>8, VerifiedByClimb
<1>10. leaf = Joined(b, p.leaf, p.proof[1])
  BY DEF leaf, Joined
<1> QED BY <1>0, <1>2, <1>9, <1>10

IsList(list) == \E T : list \in Seq(T)

(* ... and those of the two nodes below it.                                *)
LEMMA StepUp ==
    ASSUME NEW p, NEW r, NEW a \in Nat, NEW x \in Nat, NEW b \in {0, 1},
           NEW leaf, NEW sibling, IsList(p.proof),
           processInclusionProofSha256(p, r, x, a),
           p.leaf = Joined(b, leaf, sibling),
           NEW q, q = Opening(leaf, <<sibling>> \o p.proof)
    PROVE  /\ IsList(q.proof) /\ q.leaf = leaf
           /\ processInclusionProofSha256(q, r, 2 * x + b, a + 1)
<1>1. PICK c : /\ Climbs(p, x, a, c) /\ c[a].node = r
  BY VerifiedByClimb
<1>2. Len(p.proof) = a
  BY VerifiedByClimb
<1>3. PICK T : p.proof \in Seq(T)
  BY DEF IsList
<1>4. q.leaf = leaf /\ q.proof = <<sibling>> \o p.proof
  BY DEF Opening
<1> DEFINE U == T \cup {sibling}
<1>5. /\ <<sibling>> \in Seq(U) /\ p.proof \in Seq(U)
      /\ Len(<<sibling>>) = 1 /\ <<sibling>>[1] = sibling
  <2>1. sibling \in U /\ T \subseteq U
    OBVIOUS
  <2>2. <<sibling>> \in Seq(U)
    BY <2>1
  <2>3. p.proof \in Seq(U)
    BY <1>3, <2>1
  <2> QED BY <2>2, <2>3
<1> HIDE DEF U
<1>6. PICK one : one = <<sibling>>
  OBVIOUS
<1>7. /\ one \o p.proof \in Seq(U) /\ Len(one \o p.proof) = 1 + a
      /\ \A i \in 1..(1 + a) : (one \o p.proof)[i] =
                 IF i <= 1 THEN one[i] ELSE p.proof[i - 1]
  BY <1>2, <1>5, <1>6, ConcatProperties
<1>8. /\ q.proof \in Seq(U) /\ Len(q.proof) = a + 1
      /\ q.proof[1] = sibling /\ \A i \in 1..a : q.proof[i + 1] = p.proof[i]
  <2>1. q.proof = one \o p.proof
    BY <1>4, <1>6
  <2>2. 1 \in 1..(1 + a) /\ one[1] = sibling
    BY <1>5, <1>6
  <2>3. \A i \in 1..a : i + 1 \in 1..(1 + a) /\ ~(i + 1 <= 1) /\ (i + 1) - 1 = i
    OBVIOUS
  <2>4. 1 + a = a + 1 /\ 1 <= 1
    OBVIOUS
  <2>5. /\ q.proof \in Seq(U) /\ Len(q.proof) = a + 1
        /\ \A i \in 1..(1 + a) : q.proof[i] = IF i <= 1 THEN one[i] ELSE p.proof[i - 1]
    BY <1>7, <2>1, <2>4
  <2>6. q.proof[1] = sibling
    BY <2>2, <2>4, <2>5
  <2>7. ASSUME NEW i \in 1..a PROVE q.proof[i + 1] = p.proof[i]
    BY <2>3, <2>5
  <2> QED BY <2>5, <2>6, <2>7
<1> DEFINE start == [node |-> leaf, index |-> 2 * x + b]
           d == [i \in 0..(a + 1) |-> IF i = 0 THEN start ELSE c[i - 1]]
<1>9. d[0] = start /\ \A i \in 0..a : d[i + 1] = c[i]
  <2>1. \A i \in 0..a : i + 1 \in 0..(a + 1) /\ i + 1 # 0 /\ (i + 1) - 1 = i
    OBVIOUS
  <2> QED BY <2>1
<1> HIDE DEF d
<1>10. (2 * x + b) % 2 = b /\ (2 * x + b) \div 2 = x
  OBVIOUS
<1>11. Climbs(q, 2 * x + b, a + 1, d)
  <2>1. ASSUME NEW i \in 1..(a + 1)
        PROVE  /\ d[i].index = d[i - 1].index \div 2
               /\ d[i].node = IF d[i - 1].index % 2 = 0
                              THEN Hash(d[i - 1].node, q.proof[i])
                              ELSE Hash(q.proof[i], d[i - 1].node)
               /\ d[i] = [node |-> d[i].node, index |-> d[i].index]
    <3>1. CASE i = 1
      <4>1. d[i] = [node |-> p.leaf, index |-> x]
        <5>1. 0 \in 0..a /\ 0 + 1 = 1
          OBVIOUS
        <5> QED BY <1>1, <1>9, <3>1, <5>1 DEF Climbs
      <4>2. d[i - 1] = start /\ q.proof[i] = sibling
        BY <1>8, <1>9, <3>1
      <4>3. d[i - 1].index = 2 * x + b /\ d[i - 1].node = leaf
        BY <4>2
      <4>4. p.leaf = IF b = 0 THEN Hash(leaf, sibling) ELSE Hash(sibling, leaf)
        BY DEF Joined
      <4> QED BY <1>10, <4>1, <4>2, <4>3, <4>4
    <3>2. CASE i # 1
      <4>1. PICK j \in 1..a : j + 1 = i
        <5>1. i - 1 \in 1..a /\ (i - 1) + 1 = i
          BY <3>2
        <5> QED BY <5>1
      <4>2. j \in 0..a /\ j - 1 \in 0..a /\ (j - 1) + 1 = i - 1
        BY <4>1
      <4>3. d[i] = c[j] /\ d[i - 1] = c[j - 1] /\ q.proof[i] = p.proof[j]
        BY <1>8, <1>9, <4>1, <4>2
      <4> QED BY <1>1, <4>1, <4>3 DEF Climbs
    <3> QED BY <3>1, <3>2
  <2> QED BY <1>4, <1>9, <2>1 DEF Climbs
<1>12. d[a + 1].node = r
  BY <1>1, <1>9
<1>13. processInclusionProofSha256(q, r, 2 * x + b, a + 1)
  <2>1. a + 1 \in Nat
    OBVIOUS
  <2> QED BY <1>8, <1>11, <1>12, <2>1, VerifiedByClimb
<1> QED BY <1>4, <1>8, <1>13 DEF IsList

-----------------------------------------------------------------------------
(* Shifting left is doubling.                                              *)
LEMMA ShlIs ==
    ASSUME NEW n \in Nat, NEW d \in Nat
    PROVE  \E f \in [0..d -> Nat] : /\ Shl(n, d) = f[d] /\ f[0] = n
                                    /\ \A i \in 1..d : f[i] = 2 * f[i - 1]
<1> DEFINE turn == [i \in 1..d |-> [y \in Nat |-> 2 * y]]
           Loop(f) == f = [i \in 0..d |-> IF i = 0 THEN n ELSE 2 * f[i - 1]]
           g == CHOOSE f : Loop(f)
<1>1. turn \in [1..d -> [Nat -> Nat]] /\ \A i \in 1..d, y \in Nat : turn[i][y] = 2 * y
  OBVIOUS
<1> HIDE DEF turn
<1>2. PICK f : Runs(d, Nat, n, turn, f)
  BY <1>1, LoopRuns
<1>3. f \in [0..d -> Nat] /\ f[0] = n
  BY <1>2 DEF Runs
<1>4. ASSUME NEW i \in 1..d PROVE i - 1 \in 0..d /\ i \in 0..d /\ f[i] = 2 * f[i - 1]
  <2>1. i - 1 \in 0..d /\ i \in 0..d
    OBVIOUS
  <2>2. f[i - 1] \in Nat
    BY <1>3, <2>1
  <2> QED BY <1>1, <1>2, <2>1, <2>2 DEF Runs
<1>5. Loop(f)
  <2>1. ASSUME NEW i \in 0..d PROVE f[i] = IF i = 0 THEN n ELSE 2 * f[i - 1]
    <3>1. i # 0 => i \in 1..d
      OBVIOUS
    <3> QED BY <1>3, <1>4, <3>1
  <2> QED BY <1>3, <2>1
<1>6. Loop(g)
  <2> HIDE DEF Loop
  <2> QED BY <1>5
<1>7. Shl(n, d) = g[d]
  BY DEF Shl
<1> HIDE DEF g
<1>8. DOMAIN g = 0..d /\ g[0] = n /\ \A i \in 1..d : g[i] = 2 * g[i - 1]
  <2>1. 0 \in 0..d /\ \A i \in 1..d : i \in 0..d /\ i # 0
    OBVIOUS
  <2> QED BY <1>6, <2>1
<1> DEFINE S == {i \in 0..d : g[i] = f[i]}
<1>9. 0..d \subseteq S
  <2>1. 0 \in S
    BY <1>3, <1>8
  <2>2. \A i \in 1..d : i - 1 \in S => i \in S
    BY <1>4, <1>8
  <2> HIDE DEF S
  <2> QED BY <2>1, <2>2, Throughout
<1>10. Shl(n, d) = f[d]
  <2>1. d \in 0..d
    OBVIOUS
  <2> QED BY <1>7, <1>9, <2>1
<1> QED BY <1>3, <1>4, <1>10

LEMMA ShlNext ==
    ASSUME NEW n \in Nat, NEW d \in Nat
    PROVE  /\ Shl(n, 0) = n /\ Shl(n, d) \in Nat
           /\ Shl(n, d + 1) = 2 * Shl(n, d)
<1>0. d + 1 \in Nat /\ 0 \in Nat
  OBVIOUS
<1>1. PICK f \in [0..d -> Nat] : /\ Shl(n, d) = f[d] /\ f[0] = n
                                 /\ \A i \in 1..d : f[i] = 2 * f[i - 1]
  BY ShlIs
<1>2. PICK g \in [0..(d + 1) -> Nat] : /\ Shl(n, d + 1) = g[d + 1] /\ g[0] = n
                                       /\ \A i \in 1..(d + 1) : g[i] = 2 * g[i - 1]
  BY <1>0, ShlIs
<1> DEFINE S == {i \in 0..d : g[i] = f[i]}
<1>3. 0..d \subseteq S
  <2>1. 0 \in S
    BY <1>1, <1>2
  <2>2. ASSUME NEW i \in 1..d, i - 1 \in S PROVE i \in S
    <3>1. i \in 1..(d + 1) /\ i \in 0..d
      OBVIOUS
    <3>2. g[i] = f[i]
      BY <1>1, <1>2, <2>2, <3>1
    <3> QED BY <3>1, <3>2
  <2> HIDE DEF S
  <2> QED BY <2>1, <2>2, Throughout
<1>4. g[d] = f[d] /\ f[d] \in Nat
  <2>1. d \in 0..d
    OBVIOUS
  <2> QED BY <1>1, <1>3, <2>1
<1>5. Shl(n, d + 1) = 2 * g[d]
  <2>1. d + 1 \in 1..(d + 1) /\ (d + 1) - 1 = d
    OBVIOUS
  <2> QED BY <1>2, <2>1
<1>6. Shl(n, 0) = n
  <2>1. PICK e \in [0..0 -> Nat] : Shl(n, 0) = e[0] /\ e[0] = n
    BY <1>0, ShlIs
  <2> QED BY <2>1
<1> QED BY <1>1, <1>4, <1>5, <1>6

LEMMA ShlTwice ==
    ASSUME NEW n \in Nat, NEW d \in Nat
    PROVE  Shl(2 * n, d) = Shl(n, 1 + d)
<1> DEFINE S == {i \in 0..d : Shl(2 * n, i) = Shl(n, i + 1)}
<1>0. 2 * n \in Nat /\ 0 \in Nat
  OBVIOUS
<1>1. 0 \in S
  <2>1. 0 \in 0..d
    OBVIOUS
  <2>2. Shl(2 * n, 0) = 2 * n /\ Shl(n, 0 + 1) = 2 * Shl(n, 0) /\ Shl(n, 0) = n
    BY <1>0, ShlNext
  <2> QED BY <2>1, <2>2
<1>2. ASSUME NEW i \in 1..d, i - 1 \in S PROVE i \in S
  <2>1. PICK j \in Nat : j = i - 1
    OBVIOUS
  <2>2. i \in 0..d /\ i = j + 1 /\ i \in Nat
    BY <2>1
  <2>3. Shl(2 * n, j) = Shl(n, j + 1)
    BY <1>2, <2>1
  <2>4. Shl(2 * n, j + 1) = 2 * Shl(2 * n, j) /\ Shl(n, i + 1) = 2 * Shl(n, i)
    BY <1>0, <2>2, ShlNext
  <2>5. Shl(2 * n, i) = Shl(n, i + 1)
    BY <2>2, <2>3, <2>4
  <2> QED BY <2>2, <2>5
<1>3. 0..d \subseteq S
  <2> HIDE DEF S
  <2> QED BY <1>1, <1>2, Throughout
<1>4. d \in 0..d /\ d + 1 = 1 + d
  OBVIOUS
<1> QED BY <1>3, <1>4

LEMMA ShlOfZero == ASSUME NEW d \in Nat PROVE Shl(0, d) = 0
<1> DEFINE S == {i \in 0..d : Shl(0, i) = 0}
<1>1. 0 \in S
  BY ShlNext
<1>2. ASSUME NEW i \in 1..d, i - 1 \in S PROVE i \in S
  <2>1. PICK j \in Nat : j = i - 1
    OBVIOUS
  <2>2. i \in 0..d /\ i = j + 1 /\ 0 \in Nat
    BY <2>1
  <2>3. Shl(0, j) = 0
    BY <1>2, <2>1
  <2>4. Shl(0, j + 1) = 2 * Shl(0, j)
    BY <2>2, ShlNext
  <2>5. Shl(0, i) = 0
    BY <2>2, <2>3, <2>4
  <2> QED BY <2>2, <2>5
<1>3. 0..d \subseteq S
  <2> HIDE DEF S
  <2> QED BY <1>1, <1>2, Throughout
<1>4. d \in 0..d
  OBVIOUS
<1> QED BY <1>3, <1>4

LEMMA ShlOfOne == Shl(1, 0) = 1 /\ Shl(1, 1) = 2 /\ Shl(1, 2) = 4 /\ Shl(1, 3) = 8
<1>1. Shl(1, 0) = 1 /\ Shl(1, 0 + 1) = 2 * Shl(1, 0)
  BY ShlNext
<1>2. Shl(1, 1 + 1) = 2 * Shl(1, 1) /\ Shl(1, 2 + 1) = 2 * Shl(1, 2)
  BY ShlNext
<1>3. 0 + 1 = 1 /\ 1 + 1 = 2 /\ 2 + 1 = 3
  OBVIOUS
<1> QED BY <1>1, <1>2, <1>3

-----------------------------------------------------------------------------
(* The layers of a tree.                                                   *)
Chunk(chunks, k) == IF k < Len(chunks) THEN chunks[k + 1] ELSE Word(0)

Layer(chunks, f, d) ==
    [i \in Nat |-> IF d > 0 THEN Hash(f[d - 1][2 * i], f[d - 1][2 * i + 1])
                   ELSE IF i < Len(chunks) THEN chunks[i + 1] ELSE Word(0)]

IsLayers(chunks, h, f) == f = [d \in 0..h |-> Layer(chunks, f, d)]

LEMMA LayersExist ==
    ASSUME NEW chunks, NEW h \in Nat
    PROVE  \E f : IsLayers(chunks, h, f)
<1> DEFINE Step(f, i) == Layer(chunks, f, i)
           Below(f, m) == \A i \in 0..h : i < m => f[i] = Step(f, i)
           Turned(f) == [i \in 0..h |-> Step(f, i)]
           S == {m \in Nat : ~\E f : Below(f, m)}
<1>0. ASSUME NEW f, NEW g, NEW i \in 0..h, i # 0 => f[i - 1] = g[i - 1]
      PROVE  Step(f, i) = Step(g, i)
  <2>1. i > 0 => f[i - 1] = g[i - 1]
    BY <1>0
  <2> QED BY <2>1 DEF Layer
<1>1. ASSUME NEW f, NEW i \in 0..h PROVE Turned(f)[i] = Step(f, i)
  <2> HIDE DEF Step
  <2> QED OBVIOUS
<1>2. ASSUME NEW f, NEW m \in Nat, Below(f, m) PROVE Below(Turned(f), m + 1)
  <2> SUFFICES ASSUME NEW i \in 0..h, i < m + 1
               PROVE  Turned(f)[i] = Step(Turned(f), i)
    OBVIOUS
  <2>1. i # 0 => f[i - 1] = Turned(f)[i - 1]
    <3> SUFFICES ASSUME i # 0 PROVE Turned(f)[i - 1] = f[i - 1]
      OBVIOUS
    <3>1. i - 1 \in 0..h /\ i - 1 < m
      OBVIOUS
    <3> HIDE DEF Turned, Step
    <3> QED BY <1>1, <1>2, <3>1
  <2> HIDE DEF Turned, Step
  <2>2. Turned(f)[i] = Step(f, i)
    BY <1>1
  <2> QED BY <1>0, <2>1, <2>2
<1> HIDE DEF Step
<1>3. S = {}
  <2> SUFFICES ASSUME S # {} PROVE FALSE
    OBVIOUS
  <2>1. PICK m \in S : \A k \in S : m <= k
    <3>1. S \subseteq Nat
      OBVIOUS
    <3> HIDE DEF S
    <3> QED BY <3>1, LeastNumber
  <2>2. m \in Nat /\ ~\E f : Below(f, m)
    BY <2>1
  <2>3. CASE m = 0
    BY <2>2, <2>3
  <2>4. CASE m # 0
    <3>1. m - 1 \in Nat /\ ~(m <= m - 1) /\ (m - 1) + 1 = m
      BY <2>2, <2>4
    <3>2. PICK f : Below(f, m - 1)
      BY <2>1, <3>1
    <3> HIDE DEF Below, Turned
    <3>3. Below(Turned(f), m)
      BY <1>2, <3>1, <3>2
    <3> QED BY <2>2, <3>3
  <2> QED BY <2>3, <2>4
<1>4. PICK f : Below(f, h + 1)
  <2>1. h + 1 \in Nat
    OBVIOUS
  <2> QED BY <1>3, <2>1
<1>5. PICK g : g = Turned(f)
  OBVIOUS
<1>6. ASSUME NEW i \in 0..h PROVE f[i] = g[i]
  <2>1. i < h + 1
    OBVIOUS
  <2> HIDE DEF Turned
  <2> QED BY <1>1, <1>4, <1>5, <2>1
<1>7. ASSUME NEW i \in 0..h PROVE Step(f, i) = Step(g, i)
  <2>1. i # 0 => i - 1 \in 0..h
    OBVIOUS
  <2>2. i # 0 => f[i - 1] = g[i - 1]
    BY <1>6, <2>1
  <2> QED BY <1>0, <2>2
<1>8. g = [i \in 0..h |-> Step(g, i)]
  BY <1>5, <1>7
<1> QED BY <1>8 DEF IsLayers, Step

(* What they are, place by place.                                          *)
LayersOf(chunks, h, f) ==
    /\ \A i \in Nat : f[0][i] = Chunk(chunks, i)
    /\ \A d \in 1..h, i \in Nat :
          f[d][i] = Hash(f[d - 1][2 * i], f[d - 1][2 * i + 1])

LEMMA MerkleIs ==
    ASSUME NEW chunks, NEW h \in Nat
    PROVE  \E f : Merkle(chunks, h) = f[h][0] /\ LayersOf(chunks, h, f)
<1> DEFINE f == CHOOSE g : IsLayers(chunks, h, g)
<1>1. IsLayers(chunks, h, f)
  BY LayersExist
<1>2. Merkle(chunks, h) = f[h][0]
  BY DEF Merkle, IsLayers, Layer
<1> HIDE DEF f
<1>3. ASSUME NEW d \in 0..h PROVE f[d] = Layer(chunks, f, d)
  <2> DEFINE g == [i \in 0..h |-> Layer(chunks, f, i)]
  <2>1. g[d] = Layer(chunks, f, d)
    OBVIOUS
  <2>2. f = g
    BY <1>1 DEF IsLayers
  <2> HIDE DEF g
  <2> QED BY <2>1, <2>2
<1>4. ASSUME NEW d \in 0..h, NEW i \in Nat
      PROVE  f[d][i] = IF d > 0 THEN Hash(f[d - 1][2 * i], f[d - 1][2 * i + 1])
                       ELSE Chunk(chunks, i)
  BY <1>3 DEF Layer, Chunk
<1>5. 0 \in 0..h /\ \A d \in 1..h : d \in 0..h /\ d > 0
  OBVIOUS
<1>6. \A i \in Nat : f[0][i] = Chunk(chunks, i)
  BY <1>4, <1>5
<1>7. ASSUME NEW d \in 1..h, NEW i \in Nat
      PROVE  f[d][i] = Hash(f[d - 1][2 * i], f[d - 1][2 * i + 1])
  <2> HIDE DEF Hash
  <2> QED BY <1>4, <1>5
<1>8. LayersOf(chunks, h, f)
  BY <1>6, <1>7 DEF LayersOf
<1> QED BY <1>2, <1>8

-----------------------------------------------------------------------------
(* At index x, a levels below the node r, stands the node n: some proof of *)
(* it can be sent, and a proof that is accepted there is of no other node. *)
Exact(r, a, x, n) ==
    /\ \E p \in SszProofs : /\ IsList(p.proof) /\ p.leaf = n
                            /\ processInclusionProofSha256(p, r, x, a)
    /\ \A p : processInclusionProofSha256(p, r, x, a) => p.leaf = n

LEMMA HashParts ==
    ASSUME NEW l, NEW m
    PROVE  /\ Hash(l, m)[1] = l /\ Hash(l, m)[2] = m /\ Len(Hash(l, m)) = 2
           /\ \A n : Hash(l, m) # Word(n)
<1>1. Hash(l, m)[1] = l /\ Hash(l, m)[2] = m /\ Len(Hash(l, m)) = 2
  BY DEF Hash
<1>2. ASSUME NEW n PROVE Hash(l, m) # Word(n)
  <2>1. Len(Word(n)) = 1
    BY DEF Word
  <2> QED BY <1>1, <2>1
<1> QED BY <1>1, <1>2

LEMMA HashSplits ==
    ASSUME NEW k, NEW n, NEW l, NEW m, Hash(k, n) = Hash(l, m)
    PROVE  k = l /\ n = m
<1>1. Hash(k, n)[1] = Hash(l, m)[1] /\ Hash(k, n)[2] = Hash(l, m)[2]
  OBVIOUS
<1> QED BY <1>1, HashParts

(* From a node to its two children.                                        *)
LEMMA Descend ==
    ASSUME NEW r, NEW a \in Nat, NEW x \in Nat, NEW b \in {0, 1},
           NEW l, NEW m, Exact(r, a, x, Hash(l, m))
    PROVE  Exact(r, a + 1, 2 * x + b, IF b = 0 THEN l ELSE m)
<1> DEFINE n == IF b = 0 THEN l ELSE m
           s == IF b = 0 THEN m ELSE l
<1>1. \E q \in SszProofs : /\ IsList(q.proof) /\ q.leaf = n
                           /\ processInclusionProofSha256(q, r, 2 * x + b, a + 1)
  <2>1. PICK p \in SszProofs : /\ IsList(p.proof) /\ p.leaf = Hash(l, m)
                               /\ processInclusionProofSha256(p, r, x, a)
    BY DEF Exact
  <2> DEFINE q == Opening(n, <<s>> \o p.proof)
  <2>2. q \in SszProofs
    <3>1. Len(p.leaf) = 2 /\ p.leaf[1] = l /\ p.leaf[2] = m
      BY <2>1, HashParts
    <3>2. \A side \in 1..2 :
             Opening(p.leaf[side], <<p.leaf[3 - side]>> \o p.proof) \in SszProofs
      BY <3>1, ValSetsAssumption
    <3>3. 1 \in 1..2 /\ 2 \in 1..2 /\ 3 - 1 = 2 /\ 3 - 2 = 1
      OBVIOUS
    <3>4. /\ Opening(p.leaf[1], <<p.leaf[2]>> \o p.proof) \in SszProofs
          /\ Opening(p.leaf[2], <<p.leaf[1]>> \o p.proof) \in SszProofs
      BY <3>2, <3>3
    <3> QED BY <3>1, <3>4
  <2>3. p.leaf = Joined(b, n, s)
    BY <2>1 DEF Joined
  <2> HIDE DEF n, s
  <2>4. q = Opening(n, <<s>> \o p.proof)
    OBVIOUS
  <2> HIDE DEF q
  <2>5. /\ IsList(q.proof) /\ q.leaf = n
        /\ processInclusionProofSha256(q, r, 2 * x + b, a + 1)
    BY <2>1, <2>3, <2>4, StepUp
  <2> QED BY <2>2, <2>5
<1>2. ASSUME NEW q, processInclusionProofSha256(q, r, 2 * x + b, a + 1)
      PROVE  q.leaf = n
  <2>1. PICK p : /\ processInclusionProofSha256(p, r, x, a)
                 /\ p.leaf = Joined(b, q.leaf, q.proof[1])
    <3>1. a + 1 \in Nat \ {0} /\ 2 * x + b \in Nat
      OBVIOUS
    <3>2. (a + 1) - 1 = a /\ (2 * x + b) \div 2 = x /\ (2 * x + b) % 2 = b
      OBVIOUS
    <3>3. PICK h, y : h = a + 1 /\ y = 2 * x + b
      OBVIOUS
    <3>4. \E p : /\ processInclusionProofSha256(p, r, y \div 2, h - 1)
                 /\ p.leaf = Joined(y % 2, q.leaf, q.proof[1])
      BY <1>2, <3>1, <3>3, StepDown
    <3> QED BY <3>2, <3>3, <3>4
  <2>2. p.leaf = Hash(l, m)
    BY <2>1 DEF Exact
  <2>3. Joined(b, q.leaf, q.proof[1])
           = IF b = 0 THEN Hash(q.leaf, q.proof[1]) ELSE Hash(q.proof[1], q.leaf)
    BY DEF Joined
  <2>4. CASE b = 0
    <3>1. Hash(q.leaf, q.proof[1]) = Hash(l, m)
      BY <2>1, <2>2, <2>3, <2>4
    <3>2. q.leaf = l
      BY <3>1, HashSplits
    <3> QED BY <2>4, <3>2
  <2>5. CASE b = 1
    <3>0. b # 0
      BY <2>5
    <3>1. Hash(q.proof[1], q.leaf) = Hash(l, m)
      BY <2>1, <2>2, <2>3, <3>0
    <3>2. q.leaf = m
      BY <3>1, HashSplits
    <3> QED BY <3>0, <3>2
  <2> QED BY <2>4, <2>5
<1> HIDE DEF n
<1>3. Exact(r, a + 1, 2 * x + b, n)
  BY <1>1, <1>2 DEF Exact
<1> QED BY <1>3 DEF n

(* A node that is reached is a root of its own.                            *)
LEMMA StartHere ==
    ASSUME NEW n, NEW x, Opening(n, <<>>) \in SszProofs
    PROVE  Exact(n, 0, x, n)
<1> DEFINE q == Opening(n, <<>>)
<1>1. q.leaf = n /\ q.proof = <<>>
  BY DEF Opening
<1> HIDE DEF q
<1>2. <<>> \in Seq({}) /\ Len(<<>>) = 0 /\ 0 \in Nat
  OBVIOUS
<1>3. ASSUME NEW p, NEW c, Climbs(p, x, 0, c) PROVE c[0].node = p.leaf
  BY <1>3 DEF Climbs
<1>4. processInclusionProofSha256(q, n, x, 0)
  <2>1. PICK c : IsClimb(q, x, 0, c)
    BY <1>2, ClimbExists
  <2>2. Climbs(q, x, 0, c)
    BY <1>2, <2>1, ClimbIs
  <2> QED BY <1>1, <1>2, <1>3, <2>2, VerifiedByClimb
<1>5. ASSUME NEW p, processInclusionProofSha256(p, n, x, 0) PROVE p.leaf = n
  BY <1>2, <1>3, <1>5, VerifiedByClimb
<1>6. IsList(q.proof)
  BY <1>1, <1>2 DEF IsList
<1>7. q \in SszProofs
  BY DEF q
<1> QED BY <1>1, <1>4, <1>5, <1>6, <1>7 DEF Exact

LEMMA Restart ==
    ASSUME NEW r, NEW a, NEW x, NEW n, Exact(r, a, x, n), Len(n) = 2
    PROVE  Opening(n, <<>>) \in SszProofs
<1>1. PICK p \in SszProofs : p.leaf = n
  BY DEF Exact
<1> QED BY <1>1, ValSetsAssumption

(* Nothing stands below a word.                                            *)
LEMMA NoPath ==
    ASSUME NEW p, NEW n, NEW x, NEW h \in Nat \ {0}
    PROVE  ~processInclusionProofSha256(p, Word(n), x, h)
<1> SUFFICES ASSUME processInclusionProofSha256(p, Word(n), x, h) PROVE FALSE
  OBVIOUS
<1>1. PICK c : Climbs(p, x, h, c) /\ c[h].node = Word(n)
  BY VerifiedByClimb
<1>2. h \in 1..h
  OBVIOUS
<1>3. PICK l, m : c[h].node = Hash(l, m)
  <2>1. c[h].node = IF c[h - 1].index % 2 = 0 THEN Hash(c[h - 1].node, p.proof[h])
                    ELSE Hash(p.proof[h], c[h - 1].node)
    BY <1>1, <1>2 DEF Climbs
  <2>2. CASE c[h - 1].index % 2 = 0
    BY <2>1, <2>2
  <2>3. CASE c[h - 1].index % 2 # 0
    BY <2>1, <2>3
  <2> QED BY <2>2, <2>3
<1>4. Hash(l, m) # Word(n)
  BY HashParts
<1> QED BY <1>1, <1>3, <1>4

(* Below the root of a tree stand its chunks, by their places.             *)
LEMMA TreeShown ==
    ASSUME NEW r, NEW a \in Nat, NEW x \in Nat, NEW chunks, NEW h \in Nat,
           Exact(r, a, x, Merkle(chunks, h))
    PROVE  \A k \in Nat : k < Shl(1, h)
              => Exact(r, a + h, Shl(x, h) + k, Chunk(chunks, k))
<1>1. PICK f : Merkle(chunks, h) = f[h][0] /\ LayersOf(chunks, h, f)
  BY MerkleIs
<1> DEFINE Done(d) == \A k \in Nat : k < Shl(1, d)
                         => Exact(r, a + d, Shl(x, d) + k, f[h - d][k])
           S == {d \in 0..h : Done(d)}
<1>2. 0 \in S
  <2>1. Shl(1, 0) = 1 /\ Shl(x, 0) = x
    BY ShlNext
  <2>2. Exact(r, a + 0, Shl(x, 0) + 0, f[h - 0][0])
    <3>1. a + 0 = a /\ x + 0 = x /\ h - 0 = h
      OBVIOUS
    <3> QED BY <1>1, <2>1, <3>1
  <2>3. \A k \in Nat : k < 1 => k = 0
    OBVIOUS
  <2>4. Done(0)
    BY <2>1, <2>2, <2>3
  <2>5. 0 \in 0..h
    OBVIOUS
  <2> QED BY <2>4, <2>5
<1>3. ASSUME NEW d \in 1..h, d - 1 \in S PROVE d \in S
  <2>1. PICK e \in Nat : e = d - 1
    OBVIOUS
  <2>2. /\ d = e + 1 /\ d \in 0..h /\ h - d \in Nat /\ h - e \in 1..h
        /\ (h - e) - 1 = h - d /\ 1 \in Nat
    BY <2>1
  <2>3. Done(e)
    BY <1>3, <2>1
  <2>4. /\ Shl(1, d) = 2 * Shl(1, e) /\ Shl(x, d) = 2 * Shl(x, e)
        /\ Shl(1, e) \in Nat /\ Shl(x, e) \in Nat
    BY <2>2, ShlNext
  <2>5. PICK one \in Nat, at \in Nat : one = Shl(1, e) /\ at = Shl(x, e)
    BY <2>4
  <2>6. ASSUME NEW k \in Nat, k < Shl(1, d)
        PROVE  Exact(r, a + d, Shl(x, d) + k, f[h - d][k])
    <3>1. PICK j \in Nat, b \in {0, 1} : k = 2 * j + b
      <4>1. k \div 2 \in Nat /\ k % 2 \in {0, 1} /\ k = 2 * (k \div 2) + (k % 2)
        OBVIOUS
      <4> QED BY <4>1
    <3>2. k < 2 * one
      BY <2>4, <2>5, <2>6
    <3>3. j < one
      BY <3>1, <3>2
    <3>4. Exact(r, a + e, at + j, f[h - e][j])
      BY <2>3, <2>5, <3>3
    <3>5. f[h - e][j] = Hash(f[h - d][2 * j], f[h - d][2 * j + 1])
      BY <1>1, <2>2 DEF LayersOf
    <3>6. PICK l, m : l = f[h - d][2 * j] /\ m = f[h - d][2 * j + 1]
      OBVIOUS
    <3>7. a + e \in Nat /\ at + j \in Nat
      OBVIOUS
    <3>8. Exact(r, (a + e) + 1, 2 * (at + j) + b, IF b = 0 THEN l ELSE m)
      BY <3>4, <3>5, <3>6, <3>7, Descend
    <3>9. (IF b = 0 THEN l ELSE m) = f[h - d][k]
      <4>1. CASE b = 0
        <5>1. k = 2 * j
          BY <3>1, <4>1
        <5> QED BY <3>6, <4>1, <5>1
      <4>2. CASE b = 1
        BY <3>1, <3>6, <4>2
      <4> QED BY <4>1, <4>2
    <3>10. (a + e) + 1 = a + d /\ 2 * (at + j) + b = Shl(x, d) + k
      <4>1. Shl(x, d) = 2 * at
        BY <2>4, <2>5
      <4>2. 2 * (at + j) + b = 2 * at + k
        BY <3>1
      <4> QED BY <2>2, <4>1, <4>2
    <3> QED BY <3>8, <3>9, <3>10
  <2>7. Done(d)
    BY <2>6
  <2> QED BY <2>2, <2>7
<1>4. 0..h \subseteq S
  <2> HIDE DEF S
  <2> QED BY <1>2, <1>3, Throughout
<1>5. h \in 0..h /\ h - h = 0
  OBVIOUS
<1>6. Done(h)
  BY <1>4, <1>5
<1> QED BY <1>1, <1>5, <1>6 DEF LayersOf

LEMMA ListShown ==
    ASSUME NEW r, NEW a \in Nat, NEW x \in Nat, NEW roots, NEW h \in Nat,
           Exact(r, a, x, List(roots, h))
    PROVE  \A k \in Nat : k < Shl(1, h)
              => Exact(r, a + 1 + h, ListIndex(x, h) + k, Chunk(roots, k))
<1>1. PICK m, l : m = Merkle(roots, h) /\ l = Word(Len(roots))
  OBVIOUS
<1>2. Exact(r, a, x, Hash(m, l))
  BY <1>1 DEF List
<1>3. Exact(r, a + 1, 2 * x + 0, IF 0 = 0 THEN m ELSE l)
  <2>1. 0 \in {0, 1}
    OBVIOUS
  <2> QED BY <1>2, <2>1, Descend
<1>4. Exact(r, a + 1, 2 * x, m)
  <2>1. 2 * x + 0 = 2 * x
    OBVIOUS
  <2> QED BY <1>3, <2>1
<1>5. a + 1 \in Nat /\ 2 * x \in Nat
  OBVIOUS
<1>6. \A k \in Nat : k < Shl(1, h)
         => Exact(r, a + 1 + h, Shl(2 * x, h) + k, Chunk(roots, k))
  BY <1>1, <1>4, <1>5, TreeShown
<1>7. Shl(2 * x, h) = ListIndex(x, h)
  BY ShlTwice DEF ListIndex
<1> QED BY <1>6, <1>7

-----------------------------------------------------------------------------
(* The containers: a validator, a key, a vault, each by its fields.        *)
LEMMA HeightsAreNat ==
    /\ VALIDATORS_LIST_TREE_HEIGHT \in Nat /\ KEY_LIST_TREE_HEIGHT \in Nat
    /\ VAULT_LIST_TREE_HEIGHT \in Nat
BY ValSetsAssumption

LEMMA MerkleIsHash ==
    ASSUME NEW chunks, NEW h \in Nat \ {0}
    PROVE  \E l, m : Merkle(chunks, h) = Hash(l, m)
<1>1. PICK f : Merkle(chunks, h) = f[h][0] /\ LayersOf(chunks, h, f)
  BY MerkleIs
<1>2. h \in 1..h /\ 0 \in Nat
  OBVIOUS
<1>3. f[h][0] = Hash(f[h - 1][2 * 0], f[h - 1][2 * 0 + 1])
  BY <1>1, <1>2 DEF LayersOf
<1> QED BY <1>1, <1>3

LEMMA ContainersAreHashes ==
    /\ \A key : Len(KeyRoot(key)) = 2
    /\ \A vault : Len(VaultRoot(vault)) = 2
    /\ \A v : Len(ValidatorRoot(v)) = 2
<1>1. 1 \in Nat \ {0} /\ 2 \in Nat \ {0} /\ 3 \in Nat \ {0}
  OBVIOUS
<1>2. ASSUME NEW chunks, NEW h \in Nat \ {0} PROVE Len(Merkle(chunks, h)) = 2
  <2>1. PICK l, m : Merkle(chunks, h) = Hash(l, m)
    BY MerkleIsHash
  <2> QED BY <2>1, HashParts
<1> QED BY <1>1, <1>2 DEF KeyRoot, VaultRoot, ValidatorRoot, KEY_TREE_HEIGHT,
                          VAULT_TREE_HEIGHT, VALIDATOR_TREE_HEIGHT

(* The children of a small tree, at the indices 0, 1, ...                  *)
LEMMA SmallTreeShown ==
    ASSUME NEW r, NEW chunks, NEW h \in 1..3, r = Merkle(chunks, h),
           Opening(r, <<>>) \in SszProofs,
           NEW k \in Nat, k < Shl(1, h)
    PROVE  Exact(r, h, k, Chunk(chunks, k))
<1>1. Exact(r, 0, 0, Merkle(chunks, h))
  BY StartHere
<1>2. 0 \in Nat /\ h \in Nat /\ 0 + h = h
  OBVIOUS
<1>3. Exact(r, 0 + h, Shl(0, h) + k, Chunk(chunks, k))
  BY <1>1, <1>2, TreeShown
<1>4. Shl(0, h) = 0
  BY <1>2, ShlOfZero
<1>5. 0 + k = k
  OBVIOUS
<1> QED BY <1>2, <1>3, <1>4, <1>5

LEMMA KeyShown ==
    ASSUME NEW key, NEW r, r = KeyRoot(key), Opening(r, <<>>) \in SszProofs
    PROVE  /\ Exact(r, KEY_TREE_HEIGHT, 0, Word(key.tag))
           /\ Exact(r, KEY_TREE_HEIGHT, 1, Word(key.payloadHash))
<1>1. PICK chunks : chunks = <<Word(key.tag), Word(key.payloadHash)>>
  OBVIOUS
<1>2. KEY_TREE_HEIGHT = 1 /\ r = Merkle(chunks, 1)
  BY <1>1 DEF KeyRoot, KEY_TREE_HEIGHT
<1>3. Chunk(chunks, 0) = Word(key.tag) /\ Chunk(chunks, 1) = Word(key.payloadHash)
  BY <1>1 DEF Chunk
<1>4. 1 \in 1..3 /\ 0 \in Nat /\ 1 \in Nat /\ 0 < Shl(1, 1) /\ 1 < Shl(1, 1)
  BY ShlOfOne
<1>5. Exact(r, 1, 0, Chunk(chunks, 0)) /\ Exact(r, 1, 1, Chunk(chunks, 1))
  BY <1>2, <1>4, SmallTreeShown
<1> QED BY <1>2, <1>3, <1>5

LEMMA VaultShown ==
    ASSUME NEW vault, NEW r, r = VaultRoot(vault), Opening(r, <<>>) \in SszProofs
    PROVE  /\ Exact(r, VAULT_TREE_HEIGHT, 0, Word(vault.chainId))
           /\ Exact(r, VAULT_TREE_HEIGHT, 1, Word(vault.vault))
           /\ Exact(r, VAULT_TREE_HEIGHT, 2, Word(vault.votingPower))
<1>1. PICK chunks :
         chunks = <<Word(vault.chainId), Word(vault.vault), Word(vault.votingPower)>>
  OBVIOUS
<1>2. VAULT_TREE_HEIGHT = 2 /\ r = Merkle(chunks, 2)
  BY <1>1 DEF VaultRoot, VAULT_TREE_HEIGHT
<1>3. /\ Chunk(chunks, 0) = Word(vault.chainId) /\ Chunk(chunks, 1) = Word(vault.vault)
      /\ Chunk(chunks, 2) = Word(vault.votingPower)
  BY <1>1 DEF Chunk
<1>4. 2 \in 1..3 /\ \A k \in 0..2 : k \in Nat /\ k < Shl(1, 2)
  BY ShlOfOne
<1>5. \A k \in 0..2 : Exact(r, 2, k, Chunk(chunks, k))
  BY <1>2, <1>4, SmallTreeShown
<1>6. Exact(r, 2, 0, Chunk(chunks, 0)) /\ Exact(r, 2, 1, Chunk(chunks, 1))
      /\ Exact(r, 2, 2, Chunk(chunks, 2))
  BY <1>5
<1> QED BY <1>2, <1>3, <1>6

(* What stands at a place of a list: the root of an element, or padding.   *)
KeyNodeAt(v, k) == IF k < Len(v.keys) THEN KeyRoot(v.keys[k + 1]) ELSE Word(0)
VaultNodeAt(v, k) == IF k < Len(v.vaults) THEN VaultRoot(v.vaults[k + 1]) ELSE Word(0)
ValidatorNodeAt(set, k) == IF k < Len(set) THEN ValidatorRoot(set[k + 1]) ELSE Word(0)

LEMMA ValidatorParts ==
    ASSUME NEW v \in Validator
    PROVE  /\ Len(v.keys) \in Nat /\ DOMAIN v.keys = 1..Len(v.keys)
           /\ Len(v.vaults) \in Nat /\ DOMAIN v.vaults = 1..Len(v.vaults)
<1>1. v.keys \in Seq(Key) /\ v.vaults \in Seq(Vault)
  BY DEF Validator
<1> QED BY <1>1

LEMMA ValidatorShown ==
    ASSUME NEW v \in Validator, NEW r, r = ValidatorRoot(v),
           Opening(r, <<>>) \in SszProofs
    PROVE  /\ Exact(r, VALIDATOR_TREE_HEIGHT, 0, Word(v.operator))
           /\ Exact(r, VALIDATOR_TREE_HEIGHT, 1, Word(v.votingPower))
           /\ Exact(r, VALIDATOR_TREE_HEIGHT, 2, Word(v.isActive))
           /\ \A k \in Nat : k < Shl(1, KEY_LIST_TREE_HEIGHT)
                 => Exact(r, VALIDATOR_TREE_HEIGHT + 1 + KEY_LIST_TREE_HEIGHT,
                          ListIndex(3, KEY_LIST_TREE_HEIGHT) + k, KeyNodeAt(v, k))
           /\ \A k \in Nat : k < Shl(1, VAULT_LIST_TREE_HEIGHT)
                 => Exact(r, VALIDATOR_TREE_HEIGHT + 1 + VAULT_LIST_TREE_HEIGHT,
                          ListIndex(4, VAULT_LIST_TREE_HEIGHT) + k, VaultNodeAt(v, k))
<1> DEFINE keyRoots == [k \in DOMAIN v.keys |-> KeyRoot(v.keys[k])]
           vaultRoots == [k \in DOMAIN v.vaults |-> VaultRoot(v.vaults[k])]
<1>1. PICK chunks :
         chunks = <<Word(v.operator), Word(v.votingPower), Word(v.isActive),
                    List(keyRoots, KEY_LIST_TREE_HEIGHT),
                    List(vaultRoots, VAULT_LIST_TREE_HEIGHT)>>
  OBVIOUS
<1>2. VALIDATOR_TREE_HEIGHT = 3 /\ r = Merkle(chunks, 3)
  BY <1>1 DEF ValidatorRoot, VALIDATOR_TREE_HEIGHT
<1>3. \A k \in Nat : Chunk(keyRoots, k) = KeyNodeAt(v, k)
  <2>1. Len(keyRoots) = Len(v.keys)
    BY ValidatorParts
  <2>2. \A k \in Nat : k < Len(v.keys) => keyRoots[k + 1] = KeyRoot(v.keys[k + 1])
    BY ValidatorParts
  <2> HIDE DEF keyRoots
  <2> QED BY <2>1, <2>2 DEF Chunk, KeyNodeAt
<1>4. \A k \in Nat : Chunk(vaultRoots, k) = VaultNodeAt(v, k)
  <2>1. Len(vaultRoots) = Len(v.vaults)
    BY ValidatorParts
  <2>2. \A k \in Nat : k < Len(v.vaults) => vaultRoots[k + 1] = VaultRoot(v.vaults[k + 1])
    BY ValidatorParts
  <2> HIDE DEF vaultRoots
  <2> QED BY <2>1, <2>2 DEF Chunk, VaultNodeAt
<1> HIDE DEF keyRoots, vaultRoots
<1>5. /\ Chunk(chunks, 0) = Word(v.operator) /\ Chunk(chunks, 1) = Word(v.votingPower)
      /\ Chunk(chunks, 2) = Word(v.isActive)
      /\ Chunk(chunks, 3) = List(keyRoots, KEY_LIST_TREE_HEIGHT)
      /\ Chunk(chunks, 4) = List(vaultRoots, VAULT_LIST_TREE_HEIGHT)
  BY <1>1 DEF Chunk
<1>6. 3 \in 1..3 /\ \A k \in 0..4 : k \in Nat /\ k < Shl(1, 3)
  BY ShlOfOne
<1>7. \A k \in 0..4 : Exact(r, 3, k, Chunk(chunks, k))
  BY <1>2, <1>6, SmallTreeShown
<1>8. /\ Exact(r, 3, 0, Word(v.operator)) /\ Exact(r, 3, 1, Word(v.votingPower))
      /\ Exact(r, 3, 2, Word(v.isActive))
      /\ Exact(r, 3, 3, List(keyRoots, KEY_LIST_TREE_HEIGHT))
      /\ Exact(r, 3, 4, List(vaultRoots, VAULT_LIST_TREE_HEIGHT))
  <2>1. 0 \in 0..4 /\ 1 \in 0..4 /\ 2 \in 0..4 /\ 3 \in 0..4 /\ 4 \in 0..4
    OBVIOUS
  <2> QED BY <1>5, <1>7, <2>1
<1>9. 3 \in Nat /\ 4 \in Nat
  OBVIOUS
<1>10. \A k \in Nat : k < Shl(1, KEY_LIST_TREE_HEIGHT)
          => Exact(r, 3 + 1 + KEY_LIST_TREE_HEIGHT,
                   ListIndex(3, KEY_LIST_TREE_HEIGHT) + k, Chunk(keyRoots, k))
  BY <1>8, <1>9, HeightsAreNat, ListShown
<1>11. \A k \in Nat : k < Shl(1, VAULT_LIST_TREE_HEIGHT)
          => Exact(r, 3 + 1 + VAULT_LIST_TREE_HEIGHT,
                   ListIndex(4, VAULT_LIST_TREE_HEIGHT) + k, Chunk(vaultRoots, k))
  BY <1>8, <1>9, HeightsAreNat, ListShown
<1> QED BY <1>2, <1>3, <1>4, <1>8, <1>10, <1>11

LEMMA SetShown ==
    ASSUME NEW set \in ValSets, NEW r, r = validatorsSszMRoot(set)
    PROVE  /\ Len(set) \in Nat /\ DOMAIN set = 1..Len(set)
           /\ \A i \in 1..Len(set) : set[i] \in Validator
           /\ \A k \in Nat : k < Shl(1, VALIDATORS_LIST_TREE_HEIGHT)
                 => Exact(r, 1 + VALIDATORS_LIST_TREE_HEIGHT,
                          ListIndex(0, VALIDATORS_LIST_TREE_HEIGHT) + k,
                          ValidatorNodeAt(set, k))
<1> DEFINE roots == [i \in DOMAIN set |-> ValidatorRoot(set[i])]
<1>1. set \in Seq(Validator) /\ Opening(r, <<>>) \in SszProofs
  BY ValSetsAssumption
<1>2. Len(set) \in Nat /\ DOMAIN set = 1..Len(set)
  BY <1>1
<1>3. \A k \in Nat : Chunk(roots, k) = ValidatorNodeAt(set, k)
  <2>1. Len(roots) = Len(set)
    BY <1>2
  <2>2. \A k \in Nat : k < Len(set) => roots[k + 1] = ValidatorRoot(set[k + 1])
    BY <1>2
  <2> HIDE DEF roots
  <2> QED BY <2>1, <2>2 DEF Chunk, ValidatorNodeAt
<1>4. r = List(roots, VALIDATORS_LIST_TREE_HEIGHT)
  BY DEF validatorsSszMRoot
<1> HIDE DEF roots
<1>5. Exact(r, 0, 0, List(roots, VALIDATORS_LIST_TREE_HEIGHT))
  BY <1>1, <1>4, StartHere
<1>6. 0 \in Nat /\ 0 + 1 = 1
  OBVIOUS
<1>7. \A k \in Nat : k < Shl(1, VALIDATORS_LIST_TREE_HEIGHT)
         => Exact(r, 0 + 1 + VALIDATORS_LIST_TREE_HEIGHT,
                  ListIndex(0, VALIDATORS_LIST_TREE_HEIGHT) + k, Chunk(roots, k))
  BY <1>5, <1>6, HeightsAreNat, ListShown
<1>8. \A i \in 1..Len(set) : set[i] \in Validator
  BY <1>1, ElementIn
<1> QED BY <1>2, <1>3, <1>6, <1>7, <1>8

-----------------------------------------------------------------------------
(* What can be shown: the words of the proofs that are accepted.           *)
LEMMA LeavesAre ==
    ASSUME NEW r, NEW a, NEW x, NEW n, Exact(r, a, x, n), NEW proofs,
           \A p : p \in proofs
                   <=> p \in SszProofs /\ processInclusionProofSha256(p, r, x, a)
    PROVE  Leaves(proofs) = {n}
<1>1. PICK p \in SszProofs : p.leaf = n /\ processInclusionProofSha256(p, r, x, a)
  BY DEF Exact
<1>2. p \in proofs /\ \A q \in proofs : q.leaf = n
  BY <1>1 DEF Exact
<1> QED BY <1>1, <1>2 DEF Leaves

LEMMA NoLeaves ==
    ASSUME NEW proofs, \A p : p \notin proofs
    PROVE  Leaves(proofs) = {}
BY DEF Leaves

LEMMA ValidatorFields ==
    ASSUME NEW v \in Validator, NEW r, r = ValidatorRoot(v),
           Opening(r, <<>>) \in SszProofs,
           NEW i
    PROVE  ShownOfValidator(i, r)
              = {<<"operator", i, Word(v.operator)>>,
                 <<"votingPower", i, Word(v.votingPower)>>,
                 <<"isActive", i, Word(v.isActive)>>}
<1> DEFINE operators == Leaves({p \in SszProofs : verifyValidatorOperatorLocal(p, r)})
           powers == Leaves({p \in SszProofs : verifyValidatorVotingPowerLocal(p, r)})
           actives == Leaves({p \in SszProofs : verifyValidatorIsActiveLocal(p, r)})
<1>1. operators = {Word(v.operator)}
  <2> DEFINE proofs == {p \in SszProofs : verifyValidatorOperatorLocal(p, r)}
  <2>1. Exact(r, VALIDATOR_TREE_HEIGHT, 0, Word(v.operator))
    BY ValidatorShown
  <2>2. \A p : p \in proofs <=> p \in SszProofs /\ verifyValidatorOperatorLocal(p, r)
    OBVIOUS
  <2>3. operators = Leaves(proofs)
    OBVIOUS
  <2> HIDE DEF proofs, operators
  <2> QED BY <2>1, <2>2, <2>3, LeavesAre DEF verifyValidatorOperatorLocal
<1>2. powers = {Word(v.votingPower)}
  <2> DEFINE proofs == {p \in SszProofs : verifyValidatorVotingPowerLocal(p, r)}
  <2>1. Exact(r, VALIDATOR_TREE_HEIGHT, 1, Word(v.votingPower))
    BY ValidatorShown
  <2>2. \A p : p \in proofs <=> p \in SszProofs /\ verifyValidatorVotingPowerLocal(p, r)
    OBVIOUS
  <2>3. powers = Leaves(proofs)
    OBVIOUS
  <2> HIDE DEF proofs, powers
  <2> QED BY <2>1, <2>2, <2>3, LeavesAre DEF verifyValidatorVotingPowerLocal
<1>3. actives = {Word(v.isActive)}
  <2> DEFINE proofs == {p \in SszProofs : verifyValidatorIsActiveLocal(p, r)}
  <2>1. Exact(r, VALIDATOR_TREE_HEIGHT, 2, Word(v.isActive))
    BY ValidatorShown
  <2>2. \A p : p \in proofs <=> p \in SszProofs /\ verifyValidatorIsActiveLocal(p, r)
    OBVIOUS
  <2>3. actives = Leaves(proofs)
    OBVIOUS
  <2> HIDE DEF proofs, actives
  <2> QED BY <2>1, <2>2, <2>3, LeavesAre DEF verifyValidatorIsActiveLocal
<1>4. ShownOfValidator(i, r) = {<<"operator", i, w>> : w \in operators}
                                \cup {<<"votingPower", i, w>> : w \in powers}
                                \cup {<<"isActive", i, w>> : w \in actives}
  BY DEF ShownOfValidator
<1> HIDE DEF operators, powers, actives
<1> QED BY <1>1, <1>2, <1>3, <1>4

LEMMA KeyFields ==
    ASSUME NEW key, NEW r, r = KeyRoot(key), Opening(r, <<>>) \in SszProofs,
           NEW i, NEW k
    PROVE  ShownOfKey(i, k, r)
              = {<<"key", i, k, Word(key.tag), Word(key.payloadHash)>>}
<1> DEFINE tags == Leaves({p \in SszProofs : verifyKeyTagLocal(p, r)})
           hashes == Leaves({p \in SszProofs : verifyKeyPayloadHash(p, r)})
<1>1. tags = {Word(key.tag)}
  <2> DEFINE proofs == {p \in SszProofs : verifyKeyTagLocal(p, r)}
  <2>1. Exact(r, KEY_TREE_HEIGHT, 0, Word(key.tag))
    BY KeyShown
  <2>2. \A p : p \in proofs <=> p \in SszProofs /\ verifyKeyTagLocal(p, r)
    OBVIOUS
  <2>3. tags = Leaves(proofs)
    OBVIOUS
  <2> HIDE DEF proofs, tags
  <2> QED BY <2>1, <2>2, <2>3, LeavesAre DEF verifyKeyTagLocal
<1>2. hashes = {Word(key.payloadHash)}
  <2> DEFINE proofs == {p \in SszProofs : verifyKeyPayloadHash(p, r)}
  <2>1. Exact(r, KEY_TREE_HEIGHT, 1, Word(key.payloadHash))
    BY KeyShown
  <2>2. \A p : p \in proofs <=> p \in SszProofs /\ verifyKeyPayloadHash(p, r)
    OBVIOUS
  <2>3. hashes = Leaves(proofs)
    OBVIOUS
  <2> HIDE DEF proofs, hashes
  <2> QED BY <2>1, <2>2, <2>3, LeavesAre DEF verifyKeyPayloadHash
<1>3. ShownOfKey(i, k, r) = {<<"key", i, k, t, w>> : t \in tags, w \in hashes}
  BY DEF ShownOfKey
<1> HIDE DEF tags, hashes
<1> QED BY <1>1, <1>2, <1>3

LEMMA VaultFields ==
    ASSUME NEW vault, NEW r, r = VaultRoot(vault), Opening(r, <<>>) \in SszProofs,
           NEW i, NEW k
    PROVE  ShownOfVault(i, k, r)
              = {<<"vault", i, k, Word(vault.chainId), Word(vault.vault),
                   Word(vault.votingPower)>>}
<1> DEFINE chains == Leaves({p \in SszProofs : verifyVaultChainIdLocal(p, r)})
           addresses == Leaves({p \in SszProofs : verifyVaultVaultLocal(p, r)})
           powers == Leaves({p \in SszProofs : verifyVaultVotingPowerLocal(p, r)})
<1>1. chains = {Word(vault.chainId)}
  <2> DEFINE proofs == {p \in SszProofs : verifyVaultChainIdLocal(p, r)}
  <2>1. Exact(r, VAULT_TREE_HEIGHT, 0, Word(vault.chainId))
    BY VaultShown
  <2>2. \A p : p \in proofs <=> p \in SszProofs /\ verifyVaultChainIdLocal(p, r)
    OBVIOUS
  <2>3. chains = Leaves(proofs)
    OBVIOUS
  <2> HIDE DEF proofs, chains
  <2> QED BY <2>1, <2>2, <2>3, LeavesAre DEF verifyVaultChainIdLocal
<1>2. addresses = {Word(vault.vault)}
  <2> DEFINE proofs == {p \in SszProofs : verifyVaultVaultLocal(p, r)}
  <2>1. Exact(r, VAULT_TREE_HEIGHT, 1, Word(vault.vault))
    BY VaultShown
  <2>2. \A p : p \in proofs <=> p \in SszProofs /\ verifyVaultVaultLocal(p, r)
    OBVIOUS
  <2>3. addresses = Leaves(proofs)
    OBVIOUS
  <2> HIDE DEF proofs, addresses
  <2> QED BY <2>1, <2>2, <2>3, LeavesAre DEF verifyVaultVaultLocal
<1>3. powers = {Word(vault.votingPower)}
  <2> DEFINE proofs == {p \in SszProofs : verifyVaultVotingPowerLocal(p, r)}
  <2>1. Exact(r, VAULT_TREE_HEIGHT, 2, Word(vault.votingPower))
    BY VaultShown
  <2>2. \A p : p \in proofs <=> p \in SszProofs /\ verifyVaultVotingPowerLocal(p, r)
    OBVIOUS
  <2>3. powers = Leaves(proofs)
    OBVIOUS
  <2> HIDE DEF proofs, powers
  <2> QED BY <2>1, <2>2, <2>3, LeavesAre DEF verifyVaultVotingPowerLocal
<1>4. ShownOfVault(i, k, r) = {<<"vault", i, k, c, w, power>> :
                                    c \in chains, w \in addresses, power \in powers}
  BY DEF ShownOfVault
<1> HIDE DEF chains, addresses, powers
<1> QED BY <1>1, <1>2, <1>3, <1>4

(* Of padding, nothing.                                                    *)
LEMMA NothingOfPadding ==
    ASSUME NEW i, NEW k
    PROVE  /\ ShownOf(i, Word(0)) = {} /\ ShownOfKey(i, k, Word(0)) = {}
           /\ ShownOfVault(i, k, Word(0)) = {}
<1> DEFINE r == Word(0)
           operators == Leaves({p \in SszProofs : verifyValidatorOperatorLocal(p, r)})
           powers == Leaves({p \in SszProofs : verifyValidatorVotingPowerLocal(p, r)})
           actives == Leaves({p \in SszProofs : verifyValidatorIsActiveLocal(p, r)})
           tags == Leaves({p \in SszProofs : verifyKeyTagLocal(p, r)})
           hashes == Leaves({p \in SszProofs : verifyKeyPayloadHash(p, r)})
           chains == Leaves({p \in SszProofs : verifyVaultChainIdLocal(p, r)})
           addresses == Leaves({p \in SszProofs : verifyVaultVaultLocal(p, r)})
           stakes == Leaves({p \in SszProofs : verifyVaultVotingPowerLocal(p, r)})
<1>0. /\ KEY_TREE_HEIGHT \in Nat \ {0} /\ VAULT_TREE_HEIGHT \in Nat \ {0}
      /\ VALIDATOR_TREE_HEIGHT \in Nat \ {0}
      /\ VALIDATOR_TREE_HEIGHT + 1 + KEY_LIST_TREE_HEIGHT \in Nat \ {0}
      /\ VALIDATOR_TREE_HEIGHT + 1 + VAULT_LIST_TREE_HEIGHT \in Nat \ {0}
  BY HeightsAreNat DEF KEY_TREE_HEIGHT, VAULT_TREE_HEIGHT, VALIDATOR_TREE_HEIGHT
<1>1. operators = {}
  <2>1. \A p : ~verifyValidatorOperatorLocal(p, r)
    BY <1>0, NoPath DEF verifyValidatorOperatorLocal
  <2> QED BY <2>1, NoLeaves
<1>2. powers = {}
  <2>1. \A p : ~verifyValidatorVotingPowerLocal(p, r)
    BY <1>0, NoPath DEF verifyValidatorVotingPowerLocal
  <2> QED BY <2>1, NoLeaves
<1>3. actives = {}
  <2>1. \A p : ~verifyValidatorIsActiveLocal(p, r)
    BY <1>0, NoPath DEF verifyValidatorIsActiveLocal
  <2> QED BY <2>1, NoLeaves
<1>4. tags = {}
  <2>1. \A p : ~verifyKeyTagLocal(p, r)
    BY <1>0, NoPath DEF verifyKeyTagLocal
  <2> QED BY <2>1, NoLeaves
<1>5. chains = {}
  <2>1. \A p : ~verifyVaultChainIdLocal(p, r)
    BY <1>0, NoPath DEF verifyVaultChainIdLocal
  <2> QED BY <2>1, NoLeaves
<1>6. ASSUME NEW j PROVE KeyRootsAt(j, r) = {}
  <2>1. \A p : ~verifyValidatorKeyRootLocal(p, j, r)
    BY <1>0, NoPath DEF verifyValidatorKeyRootLocal
  <2> QED BY <2>1, NoLeaves DEF KeyRootsAt
<1>7. ASSUME NEW j PROVE VaultRootsAt(j, r) = {}
  <2>1. \A p : ~verifyValidatorVaultRootLocal(p, j, r)
    BY <1>0, NoPath DEF verifyValidatorVaultRootLocal
  <2> QED BY <2>1, NoLeaves DEF VaultRootsAt
<1>8. ShownOfValidator(i, r) = {<<"operator", i, w>> : w \in operators}
                                  \cup {<<"votingPower", i, w>> : w \in powers}
                                  \cup {<<"isActive", i, w>> : w \in actives}
  BY DEF ShownOfValidator
<1>9. ShownOfKey(i, k, r) = {<<"key", i, k, t, w>> : t \in tags, w \in hashes}
  BY DEF ShownOfKey
<1>10. ShownOfVault(i, k, r) = {<<"vault", i, k, c, w, power>> :
                                  c \in chains, w \in addresses, power \in stakes}
  BY DEF ShownOfVault
<1>11. /\ ShownOf(i, r) = ShownOfValidator(i, r) \cup KeysShown(i, r) \cup VaultsShown(i, r)
       /\ KeysShown(i, r)
             = UNION {UNION {ShownOfKey(i, j, key) : key \in KeyRootsAt(j, r)}
                         : j \in LocalIndices}
       /\ VaultsShown(i, r)
             = UNION {UNION {ShownOfVault(i, j, vault) : vault \in VaultRootsAt(j, r)}
                         : j \in LocalIndices}
  BY DEF ShownOf, KeysShown, VaultsShown
<1> HIDE DEF r, operators, powers, actives, tags, hashes, chains, addresses, stakes
<1>12. ShownOfValidator(i, r) = {}
  BY <1>1, <1>2, <1>3, <1>8
<1>13. ShownOf(i, r) = {}
  BY <1>6, <1>7, <1>11, <1>12
<1>14. ShownOfKey(i, k, r) = {} /\ ShownOfVault(i, k, r) = {}
  BY <1>4, <1>5, <1>9, <1>10
<1> QED BY <1>13, <1>14 DEF r

-----------------------------------------------------------------------------
(* Element by element, what can be shown is what is true.                  *)
LEMMA Places ==
    ASSUME NEW b \in Nat, NEW h \in Nat
    PROVE  /\ ListIndex(b, h) \in Nat
           /\ \A k : InList(k, b, h)
                 <=> \E j \in Nat : j < Shl(1, h) /\ k = ListIndex(b, h) + j
<1>1. ListIndex(b, h) \in Nat /\ Shl(1, h) \in Nat
  <2>1. 1 + h \in Nat /\ 1 \in Nat
    OBVIOUS
  <2>2. Shl(b, 1 + h) \in Nat
    BY <2>1, ShlNext
  <2> QED BY <2>1, <2>2, ShlNext DEF ListIndex
<1>2. PICK at \in Nat, n \in Nat : at = ListIndex(b, h) /\ n = Shl(1, h)
  BY <1>1
<1>3. ASSUME NEW k PROVE k \in at..(at + n - 1) <=> \E j \in Nat : j < n /\ k = at + j
  <2>1. ASSUME k \in at..(at + n - 1) PROVE \E j \in Nat : j < n /\ k = at + j
    <3>1. k - at \in Nat /\ k - at < n /\ k = at + (k - at)
      BY <2>1
    <3> QED BY <3>1
  <2>2. ASSUME NEW j \in Nat, j < n, k = at + j PROVE k \in at..(at + n - 1)
    BY <2>2
  <2> QED BY <2>1, <2>2
<1> QED BY <1>1, <1>2, <1>3 DEF InList

LEMMA FirstPlace ==
    ASSUME NEW i \in Nat
    PROVE  ListIndex(0, VALIDATORS_LIST_TREE_HEIGHT) + i = i
<1>1. 1 + VALIDATORS_LIST_TREE_HEIGHT \in Nat
  BY HeightsAreNat
<1>2. ListIndex(0, VALIDATORS_LIST_TREE_HEIGHT) = 0
  BY <1>1, ShlOfZero DEF ListIndex
<1> QED BY <1>2

LEMMA InFirstList ==
    ASSUME NEW i, InList(i, 0, VALIDATORS_LIST_TREE_HEIGHT)
    PROVE  i \in Nat /\ i < Shl(1, VALIDATORS_LIST_TREE_HEIGHT)
<1>1. 0 \in Nat
  OBVIOUS
<1>2. PICK j \in Nat : /\ j < Shl(1, VALIDATORS_LIST_TREE_HEIGHT)
                      /\ i = ListIndex(0, VALIDATORS_LIST_TREE_HEIGHT) + j
  BY <1>1, HeightsAreNat, Places
<1>3. i = j
  BY <1>2, FirstPlace
<1> QED BY <1>2, <1>3

KeyFact(i, v, k) ==
    <<"key", i, ListIndex(3, KEY_LIST_TREE_HEIGHT) + k - 1,
       Word(v.keys[k].tag), Word(v.keys[k].payloadHash)>>

LEMMA KeyRootsAre ==
    ASSUME NEW v \in Validator, NEW r, r = ValidatorRoot(v),
           Opening(r, <<>>) \in SszProofs, NEW k
    PROVE  /\ ~InList(k, 3, KEY_LIST_TREE_HEIGHT) => KeyRootsAt(k, r) = {}
           /\ \A j \in Nat : j < Shl(1, KEY_LIST_TREE_HEIGHT)
                               /\ k = ListIndex(3, KEY_LIST_TREE_HEIGHT) + j
                 => KeyRootsAt(k, r) = {KeyNodeAt(v, j)}
<1> DEFINE proofs == {p \in SszProofs : verifyValidatorKeyRootLocal(p, k, r)}
<1>0. KeyRootsAt(k, r) = Leaves(proofs)
  BY DEF KeyRootsAt
<1>1. \A p : p \in proofs <=> p \in SszProofs /\ verifyValidatorKeyRootLocal(p, k, r)
  OBVIOUS
<1> HIDE DEF proofs
<1>2. ASSUME ~InList(k, 3, KEY_LIST_TREE_HEIGHT) PROVE KeyRootsAt(k, r) = {}
  BY <1>0, <1>1, <1>2, NoLeaves DEF verifyValidatorKeyRootLocal
<1>3. ASSUME NEW j \in Nat, j < Shl(1, KEY_LIST_TREE_HEIGHT),
             k = ListIndex(3, KEY_LIST_TREE_HEIGHT) + j
      PROVE  KeyRootsAt(k, r) = {KeyNodeAt(v, j)}
  <2>1. Exact(r, VALIDATOR_TREE_HEIGHT + 1 + KEY_LIST_TREE_HEIGHT, k, KeyNodeAt(v, j))
    BY <1>3, ValidatorShown
  <2>2. InList(k, 3, KEY_LIST_TREE_HEIGHT)
    BY <1>3, HeightsAreNat, Places
  <2>3. \A p : p \in proofs
           <=> p \in SszProofs
               /\ processInclusionProofSha256(p, r, k,
                                              VALIDATOR_TREE_HEIGHT + 1 + KEY_LIST_TREE_HEIGHT)
    BY <1>1, <2>2 DEF verifyValidatorKeyRootLocal
  <2> QED BY <1>0, <2>1, <2>3, LeavesAre
<1> QED BY <1>2, <1>3

LEMMA KeysAre ==
    ASSUME NEW v \in Validator, NEW r, r = ValidatorRoot(v),
           Opening(r, <<>>) \in SszProofs, NEW i,
           Len(v.keys) <= Shl(1, KEY_LIST_TREE_HEIGHT),
           \A k \in 0..(Len(v.keys) - 1) :
              ListIndex(3, KEY_LIST_TREE_HEIGHT) + k \in LocalIndices
    PROVE  \A y : y \in KeysShown(i, r)
                    <=> \E m \in DOMAIN v.keys : y = KeyFact(i, v, m)
<1>0. PICK at, n, one : /\ at = ListIndex(3, KEY_LIST_TREE_HEIGHT) /\ n = Len(v.keys)
                        /\ one = Shl(1, KEY_LIST_TREE_HEIGHT)
  OBVIOUS
<1>1. at \in Nat /\ n \in Nat /\ one \in Nat /\ n <= one /\ DOMAIN v.keys = 1..n
  <2>1. 3 \in Nat /\ 1 \in Nat
    OBVIOUS
  <2> QED BY <1>0, <2>1, HeightsAreNat, Places, ShlNext, ValidatorParts
<1>2. ASSUME NEW k, NEW j \in Nat, j < one, k = at + j, NEW y
      PROVE  (\E key \in KeyRootsAt(k, r) : y \in ShownOfKey(i, k, key))
                <=> j < n /\ y = KeyFact(i, v, j + 1)
  <2>1. KeyRootsAt(k, r) = {KeyNodeAt(v, j)}
    BY <1>0, <1>2, KeyRootsAre
  <2>2. CASE j < n
    <3>1. PICK m : m = j + 1
      OBVIOUS
    <3>2. PICK key : key = KeyRoot(v.keys[m])
      OBVIOUS
    <3>3. KeyNodeAt(v, j) = key
      BY <1>0, <2>2, <3>1, <3>2 DEF KeyNodeAt
    <3>4. Exact(r, VALIDATOR_TREE_HEIGHT + 1 + KEY_LIST_TREE_HEIGHT, k, key)
      BY <1>0, <1>2, <3>3, ValidatorShown
    <3>5. Len(key) = 2
      BY <3>2, ContainersAreHashes
    <3>6. Opening(key, <<>>) \in SszProofs
      BY <3>4, <3>5, Restart
    <3>7. ShownOfKey(i, k, key)
             = {<<"key", i, k, Word(v.keys[m].tag), Word(v.keys[m].payloadHash)>>}
      BY <3>2, <3>6, KeyFields
    <3>8. at + m - 1 = k
      BY <1>1, <1>2, <3>1
    <3>9. ShownOfKey(i, k, key) = {KeyFact(i, v, m)}
      BY <1>0, <3>7, <3>8 DEF KeyFact
    <3> QED BY <2>1, <2>2, <3>1, <3>3, <3>9
  <2>3. CASE ~(j < n)
    <3>1. KeyNodeAt(v, j) = Word(0)
      BY <1>0, <2>3 DEF KeyNodeAt
    <3>2. ShownOfKey(i, k, Word(0)) = {}
      BY NothingOfPadding
    <3> QED BY <2>1, <2>3, <3>1, <3>2
  <2> QED BY <2>2, <2>3
<1>3. ASSUME NEW y, y \in KeysShown(i, r) PROVE \E m \in 1..n : y = KeyFact(i, v, m)
  <2>1. PICK k \in LocalIndices :
           \E key \in KeyRootsAt(k, r) : y \in ShownOfKey(i, k, key)
    BY <1>3 DEF KeysShown
  <2>2. InList(k, 3, KEY_LIST_TREE_HEIGHT)
    BY <2>1, KeyRootsAre
  <2>3. PICK j \in Nat : j < one /\ k = at + j
    <3>1. 3 \in Nat
      OBVIOUS
    <3> QED BY <1>0, <2>2, <3>1, HeightsAreNat, Places
  <2>4. j < n /\ y = KeyFact(i, v, j + 1)
    BY <1>2, <2>1, <2>3
  <2>5. j + 1 \in 1..n
    BY <1>1, <2>4
  <2> QED BY <2>4, <2>5
<1>4. ASSUME NEW m \in 1..n PROVE KeyFact(i, v, m) \in KeysShown(i, r)
  <2>1. PICK j \in Nat : j + 1 = m
    <3>1. m - 1 \in Nat /\ (m - 1) + 1 = m
      BY <1>1
    <3> QED BY <3>1
  <2>2. j < n /\ j < one /\ j \in 0..(n - 1)
    BY <1>1, <2>1
  <2>3. PICK k \in LocalIndices : k = at + j
    BY <1>0, <2>2
  <2>4. \E key \in KeyRootsAt(k, r) : KeyFact(i, v, m) \in ShownOfKey(i, k, key)
    BY <1>2, <2>1, <2>2, <2>3
  <2> QED BY <2>4 DEF KeysShown
<1> QED BY <1>1, <1>3, <1>4

VaultFact(i, v, k) ==
    <<"vault", i, ListIndex(4, VAULT_LIST_TREE_HEIGHT) + k - 1,
       Word(v.vaults[k].chainId), Word(v.vaults[k].vault), Word(v.vaults[k].votingPower)>>

LEMMA VaultRootsAre ==
    ASSUME NEW v \in Validator, NEW r, r = ValidatorRoot(v),
           Opening(r, <<>>) \in SszProofs, NEW k
    PROVE  /\ ~InList(k, 4, VAULT_LIST_TREE_HEIGHT) => VaultRootsAt(k, r) = {}
           /\ \A j \in Nat : j < Shl(1, VAULT_LIST_TREE_HEIGHT)
                               /\ k = ListIndex(4, VAULT_LIST_TREE_HEIGHT) + j
                 => VaultRootsAt(k, r) = {VaultNodeAt(v, j)}
<1> DEFINE proofs == {p \in SszProofs : verifyValidatorVaultRootLocal(p, k, r)}
<1>0. VaultRootsAt(k, r) = Leaves(proofs)
  BY DEF VaultRootsAt
<1>1. \A p : p \in proofs <=> p \in SszProofs /\ verifyValidatorVaultRootLocal(p, k, r)
  OBVIOUS
<1> HIDE DEF proofs
<1>2. ASSUME ~InList(k, 4, VAULT_LIST_TREE_HEIGHT) PROVE VaultRootsAt(k, r) = {}
  BY <1>0, <1>1, <1>2, NoLeaves DEF verifyValidatorVaultRootLocal
<1>3. ASSUME NEW j \in Nat, j < Shl(1, VAULT_LIST_TREE_HEIGHT),
             k = ListIndex(4, VAULT_LIST_TREE_HEIGHT) + j
      PROVE  VaultRootsAt(k, r) = {VaultNodeAt(v, j)}
  <2>1. Exact(r, VALIDATOR_TREE_HEIGHT + 1 + VAULT_LIST_TREE_HEIGHT, k, VaultNodeAt(v, j))
    BY <1>3, ValidatorShown
  <2>2. InList(k, 4, VAULT_LIST_TREE_HEIGHT)
    BY <1>3, HeightsAreNat, Places
  <2>3. \A p : p \in proofs
           <=> p \in SszProofs
               /\ processInclusionProofSha256(p, r, k,
                                              VALIDATOR_TREE_HEIGHT + 1 + VAULT_LIST_TREE_HEIGHT)
    BY <1>1, <2>2 DEF verifyValidatorVaultRootLocal
  <2> QED BY <1>0, <2>1, <2>3, LeavesAre
<1> QED BY <1>2, <1>3

LEMMA VaultsAre ==
    ASSUME NEW v \in Validator, NEW r, r = ValidatorRoot(v),
           Opening(r, <<>>) \in SszProofs, NEW i,
           Len(v.vaults) <= Shl(1, VAULT_LIST_TREE_HEIGHT),
           \A k \in 0..(Len(v.vaults) - 1) :
              ListIndex(4, VAULT_LIST_TREE_HEIGHT) + k \in LocalIndices
    PROVE  \A y : y \in VaultsShown(i, r)
                    <=> \E m \in DOMAIN v.vaults : y = VaultFact(i, v, m)
<1>0. PICK at, n, one : /\ at = ListIndex(4, VAULT_LIST_TREE_HEIGHT) /\ n = Len(v.vaults)
                        /\ one = Shl(1, VAULT_LIST_TREE_HEIGHT)
  OBVIOUS
<1>1. at \in Nat /\ n \in Nat /\ one \in Nat /\ n <= one /\ DOMAIN v.vaults = 1..n
  <2>1. 4 \in Nat /\ 1 \in Nat
    OBVIOUS
  <2> QED BY <1>0, <2>1, HeightsAreNat, Places, ShlNext, ValidatorParts
<1>2. ASSUME NEW k, NEW j \in Nat, j < one, k = at + j, NEW y
      PROVE  (\E vault \in VaultRootsAt(k, r) : y \in ShownOfVault(i, k, vault))
                <=> j < n /\ y = VaultFact(i, v, j + 1)
  <2>1. VaultRootsAt(k, r) = {VaultNodeAt(v, j)}
    BY <1>0, <1>2, VaultRootsAre
  <2>2. CASE j < n
    <3>1. PICK m : m = j + 1
      OBVIOUS
    <3>2. PICK vault : vault = VaultRoot(v.vaults[m])
      OBVIOUS
    <3>3. VaultNodeAt(v, j) = vault
      BY <1>0, <2>2, <3>1, <3>2 DEF VaultNodeAt
    <3>4. Exact(r, VALIDATOR_TREE_HEIGHT + 1 + VAULT_LIST_TREE_HEIGHT, k, vault)
      BY <1>0, <1>2, <3>3, ValidatorShown
    <3>5. Len(vault) = 2
      BY <3>2, ContainersAreHashes
    <3>6. Opening(vault, <<>>) \in SszProofs
      BY <3>4, <3>5, Restart
    <3>7. ShownOfVault(i, k, vault)
             = {<<"vault", i, k, Word(v.vaults[m].chainId), Word(v.vaults[m].vault),
                  Word(v.vaults[m].votingPower)>>}
      BY <3>2, <3>6, VaultFields
    <3>8. at + m - 1 = k
      BY <1>1, <1>2, <3>1
    <3>9. ShownOfVault(i, k, vault) = {VaultFact(i, v, m)}
      BY <1>0, <3>7, <3>8 DEF VaultFact
    <3> QED BY <2>1, <2>2, <3>1, <3>3, <3>9
  <2>3. CASE ~(j < n)
    <3>1. VaultNodeAt(v, j) = Word(0)
      BY <1>0, <2>3 DEF VaultNodeAt
    <3>2. ShownOfVault(i, k, Word(0)) = {}
      BY NothingOfPadding
    <3> QED BY <2>1, <2>3, <3>1, <3>2
  <2> QED BY <2>2, <2>3
<1>3. ASSUME NEW y, y \in VaultsShown(i, r) PROVE \E m \in 1..n : y = VaultFact(i, v, m)
  <2>1. PICK k \in LocalIndices :
           \E vault \in VaultRootsAt(k, r) : y \in ShownOfVault(i, k, vault)
    BY <1>3 DEF VaultsShown
  <2>2. InList(k, 4, VAULT_LIST_TREE_HEIGHT)
    BY <2>1, VaultRootsAre
  <2>3. PICK j \in Nat : j < one /\ k = at + j
    <3>1. 4 \in Nat
      OBVIOUS
    <3> QED BY <1>0, <2>2, <3>1, HeightsAreNat, Places
  <2>4. j < n /\ y = VaultFact(i, v, j + 1)
    BY <1>2, <2>1, <2>3
  <2>5. j + 1 \in 1..n
    BY <1>1, <2>4
  <2> QED BY <2>4, <2>5
<1>4. ASSUME NEW m \in 1..n PROVE VaultFact(i, v, m) \in VaultsShown(i, r)
  <2>1. PICK j \in Nat : j + 1 = m
    <3>1. m - 1 \in Nat /\ (m - 1) + 1 = m
      BY <1>1
    <3> QED BY <3>1
  <2>2. j < n /\ j < one /\ j \in 0..(n - 1)
    BY <1>1, <2>1
  <2>3. PICK k \in LocalIndices : k = at + j
    BY <1>0, <2>2
  <2>4. \E vault \in VaultRootsAt(k, r) : VaultFact(i, v, m) \in ShownOfVault(i, k, vault)
    BY <1>2, <2>1, <2>2, <2>3
  <2> QED BY <2>4 DEF VaultsShown
<1> QED BY <1>1, <1>3, <1>4

LEMMA ValidatorIsShown ==
    ASSUME NEW v \in Validator, NEW r, r = ValidatorRoot(v),
           Opening(r, <<>>) \in SszProofs, NEW i,
           Len(v.keys) <= Shl(1, KEY_LIST_TREE_HEIGHT),
           Len(v.vaults) <= Shl(1, VAULT_LIST_TREE_HEIGHT),
           \A k \in 0..(Len(v.keys) - 1) :
              ListIndex(3, KEY_LIST_TREE_HEIGHT) + k \in LocalIndices,
           \A k \in 0..(Len(v.vaults) - 1) :
              ListIndex(4, VAULT_LIST_TREE_HEIGHT) + k \in LocalIndices
    PROVE  ShownOf(i, r) = FactsOf(i, v)
<1> DEFINE keyFacts == {KeyFact(i, v, k) : k \in DOMAIN v.keys}
           vaultFacts == {VaultFact(i, v, k) : k \in DOMAIN v.vaults}
           fields == {<<"operator", i, Word(v.operator)>>,
                      <<"votingPower", i, Word(v.votingPower)>>,
                      <<"isActive", i, Word(v.isActive)>>}
<1>1. ShownOf(i, r) = ShownOfValidator(i, r) \cup KeysShown(i, r) \cup VaultsShown(i, r)
  BY DEF ShownOf
<1>2. FactsOf(i, v) = fields \cup keyFacts \cup vaultFacts
  BY DEF FactsOf, KeyFact, VaultFact
<1>3. \A y : y \in keyFacts <=> \E k \in DOMAIN v.keys : y = KeyFact(i, v, k)
  OBVIOUS
<1>4. \A y : y \in vaultFacts <=> \E k \in DOMAIN v.vaults : y = VaultFact(i, v, k)
  OBVIOUS
<1>5. \A y : y \in KeysShown(i, r) <=> \E k \in DOMAIN v.keys : y = KeyFact(i, v, k)
  BY KeysAre
<1>6. \A y : y \in VaultsShown(i, r)
             <=> \E k \in DOMAIN v.vaults : y = VaultFact(i, v, k)
  BY VaultsAre
<1>7. ShownOfValidator(i, r) = fields
  BY ValidatorFields
<1> HIDE DEF fields, keyFacts, vaultFacts
<1>8. KeysShown(i, r) = keyFacts
  BY <1>3, <1>5
<1>9. VaultsShown(i, r) = vaultFacts
  BY <1>4, <1>6
<1> QED BY <1>1, <1>2, <1>7, <1>8, <1>9

LEMMA RootsAre ==
    ASSUME NEW set \in ValSets, NEW r, r = validatorsSszMRoot(set), NEW i
    PROVE  /\ ~InList(i, 0, VALIDATORS_LIST_TREE_HEIGHT) => RootsAt(i, r) = {}
           /\ i \in Nat /\ i < Shl(1, VALIDATORS_LIST_TREE_HEIGHT)
                 => RootsAt(i, r) = {ValidatorNodeAt(set, i)}
<1> DEFINE proofs == {p \in SszProofs : verifyValidatorRootLocal(p, i, r)}
           h == VALIDATORS_LIST_TREE_HEIGHT
<1>0. RootsAt(i, r) = Leaves(proofs)
  BY DEF RootsAt
<1>1. \A p : p \in proofs <=> p \in SszProofs /\ verifyValidatorRootLocal(p, i, r)
  OBVIOUS
<1> HIDE DEF proofs
<1>2. ASSUME ~InList(i, 0, h) PROVE RootsAt(i, r) = {}
  BY <1>0, <1>1, <1>2, NoLeaves DEF verifyValidatorRootLocal
<1>3. ASSUME i \in Nat, i < Shl(1, h) PROVE RootsAt(i, r) = {ValidatorNodeAt(set, i)}
  <2>1. ListIndex(0, h) + i = i
    BY <1>3, FirstPlace
  <2>2. Exact(r, 1 + h, i, ValidatorNodeAt(set, i))
    BY <1>3, <2>1, SetShown
  <2>3. InList(i, 0, h)
    <3>1. 0 \in Nat
      OBVIOUS
    <3>2. \E j \in Nat : j < Shl(1, h) /\ i = ListIndex(0, h) + j
      BY <1>3, <2>1
    <3> QED BY <3>1, <3>2, HeightsAreNat, Places
  <2>4. \A p : p \in proofs
           <=> p \in SszProofs /\ processInclusionProofSha256(p, r, i, 1 + h)
    BY <1>1, <2>3 DEF verifyValidatorRootLocal
  <2> QED BY <1>0, <2>2, <2>4, LeavesAre
<1> QED BY <1>2, <1>3

LEMMA SetIsShown ==
    ASSUME NEW set \in ValSets
    PROVE  Shown(validatorsSszMRoot(set)) = Facts(set)
<1>0. PICK r, one, n : /\ r = validatorsSszMRoot(set) /\ n = Len(set)
                       /\ one = Shl(1, VALIDATORS_LIST_TREE_HEIGHT)
  OBVIOUS
<1>1. /\ n \in Nat /\ one \in Nat /\ n <= one /\ DOMAIN set = 1..n
      /\ \A i \in 0..(n - 1) : i \in LocalIndices
  <2>1. 1 \in Nat
    OBVIOUS
  <2>2. 0..(n - 1) \subseteq LocalIndices /\ n <= one
    BY <1>0, ValSetsAssumption
  <2> QED BY <1>0, <2>1, <2>2, HeightsAreNat, SetShown, ShlNext
<1>2. ASSUME NEW i \in Nat, i < one, NEW y
      PROVE  (\E root \in RootsAt(i, r) : y \in ShownOf(i, root))
                <=> i < n /\ y \in FactsOf(i, set[i + 1])
  <2>1. RootsAt(i, r) = {ValidatorNodeAt(set, i)}
    BY <1>0, <1>2, RootsAre
  <2>2. CASE i < n
    <3>1. PICK m : m = i + 1
      OBVIOUS
    <3>2. m \in 1..n
      BY <1>1, <2>2, <3>1
    <3>3. PICK v \in Validator : \E root : v = set[m] /\ root = ValidatorRoot(v)
      BY <1>0, <3>2, SetShown
    <3>4. PICK root : v = set[m] /\ root = ValidatorRoot(v)
      BY <3>3
    <3>5. ValidatorNodeAt(set, i) = root
      BY <1>0, <2>2, <3>1, <3>4 DEF ValidatorNodeAt
    <3>6. Exact(r, 1 + VALIDATORS_LIST_TREE_HEIGHT, i, root)
      <4>1. ListIndex(0, VALIDATORS_LIST_TREE_HEIGHT) + i = i
        BY FirstPlace
      <4> QED BY <1>0, <1>2, <3>5, <4>1, SetShown
    <3>7. Opening(root, <<>>) \in SszProofs
      <4>1. Len(root) = 2
        BY <3>4, ContainersAreHashes
      <4> QED BY <3>6, <4>1, Restart
    <3>8. /\ Len(v.keys) <= Shl(1, KEY_LIST_TREE_HEIGHT)
          /\ Len(v.vaults) <= Shl(1, VAULT_LIST_TREE_HEIGHT)
          /\ \A k \in 0..(Len(v.keys) - 1) :
                ListIndex(3, KEY_LIST_TREE_HEIGHT) + k \in LocalIndices
          /\ \A k \in 0..(Len(v.vaults) - 1) :
                ListIndex(4, VAULT_LIST_TREE_HEIGHT) + k \in LocalIndices
      <4>1. m \in 1..Len(set)
        BY <1>0, <3>2
      <4> QED BY <3>4, <4>1, ValSetsAssumption
    <3>9. ShownOf(i, root) = FactsOf(i, v)
      BY <3>4, <3>7, <3>8, ValidatorIsShown
    <3> QED BY <2>1, <2>2, <3>1, <3>4, <3>5, <3>9
  <2>3. CASE ~(i < n)
    <3>1. ValidatorNodeAt(set, i) = Word(0)
      BY <1>0, <2>3 DEF ValidatorNodeAt
    <3>2. ShownOf(i, Word(0)) = {}
      BY NothingOfPadding
    <3> QED BY <2>1, <2>3, <3>1, <3>2
  <2> QED BY <2>2, <2>3
<1>3. ASSUME NEW y
      PROVE  y \in Shown(r) <=> \E i \in LocalIndices : \E root \in RootsAt(i, r) :
                                    y \in ShownOf(i, root)
  <2>1. Shown(r) = UNION {UNION {ShownOf(i, root) : root \in RootsAt(i, r)}
                            : i \in LocalIndices}
    BY DEF Shown
  <2> QED BY <2>1
<1>4. ASSUME NEW y PROVE y \in Facts(set) <=> \E m \in 1..n : y \in FactsOf(m - 1, set[m])
  BY <1>1 DEF Facts
<1>5. ASSUME NEW y, y \in Shown(r) PROVE y \in Facts(set)
  <2>1. PICK i \in LocalIndices : \E root \in RootsAt(i, r) : y \in ShownOf(i, root)
    BY <1>3, <1>5
  <2>2. InList(i, 0, VALIDATORS_LIST_TREE_HEIGHT)
    BY <1>0, <2>1, RootsAre
  <2>3. i \in Nat /\ i < one
    BY <1>0, <2>2, InFirstList
  <2>4. i < n /\ y \in FactsOf(i, set[i + 1])
    BY <1>2, <2>1, <2>3
  <2>5. PICK m : m = i + 1
    OBVIOUS
  <2>6. m \in 1..n /\ m - 1 = i
    BY <1>1, <2>3, <2>4, <2>5
  <2> QED BY <1>4, <2>4, <2>5, <2>6
<1>6. ASSUME NEW y, y \in Facts(set) PROVE y \in Shown(r)
  <2>1. PICK m \in 1..n : y \in FactsOf(m - 1, set[m])
    BY <1>4, <1>6
  <2>2. PICK i \in Nat : i = m - 1
    BY <1>1
  <2>3. i + 1 = m /\ i < n /\ i < one /\ i \in LocalIndices
    BY <1>1, <2>2
  <2>4. y \in FactsOf(i, set[i + 1])
    BY <2>1, <2>2, <2>3
  <2>5. \E root \in RootsAt(i, r) : y \in ShownOf(i, root)
    BY <1>2, <2>3, <2>4
  <2> QED BY <1>3, <2>3, <2>5
<1> QED BY <1>0, <1>5, <1>6

-----------------------------------------------------------------------------
(* The structures side by side: a step of one leaves the others alone.      *)

LEMMA TraceMoves == StructuresSpec => Spec
<1>1. StructuresInit => Init
  BY DEF StructuresInit
<1>2. [StructuresNext]_<<trace, values, elements, statuses, length, validatorSet>>
        => [Next]_vars
  BY DEF StructuresNext, DeriveValidatorSet, vars
<1> QED BY <1>1, <1>2, PTL DEF StructuresSpec, Spec

LEMMA SetMoves == StructuresSpec => Set!Spec
<1>1. StructuresInit => Set!Init
  BY DEF StructuresInit
<1>2. [StructuresNext]_<<trace, values, elements, statuses, length, validatorSet>>
        => [Set!Next]_Set!vars
  BY DEF StructuresNext, DeriveValidatorSet, Set!vars
<1> QED BY <1>1, <1>2, PTL DEF StructuresSpec, Set!Spec

(* Pointers are positions and slots past the end are clear; the elements   *)
(* of a set are those ever added, and their traces begin after that.       *)
THEOREM WellFormedHolds == StructuresSpec => []StructuresWellFormed
<1>1. IInv /\ SetInv => StructuresWellFormed
  BY SetShape DEF IInv, StructuresWellFormed
<1> QED BY <1>1, TraceMoves, SetMoves, InvariantHolds, SetInvariantHolds, PTL

(* The search of the library, hinted or not, finds what OpenZeppelin's     *)
(* lookup reads, however long the trace; the views of a set and its        *)
(* counter tell of one set.                                                *)
THEOREM QueriesHold == StructuresSpec => []QueriesAgree
<1>1. IInv /\ SetInv => QueriesAgree
  BY LookupsFollow, SetReadsAgree DEF QueriesAgree
<1> QED BY <1>1, TraceMoves, SetMoves, InvariantHolds, SetInvariantHolds, PTL

(* A set remembers: an add or a removal decides membership from its key    *)
(* on and leaves what containsAt answered below it.                        *)
THEOREM ImplementsHistorySetHolds == StructuresSpec => ImplementsHistorySet
<1>1. Set!Init => Set!History!Init
  BY DEF Set!Init, Set!History!Init, Set!containsAt
<1>2. SetInv /\ [Set!Next]_Set!vars
        => [Set!History!Next]_<<MemberAt, LastChanges, length>>
  <2> SUFFICES ASSUME SetInv, [Set!Next]_Set!vars
               PROVE  [Set!History!Next]_<<MemberAt, LastChanges, length>>
    OBVIOUS
  <2>1. CASE Set!Next
    BY <2>1, SetNextSteps, SetStepRefines
  <2>2. CASE UNCHANGED Set!vars
    BY <2>2 DEF Set!vars, MemberAt, LastChanges, Set!containsAt
  <2> QED BY <2>1, <2>2
<1>3. Set!Spec => [][Set!History!Next]_<<MemberAt, LastChanges, length>>
  BY <1>2, SetInvariantHolds, PTL DEF Set!Spec
<1>4. <<MemberAt, LastChanges, length>> = Set!History!vars
  BY DEF Set!History!vars, MemberAt, LastChanges
<1> QED BY <1>1, <1>3, SetMoves, PTL DEF Set!Spec, Set!History!Spec,
           Set!History!vars, MemberAt, LastChanges, Set!ImplementsHistorySet,
           ImplementsHistorySet

(* Whatever proofs and indices a caller sends, what the library accepts    *)
(* against the root of the last header is true of its validator set, and   *)
(* all that is true of it can be shown (ValSetVerifier.sol:181-590).       *)
THEOREM ProofsAreExactHolds == StructuresSpec => []ProofsAreExact
<1> DEFINE TheSet == validatorSet \in ValSets
<1>1. StructuresInit => TheSet
  BY DEF StructuresInit, ValSetInit
<1>2. TheSet /\ [StructuresNext]_<<trace, values, elements, statuses, length, validatorSet>>
         => TheSet'
  BY DEF StructuresNext, DeriveValidatorSet
<1>3. TheSet => ProofsAreExact
  BY SetIsShown DEF ProofsAreExact, ShownExactly
<1> QED BY <1>1, <1>2, <1>3, PTL DEF StructuresSpec
=============================================================================
