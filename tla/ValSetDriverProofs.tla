-------------------------- MODULE ValSetDriverProofs --------------------------
(***************************************************************************)
(* EpochManager keeps one sound schedule, answers from it and implements   *)
(* EpochClock, and the driver that inherits it keeps one element per chain *)
(* or key tag and never changes what an epoch started with, for every set  *)
(* of durations, every width of the timestamps, every bound on time and    *)
(* all inputs.                                                             *)
(*                                                                         *)
(* The schedule is inductive together with the types.  A change is always  *)
(* recorded at the next boundary of the change in force; it either lies    *)
(* after the last checkpoint, and is appended to both traces, or falls on  *)
(* it exactly, and replaces it in both.  That there is no third case is    *)
(* arithmetic about the boundaries (NextBoundary).                         *)
(*                                                                         *)
(* The searches follow from the schedule: it cuts time and epochs into the *)
(* same parts, one for each change (InPart, EpochInPart), and within a     *)
(* part both searches do the same arithmetic.  The refinement rests on     *)
(* the starts increasing and on the next epoch being the only one that is  *)
(* bounded by now from both sides (NextFacts).                             *)
(*                                                                         *)
(* For the driver the invariant (DriverInv) adds that every set ever       *)
(* recorded holds elements of different groups, which packing keeps apart  *)
(* (PackedElement), and that a flag is set exactly when the latest set has *)
(* its group.  What a later search sees of an earlier time follows from    *)
(* what a push leaves alone (LookupAfterPush).                             *)
(***************************************************************************)
EXTENDS ValSetDriver, CheckpointsProofs

(* Where a boundary of a schedule lies: a boundary after `time` that is no *)
(* later than the first one after `time` is the first one.                 *)
LEMMA NextBoundary ==
    ASSUME NEW d \in Nat \ {0}, NEW start \in Nat, NEW time \in Nat,
           start <= time, NEW k \in Nat,
           time < start + k * d,
           start + k * d <= start + ((time - start) \div d + 1) * d
    PROVE  k = (time - start) \div d + 1
<1> DEFINE a == time - start
           q == a \div d
<1>1. a \in Nat
  OBVIOUS
<1>2. q \in Nat /\ q * d <= a
  BY <1>1, DivBounds
<1> HIDE DEF q
<1>3. k * d \in Int /\ q * d \in Int /\ (q + 1) * d \in Int
  BY <1>2, SMT
<1>4. q * d < k * d
  BY <1>2, <1>3
<1>5. q < k
  BY <1>2, <1>4, TimesOrder
<1>6. k * d <= (q + 1) * d
  BY <1>3 DEF q
<1>7. k <= q + 1
  BY <1>2, <1>6, TimesOrder
<1> QED
  BY <1>2, <1>5, <1>7 DEF q

-----------------------------------------------------------------------------
(* A push onto a trace, at an equal key and at a larger one.               *)
LEMMA PushReplaces ==
    ASSUME NEW T, NEW trace \in Seq(T), trace # <<>>, NEW key, NEW value,
           LastKey(trace) = key, Checkpoint(key, value) \in T
    PROVE  /\ Push(trace, key, value) \in Seq(T)
           /\ Len(Push(trace, key, value)) = Len(trace)
           /\ Push(trace, key, value)[Len(trace)] = Checkpoint(key, value)
           /\ \A i \in 1..(Len(trace) - 1) :
                 Push(trace, key, value)[i] = trace[i]
BY DEF Push

LEMMA PushAppends ==
    ASSUME NEW T, NEW trace \in Seq(T), trace # <<>>, NEW key, NEW value,
           LastKey(trace) # key, Checkpoint(key, value) \in T
    PROVE  /\ Push(trace, key, value) \in Seq(T)
           /\ Len(Push(trace, key, value)) = Len(trace) + 1
           /\ Push(trace, key, value)[Len(trace) + 1] = Checkpoint(key, value)
           /\ \A i \in 1..Len(trace) : Push(trace, key, value)[i] = trace[i]
BY DEF Push

-----------------------------------------------------------------------------
(* The inductive invariant.                                                *)
IInv == EpochTypeOK /\ ScheduleOK

LEMMA DatumType ==
    ASSUME NEW d \in Durations, NEW s \in 0..MaxUint48, NEW x \in 0..MaxUint48
    PROVE  /\ Datum(d, s, x) \in Data
           /\ Checkpoint(s, Datum(d, s, x))
                 \in [key : 0..MaxUint48, value : Data]
           /\ Checkpoint(x, Datum(d, s, x))
                 \in [key : 0..MaxUint48, value : Data]
BY DEF Datum, Data, Checkpoint

(* What the invariant says of the checkpoints, one by one.                 *)
LEMMA Entries ==
    ASSUME IInv
    PROVE  /\ Len(byTimestamp) \in Nat \ {0} /\ Len(byIndex) = Len(byTimestamp)
           /\ byTimestamp # <<>> /\ byIndex # <<>>
           /\ \A i \in 1..Len(byTimestamp) :
                 /\ byTimestamp[i].value \in Data
                 /\ byIndex[i].value = byTimestamp[i].value
                 /\ byTimestamp[i].key = byTimestamp[i].value.timestamp
                 /\ byIndex[i].key = byTimestamp[i].value.index
                 /\ byTimestamp[i].value.timestamp \in Nat
                 /\ byTimestamp[i].value.index \in Nat
                 /\ byTimestamp[i].value.duration \in Nat \ {0}
<1>1. /\ byTimestamp \in Trace /\ byIndex \in Trace
      /\ byTimestamp # <<>> /\ Len(byTimestamp) = Len(byIndex)
  BY DEF IInv, EpochTypeOK, ScheduleOK, TracesAgree
<1>2. Len(byTimestamp) \in Nat \ {0} /\ byIndex # <<>>
  BY <1>1 DEF Trace
<1>3. ASSUME NEW i \in 1..Len(byTimestamp)
      PROVE  /\ byTimestamp[i].value \in Data
             /\ byIndex[i].value = byTimestamp[i].value
             /\ byTimestamp[i].key = byTimestamp[i].value.timestamp
             /\ byIndex[i].key = byTimestamp[i].value.index
  <2> DEFINE T == [key : 0..MaxUint48, value : Data]
  <2>1. byTimestamp \in Seq(T)
    BY <1>1 DEF Trace
  <2> HIDE DEF T
  <2>2. byTimestamp[i] \in T
    BY <2>1
  <2>3. byTimestamp[i].value \in Data
    BY <2>2 DEF T
  <2> QED
    BY <2>3 DEF IInv, ScheduleOK, TracesAgree
<1>4. ASSUME NEW data \in Data
      PROVE  /\ data.timestamp \in Nat /\ data.index \in Nat
             /\ data.duration \in Nat \ {0}
  <2>1. /\ data.duration \in Durations /\ data.timestamp \in 0..MaxUint48
        /\ data.index \in 0..MaxUint48
    BY DEF Data
  <2>2. \A duration \in Durations : duration \in Nat \ {0}
    BY EpochAssumption
  <2>3. \A number \in 0..MaxUint48 : number \in Nat
    BY EpochAssumption
  <2> QED
    BY <2>1, <2>2, <2>3, Zenon
<1> QED
  BY <1>1, <1>2, <1>3, <1>4

(* Recording a change at the keys of the last one replaces it in both      *)
(* traces, and moves no boundary.                                          *)
LEMMA ReplaceLast ==
    ASSUME IInv, NEW d \in Durations, NEW s \in 0..MaxUint48,
           NEW x \in 0..MaxUint48,
           s = LastKey(byTimestamp), x = LastKey(byIndex),
           SetEpochDuration(d, s, x), now' = now
    PROVE  IInv'
<1> DEFINE n == Len(byTimestamp)
           e == Datum(d, s, x)
           T == [key : 0..MaxUint48, value : Data]
<1>1. /\ n \in Nat \ {0} /\ Len(byIndex) = n
      /\ byTimestamp # <<>> /\ byIndex # <<>>
  BY Entries
<1>2. byTimestamp \in Trace /\ byIndex \in Trace /\ now \in 0..MaxTime
  BY DEF IInv, EpochTypeOK
<1>3. /\ byTimestamp' \in Trace /\ Len(byTimestamp') = n
      /\ byTimestamp'[n] = Checkpoint(s, e)
      /\ \A i \in 1..(n - 1) : byTimestamp'[i] = byTimestamp[i]
  <2>1. byTimestamp' = Push(byTimestamp, s, e)
    BY DEF SetEpochDuration
  <2>2. byTimestamp \in Seq(T) /\ Checkpoint(s, e) \in T
    BY <1>2, DatumType DEF Trace
  <2> HIDE DEF e, T
  <2>3. /\ Push(byTimestamp, s, e) \in Seq(T)
        /\ Len(Push(byTimestamp, s, e)) = Len(byTimestamp)
        /\ Push(byTimestamp, s, e)[Len(byTimestamp)] = Checkpoint(s, e)
        /\ \A i \in 1..(Len(byTimestamp) - 1) :
              Push(byTimestamp, s, e)[i] = byTimestamp[i]
    BY <1>1, <2>2, PushReplaces
  <2> QED
    BY <1>1, <2>1, <2>3 DEF T, Trace
<1>4. /\ byIndex' \in Trace /\ Len(byIndex') = n
      /\ byIndex'[n] = Checkpoint(x, e)
      /\ \A i \in 1..(n - 1) : byIndex'[i] = byIndex[i]
  <2>1. byIndex' = Push(byIndex, x, e)
    BY DEF SetEpochDuration
  <2>2. byIndex \in Seq(T) /\ Checkpoint(x, e) \in T
    BY <1>2, DatumType DEF Trace
  <2> HIDE DEF e, T
  <2>3. /\ Push(byIndex, x, e) \in Seq(T)
        /\ Len(Push(byIndex, x, e)) = Len(byIndex)
        /\ Push(byIndex, x, e)[Len(byIndex)] = Checkpoint(x, e)
        /\ \A i \in 1..(Len(byIndex) - 1) :
              Push(byIndex, x, e)[i] = byIndex[i]
    BY <1>1, <2>2, PushReplaces
  <2> QED
    BY <1>1, <2>1, <2>3 DEF T, Trace
<1>5. /\ byTimestamp'[n].value.timestamp = byTimestamp[n].value.timestamp
      /\ byTimestamp'[n].value.index = byTimestamp[n].value.index
  BY <1>1, <1>3, Entries DEF Checkpoint, Datum, LastKey
<1>6. EpochTypeOK'
  BY <1>2, <1>3, <1>4 DEF EpochTypeOK, Trace, Data
<1>7. TracesAgree'
  <2>1. ASSUME NEW i \in 1..n
        PROVE  /\ byTimestamp'[i].value = byIndex'[i].value
               /\ byTimestamp'[i].key = byTimestamp'[i].value.timestamp
               /\ byIndex'[i].key = byIndex'[i].value.index
    <3>1. CASE i = n
      BY <1>3, <1>4, <3>1 DEF Checkpoint, Datum
    <3>2. CASE i # n
      <4>1. i \in 1..(n - 1)
        BY <1>1, <3>2
      <4> QED
        BY <1>1, <1>3, <1>4, <4>1, Entries
    <3> QED
      BY <3>1, <3>2
  <2> QED
    BY <1>1, <1>3, <1>4, <2>1 DEF TracesAgree
<1>8. Contiguous'
  <2>1. byTimestamp'[1].value.index = 0
    <3>1. byTimestamp[1].value.index = 0
      BY DEF IInv, ScheduleOK, Contiguous, first
    <3> QED
      BY <1>1, <1>3, <1>5, <3>1
  <2>2. ASSUME NEW i \in 1..(n - 1)
        PROVE  LET this == byTimestamp'[i].value
                   that == byTimestamp'[i + 1].value
               IN  /\ this.index < that.index
                   /\ this.timestamp < that.timestamp
                   /\ that.timestamp = this.timestamp
                        + (that.index - this.index) * this.duration
    <3>1. byTimestamp'[i] = byTimestamp[i]
      BY <1>3
    <3>2. /\ byTimestamp'[i + 1].value.index = byTimestamp[i + 1].value.index
          /\ byTimestamp'[i + 1].value.timestamp
                = byTimestamp[i + 1].value.timestamp
      <4>1. i + 1 = n \/ i + 1 \in 1..(n - 1)
        BY <1>1
      <4> QED
        BY <1>3, <1>5, <4>1
    <3> QED
      BY <3>1, <3>2 DEF IInv, ScheduleOK, Contiguous
  <2> QED
    BY <1>3, <2>1, <2>2 DEF Contiguous, first
<1>9. OneFutureChange'
  BY <1>3 DEF IInv, ScheduleOK, OneFutureChange
<1>10. FutureIsNext'
  <2>1. SUFFICES ASSUME n > 1
                 PROVE  byTimestamp'[n].key
                          <= now + byTimestamp'[n - 1].value.duration
    BY <1>3 DEF FutureIsNext, LastKey
  <2>2. n - 1 \in 1..(n - 1) /\ byTimestamp'[n - 1] = byTimestamp[n - 1]
    BY <1>1, <1>3, <2>1
  <2>3. byTimestamp'[n].key = byTimestamp[n].key
    BY <1>3 DEF Checkpoint, LastKey
  <2>4. byTimestamp[n].key <= now + byTimestamp[n - 1].value.duration
    BY <2>1 DEF IInv, ScheduleOK, FutureIsNext, LastKey
  <2> QED
    BY <2>2, <2>3, <2>4
<1> QED
  BY <1>6, <1>7, <1>8, <1>9, <1>10 DEF IInv, ScheduleOK

(* Recording a change at a later boundary of the last one, once that one   *)
(* has begun, extends both traces.                                         *)
LEMMA AppendNext ==
    ASSUME IInv, NEW d \in Durations, NEW s \in 0..MaxUint48,
           NEW x \in 0..MaxUint48,
           NEW last \in Data, last = byTimestamp[Len(byTimestamp)].value,
           last.timestamp < s, last.index < x,
           s = last.timestamp + (x - last.index) * last.duration,
           last.timestamp <= now, s <= now + last.duration,
           SetEpochDuration(d, s, x), now' = now
    PROVE  IInv'
<1> DEFINE n == Len(byTimestamp)
           e == Datum(d, s, x)
           T == [key : 0..MaxUint48, value : Data]
<1>1. /\ n \in Nat \ {0} /\ Len(byIndex) = n
      /\ byTimestamp # <<>> /\ byIndex # <<>>
  BY Entries
<1>2. byTimestamp \in Trace /\ byIndex \in Trace /\ now \in 0..MaxTime
  BY DEF IInv, EpochTypeOK
<1>3. LastKey(byTimestamp) = last.timestamp /\ LastKey(byIndex) = last.index
  BY <1>1, Entries DEF LastKey
<1>4. LastKey(byTimestamp) # s /\ LastKey(byIndex) # x
  BY <1>3, EpochAssumption DEF Data
<1>5. /\ byTimestamp' \in Trace /\ Len(byTimestamp') = n + 1
      /\ byTimestamp'[n + 1] = Checkpoint(s, e)
      /\ \A i \in 1..n : byTimestamp'[i] = byTimestamp[i]
  <2>1. byTimestamp' = Push(byTimestamp, s, e)
    BY DEF SetEpochDuration
  <2>2. byTimestamp \in Seq(T) /\ Checkpoint(s, e) \in T
    BY <1>2, DatumType DEF Trace
  <2> HIDE DEF e, T
  <2>3. /\ Push(byTimestamp, s, e) \in Seq(T)
        /\ Len(Push(byTimestamp, s, e)) = Len(byTimestamp) + 1
        /\ Push(byTimestamp, s, e)[Len(byTimestamp) + 1] = Checkpoint(s, e)
        /\ \A i \in 1..Len(byTimestamp) :
              Push(byTimestamp, s, e)[i] = byTimestamp[i]
    BY <1>1, <1>4, <2>2, PushAppends
  <2> QED
    BY <1>1, <2>1, <2>3 DEF T, Trace
<1>6. /\ byIndex' \in Trace /\ Len(byIndex') = n + 1
      /\ byIndex'[n + 1] = Checkpoint(x, e)
      /\ \A i \in 1..n : byIndex'[i] = byIndex[i]
  <2>1. byIndex' = Push(byIndex, x, e)
    BY DEF SetEpochDuration
  <2>2. byIndex \in Seq(T) /\ Checkpoint(x, e) \in T
    BY <1>2, DatumType DEF Trace
  <2> HIDE DEF e, T
  <2>3. /\ Push(byIndex, x, e) \in Seq(T)
        /\ Len(Push(byIndex, x, e)) = Len(byIndex) + 1
        /\ Push(byIndex, x, e)[Len(byIndex) + 1] = Checkpoint(x, e)
        /\ \A i \in 1..Len(byIndex) :
              Push(byIndex, x, e)[i] = byIndex[i]
    BY <1>1, <1>4, <2>2, PushAppends
  <2> QED
    BY <1>1, <2>1, <2>3 DEF T, Trace
<1>7. EpochTypeOK'
  BY <1>2, <1>5, <1>6 DEF EpochTypeOK, Trace, Data
<1>8. TracesAgree'
  <2>1. ASSUME NEW i \in 1..(n + 1)
        PROVE  /\ byTimestamp'[i].value = byIndex'[i].value
               /\ byTimestamp'[i].key = byTimestamp'[i].value.timestamp
               /\ byIndex'[i].key = byIndex'[i].value.index
    <3>1. CASE i = n + 1
      BY <1>5, <1>6, <3>1 DEF Checkpoint, Datum
    <3>2. CASE i # n + 1
      <4>1. i \in 1..n
        BY <1>1, <3>2
      <4> QED
        BY <1>5, <1>6, <4>1, Entries
    <3> QED
      BY <3>1, <3>2
  <2> QED
    BY <1>1, <1>5, <1>6, <2>1 DEF TracesAgree, Trace
<1>9. Contiguous'
  <2>1. byTimestamp'[1].value.index = 0
    BY <1>1, <1>5 DEF IInv, ScheduleOK, Contiguous, first
  <2>2. ASSUME NEW i \in 1..n
        PROVE  LET this == byTimestamp'[i].value
                   that == byTimestamp'[i + 1].value
               IN  /\ this.index < that.index
                   /\ this.timestamp < that.timestamp
                   /\ that.timestamp = this.timestamp
                        + (that.index - this.index) * this.duration
    <3>1. CASE i = n
      BY <1>5, <3>1 DEF Checkpoint, Datum
    <3>2. CASE i # n
      <4>1. i \in 1..(n - 1) /\ i + 1 \in 1..n
        BY <1>1, <3>2
      <4> QED
        BY <1>5, <4>1 DEF IInv, ScheduleOK, Contiguous
    <3> QED
      BY <3>1, <3>2
  <2> QED
    BY <1>1, <1>5, <2>1, <2>2 DEF Contiguous, first
<1>10. OneFutureChange'
  <2>1. ASSUME NEW i \in 1..n PROVE byTimestamp'[i].key <= now'
    <3>1. CASE i = n
      BY <1>5, <3>1, Entries
    <3>2. CASE i # n
      <4>1. i \in 1..(n - 1)
        BY <1>1, <3>2
      <4> QED
        BY <1>5, <4>1 DEF IInv, ScheduleOK, OneFutureChange
    <3> QED
      BY <3>1, <3>2
  <2> QED
    BY <1>1, <1>5, <2>1 DEF OneFutureChange
<1>11. FutureIsNext'
  BY <1>1, <1>5 DEF FutureIsNext, LastKey, Checkpoint
<1> QED
  BY <1>7, <1>8, <1>9, <1>10, <1>11 DEF IInv, ScheduleOK

-----------------------------------------------------------------------------
LEMMA MoreThanOne ==
    ASSUME NEW n \in Nat \ {0}, n # 1
    PROVE  1 \in 1..(n - 1) /\ n - 1 \in 1..(n - 1) /\ n - 1 \in 1..n
OBVIOUS

(* Which change is in force: the last one, or the one before it while the  *)
(* last lies ahead.                                                        *)
LEMMA InForce ==
    ASSUME IInv, ~BeforeFirst
    PROVE  LET n == Len(byTimestamp)
           IN  \/ /\ byTimestamp[n].value.timestamp <= now
                  /\ current = byTimestamp[n].value
               \/ /\ n - 1 \in 1..n
                  /\ byTimestamp[n].value.timestamp > now
                  /\ current = byTimestamp[n - 1].value
                  /\ byTimestamp[n - 1].value.timestamp <= now
<1> DEFINE n == Len(byTimestamp)
<1>1. n \in Nat \ {0} /\ LastKey(byTimestamp) = byTimestamp[n].value.timestamp
  BY Entries DEF LastKey
<1>2. now \in Nat
  BY EpochAssumption DEF IInv, EpochTypeOK
<1>3. CASE LastKey(byTimestamp) <= now
  BY <1>1, <1>3 DEF current, CurrentValue
<1>4. CASE ~(LastKey(byTimestamp) <= now)
  <2>1. byTimestamp[n].value.timestamp \in Nat
    BY <1>1, Entries
  <2>2. byTimestamp[n].value.timestamp > now
    BY <1>1, <1>2, <1>4, <2>1
  <2>3. n # 1
    <3>1. byTimestamp[1].value.timestamp \in Nat
      BY <1>1, Entries
    <3> QED
      BY <1>2, <2>2, <3>1 DEF BeforeFirst, first
  <2>4. n - 1 \in 1..(n - 1) /\ n - 1 \in 1..n
    BY <1>1, <2>3, MoreThanOne
  <2>5. byTimestamp[n - 1].value.timestamp <= now
    BY <2>4, Entries DEF IInv, ScheduleOK, OneFutureChange
  <2> QED
    BY <1>4, <2>2, <2>4, <2>5 DEF current, CurrentValue
<1> QED
  BY <1>3, <1>4

(* Before the first epoch its start and duration may still be replaced.    *)
LEMMA SetBeforeFirst ==
    ASSUME IInv, BeforeFirst, NEW d \in Durations, setEpochDuration(d)
    PROVE  IInv'
<1> DEFINE n == Len(byTimestamp)
<1>1. n \in Nat \ {0} /\ now \in Nat
  BY Entries, EpochAssumption DEF IInv, EpochTypeOK
<1>2. n = 1
  <2>1. SUFFICES ASSUME n # 1 PROVE FALSE
    OBVIOUS
  <2>2. 1 \in 1..(n - 1)
    BY <1>1, <2>1, MoreThanOne
  <2>3. byTimestamp[1].value.timestamp <= now
    BY <1>1, <2>2, Entries DEF IInv, ScheduleOK, OneFutureChange
  <2>4. byTimestamp[1].value.timestamp \in Nat
    BY <1>1, Entries
  <2> QED
    BY <1>1, <2>3, <2>4 DEF BeforeFirst, first
<1>3. /\ getNextEpochStart = LastKey(byTimestamp)
      /\ getNextEpoch = LastKey(byIndex)
  <2>1. byTimestamp[1].value.index = 0
    BY DEF IInv, ScheduleOK, Contiguous, first
  <2>2. /\ LastKey(byTimestamp) = byTimestamp[1].value.timestamp
        /\ LastKey(byIndex) = byTimestamp[1].value.index
    <3>1. Len(byTimestamp) = 1 /\ Len(byIndex) = 1 /\ 1 \in 1..1
      BY <1>2, Entries
    <3> QED
      BY <3>1, Entries DEF LastKey
  <2> QED
    BY <2>1, <2>2 DEF getNextEpochStart, getNextEpoch, first
<1>4. getNextEpochStart \in 0..MaxUint48 /\ getNextEpoch \in 0..MaxUint48
  <2>1. LastKey(byTimestamp) \in Nat /\ LastKey(byIndex) \in Nat
    BY <1>1, Entries DEF LastKey
  <2> QED
    BY <1>3, <2>1, EpochAssumption DEF setEpochDuration
<1>5. SetEpochDuration(d, getNextEpochStart, getNextEpoch) /\ now' = now
  BY DEF setEpochDuration
<1> QED
  BY <1>3, <1>4, <1>5, ReplaceLast

(* The next epoch starts at the first boundary of the change in force that *)
(* lies after now.                                                         *)
LEMMA NextStart ==
    ASSUME IInv, ~BeforeFirst, NEW data \in Data, data = current,
           data.timestamp <= now
    PROVE  LET steps == (now - data.timestamp) \div data.duration + 1
           IN  /\ data.timestamp \in Nat /\ data.index \in Nat
               /\ data.duration \in Nat \ {0} /\ now \in Nat
               /\ steps \in Nat \ {0}
               /\ getNextEpoch = data.index + steps
               /\ getNextEpochStart = data.timestamp + steps * data.duration
               /\ now < data.timestamp + steps * data.duration
               /\ getNextEpochStart <= now + data.duration
<1> DEFINE t == data.timestamp
           d == data.duration
           x == data.index
           q == (now - t) \div d
<1>1. t \in Nat /\ x \in Nat /\ d \in Nat \ {0} /\ now \in Nat
  <2>1. d \in Durations /\ t \in 0..MaxUint48 /\ x \in 0..MaxUint48
    BY DEF Data
  <2>2. Durations \subseteq Nat \ {0} /\ 0..MaxUint48 \subseteq Nat
    BY EpochAssumption
  <2>3. now \in Nat
    BY EpochAssumption DEF IInv, EpochTypeOK
  <2> QED
    BY <2>1, <2>2, <2>3, Zenon
<1>2. now - t \in Nat
  BY <1>1
<1>3. q \in Nat /\ now - t < (q + 1) * d /\ q * d <= now - t
  BY <1>1, <1>2, DivBounds
<1>4. getCurrentEpoch = x + q
  BY DEF getCurrentEpoch, Elapsed
<1>5. getCurrentEpochStart = t + q * d
  <2> HIDE DEF q, t, d, x
  <2>1. getCurrentEpochStart = t + ((x + q) - x) * d
    BY <1>4 DEF getCurrentEpochStart, t, d, x
  <2>2. (x + q) - x = q
    BY <1>1, <1>3
  <2> QED
    BY <2>1, <2>2
<1>6. getNextEpochStart = t + q * d + d /\ getNextEpoch = x + q + 1
  BY <1>4, <1>5 DEF getNextEpochStart, getNextEpoch
<1> HIDE DEF q, t, d, x
<1>7. (q + 1) * d = q * d + d /\ q * d \in Nat /\ (q + 1) * d \in Nat
  BY <1>1, <1>3, TimesSuccessor
<1>8. /\ q + 1 \in Nat \ {0}
      /\ getNextEpoch = x + (q + 1)
      /\ getNextEpochStart = t + (q + 1) * d
      /\ now < t + (q + 1) * d
      /\ getNextEpochStart <= now + d
  BY <1>1, <1>3, <1>6, <1>7
<1> QED
  BY <1>1, <1>8 DEF q, t, d, x

(* From the first epoch on, a change is appended after the change in       *)
(* force, or replaces the one that lies ahead.                             *)
LEMMA SetAfterFirst ==
    ASSUME IInv, ~BeforeFirst, NEW dur \in Durations, setEpochDuration(dur)
    PROVE  IInv'
<1> DEFINE n == Len(byTimestamp)
           s == getNextEpochStart
           x == getNextEpoch
           last == byTimestamp[n].value
<1>1. /\ n \in Nat \ {0} /\ n \in 1..n /\ last \in Data
      /\ last.timestamp \in Nat /\ last.index \in Nat
      /\ last.duration \in Nat \ {0}
      /\ LastKey(byTimestamp) = last.timestamp /\ LastKey(byIndex) = last.index
  BY Entries DEF LastKey
<1>2. /\ SetEpochDuration(dur, s, x) /\ now' = now
      /\ s <= MaxUint48 /\ x <= MaxUint48
  BY DEF setEpochDuration
<1>3. CASE last.timestamp <= now /\ current = last
  <2> DEFINE k == (now - last.timestamp) \div last.duration + 1
  <2>1. /\ k \in Nat \ {0} /\ x = last.index + k /\ now \in Nat
        /\ s = last.timestamp + k * last.duration
        /\ now < last.timestamp + k * last.duration
        /\ s <= now + last.duration
    BY <1>1, <1>3, NextStart
  <2> HIDE DEF k, s, x, last
  <2>2. k * last.duration \in Nat
    BY <1>1, <2>1
  <2>3. x - last.index = k
    BY <1>1, <2>1
  <2>4. /\ last.timestamp < s /\ last.index < x
        /\ s = last.timestamp + (x - last.index) * last.duration
    BY <1>1, <1>3, <2>1, <2>2, <2>3
  <2>5. s \in 0..MaxUint48 /\ x \in 0..MaxUint48
    BY <1>1, <1>2, <2>1, <2>2, EpochAssumption
  <2> QED
    BY <1>1, <1>2, <1>3, <2>1, <2>4, <2>5, AppendNext DEF last
<1>4. CASE /\ n - 1 \in 1..n /\ last.timestamp > now
           /\ current = byTimestamp[n - 1].value
           /\ byTimestamp[n - 1].value.timestamp <= now
  <2> DEFINE data == byTimestamp[n - 1].value
             k == (now - data.timestamp) \div data.duration + 1
             m == last.index - data.index
  <2>1. data \in Data
    BY <1>4, Entries
  <2>2. /\ k \in Nat \ {0} /\ x = data.index + k
        /\ data.timestamp \in Nat /\ data.index \in Nat
        /\ data.duration \in Nat \ {0} /\ now \in Nat
        /\ s = data.timestamp + k * data.duration
    BY <1>4, <2>1, NextStart
  <2>3. /\ data.index < last.index
        /\ last.timestamp = data.timestamp + m * data.duration
    <3>1. n - 1 \in 1..(n - 1) /\ (n - 1) + 1 = n
      BY <1>1, <1>4
    <3> QED
      BY <3>1 DEF IInv, ScheduleOK, Contiguous
  <2>4. last.timestamp <= s
    BY <1>1, <1>2 DEF SetEpochDuration, CanPush, IInv, ScheduleOK, TracesAgree
  <2>5. m \in Nat
    <3>1. \A a, b \in Nat : a < b => b - a \in Nat
      OBVIOUS
    <3>2. data.index \in Nat /\ last.index \in Nat /\ data.index < last.index
      BY <1>1, <2>2, <2>3
    <3> HIDE DEF data, last
    <3> QED
      BY <3>1, <3>2
  <2>6. m = k
    <3>1. now < data.timestamp + m * data.duration
      BY <1>4, <2>3
    <3>2. data.timestamp + m * data.duration
             <= data.timestamp + k * data.duration
      BY <2>2, <2>3, <2>4
    <3>3. data.timestamp <= now
      BY <1>4
    <3> HIDE DEF data, m
    <3> QED
      BY <2>2, <2>5, <3>1, <3>2, <3>3, NextBoundary DEF k
  <2>7. s = LastKey(byTimestamp) /\ x = LastKey(byIndex)
    <3> HIDE DEF k, data, s, x, last
    <3>1. s = last.timestamp
      BY <2>2, <2>3, <2>6
    <3>2. x = last.index
      BY <1>1, <2>2, <2>6
    <3> QED
      BY <1>1, <3>1, <3>2
  <2>8. s \in 0..MaxUint48 /\ x \in 0..MaxUint48
    <3>1. s \in Nat /\ x \in Nat
      BY <1>1, <2>7
    <3> HIDE DEF s, x
    <3> QED
      BY <1>2, <3>1, EpochAssumption
  <2> QED
    BY <1>2, <2>7, <2>8, ReplaceLast
<1> QED
  BY <1>3, <1>4, InForce

-----------------------------------------------------------------------------
(* __EpochManager_init records the first epoch in both traces.             *)
LEMMA InitInvariant == Init => IInv
<1> SUFFICES ASSUME Init PROVE IInv
  OBVIOUS
<1>1. PICK d \in Durations, s \in now..MaxTime :
         /\ byTimestamp = <<Checkpoint(s, Datum(d, s, 0))>>
         /\ byIndex = <<Checkpoint(0, Datum(d, s, 0))>>
  BY DEF Init
<1>2. now \in 0..MaxTime /\ s \in 0..MaxUint48 /\ 0 \in 0..MaxUint48
  BY EpochAssumption DEF Init
<1>3. byTimestamp \in Trace /\ byIndex \in Trace
  BY <1>1, <1>2, DatumType DEF Trace
<1>4. EpochTypeOK
  BY <1>2, <1>3 DEF EpochTypeOK
<1>5. /\ byTimestamp # <<>> /\ Len(byTimestamp) = 1 /\ Len(byIndex) = 1
      /\ byTimestamp[1] = Checkpoint(s, Datum(d, s, 0))
      /\ byIndex[1] = Checkpoint(0, Datum(d, s, 0))
  BY <1>1
<1>6. TracesAgree
  BY <1>5 DEF TracesAgree, Checkpoint, Datum
<1>7. Contiguous
  BY <1>5 DEF Contiguous, first, Checkpoint, Datum
<1>8. OneFutureChange
  BY <1>5 DEF OneFutureChange
<1>9. FutureIsNext
  BY <1>5 DEF FutureIsNext
<1> QED
  BY <1>4, <1>6, <1>7, <1>8, <1>9 DEF IInv, ScheduleOK

(* Time only brings changes into the past.                                 *)
LEMMA TickInvariant == IInv /\ Tick => IInv'
<1> SUFFICES ASSUME IInv, Tick PROVE IInv'
  OBVIOUS
<1>1. /\ byTimestamp' = byTimestamp /\ byIndex' = byIndex
      /\ now \in Nat /\ now' = now + 1 /\ now' \in 0..MaxTime
  BY EpochAssumption DEF Tick, IInv, EpochTypeOK
<1>2. EpochTypeOK'
  BY <1>1 DEF IInv, EpochTypeOK
<1>3. TracesAgree' /\ Contiguous'
  BY <1>1 DEF IInv, ScheduleOK, TracesAgree, Contiguous, first
<1>4. OneFutureChange'
  <2>1. ASSUME NEW i \in 1..(Len(byTimestamp) - 1)
        PROVE  byTimestamp[i].key <= now + 1
    <3>1. byTimestamp[i].key <= now
      BY DEF IInv, ScheduleOK, OneFutureChange
    <3>2. byTimestamp[i].key \in Nat
      BY Entries
    <3> QED
      BY <1>1, <3>1, <3>2
  <2> QED
    BY <1>1, <2>1 DEF OneFutureChange
<1>5. FutureIsNext'
  <2> DEFINE n == Len(byTimestamp)
             key == byTimestamp[n].key
             duration == byTimestamp[n - 1].value.duration
  <2>1. SUFFICES ASSUME n > 1 PROVE key <= (now + 1) + duration
    BY <1>1 DEF FutureIsNext, LastKey
  <2>2. key <= now + duration
    BY <2>1 DEF IInv, ScheduleOK, FutureIsNext, LastKey
  <2>3. key \in Nat /\ duration \in Nat
    <3>1. n \in 1..n /\ n - 1 \in 1..n
      BY <2>1, Entries
    <3> QED
      BY <3>1, Entries
  <2> HIDE DEF key, duration
  <2> QED
    BY <1>1, <2>2, <2>3
<1> QED
  BY <1>2, <1>3, <1>4, <1>5 DEF IInv, ScheduleOK

LEMMA StepInvariant == IInv /\ [Next]_vars => IInv'
<1> SUFFICES ASSUME IInv, [Next]_vars PROVE IInv'
  OBVIOUS
<1>1. CASE Tick
  BY <1>1, TickInvariant
<1>2. ASSUME NEW d \in Durations, setEpochDuration(d) PROVE IInv'
  BY <1>2, SetBeforeFirst, SetAfterFirst
<1>3. CASE UNCHANGED vars
  BY <1>3 DEF vars, IInv, EpochTypeOK, ScheduleOK, TracesAgree, Contiguous,
              first, OneFutureChange, FutureIsNext
<1> QED
  BY <1>1, <1>2, <1>3 DEF Next

(* The inductive invariant holds in every state of the specification.      *)
THEOREM Invariant == Spec => []IInv
BY InitInvariant, StepInvariant, PTL DEF Spec

(* The state of EpochManager keeps its types: no stored timestamp or index *)
(* exceeds its width, because the checked sums of setEpochDuration revert. *)
THEOREM TypesHold == Spec => []EpochTypeOK
BY Invariant, PTL DEF IInv

(* The two traces of EpochManager record the same schedule: contiguous     *)
(* epochs, and at most one change ahead.                                   *)
THEOREM ScheduleHolds == Spec => []ScheduleOK
BY Invariant, PTL DEF IInv

-----------------------------------------------------------------------------
(* The searches.  A time or an epoch lies in part i of the schedule when   *)
(* change i is the last one that has begun by then.                        *)
Change(i) == byTimestamp[i].value

InPart(i, time) ==
    /\ i \in 1..Len(byTimestamp) /\ Change(i).timestamp <= time
    /\ i < Len(byTimestamp) => time < Change(i + 1).timestamp

EpochInPart(i, epoch) ==
    /\ i \in 1..Len(byTimestamp) /\ Change(i).index <= epoch
    /\ i < Len(byTimestamp) => epoch < Change(i + 1).index

(* Multiples divide exactly.                                               *)
LEMMA DivExact ==
    ASSUME NEW q \in Nat, NEW d \in Nat \ {0}
    PROVE  (q * d) \div d = q
<1>1. q * d \in Nat
  BY SMT
<1> DEFINE a == q * d
           r == a \div d
<1>2. r \in Nat /\ r * d <= a /\ a < (r + 1) * d
  BY <1>1, DivBounds
<1> HIDE DEF r
<1>3. r <= q /\ q < r + 1
  BY <1>2, TimesOrder
<1> QED
  BY <1>2, <1>3 DEF r

(* The changes are sorted by time and by epoch, and follow one another.    *)
LEMMA Changes ==
    ASSUME IInv
    PROVE  /\ byTimestamp \in Traces(0..MaxUint48, Data)
           /\ byIndex \in Traces(0..MaxUint48, Data)
           /\ Len(byTimestamp) \in Nat \ {0} /\ Len(byIndex) = Len(byTimestamp)
           /\ Sorted(byTimestamp) /\ Sorted(byIndex)
           /\ Change(1) = first /\ Change(1).index = 0
           /\ \A i \in 1..Len(byTimestamp) :
                 /\ Change(i) \in Data
                 /\ Change(i).timestamp \in Nat /\ Change(i).index \in Nat
                 /\ Change(i).duration \in Nat \ {0}
                 /\ byTimestamp[i].key = Change(i).timestamp
                 /\ byIndex[i].key = Change(i).index
                 /\ byIndex[i].value = Change(i)
           /\ \A i \in 1..(Len(byTimestamp) - 1) :
                 /\ i \in 1..Len(byTimestamp) /\ i + 1 \in 1..Len(byTimestamp)
                 /\ Change(i).index < Change(i + 1).index
                 /\ Change(i).timestamp < Change(i + 1).timestamp
                 /\ Change(i + 1).timestamp = Change(i).timestamp
                      + (Change(i + 1).index - Change(i).index)
                          * Change(i).duration
<1> DEFINE n == Len(byTimestamp)
<1>1. /\ n \in Nat \ {0} /\ Len(byIndex) = n
      /\ \A i \in 1..n :
            /\ Change(i) \in Data
            /\ Change(i).timestamp \in Nat /\ Change(i).index \in Nat
            /\ Change(i).duration \in Nat \ {0}
            /\ byTimestamp[i].key = Change(i).timestamp
            /\ byIndex[i].key = Change(i).index
            /\ byIndex[i].value = Change(i)
  BY Entries DEF Change
<1>2. Change(1) = first /\ Change(1).index = 0
  BY DEF Change, first, IInv, ScheduleOK, Contiguous
<1>3. \A i \in 1..(n - 1) :
         /\ i \in 1..n /\ i + 1 \in 1..n
         /\ Change(i).index < Change(i + 1).index
         /\ Change(i).timestamp < Change(i + 1).timestamp
         /\ Change(i + 1).timestamp = Change(i).timestamp
              + (Change(i + 1).index - Change(i).index) * Change(i).duration
  BY <1>1 DEF Change, IInv, ScheduleOK, Contiguous
<1>4. Sorted(byTimestamp)
  BY <1>1, <1>3, StepsSort
<1>5. Sorted(byIndex)
  BY <1>1, <1>3, StepsSort
<1>6. /\ byTimestamp \in Traces(0..MaxUint48, Data)
      /\ byIndex \in Traces(0..MaxUint48, Data)
  BY <1>4, <1>5 DEF Traces, IInv, EpochTypeOK, Trace
<1> QED
  BY <1>1, <1>2, <1>3, <1>4, <1>5, <1>6

LEMMA TimeLookup ==
    ASSUME IInv, NEW time \in Nat, NEW i, InPart(i, time)
    PROVE  DataByTimestamp(time) = Change(i)
<1>1. IsUpper(byTimestamp, time, i)
  <2>1. /\ i \in 1..Len(byTimestamp) /\ byTimestamp[i].key <= time
        /\ i < Len(byTimestamp) => time < byTimestamp[i + 1].key
    BY Changes DEF InPart
  <2>2. \A j \in 1..Len(byTimestamp) : byTimestamp[j].key \in Nat
    BY Changes
  <2> QED
    BY <2>1, <2>2, Changes, UpperBetween
<1> QED
  BY <1>1, Changes, LookupFinds DEF DataByTimestamp, Change

LEMMA IndexLookup ==
    ASSUME IInv, NEW epoch \in Nat, NEW i, EpochInPart(i, epoch)
    PROVE  DataByIndex(epoch) = Change(i)
<1>1. IsUpper(byIndex, epoch, i)
  <2>1. /\ i \in 1..Len(byIndex) /\ byIndex[i].key <= epoch
        /\ i < Len(byIndex) => epoch < byIndex[i + 1].key
    BY Changes DEF EpochInPart
  <2>2. \A j \in 1..Len(byIndex) : byIndex[j].key \in Nat
    BY Changes
  <2> QED
    BY <2>1, <2>2, Changes, UpperBetween
<1>2. DataByIndex(epoch) = byIndex[i].value
  BY <1>1, Changes, LookupFinds DEF DataByIndex
<1> QED
  BY <1>2, Changes DEF EpochInPart

(* From the start of the first epoch on every time has its part, and every *)
(* epoch has one.                                                          *)
LEMMA TimeHasPart ==
    ASSUME IInv, NEW time \in Nat, ~(time < first.timestamp)
    PROVE  \E i \in 1..Len(byTimestamp) : InPart(i, time)
<1>1. byTimestamp[1].key <= time /\ byTimestamp[1].key \in Nat
  BY Changes
<1>2. PICK i \in 1..Len(byTimestamp) : IsUpper(byTimestamp, time, i)
  BY <1>1, Changes, UpperExists
<1>3. ASSUME i < Len(byTimestamp) PROVE time < Change(i + 1).timestamp
  <2>1. i + 1 \in 1..Len(byTimestamp) /\ ~(i + 1 <= i)
    BY <1>3, Changes
  <2>2. ~(byTimestamp[i + 1].key <= time)
    BY <1>2, <2>1 DEF IsUpper
  <2> QED
    BY <2>1, <2>2, Changes
<1> QED
  BY <1>2, <1>3, Changes DEF IsUpper, InPart

LEMMA EpochHasPart ==
    ASSUME IInv, NEW epoch \in Nat
    PROVE  \E i \in 1..Len(byTimestamp) : EpochInPart(i, epoch)
<1>1. byIndex[1].key <= epoch
  BY Changes
<1>2. PICK i \in 1..Len(byIndex) : IsUpper(byIndex, epoch, i)
  BY <1>1, Changes, UpperExists
<1>3. ASSUME i < Len(byTimestamp) PROVE epoch < Change(i + 1).index
  <2>1. i + 1 \in 1..Len(byIndex) /\ ~(i + 1 <= i)
    BY <1>3, Changes
  <2>2. ~(byIndex[i + 1].key <= epoch)
    BY <1>2, <2>1 DEF IsUpper
  <2> QED
    BY <2>1, <2>2, Changes
<1> QED
  BY <1>2, <1>3, Changes DEF IsUpper, EpochInPart

(* Where an epoch of a part starts, and the one after it: the boundary     *)
(* between two parts belongs to both schedules.                            *)
LEMMA StartInPart ==
    ASSUME IInv, NEW epoch \in Nat, NEW i, EpochInPart(i, epoch)
    PROVE  LET data == Change(i)
               q == epoch - data.index
           IN  /\ data.timestamp \in Nat /\ data.duration \in Nat \ {0}
               /\ q \in Nat /\ epoch = data.index + q
               /\ getEpochDuration(epoch) = data.duration
               /\ getEpochStart(epoch) = data.timestamp + q * data.duration
               /\ getEpochStart(epoch + 1)
                     = data.timestamp + (q + 1) * data.duration
               /\ getEpochStart(epoch) \in Nat
               /\ getEpochStart(epoch + 1)
                     = getEpochStart(epoch) + data.duration
               /\ getEpochStart(epoch) < getEpochStart(epoch + 1)
<1> DEFINE data == Change(i)
           t == data.timestamp
           d == data.duration
           x == data.index
           q == epoch - x
           n == Len(byTimestamp)
<1>1. /\ t \in Nat /\ x \in Nat /\ d \in Nat \ {0} /\ x <= epoch
      /\ i \in 1..n /\ n \in Nat \ {0}
  BY Changes DEF EpochInPart
<1>2. q \in Nat /\ epoch = x + q
  BY <1>1
<1>3. getEpochDuration(epoch) = d /\ getEpochStart(epoch) = t + q * d
  BY IndexLookup DEF getEpochDuration, getEpochStart
<1>4. getEpochStart(epoch + 1) = t + (q + 1) * d
  <2>1. (epoch + 1) - x = q + 1 /\ epoch + 1 \in Nat
    BY <1>1
  <2>2. CASE EpochInPart(i, epoch + 1)
    BY <2>1, <2>2, IndexLookup DEF getEpochStart
  <2>3. CASE ~EpochInPart(i, epoch + 1)
    <3>1. i \in 1..(n - 1) /\ i + 1 \in 1..n
      BY <1>1, <2>1, <2>3 DEF EpochInPart
    <3>2. Change(i + 1).index \in Nat /\ epoch < Change(i + 1).index
      BY <1>1, <3>1, Changes DEF EpochInPart
    <3>3. Change(i + 1).index = epoch + 1
      <4>1. ~(epoch + 1 < Change(i + 1).index)
        BY <1>1, <2>1, <2>3 DEF EpochInPart
      <4> QED
        BY <3>2, <4>1
    <3>4. EpochInPart(i + 1, epoch + 1)
      <4>1. ASSUME i + 1 < n PROVE epoch + 1 < Change((i + 1) + 1).index
        <5>1. i + 1 \in 1..(n - 1)
          BY <3>1, <4>1
        <5>2. Change(i + 1).index < Change((i + 1) + 1).index
          BY <5>1, Changes
        <5> QED
          BY <3>3, <5>2
      <4> QED
        BY <3>1, <3>3, <4>1, <2>1 DEF EpochInPart
    <3>5. getEpochStart(epoch + 1) = Change(i + 1).timestamp
      <4>1. DataByIndex(epoch + 1) = Change(i + 1)
        BY <2>1, <3>4, IndexLookup
      <4>2. /\ (epoch + 1) - Change(i + 1).index = 0
            /\ Change(i + 1).timestamp \in Nat
            /\ Change(i + 1).duration \in Nat
        BY <3>1, <3>3, <2>1, Changes
      <4> QED
        BY <4>1, <4>2 DEF getEpochStart
    <3>6. Change(i + 1).timestamp = t + (Change(i + 1).index - x) * d
      BY <3>1, Changes
    <3> QED
      BY <2>1, <3>3, <3>5, <3>6
  <2> QED
    BY <2>2, <2>3
<1> HIDE DEF t, d, x, q, data
<1>5. q * d \in Nat /\ (q + 1) * d = q * d + d
  BY <1>1, <1>2, TimesSuccessor
<1>6. /\ getEpochStart(epoch) \in Nat
      /\ getEpochStart(epoch + 1) = getEpochStart(epoch) + d
      /\ getEpochStart(epoch) < getEpochStart(epoch + 1)
  BY <1>1, <1>3, <1>4, <1>5
<1> QED
  BY <1>1, <1>2, <1>3, <1>4, <1>6 DEF t, d, x, q, data

(* The index of a time is the epoch whose interval holds it.               *)
LEMMA EpochOfTime ==
    ASSUME IInv, NEW time \in Nat, NEW i, InPart(i, time)
    PROVE  LET data == Change(i)
               epoch == data.index + Elapsed(data, time)
           IN  /\ HasEpochIndex(time) /\ getEpochIndex(time) = epoch
               /\ Elapsed(data, time) \in Nat /\ epoch \in Nat
               /\ EpochInPart(i, epoch)
               /\ getEpochStart(epoch) = data.timestamp
                                           + Elapsed(data, time) * data.duration
               /\ getEpochStart(epoch) <= time
               /\ time < getEpochStart(epoch + 1)
               /\ getEpochIndex(getEpochStart(epoch)) = epoch
<1> DEFINE data == Change(i)
           t == data.timestamp
           d == data.duration
           x == data.index
           q == Elapsed(data, time)
           n == Len(byTimestamp)
<1>1. /\ t \in Nat /\ x \in Nat /\ d \in Nat \ {0} /\ t <= time
      /\ i \in 1..n /\ n \in Nat \ {0} /\ time - t \in Nat
  BY Changes DEF InPart
<1>2. DataByTimestamp(time) = data
  BY TimeLookup
<1>3. HasEpochIndex(time) /\ getEpochIndex(time) = x + q
  BY <1>1, <1>2 DEF HasEpochIndex, getEpochIndex
<1>4. /\ q = (time - t) \div d /\ q \in Nat
      /\ q * d <= time - t /\ time - t < (q + 1) * d
      /\ q * d \in Nat /\ (q + 1) * d = q * d + d
  <2>1. q = (time - t) \div d
    BY DEF Elapsed
  <2> HIDE DEF q, t, d
  <2>2. q \in Nat /\ q * d <= time - t /\ time - t < (q + 1) * d
    BY <1>1, <2>1, DivBounds
  <2> QED
    BY <1>1, <2>1, <2>2, TimesSuccessor
<1>5. EpochInPart(i, x + q)
  <2>1. ASSUME i < n PROVE x + q < Change(i + 1).index
    <3> DEFINE m == Change(i + 1).index - x
    <3>1. i \in 1..(n - 1) /\ i + 1 \in 1..n
      BY <1>1, <2>1
    <3>2. /\ Change(i + 1).index \in Nat /\ m \in Int
          /\ Change(i + 1).timestamp = t + m * d
          /\ time < Change(i + 1).timestamp
      BY <1>1, <2>1, <3>1, Changes DEF InPart
    <3> HIDE DEF m, q, t, d, x
    <3>3. m * d \in Int
      BY <1>1, <3>2
    <3>4. q * d < m * d
      BY <1>1, <1>4, <3>2, <3>3
    <3>5. q < m
      BY <1>1, <1>4, <3>2, <3>4, TimesOrder
    <3>6. q \in Nat /\ x \in Nat
      BY <1>1, <1>4
    <3>7. Change(i + 1).index = x + m
      BY <3>2, <3>6 DEF m
    <3> QED
      BY <3>2, <3>5, <3>6, <3>7
  <2>2. x <= x + q
    <3> HIDE DEF x, q
    <3> QED
      BY <1>1, <1>4
  <2> QED
    BY <1>1, <2>1, <2>2 DEF EpochInPart
<1>6. x + q \in Nat /\ (x + q) - x = q
  BY <1>1, <1>4
<1>7. /\ getEpochStart(x + q) = t + q * d
      /\ getEpochStart((x + q) + 1) = t + (q + 1) * d
  BY <1>5, <1>6, StartInPart
<1> HIDE DEF q, t, d, x, data
<1>8. /\ t + q * d <= time /\ time < t + (q + 1) * d
      /\ t <= t + q * d /\ t + q * d \in Nat /\ (t + q * d) - t = q * d
  BY <1>1, <1>4
<1>9. getEpochIndex(t + q * d) = x + q
  <2>1. InPart(i, t + q * d)
    <3>1. ASSUME i < n PROVE t + q * d < Change(i + 1).timestamp
      <4>1. Change(i + 1).timestamp \in Nat /\ time < Change(i + 1).timestamp
        BY <1>1, <3>1, Changes DEF InPart
      <4> QED
        BY <1>8, <4>1
    <3> QED
      BY <1>1, <1>8, <3>1 DEF InPart, t, data
  <2>2. DataByTimestamp(t + q * d) = data
    BY <1>8, <2>1, TimeLookup DEF data
  <2>3. getEpochIndex(t + q * d) = x + ((t + q * d) - t) \div d
    BY <2>2 DEF getEpochIndex, Elapsed, t, d, x
  <2>4. (q * d) \div d = q
    BY <1>1, <1>4, DivExact
  <2> QED
    BY <1>8, <2>3, <2>4
<1> QED
  BY <1>3, <1>4, <1>5, <1>6, <1>7, <1>8, <1>9 DEF q, t, d, x, data

(* Before the first epoch no time has been recorded.                       *)
LEMMA NoEpochYet ==
    ASSUME IInv, NEW time \in Nat, time < first.timestamp
    PROVE  ~HasEpochIndex(time)
<1>1. \A i \in 1..Len(byTimestamp) : ~(byTimestamp[i].key <= time)
  <2> SUFFICES ASSUME NEW i \in 1..Len(byTimestamp), byTimestamp[i].key <= time
               PROVE  FALSE
    OBVIOUS
  <2>1. /\ byTimestamp[i].key \in Nat /\ byTimestamp[1].key \in Nat
        /\ time < byTimestamp[1].key
    BY Changes
  <2>2. i = 1 \/ byTimestamp[1].key < byTimestamp[i].key
    BY Changes DEF Sorted
  <2> QED
    BY <2>1, <2>2
<1>2. ~Covers(byTimestamp, time)
  BY <1>1 DEF Covers, IsUpper
<1> QED
  BY <1>2 DEF HasEpochIndex, DataByTimestamp, UpperLookupRecent, NoData, Datum

(* The change in force is the change of the part that holds now; the next  *)
(* one, if there is one, has its first epoch next.                         *)
LEMMA CurrentPart ==
    ASSUME IInv, ~BeforeFirst
    PROVE  \E i \in 1..Len(byTimestamp) : InPart(i, now) /\ current = Change(i)
                                 /\ Len(byTimestamp) - 1 <= i
<1> DEFINE n == Len(byTimestamp)
<1>1. n \in Nat \ {0} /\ n \in 1..n
  BY Changes
<1>2. CASE Change(n).timestamp <= now /\ current = Change(n)
  BY <1>1, <1>2 DEF InPart
<1>3. CASE /\ n - 1 \in 1..n /\ Change(n).timestamp > now
           /\ current = Change(n - 1) /\ Change(n - 1).timestamp <= now
  <2>1. now < Change((n - 1) + 1).timestamp
    BY <1>1, <1>3
  <2> QED
    BY <1>3, <2>1 DEF InPart
<1> QED
  BY <1>1, <1>2, <1>3, InForce DEF Change

(* While the first epoch lies ahead there is one change only.              *)
LEMMA OneChangeBeforeFirst ==
    ASSUME IInv, BeforeFirst
    PROVE  Len(byTimestamp) = 1
<1> DEFINE n == Len(byTimestamp)
<1>1. SUFFICES ASSUME n # 1 PROVE FALSE
  OBVIOUS
<1>2. 1 \in 1..(n - 1) /\ 1 \in 1..n
  BY <1>1, Changes, MoreThanOne
<1>3. byTimestamp[1].key <= now
  BY <1>2 DEF IInv, ScheduleOK, OneFutureChange
<1>4. byTimestamp[1].key \in Nat /\ now \in Nat /\ now < byTimestamp[1].key
  BY <1>2, Changes, EpochAssumption DEF BeforeFirst, IInv, EpochTypeOK
<1> QED
  BY <1>3, <1>4

(* The last change covers the next epoch, in force already or about to be. *)
LEMMA NextIsLast ==
    ASSUME IInv
    PROVE  /\ getNextEpoch \in Nat
           /\ EpochInPart(Len(byTimestamp), getNextEpoch)
           /\ getNextEpochDuration = Change(Len(byTimestamp)).duration
           /\ getNextEpochStart = getEpochStart(getNextEpoch)
           /\ now < getNextEpochStart
           /\ BeforeFirst => getNextEpoch = 0
           /\ ~BeforeFirst => /\ getCurrentEpoch \in Nat
                              /\ getNextEpoch = getCurrentEpoch + 1
                              /\ getCurrentEpoch = getEpochIndex(now)
                              /\ getCurrentEpochStart
                                    = getEpochStart(getCurrentEpoch)
                              /\ getCurrentEpochStart <= now
<1> DEFINE n == Len(byTimestamp)
<1>0. n \in Nat \ {0} /\ n \in 1..n /\ now \in Nat
  BY Changes, EpochAssumption DEF IInv, EpochTypeOK
<1>1. CASE BeforeFirst
  <2>1. n = 1 /\ getNextEpoch = 0 /\ getNextEpochStart = first.timestamp
        /\ getNextEpochDuration = first.duration
    BY <1>1, OneChangeBeforeFirst
       DEF getNextEpoch, getNextEpochStart, getNextEpochDuration
  <2>2. EpochInPart(n, 0)
    BY <1>0, <2>1, Changes DEF EpochInPart
  <2>3. getEpochStart(0) = Change(n).timestamp + (0 - 0) * Change(n).duration
    <3>1. Change(n).index = 0
      BY <2>1, Changes
    <3>2. 0 \in Nat
      OBVIOUS
    <3>3. getEpochStart(0) = Change(n).timestamp
                               + (0 - Change(n).index) * Change(n).duration
      BY <2>2, <3>2, StartInPart
    <3> QED
      BY <3>1, <3>3
  <2>4. /\ Change(n).timestamp \in Nat /\ Change(n).duration \in Nat
        /\ Change(n) = first
    BY <1>0, <2>1, Changes
  <2>5. getEpochStart(0) = first.timestamp
    BY <2>3, <2>4
  <2> QED
    BY <1>1, <2>1, <2>2, <2>4, <2>5 DEF BeforeFirst
<1>2. CASE ~BeforeFirst
  <2>1. PICK i \in 1..n : InPart(i, now) /\ current = Change(i) /\ n - 1 <= i
    BY <1>2, CurrentPart
  <2> DEFINE epoch == Change(i).index + Elapsed(Change(i), now)
             q == Elapsed(Change(i), now)
             d == Change(i).duration
             t == Change(i).timestamp
  <2>2. /\ getEpochIndex(now) = epoch /\ q \in Nat /\ epoch \in Nat
        /\ EpochInPart(i, epoch)
        /\ getEpochStart(epoch) = t + q * d
        /\ getEpochStart(epoch) <= now /\ now < getEpochStart(epoch + 1)
    BY <1>0, <2>1, EpochOfTime
  <2>3. /\ getEpochStart(epoch + 1) = getEpochStart(epoch) + d
        /\ getEpochStart(epoch) \in Nat
        /\ t \in Nat /\ d \in Nat \ {0} /\ Change(i).index \in Nat
    BY <2>1, <2>2, Changes, StartInPart
  <2>4. getCurrentEpoch = epoch /\ getNextEpoch = epoch + 1
    BY <1>2, <2>1 DEF getCurrentEpoch, getNextEpoch
  <2>5. getCurrentEpochStart = getEpochStart(epoch)
    <3>1. epoch - Change(i).index = q
      BY <2>2, <2>3
    <3>2. getCurrentEpochStart = t + (epoch - Change(i).index) * d
      BY <2>1, <2>4 DEF getCurrentEpochStart
    <3> QED
      BY <2>2, <3>1, <3>2
  <2>6. getNextEpochStart = getEpochStart(epoch + 1)
    BY <1>2, <2>1, <2>3, <2>5 DEF getNextEpochStart
  <2>7. getNextEpochDuration = Change(n).duration
    BY <1>0, <1>2 DEF getNextEpochDuration, Latest, Change
  <2>8. EpochInPart(n, epoch + 1)
    <3>1. CASE i = n
      BY <1>0, <2>2, <2>3, <3>1 DEF EpochInPart
    <3>2. CASE i # n
      <4>1. i = n - 1 /\ i \in 1..(n - 1) /\ i + 1 = n /\ n > 1
        BY <1>0, <2>1, <3>2
      <4>2. Change(n).timestamp <= now + d
        <5>1. LastKey(byTimestamp) <= now + byTimestamp[n - 1].value.duration
          BY <4>1 DEF IInv, ScheduleOK, FutureIsNext
        <5> QED
          BY <1>0, <4>1, <5>1, Changes DEF LastKey, Change
      <4> DEFINE m == Change(n).index - Change(i).index
      <4>3. /\ Change(n).timestamp = t + m * d /\ m \in Int
            /\ Change(n).index \in Nat /\ Change(n).timestamp \in Nat
        BY <1>0, <4>1, Changes
      <4>4. m <= q + 1
        <5> HIDE DEF m, q, d, t, epoch
        <5>1. (q + 1) * d = q * d + d /\ ((q + 1) + 1) * d = (q + 1) * d + d
              /\ q * d \in Nat /\ m * d \in Int
          <6>1. q + 1 \in Int /\ q \in Int /\ d \in Nat
            BY <2>2, <2>3
          <6> QED
            BY <2>2, <2>3, <4>3, <6>1, TimesSuccessor
        <5>2. now < t + (q + 1) * d
          BY <2>2, <2>3, <5>1
        <5>3. m * d < ((q + 1) + 1) * d
          BY <1>0, <2>3, <4>2, <4>3, <5>1, <5>2
        <5>4. m < (q + 1) + 1
          BY <2>2, <2>3, <4>3, <5>3, TimesOrder
        <5> QED
          BY <2>2, <4>3, <5>4
      <4>5. Change(n).index <= epoch + 1
        <5>1. m \in Int /\ Change(n).index = Change(i).index + m
          BY <2>3, <4>3
        <5>2. epoch = Change(i).index + q
          OBVIOUS
        <5> HIDE DEF m, q, epoch
        <5> QED
          BY <2>2, <2>3, <4>3, <4>4, <5>1, <5>2
      <4> QED
        BY <1>0, <4>5 DEF EpochInPart
    <3> QED
      BY <3>1, <3>2
  <2>9. epoch + 1 \in Nat /\ now < getNextEpochStart
    BY <2>2, <2>6
  <2> HIDE DEF epoch, q, d, t
  <2> QED
    BY <1>2, <2>2, <2>4, <2>5, <2>6, <2>7, <2>8, <2>9
<1> QED
  BY <1>1, <1>2

LEMMA CurrentIsFound == IInv => CurrentEpochIsFound
<1> SUFFICES ASSUME IInv PROVE CurrentEpochIsFound
  OBVIOUS
<1>0. now \in Nat
  BY EpochAssumption DEF IInv, EpochTypeOK
<1>1. ASSUME ~BeforeFirst
      PROVE  HasCurrentValue(byTimestamp, now) /\ HasEpochIndex(now)
  <2>1. PICK i \in 1..Len(byTimestamp) : InPart(i, now)
    BY <1>1, CurrentPart
  <2>2. HasEpochIndex(now)
    BY <1>0, <2>1, EpochOfTime
  <2>3. LastKey(byTimestamp) <= now \/ Len(byTimestamp) > 1
    <3>1. CASE i = Len(byTimestamp)
      BY <2>1, <3>1, Changes DEF InPart, LastKey
    <3>2. CASE i # Len(byTimestamp)
      BY <2>1, <3>2, Changes
    <3> QED
      BY <3>1, <3>2
  <2> QED
    BY <2>2, <2>3 DEF HasCurrentValue
<1>2. BeforeFirst => Len(byTimestamp) = 1 /\ ~HasEpochIndex(now)
  BY <1>0, OneChangeBeforeFirst, NoEpochYet DEF BeforeFirst
<1>3. getNextEpochDuration = getEpochDuration(getNextEpoch)
  BY NextIsLast, IndexLookup DEF getEpochDuration
<1> QED
  BY <1>1, <1>2, <1>3, NextIsLast DEF CurrentEpochIsFound

LEMMA SearchesInvert == IInv => IndexInvertsStart
<1> SUFFICES ASSUME IInv, NEW time \in Nat
             PROVE  IF HasEpochIndex(time)
                    THEN LET epoch == getEpochIndex(time)
                         IN  /\ getEpochStart(epoch) <= time
                             /\ time < getEpochStart(epoch + 1)
                             /\ getEpochIndex(getEpochStart(epoch)) = epoch
                    ELSE time < first.timestamp
  BY EpochAssumption DEF IndexInvertsStart
<1>1. CASE time < first.timestamp
  BY <1>1, NoEpochYet
<1>2. CASE ~(time < first.timestamp)
  <2>1. PICK i \in 1..Len(byTimestamp) : InPart(i, time)
    BY <1>2, TimeHasPart
  <2> QED
    BY <2>1, EpochOfTime
<1> QED
  BY <1>1, <1>2

(* The look at the last two checkpoints, the search by time and the search *)
(* by epoch of EpochManager answer from one schedule, for any history of   *)
(* changes and any time.                                                   *)
THEOREM SearchesHold == Spec => []SearchesAgree
<1>1. IInv => SearchesAgree
  BY CurrentIsFound, SearchesInvert DEF SearchesAgree
<1> QED
  BY Invariant, <1>1, PTL

-----------------------------------------------------------------------------
(* The refinement of EpochClock: its starts are those of the epochs up to  *)
(* the next one, and its next epoch is getNextEpoch.                       *)
NextIs(epoch) ==
    /\ now < getEpochStart(epoch)
    /\ epoch > 0 => getEpochStart(epoch - 1) <= now

LEMMA StartsIncrease ==
    IInv => \A e \in Nat :
                /\ getEpochStart(e) \in Nat
                /\ \A f \in Nat : e < f => getEpochStart(e) < getEpochStart(f)
<1> SUFFICES ASSUME IInv
             PROVE  \A e \in Nat :
                       /\ getEpochStart(e) \in Nat
                       /\ \A f \in Nat :
                             e < f => getEpochStart(e) < getEpochStart(f)
  OBVIOUS
<1>1. ASSUME NEW e \in Nat
      PROVE  getEpochStart(e) \in Nat /\ getEpochStart(e) < getEpochStart(e + 1)
  BY EpochHasPart, StartInPart
<1>2. ASSUME NEW e \in Nat, NEW f \in Nat, e < f,
             ~(getEpochStart(e) < getEpochStart(f))
      PROVE  FALSE
  <2> DEFINE S == {k \in Nat : e < k /\ ~(getEpochStart(e) < getEpochStart(k))}
  <2>1. PICK k \in S : \A j \in S : k <= j
    <3>1. S \subseteq Nat /\ f \in S
      BY <1>2
    <3> HIDE DEF S
    <3> QED
      BY <3>1, LeastNumber
  <2>2. k \in Nat /\ e < k /\ k - 1 \in Nat /\ (k - 1) + 1 = k
    BY <2>1
  <2>3. getEpochStart(k - 1) < getEpochStart(k)
    BY <1>1, <2>2
  <2>4. k - 1 = e \/ getEpochStart(e) < getEpochStart(k - 1)
    BY <2>1, <2>2
  <2>5. /\ getEpochStart(e) \in Nat /\ getEpochStart(k - 1) \in Nat
        /\ getEpochStart(k) \in Nat
    BY <1>1, <2>2
  <2>6. ~(getEpochStart(e) < getEpochStart(k))
    BY <2>1
  <2> QED
    BY <2>3, <2>4, <2>5, <2>6
<1> QED
  BY <1>1, <1>2

(* The next epoch is the only one that starts after now while the one      *)
(* below it does not, and it has the duration recorded last.               *)
NextFacts ==
    /\ getNextEpoch \in Nat
    /\ \A epoch \in Nat : NextIs(epoch) <=> epoch = getNextEpoch
    /\ getNextEpochDuration = Latest(byTimestamp, NoData).duration
    /\ getNextEpochDuration \in Durations
    /\ getEpochStart(getNextEpoch + 1)
          = getEpochStart(getNextEpoch) + getNextEpochDuration

LEMMA NextIsKnown == IInv => NextFacts
<1> SUFFICES ASSUME IInv PROVE NextFacts
  OBVIOUS
<1>1. getNextEpoch \in Nat /\ now \in Nat
  BY NextIsLast, EpochAssumption DEF IInv, EpochTypeOK
<1>2. NextIs(getNextEpoch)
  <2>1. CASE BeforeFirst
    BY <2>1, NextIsLast DEF NextIs
  <2>2. CASE ~BeforeFirst
    <3>1. /\ getCurrentEpoch \in Nat /\ getNextEpoch - 1 = getCurrentEpoch
          /\ getEpochStart(getCurrentEpoch) <= now
      BY <2>2, NextIsLast
    <3> QED
      BY <3>1, NextIsLast DEF NextIs
  <2> QED
    BY <2>1, <2>2
<1>3. ASSUME NEW e \in Nat, NEW f \in Nat, NextIs(e), NextIs(f), e < f
      PROVE  FALSE
  <2>1. f - 1 \in Nat /\ (e = f - 1 \/ e < f - 1)
    BY <1>3
  <2>2. getEpochStart(e) \in Nat /\ getEpochStart(f - 1) \in Nat
    BY <2>1, StartsIncrease
  <2>3. getEpochStart(e) <= getEpochStart(f - 1)
    BY <2>1, <2>2, StartsIncrease
  <2>4. now < getEpochStart(e) /\ getEpochStart(f - 1) <= now
    BY <1>3 DEF NextIs
  <2> QED
    BY <1>1, <2>2, <2>3, <2>4
<1>4. \A epoch \in Nat : NextIs(epoch) <=> epoch = getNextEpoch
  <2> SUFFICES ASSUME NEW epoch \in Nat, NextIs(epoch)
               PROVE  epoch = getNextEpoch
    BY <1>2
  <2>1. ~(epoch < getNextEpoch) /\ ~(getNextEpoch < epoch)
    BY <1>1, <1>2, <1>3
  <2> QED
    BY <1>1, <2>1
<1> DEFINE n == Len(byTimestamp)
<1>5. /\ EpochInPart(n, getNextEpoch)
      /\ getNextEpochDuration = Change(n).duration
  BY NextIsLast
<1>6. Change(n) \in Data /\ n \in Nat \ {0}
  BY Changes
<1>7. getNextEpochDuration = Latest(byTimestamp, NoData).duration
  BY <1>5, <1>6 DEF Latest, Change
<1>8. getNextEpochDuration \in Durations
  BY <1>5, <1>6 DEF Data
<1>9. getEpochStart(getNextEpoch + 1)
        = getEpochStart(getNextEpoch) + getNextEpochDuration
  BY <1>1, <1>5, StartInPart
<1> QED
  BY <1>1, <1>4, <1>7, <1>8, <1>9 DEF NextFacts

(* The same after a step.                                                  *)
LEMMA NextIsKnownLater == IInv' => NextFacts'
BY NextIsKnown, PTL

(* EpochClock's next epoch, under the mapping.                             *)
LEMMA ClockNext == IInv => Clock!next = getNextEpoch
<1> SUFFICES ASSUME IInv PROVE Clock!next = getNextEpoch
  OBVIOUS
<1>1. getNextEpoch \in Nat
  BY NextIsLast
<1> DEFINE N == getNextEpoch
           starts == [epoch \in 0..N |-> getEpochStart(epoch)]
<1>2. Clock!next = CHOOSE e \in DOMAIN starts : e + 1 \notin DOMAIN starts
  BY DEF Clock!next
<1>3. DOMAIN starts = 0..N
  OBVIOUS
<1> HIDE DEF starts, N
<1>4. N \in 0..N /\ N + 1 \notin 0..N
  BY <1>1 DEF N
<1>5. \A e \in 0..N : e + 1 \notin 0..N => e = N
  BY <1>1 DEF N
<1> QED
  BY <1>2, <1>3, <1>4, <1>5 DEF N

LEMMA ClockInit == Init => Clock!Init
<1> SUFFICES ASSUME Init PROVE Clock!Init
  OBVIOUS
<1>1. IInv
  BY InitInvariant
<1> DEFINE N == getNextEpoch
           starts == [epoch \in 0..N |-> getEpochStart(epoch)]
<1>2. /\ N \in Nat /\ now \in Nat /\ getNextEpochDuration \in Durations
      /\ now < getEpochStart(N) /\ (BeforeFirst => N = 0)
      /\ \A e \in Nat : getEpochStart(e) \in Nat
  <2>1. now \in Nat
    BY <1>1, EpochAssumption DEF IInv, EpochTypeOK
  <2>2. getNextEpochDuration \in Durations
    BY <1>1, NextIsKnown DEF NextFacts
  <2> QED
    BY <1>1, <2>1, <2>2, NextIsLast, StartsIncrease
<1>3. starts[0] >= now
      /\ IF starts[0] > now
         THEN DOMAIN starts = {0}
         ELSE /\ DOMAIN starts = {0, 1}
              /\ starts[1] = starts[0] + getNextEpochDuration
  <2>1. PICK d \in Durations, s \in now..MaxTime :
           /\ byTimestamp = <<Checkpoint(s, Datum(d, s, 0))>>
           /\ byIndex = <<Checkpoint(0, Datum(d, s, 0))>>
    BY DEF Init
  <2>2. /\ Len(byTimestamp) = 1 /\ Change(1).timestamp = s
        /\ Change(1).duration = d /\ Change(1).index = 0
        /\ s \in Nat /\ s >= now /\ d \in Nat \ {0} /\ first.timestamp = s
    BY <1>2, <2>1, EpochAssumption DEF Change, Checkpoint, Datum, first
  <2>3. EpochInPart(1, 0) /\ 0 \in Nat
    BY <2>2 DEF EpochInPart
  <2>4. getEpochStart(0) = s + (0 - 0) * d /\ getEpochStart(0 + 1) = s + d
    <3>1. /\ getEpochStart(0) = Change(1).timestamp
                                  + (0 - Change(1).index) * Change(1).duration
          /\ getEpochStart(0 + 1) = getEpochStart(0) + Change(1).duration
      BY <1>1, <2>3, StartInPart
    <3> QED
      BY <2>2, <3>1
  <2>5. getEpochStart(0) = s /\ getEpochStart(1) = s + d
    BY <2>2, <2>4
  <2>6. starts[0] = s
    BY <1>2, <2>5
  <2>7. CASE s > now
    <3>1. BeforeFirst
      BY <1>2, <2>2, <2>7 DEF BeforeFirst
    <3> QED
      BY <1>2, <2>2, <2>6, <2>7, <3>1
  <2>8. CASE ~(s > now)
    <3>1. s = now
      BY <1>2, <2>2, <2>8
    <3>2. NextIs(1)
      BY <1>2, <2>2, <2>5, <3>1 DEF NextIs
    <3>3. N = 1
      BY <1>1, <3>2, NextIsKnown DEF NextFacts
    <3>4. getNextEpochDuration = d
      BY <1>1, <2>1, NextIsKnown DEF Latest, Checkpoint, Datum, NextFacts
    <3> QED
      BY <2>2, <2>5, <2>6, <2>8, <3>3, <3>4
  <2> QED
    BY <2>7, <2>8
<1> QED
  BY <1>2, <1>3 DEF Clock!Init

(* When time reaches the next epoch, the start after it is settled by the  *)
(* duration the next epoch has.                                            *)
LEMMA ClockTick == IInv /\ IInv' /\ Tick => Clock!Tick
<1> SUFFICES ASSUME IInv, IInv', Tick PROVE Clock!Tick
  OBVIOUS
<1> DEFINE N == getNextEpoch
           starts == [epoch \in 0..N |-> getEpochStart(epoch)]
<1>1. /\ now \in Nat /\ now' = now + 1
      /\ byTimestamp' = byTimestamp /\ byIndex' = byIndex
  BY EpochAssumption DEF Tick, IInv, EpochTypeOK
<1>2. /\ N \in Nat /\ Clock!next = N
      /\ NextIs(N)
      /\ getEpochStart(N + 1) = getEpochStart(N) + getNextEpochDuration
  BY NextIsKnown, ClockNext DEF NextFacts
<1>3. \A e : getEpochStart(e)' = getEpochStart(e)
  BY <1>1 DEF getEpochStart, DataByIndex
<1>4. getNextEpochDuration' = getNextEpochDuration
  <2>1. Latest(byTimestamp, NoData)' = Latest(byTimestamp, NoData)
    BY <1>1 DEF Latest
  <2> QED
    BY <2>1, NextIsKnown, NextIsKnownLater DEF NextFacts
<1>5. /\ N' \in Nat
      /\ \A e \in Nat : (/\ now' < getEpochStart(e)
                         /\ e > 0 => getEpochStart(e - 1) <= now') => e = N'
  BY <1>3, NextIsKnownLater DEF NextFacts, NextIs
<1>6. \A e \in Nat :
         /\ getEpochStart(e) \in Nat
         /\ \A f \in Nat : e < f => getEpochStart(e) < getEpochStart(f)
  BY StartsIncrease
<1>7. CASE now' = getEpochStart(N)
  <2>1. N' = N + 1
    <3>1. N + 1 \in Nat /\ (N + 1) - 1 = N /\ now' < getEpochStart(N + 1)
      BY <1>2, <1>6, <1>7
    <3>2. getEpochStart((N + 1) - 1) <= now'
      BY <1>2, <1>6, <1>7, <3>1
    <3> QED
      BY <1>5, <3>1, <3>2
  <2>2. starts' = [e \in (DOMAIN starts) \cup {N + 1} |->
                     IF e = N + 1 THEN starts[N] + getNextEpochDuration
                                  ELSE starts[e]]
    <3>1. starts' = [e \in 0..(N + 1) |-> getEpochStart(e)]
      BY <1>3, <2>1
    <3>2. DOMAIN starts \cup {N + 1} = 0..(N + 1)
      BY <1>2
    <3>3. \A e \in 0..(N + 1) : e # N + 1 => e \in 0..N
      BY <1>2
    <3>4. N \in 0..N
      BY <1>2
    <3> QED
      BY <1>2, <3>1, <3>2, <3>3, <3>4
  <2>3. starts[N] = getEpochStart(N)
    BY <1>2
  <2> QED
    BY <1>1, <1>2, <1>4, <1>7, <2>2, <2>3 DEF Clock!Tick
<1>8. CASE now' # getEpochStart(N)
  <2>1. now' < getEpochStart(N) /\ (N > 0 => getEpochStart(N - 1) <= now')
    <3>1. now < getEpochStart(N) /\ getEpochStart(N) \in Nat
      BY <1>2, <1>6 DEF NextIs
    <3>2. ASSUME N > 0 PROVE getEpochStart(N - 1) <= now'
      <4>1. getEpochStart(N - 1) <= now /\ getEpochStart(N - 1) \in Nat
        BY <1>2, <1>6, <3>2 DEF NextIs
      <4> QED
        BY <1>1, <4>1
    <3> QED
      BY <1>1, <1>8, <3>1, <3>2
  <2>2. N' = N
    BY <1>2, <1>5, <2>1
  <2>3. starts' = starts
    BY <1>3, <2>2
  <2>4. starts[N] = getEpochStart(N)
    BY <1>2
  <2> QED
    BY <1>1, <1>2, <1>4, <1>8, <2>3, <2>4 DEF Clock!Tick
<1> QED
  BY <1>7, <1>8

(* What a change of the duration records: the next epoch and its start.    *)
Records(d, N, s, datum) ==
    /\ N \in Nat /\ s \in Nat /\ N = getNextEpoch /\ datum = Datum(d, s, N)
    /\ CanPush(byTimestamp, s) /\ CanPush(byIndex, N)
    /\ s = getEpochStart(N) /\ NextIs(N)
    /\ s \in 0..MaxUint48 /\ N \in 0..MaxUint48 /\ datum \in Data
    /\ byTimestamp \in Traces(0..MaxUint48, Data)
    /\ byIndex \in Traces(0..MaxUint48, Data)

LEMMA SetRecords ==
    ASSUME IInv, NEW d \in Durations, setEpochDuration(d)
    PROVE  \E N \in Nat, s \in Nat, datum \in Data :
              /\ Records(d, N, s, datum)
              /\ now \in Nat /\ now' = now
              /\ byTimestamp' = Push(byTimestamp, s, datum)
              /\ byIndex' = Push(byIndex, N, datum)
<1>0. \A e \in Nat : getEpochStart(e) \in Nat
  BY StartsIncrease
<1>1. PICK N \in Nat, s \in Nat : N = getNextEpoch /\ s = getNextEpochStart
  BY <1>0, NextIsLast
<1>2. PICK datum : datum = Datum(d, s, N)
  OBVIOUS
<1>3. /\ now \in Nat /\ now' = now
      /\ CanPush(byTimestamp, s) /\ CanPush(byIndex, N)
      /\ byTimestamp' = Push(byTimestamp, s, datum)
      /\ byIndex' = Push(byIndex, N, datum)
      /\ s <= MaxUint48 /\ N <= MaxUint48
  BY <1>1, <1>2, EpochAssumption
     DEF setEpochDuration, SetEpochDuration, IInv, EpochTypeOK
<1>4. s = getEpochStart(N) /\ NextIs(N)
  BY <1>1, NextIsLast, NextIsKnown DEF NextFacts
<1>5. s \in 0..MaxUint48 /\ N \in 0..MaxUint48
  BY <1>3, EpochAssumption
<1>6. datum \in Data
  BY <1>2, <1>5, DatumType
<1>7. Records(d, N, s, datum)
  BY <1>1, <1>2, <1>3, <1>4, <1>5, <1>6, Changes DEF Records
<1> QED
  BY <1>3, <1>6, <1>7

(* It leaves every settled start where it is.                              *)
LEMMA SetKeepsStarts ==
    IInv => \A d \in Durations, e \in 0..getNextEpoch :
               setEpochDuration(d) => getEpochStart(e)' = getEpochStart(e)
<1> SUFFICES ASSUME IInv, NEW d \in Durations, setEpochDuration(d),
                    NEW e \in 0..getNextEpoch
             PROVE  getEpochStart(e)' = getEpochStart(e)
  OBVIOUS
<1>1. PICK N \in Nat, s \in Nat, datum \in Data :
         Records(d, N, s, datum) /\ byIndex' = Push(byIndex, N, datum)
  BY SetRecords
<1> DEFINE K == 0..MaxUint48
<1>2. /\ e \in Nat /\ e <= N /\ s = getEpochStart(N) /\ datum = Datum(d, s, N)
      /\ byIndex \in Traces(K, Data) /\ N \in K /\ datum \in Data
      /\ CanPush(byIndex, N)
  BY <1>1 DEF Records
<1>3. AreKeys(K)
  BY EpochAssumption DEF AreKeys
<1> HIDE DEF K
<1>4. UpperLookupRecent(Push(byIndex, N, datum), e, NoData)
         = IF e >= N THEN datum ELSE UpperLookupRecent(byIndex, e, NoData)
  BY <1>2, <1>3, LookupAfterPush
<1>5. DataByIndex(e)' = IF e >= N THEN datum ELSE DataByIndex(e)
  BY <1>1, <1>4 DEF DataByIndex
<1>6. CASE e = N
  <2>1. /\ DataByIndex(e)' = datum /\ datum.timestamp = s
        /\ datum.index = N /\ datum.duration = d
    BY <1>2, <1>5, <1>6 DEF Datum
  <2>2. getEpochStart(e)' = s + (N - N) * d
    BY <1>6, <2>1 DEF getEpochStart
  <2>3. (N - N) * d = 0
    BY EpochAssumption
  <2>4. s \in Nat
    OBVIOUS
  <2> QED
    BY <1>2, <1>6, <2>2, <2>3, <2>4
<1>7. CASE e # N
  <2>1. DataByIndex(e)' = DataByIndex(e)
    BY <1>2, <1>5, <1>7
  <2> QED
    BY <2>1 DEF getEpochStart
<1> QED
  BY <1>6, <1>7

LEMMA ClockSetDuration ==
    IInv /\ IInv' => \A d \in Durations :
                        setEpochDuration(d) => Clock!SetDuration(d)
<1> SUFFICES ASSUME IInv, IInv', NEW d \in Durations, setEpochDuration(d)
             PROVE  Clock!SetDuration(d)
  OBVIOUS
<1> DEFINE starts == [epoch \in 0..getNextEpoch |-> getEpochStart(epoch)]
<1>1. PICK N \in Nat, s \in Nat, datum \in Data :
         /\ Records(d, N, s, datum)
         /\ now \in Nat /\ now' = now
         /\ byTimestamp' = Push(byTimestamp, s, datum)
  BY SetRecords
<1>2. /\ N = getNextEpoch /\ datum = Datum(d, s, N) /\ NextIs(N)
      /\ CanPush(byTimestamp, s)
      /\ s \in 0..MaxUint48
      /\ byTimestamp \in Traces(0..MaxUint48, Data)
  BY <1>1 DEF Records
<1>3. \A e \in 0..N : getEpochStart(e)' = getEpochStart(e)
  BY <1>2, SetKeepsStarts
<1>4. getNextEpoch' = N
  <2>1. N \in 0..N /\ (N > 0 => N - 1 \in 0..N)
    OBVIOUS
  <2>2. now < getEpochStart(N) /\ (N > 0 => getEpochStart(N - 1) <= now)
    BY <1>2 DEF NextIs
  <2>3. /\ now' < getEpochStart(N)'
        /\ N > 0 => getEpochStart(N - 1)' <= now'
    BY <1>1, <1>3, <2>1, <2>2
  <2>4. NextIs(N)'
    BY <2>3 DEF NextIs
  <2> QED
    BY <2>4, NextIsKnownLater DEF NextFacts
<1>5. starts' = starts
  BY <1>2, <1>3, <1>4
<1>6. getNextEpochDuration' = d
  <2>1. /\ byTimestamp' # <<>>
        /\ byTimestamp'[Len(byTimestamp')] = Checkpoint(s, datum)
    <3> DEFINE T == [key : 0..MaxUint48, value : Data]
    <3>1. /\ byTimestamp \in Seq(T) /\ byTimestamp # <<>>
          /\ Len(byTimestamp) \in Nat \ {0} /\ Checkpoint(s, datum) \in T
      BY <1>2, Changes DEF Traces, Checkpoint
    <3> HIDE DEF T
    <3>2. CASE LastKey(byTimestamp) = s
      BY <1>1, <3>1, <3>2, PushReplaces
    <3>3. CASE LastKey(byTimestamp) # s
      BY <1>1, <3>1, <3>3, PushAppends
    <3> QED
      BY <3>2, <3>3
  <2>2. Latest(byTimestamp, NoData)' = datum
    BY <2>1 DEF Latest, Checkpoint
  <2>3. datum.duration = d
    BY <1>2 DEF Datum
  <2> QED
    BY <2>2, <2>3, NextIsKnownLater DEF NextFacts
<1> QED
  BY <1>1, <1>5, <1>6 DEF Clock!SetDuration

(* EpochManager implements EpochClock: a change of the duration never      *)
(* moves the start of an epoch up to and including the next one, and only  *)
(* time settles the start after it.                                        *)
THEOREM ImplementsEpochClockHolds == Spec => ImplementsEpochClock
<1>1. IInv /\ IInv' /\ [Next]_vars => [Clock!Next]_(Clock!vars)
  <2> SUFFICES ASSUME IInv, IInv', [Next]_vars
               PROVE  [Clock!Next]_(Clock!vars)
    OBVIOUS
  <2>1. CASE Tick
    BY <2>1, ClockTick DEF Clock!Next
  <2>2. ASSUME NEW d \in Durations, setEpochDuration(d)
        PROVE  [Clock!Next]_(Clock!vars)
    BY <2>2, ClockSetDuration DEF Clock!Next
  <2>3. CASE UNCHANGED vars
    BY <2>3 DEF vars, Clock!vars, getNextEpoch, getEpochStart, BeforeFirst,
                first, getCurrentEpoch, current, CurrentValue, Elapsed,
                LastKey, DataByIndex, getNextEpochDuration, Latest
  <2> QED
    BY <2>1, <2>2, <2>3 DEF Next
<1> QED
  BY Invariant, ClockInit, <1>1, PTL DEF Spec, ImplementsEpochClock, Clock!Spec

-----------------------------------------------------------------------------
(* The configuration.  Elements are packed and unpacked without loss: the  *)
(* item is below the width the group is shifted by.                        *)
LEMMA Unpacks ==
    ASSUME NEW W \in Nat, NEW g \in Nat, NEW x \in 0..(W - 1)
    PROVE  (g * W + x) \div W = g /\ (g * W + x) % W = x
<1> DEFINE a == g * W + x
           q == a \div W
<1>1. W \in Nat \ {0} /\ g * W \in Nat /\ a \in Nat
  BY SMT
<1>2. q \in Nat /\ q * W <= a /\ a < (q + 1) * W
  BY <1>1, DivBounds
<1>3. a < (g + 1) * W
  BY <1>1, TimesSuccessor
<1>4. g < q + 1 /\ q < g + 1
  <2>1. g * W < (q + 1) * W /\ q * W < (g + 1) * W
    BY <1>1, <1>2, <1>3, SMT
  <2> HIDE DEF q
  <2> QED
    BY <1>1, <1>2, <2>1, TimesOrder
<1>5. q = g
  BY <1>2, <1>4
<1>6. a % W = a - q * W
  BY <1>1, SMT
<1> QED
  BY <1>1, <1>5, <1>6

Packed(name) == {Serialize(e) : e \in Items[name]}

Unpacked(elements) == {Deserialize(packed) : packed \in elements}

LEMMA PackedElement ==
    ASSUME NEW name \in SetNames, NEW e \in Items[name]
    PROVE  Deserialize(Serialize(e)) = e
<1>1. /\ e = [group |-> e.group, item |-> e.item] /\ ItemWidth \in Nat
      /\ e.group \in Nat /\ e.item \in 0 .. ItemWidth - 1
  BY DriverAssumption
<1>2. PICK g \in Nat, x \in 0 .. ItemWidth - 1 : g = e.group /\ x = e.item
  BY <1>1
<1>3. Deserialize(g * ItemWidth + x) = [group |-> g, item |-> x]
  BY <1>1, Unpacks DEF Deserialize
<1> QED
  BY <1>1, <1>2, <1>3 DEF Serialize

(* The sets a history may hold: elements of different groups.              *)
Groupings(name) ==
    {elements \in SUBSET Packed(name) : OnePerGroup(Unpacked(elements))}

HasGroup(elements, group) == \E e \in Unpacked(elements) : e.group = group

LEMMA GroupingShape ==
    ASSUME NEW name \in SetNames, NEW elements \in Groupings(name),
           NEW p \in elements
    PROVE  /\ Deserialize(p) \in Items[name] /\ Serialize(Deserialize(p)) = p
           /\ Deserialize(p) \in Unpacked(elements)
<1>1. PICK e \in Items[name] : p = Serialize(e)
  BY DEF Groupings, Packed
<1> QED
  BY <1>1, PackedElement DEF Unpacked

(* An element of a group that has none may join, and one that is there may *)
(* leave; nothing changes for the other groups.                            *)
LEMMA Joins ==
    ASSUME NEW name \in SetNames, NEW elements \in Groupings(name),
           NEW e \in Items[name], ~HasGroup(elements, e.group)
    PROVE  /\ elements \union {Serialize(e)} \in Groupings(name)
           /\ \A group : HasGroup(elements \union {Serialize(e)}, group)
                            <=> HasGroup(elements, group) \/ group = e.group
<1> DEFINE more == elements \union {Serialize(e)}
<1>1. Unpacked(more) = Unpacked(elements) \union {e}
  BY PackedElement DEF Unpacked
<1>2. more \in SUBSET Packed(name)
  BY DEF Groupings, Packed
<1>3. OnePerGroup(Unpacked(more))
  BY <1>1 DEF Groupings, OnePerGroup, HasGroup
<1> QED
  BY <1>1, <1>2, <1>3 DEF Groupings, HasGroup

LEMMA Leaves ==
    ASSUME NEW name \in SetNames, NEW elements \in Groupings(name),
           NEW e \in Items[name], Serialize(e) \in elements
    PROVE  /\ elements \ {Serialize(e)} \in Groupings(name)
           /\ \A group : HasGroup(elements \ {Serialize(e)}, group)
                            <=> HasGroup(elements, group) /\ group # e.group
<1> DEFINE less == elements \ {Serialize(e)}
<1>1. Unpacked(less) = Unpacked(elements) \ {e}
  <2>1. ASSUME NEW p \in less PROVE Deserialize(p) # e
    BY GroupingShape
  <2>2. ASSUME NEW p \in elements, Deserialize(p) # e PROVE p \in less
    BY <2>2, PackedElement
  <2> QED
    BY <2>1, <2>2 DEF Unpacked
<1>2. less \in SUBSET Packed(name)
  BY DEF Groupings
<1>3. e \in Unpacked(elements)
  BY PackedElement DEF Unpacked
<1>4. OnePerGroup(Unpacked(less))
  BY <1>1 DEF Groupings, OnePerGroup
<1>5. \A group : HasGroup(less, group) <=> HasGroup(elements, group) /\ group # e.group
  BY <1>1, <1>3 DEF HasGroup, Groupings, OnePerGroup
<1> QED
  BY <1>2, <1>4, <1>5 DEF Groupings

LEMMA NoneGrouped ==
    ASSUME NEW name \in SetNames
    PROVE  {} \in Groupings(name) /\ \A group : ~HasGroup({}, group)
BY DEF Groupings, OnePerGroup, Unpacked, HasGroup

(* The latest value after a push is the one pushed.                        *)
LEMMA LatestPushed ==
    ASSUME NEW K, AreKeys(K), NEW V, NEW trace \in Traces(K, V),
           NEW key \in K, NEW value \in V, CanPush(trace, key), NEW zero
    PROVE  Latest(Push(trace, key, value), zero) = value
<1> DEFINE pushed == Push(trace, key, value)
<1>1. pushed \in Traces(K, V) /\ pushed # <<>> /\ LastKey(pushed) = key
  BY PushType
<1>2. key \in Nat
  BY DEF AreKeys
<1>3. UpperLookupRecent(pushed, key, zero) = value
  BY <1>2, LookupAfterPush
<1> HIDE DEF pushed
<1>4. UpperLookupRecent(pushed, key, zero) = Latest(pushed, zero)
  BY <1>1, <1>2, LookupLast
<1> QED
  BY <1>3, <1>4 DEF pushed

-----------------------------------------------------------------------------
(* The invariant of the driver: the schedule, and histories in order that  *)
(* end by now; a set never holds two elements of one group, and the flag   *)
(* of a group tells whether it has an element in the set of today.         *)
Times == 0..MaxTime

ValidValues(name) ==
    {value \in Inputs[name] \union {Initial[name]} : IsValid(name, value)}

History(trace, V) ==
    trace \in Traces(Times, V) /\ (trace # << >> => LastKey(trace) <= now)

ParamsOK ==
    /\ DOMAIN params = Params
    /\ \A name \in Params :
          History(params[name], ValidValues(name)) /\ params[name] # << >>

SetsOK ==
    /\ DOMAIN sets = SetNames
    /\ \A name \in SetNames : History(sets[name], Groupings(name))

FlagsOK ==
    /\ isAdded = [name \in SetNames |-> isAdded[name]]
    /\ \A name \in SetNames :
          /\ isAdded[name] \in [Groups(name) -> BOOLEAN]
          /\ \A group \in Groups(name) :
                isAdded[name][group] <=> HasGroup(Present(name), group)

DriverInv == IInv /\ ParamsOK /\ SetsOK /\ FlagsOK

LEMMA TimesAreKeys == AreKeys(Times)
BY EpochAssumption DEF AreKeys, Times

LEMMA EmptyHistory ==
    ASSUME NEW V
    PROVE  << >> \in Traces(Times, V)
BY DEF Traces, Sorted

(* Any value may be set now, and the history then ends with it.            *)
LEMMA SetExtends ==
    ASSUME now \in Times, NEW V, NEW trace, History(trace, V), NEW value \in V,
           NEW zero
    PROVE  /\ History(SetValue(trace, value), V) /\ SetValue(trace, value) # << >>
           /\ Latest(SetValue(trace, value), zero) = value
<1>1. CanPush(trace, now) /\ trace \in Traces(Times, V) /\ AreKeys(Times)
  BY TimesAreKeys DEF History, CanPush
<1>2. now \in Nat
  BY <1>1 DEF AreKeys
<1>3. /\ Push(trace, now, value) \in Traces(Times, V)
      /\ Push(trace, now, value) # << >>
      /\ LastKey(Push(trace, now, value)) = now
  BY <1>1, PushType
<1>4. Latest(Push(trace, now, value), zero) = value
  BY <1>1, LatestPushed
<1> QED
  BY <1>2, <1>3, <1>4 DEF History, SetValue

(* Time keeps a history a history.                                         *)
LEMMA SameHistory ==
    ASSUME now \in Times, now' \in Times, now <= now', NEW V, NEW trace,
           History(trace, V)
    PROVE  trace \in Traces(Times, V) /\ (trace # << >> => LastKey(trace) <= now')
<1>1. trace # << >> => LastKey(trace) \in Nat /\ LastKey(trace) <= now
  BY TimesAreKeys, TraceShape DEF History
<1> QED
  BY <1>1, EpochAssumption DEF History, Times

LEMMA PresentGrouping ==
    ASSUME SetsOK, NEW name \in SetNames
    PROVE  Present(name) \in Groupings(name)
<1>1. sets[name] \in Traces(Times, Groupings(name))
  BY DEF SetsOK, History
<1> QED
  BY <1>1, TimesAreKeys, LatestType, NoneGrouped DEF Present

(* What an initializer accepts packs into a set of different groups.       *)
LEMMA ListPacks ==
    ASSUME NEW name \in SetNames, NEW L \in Lists(name)
    PROVE  /\ {Serialize(e) : e \in L} \in Groupings(name)
           /\ \A group : HasGroup({Serialize(e) : e \in L}, group)
                            <=> \E e \in L : e.group = group
<1>1. L \subseteq Items[name] /\ OnePerGroup(L)
  BY DEF Lists
<1>2. Unpacked({Serialize(e) : e \in L}) = L
  BY <1>1, PackedElement DEF Unpacked
<1> QED
  BY <1>1, <1>2 DEF Groupings, Packed, HasGroup

LEMMA DriverInitInv == DriverInit => DriverInv
<1> SUFFICES ASSUME DriverInit PROVE DriverInv
  OBVIOUS
<1>1. IInv /\ now \in Times
  BY InitInvariant DEF DriverInit, IInv, EpochTypeOK, Times
<1>2. ParamsOK
  <2>1. ASSUME NEW name \in Params
        PROVE  History(params[name], ValidValues(name)) /\ params[name] # << >>
    <3>1. params[name] = SetValue(<< >>, Initial[name])
      BY DEF DriverInit, SetValue
    <3>2. Initial[name] \in ValidValues(name)
      BY DEF DriverInit, ValidValues
    <3>3. History(<< >>, ValidValues(name))
      BY EmptyHistory DEF History
    <3> QED
      BY <1>1, <3>1, <3>2, <3>3, SetExtends
  <2> QED
    BY <2>1 DEF ParamsOK, DriverInit
<1>3. PICK initial :
         /\ \A name \in SetNames : initial[name] \in Lists(name)
         /\ sets = [name \in SetNames |->
                       IF initial[name] = {} THEN << >>
                       ELSE Push(<< >>, now, {Serialize(e) : e \in initial[name]})]
         /\ isAdded = [name \in SetNames |-> [group \in Groups(name) |->
                           \E e \in initial[name] : e.group = group]]
  <2>1. PICK providers \in Lists("votingPowerProviders"),
             settlements \in Lists("settlements"),
             thresholds \in Lists("quorumThresholds") :
          LET initial == [votingPowerProviders |-> providers,
                          settlements |-> settlements,
                          quorumThresholds |-> thresholds]
          IN  /\ sets = [name \in SetNames |->
                            IF initial[name] = {} THEN << >>
                            ELSE Push(<< >>, now, {Serialize(e) : e \in initial[name]})]
              /\ isAdded = [name \in SetNames |-> [group \in Groups(name) |->
                                \E e \in initial[name] : e.group = group]]
    BY Zenon DEF DriverInit
  <2> DEFINE I == [votingPowerProviders |-> providers,
                   settlements |-> settlements,
                   quorumThresholds |-> thresholds]
  <2>2. \A name \in SetNames : I[name] \in Lists(name)
    BY DEF SetNames, CrossChainSets
  <2>3. /\ sets = [name \in SetNames |->
                       IF I[name] = {} THEN << >>
                       ELSE Push(<< >>, now, {Serialize(e) : e \in I[name]})]
        /\ isAdded = [name \in SetNames |-> [group \in Groups(name) |->
                           \E e \in I[name] : e.group = group]]
    BY <2>1, Zenon
  <2> HIDE DEF I
  <2> QED
    BY <2>2, <2>3, Zenon
<1>4. ASSUME NEW name \in SetNames
      PROVE  /\ History(sets[name], Groupings(name))
             /\ \A group : HasGroup(Present(name), group)
                              <=> \E e \in initial[name] : e.group = group
  <2>0. initial[name] \in Lists(name) /\ History(<< >>, Groupings(name))
    BY <1>3, EmptyHistory DEF History
  <2>1. CASE initial[name] = {}
    <3>1. sets[name] = << >> /\ Present(name) = {}
      BY <1>3, <2>1 DEF Present, Latest
    <3> QED
      BY <2>0, <2>1, <3>1, NoneGrouped
  <2>2. CASE initial[name] # {}
    <3>1. sets[name] = SetValue(<< >>, {Serialize(e) : e \in initial[name]})
      BY <1>3, <2>2 DEF SetValue
    <3>2. /\ History(sets[name], Groupings(name))
          /\ Present(name) = {Serialize(e) : e \in initial[name]}
      BY <1>1, <2>0, <3>1, ListPacks, SetExtends DEF Present
    <3> QED
      BY <2>0, <3>2, ListPacks
  <2> QED
    BY <2>1, <2>2
<1>5. SetsOK
  BY <1>3, <1>4 DEF SetsOK
<1>6. FlagsOK
  <2>1. ASSUME NEW name \in SetNames
        PROVE  isAdded[name] = [group \in Groups(name) |->
                                   \E e \in initial[name] : e.group = group]
    BY <1>3
  <2>2. isAdded = [name \in SetNames |-> isAdded[name]]
    BY <1>3
  <2>3. ASSUME NEW name \in SetNames
        PROVE  /\ isAdded[name] \in [Groups(name) -> BOOLEAN]
               /\ \A group \in Groups(name) :
                     isAdded[name][group] <=> HasGroup(Present(name), group)
    <3> DEFINE Has(group) == \E e \in initial[name] : e.group = group
    <3>1. \A group : Has(group) \in BOOLEAN /\ (HasGroup(Present(name), group)
                                                   <=> Has(group))
      BY <1>4
    <3>2. isAdded[name] = [group \in Groups(name) |-> Has(group)]
      BY <2>1, Zenon
    <3> HIDE DEF Has
    <3>3. isAdded[name] \in [Groups(name) -> BOOLEAN]
      BY <3>1, <3>2, Zenon
    <3>4. \A group \in Groups(name) : isAdded[name][group] = Has(group)
      BY <3>2, Zenon
    <3> QED
      BY <3>1, <3>3, <3>4, Zenon
  <2> QED
    BY <2>2, <2>3 DEF FlagsOK
<1> QED
  BY <1>1, <1>2, <1>5, <1>6 DEF DriverInv

LEMMA NowIsTime == IInv => now \in Times
BY DEF IInv, EpochTypeOK, Times

LEMMA NowIsTimeLater == IInv' => now' \in Times
BY DEF IInv, EpochTypeOK, Times

(* What is left alone stays a history, also as time passes.                *)
LEMMA ParamsKept ==
    ASSUME DriverInv, IInv', now <= now', params' = params
    PROVE  ParamsOK'
<1>1. now \in Times /\ now' \in Times
  BY NowIsTime, NowIsTimeLater DEF DriverInv
<1>2. ASSUME NEW name \in Params
      PROVE  History(params[name], ValidValues(name))' /\ params'[name] # << >>
  <2>1. History(params[name], ValidValues(name)) /\ params[name] # << >>
    BY DEF DriverInv, ParamsOK
  <2> QED
    BY <1>1, <2>1, SameHistory DEF History
<1> QED
  BY <1>2 DEF DriverInv, ParamsOK

LEMMA SetsKept ==
    ASSUME DriverInv, IInv', now <= now', sets' = sets, isAdded' = isAdded
    PROVE  SetsOK' /\ FlagsOK'
<1>1. now \in Times /\ now' \in Times
  BY NowIsTime, NowIsTimeLater DEF DriverInv
<1>2. ASSUME NEW name \in SetNames
      PROVE  History(sets[name], Groupings(name))'
  <2>1. History(sets[name], Groupings(name))
    BY DEF DriverInv, SetsOK
  <2> QED
    BY <1>1, <2>1, SameHistory DEF History
<1>3. SetsOK'
  BY <1>2 DEF DriverInv, SetsOK
<1>4. \A name \in SetNames : Present(name)' = Present(name)
  BY DEF Present
<1>5. FlagsOK'
  BY <1>4 DEF DriverInv, FlagsOK
<1> QED
  BY <1>3, <1>5

LEMMA SetKeepsInv ==
    ASSUME DriverInv, NEW name \in Params, Set(name)
    PROVE  DriverInv'
<1>1. /\ now' = now /\ UNCHANGED vars /\ sets' = sets /\ isAdded' = isAdded
      /\ now \in Times /\ now <= now'
  <2>1. now \in Times /\ now \in Nat
    BY NowIsTime, EpochAssumption DEF DriverInv, Times
  <2> QED
    BY <2>1 DEF Set, vars
<1>2. IInv'
  BY <1>1, StepInvariant DEF DriverInv
<1>3. PICK value \in Inputs[name] :
         /\ IsValid(name, value)
         /\ params' = [params EXCEPT ![name] = SetValue(@, value)]
  BY DEF Set
<1>4. ASSUME NEW n \in Params
      PROVE  History(params[n], ValidValues(n))' /\ params'[n] # << >>
  <2>1. History(params[n], ValidValues(n)) /\ params[n] # << >>
    BY DEF DriverInv, ParamsOK
  <2>2. CASE n = name
    <3>1. value \in ValidValues(n) /\ params'[n] = SetValue(params[n], value)
      BY <1>3, <2>2 DEF ValidValues, DriverInv, ParamsOK
    <3>2. /\ History(SetValue(params[n], value), ValidValues(n))
          /\ SetValue(params[n], value) # << >>
      BY <1>1, <2>1, <3>1, SetExtends
    <3> QED
      BY <1>1, <3>1, <3>2 DEF History
  <2>3. CASE n # name
    <3>1. params'[n] = params[n]
      BY <1>3, <2>3 DEF DriverInv, ParamsOK
    <3> QED
      BY <1>1, <2>1, <3>1 DEF History
  <2> QED
    BY <2>2, <2>3
<1>5. ParamsOK'
  BY <1>3, <1>4 DEF ParamsOK, DriverInv
<1> QED
  BY <1>1, <1>2, <1>5, SetsKept DEF DriverInv

(* An add and a remove: a new set for one name, and the flag of the group  *)
(* of the element.                                                         *)
LEMMA NewSetKeepsInv ==
    ASSUME DriverInv, UNCHANGED <<vars, params>>,
           NEW name \in SetNames, NEW group, NEW flag \in BOOLEAN,
           NEW elements \in Groupings(name),
           \A g \in Groups(name) : HasGroup(elements, g) <=>
               IF g = group THEN flag ELSE HasGroup(Present(name), g),
           isAdded' = [isAdded EXCEPT ![name][group] = flag],
           sets' = [sets EXCEPT ![name] = SetValue(@, elements)]
    PROVE  DriverInv'
<1>1. /\ now' = now /\ UNCHANGED vars /\ params' = params
      /\ now \in Times /\ now <= now'
  <2>1. now \in Times /\ now \in Nat
    BY NowIsTime, EpochAssumption DEF DriverInv, Times
  <2> QED
    BY <2>1 DEF vars
<1>2. IInv'
  BY <1>1, StepInvariant DEF DriverInv
<1>3. ParamsOK'
  BY <1>1, <1>2, ParamsKept
<1>4. DOMAIN sets = SetNames /\ DOMAIN isAdded = SetNames
  BY DEF DriverInv, SetsOK, FlagsOK
<1>5. ASSUME NEW n \in SetNames
      PROVE  /\ History(sets[n], Groupings(n))'
             /\ Present(n)' = IF n = name THEN elements ELSE Present(n)
  <2>1. History(sets[n], Groupings(n))
    BY DEF DriverInv, SetsOK
  <2>2. CASE n = name
    <3>1. sets'[n] = SetValue(sets[n], elements)
      BY <1>4, <2>2
    <3>2. /\ History(SetValue(sets[n], elements), Groupings(n))
          /\ Latest(SetValue(sets[n], elements), {}) = elements
      BY <1>1, <2>1, <2>2, SetExtends
    <3> QED
      BY <1>1, <2>2, <3>1, <3>2 DEF History, Present
  <2>3. CASE n # name
    <3>1. sets'[n] = sets[n]
      BY <1>4, <2>3
    <3> QED
      BY <1>1, <2>1, <2>3, <3>1 DEF History, Present
  <2> QED
    BY <2>2, <2>3
<1>6. SetsOK'
  BY <1>4, <1>5 DEF SetsOK
<1>7. ASSUME NEW n \in SetNames
      PROVE  /\ isAdded'[n] \in [Groups(n) -> BOOLEAN]
             /\ \A g \in Groups(n) :
                   isAdded'[n][g] <=> HasGroup(Present(n)', g)
  <2>1. /\ isAdded[n] \in [Groups(n) -> BOOLEAN]
        /\ \A g \in Groups(n) : isAdded[n][g] <=> HasGroup(Present(n), g)
    BY DEF DriverInv, FlagsOK
  <2>2. CASE n = name
    <3>1. isAdded'[n] = [isAdded[n] EXCEPT ![group] = flag]
      BY <1>4, <2>2
    <3>2. isAdded'[n] \in [Groups(n) -> BOOLEAN]
      BY <2>1, <3>1
    <3>3. Present(n)' = elements
      BY <1>5, <2>2
    <3>4. ASSUME NEW g \in Groups(n)
          PROVE  isAdded'[n][g] <=> HasGroup(Present(n)', g)
      <4>1. CASE g = group
        <5>1. isAdded'[n][g] = flag
          BY <2>1, <3>1, <4>1
        <5> QED
          BY <2>2, <3>3, <4>1, <5>1, Zenon
      <4>2. CASE g # group
        <5>1. isAdded'[n][g] = isAdded[n][g]
          BY <2>1, <3>1, <4>2
        <5> QED
          BY <2>1, <2>2, <3>3, <4>2, <5>1, Zenon
      <4> QED
        BY <4>1, <4>2
    <3> QED
      BY <3>2, <3>4
  <2>3. CASE n # name
    <3>1. isAdded'[n] = isAdded[n] /\ Present(n)' = Present(n)
      BY <1>4, <1>5, <2>3
    <3> QED
      BY <2>1, <3>1
  <2> QED
    BY <2>2, <2>3
<1>8. FlagsOK'
  BY <1>4, <1>7 DEF FlagsOK
<1> QED
  BY <1>2, <1>3, <1>6, <1>8 DEF DriverInv

LEMMA AddKeepsInv ==
    ASSUME DriverInv, NEW name \in SetNames, Add(name)
    PROVE  DriverInv'
<1>1. PICK e \in Items[name] :
         /\ CanAdd(name, e)
         /\ isAdded' = [isAdded EXCEPT ![name][e.group] = TRUE]
         /\ sets' = [sets EXCEPT ![name] =
                        SetValue(@, Present(name) \union {Serialize(e)})]
  BY Zenon DEF Add
<1>2. e.group \in Groups(name) /\ ~isAdded[name][e.group]
  BY <1>1 DEF Groups, CanAdd
<1>3. ~HasGroup(Present(name), e.group)
  BY <1>2 DEF DriverInv, FlagsOK
<1>4. Present(name) \in Groupings(name)
  BY PresentGrouping DEF DriverInv
<1>5. /\ Present(name) \union {Serialize(e)} \in Groupings(name)
      /\ \A g \in Groups(name) :
            HasGroup(Present(name) \union {Serialize(e)}, g) <=>
               IF g = e.group THEN TRUE ELSE HasGroup(Present(name), g)
  BY <1>3, <1>4, Joins
<1>6. UNCHANGED <<vars, params>> /\ TRUE \in BOOLEAN
  BY DEF Add
<1> QED
  BY <1>1, <1>5, <1>6, NewSetKeepsInv

LEMMA RemoveKeepsInv ==
    ASSUME DriverInv, NEW name \in SetNames, Remove(name)
    PROVE  DriverInv'
<1>1. PICK e \in Items[name] :
         /\ CanRemove(name, e)
         /\ isAdded' = [isAdded EXCEPT ![name][e.group] = FALSE]
         /\ sets' = [sets EXCEPT ![name] =
                        SetValue(@, Present(name) \ {Serialize(e)})]
  BY Zenon DEF Remove
<1>2. Serialize(e) \in Present(name)
  BY <1>1 DEF CanRemove
<1>3. Present(name) \in Groupings(name)
  BY PresentGrouping DEF DriverInv
<1>4. /\ Present(name) \ {Serialize(e)} \in Groupings(name)
      /\ \A g \in Groups(name) :
            HasGroup(Present(name) \ {Serialize(e)}, g) <=>
               IF g = e.group THEN FALSE ELSE HasGroup(Present(name), g)
  BY <1>2, <1>3, Leaves
<1>5. UNCHANGED <<vars, params>> /\ FALSE \in BOOLEAN
  BY DEF Remove
<1> DEFINE elements == Present(name) \ {Serialize(e)}
<1>6. /\ elements \in Groupings(name)
      /\ \A g \in Groups(name) : HasGroup(elements, g) <=>
            IF g = e.group THEN FALSE ELSE HasGroup(Present(name), g)
      /\ sets' = [sets EXCEPT ![name] = SetValue(@, elements)]
  BY <1>1, <1>4
<1> HIDE DEF elements
<1> QED
  BY <1>1, <1>5, <1>6, NewSetKeepsInv

LEMMA EpochsKeepInv ==
    ASSUME DriverInv, [Next]_vars, UNCHANGED configuration
    PROVE  DriverInv'
<1>1. IInv'
  BY StepInvariant DEF DriverInv
<1>2. now <= now'
  <2>1. now \in Nat
    BY NowIsTime, EpochAssumption DEF DriverInv, Times
  <2> QED
    BY <2>1 DEF Next, Tick, setEpochDuration, vars
<1> QED
  BY <1>1, <1>2, ParamsKept, SetsKept DEF DriverInv, configuration

(* The driver is an EpochManager: what is proved of one holds of the other.*)
LEMMA DriverEpochs == DriverSpec => Spec
<1>1. [DriverNext]_driverVars => [Next]_vars
  BY DEF DriverNext, Set, Add, Remove, driverVars
<1>2. DriverInit => Init
  BY DEF DriverInit
<1> QED
  BY <1>1, <1>2, PTL DEF DriverSpec, Spec

(* The driver keeps its invariant.                                         *)
THEOREM DriverInvariant == DriverSpec => []DriverInv
<1>1. DriverInv /\ [DriverNext]_driverVars => DriverInv'
  <2> SUFFICES ASSUME DriverInv, [DriverNext]_driverVars PROVE DriverInv'
    OBVIOUS
  <2>1. ASSUME NEW name \in Params, Set(name) PROVE DriverInv'
    BY <2>1, SetKeepsInv
  <2>2. ASSUME NEW name \in SetNames, Add(name) PROVE DriverInv'
    BY <2>2, AddKeepsInv
  <2>3. ASSUME NEW name \in SetNames, Remove(name) PROVE DriverInv'
    BY <2>3, RemoveKeepsInv
  <2>4. CASE Next /\ UNCHANGED configuration
    BY <2>4, EpochsKeepInv
  <2>5. CASE UNCHANGED driverVars
    <3>1. UNCHANGED vars /\ UNCHANGED configuration
      BY <2>5 DEF driverVars
    <3> QED
      BY <3>1, EpochsKeepInv
  <2> QED
    BY <2>1, <2>2, <2>3, <2>4, <2>5 DEF DriverNext
<1> QED
  BY DriverInitInv, <1>1, PTL DEF DriverSpec

(* The types follow from the invariant.                                    *)
LEMMA InvTypes == DriverInv => DriverTypeOK
<1> SUFFICES ASSUME DriverInv PROVE DriverTypeOK
  OBVIOUS
<1>1. ASSUME NEW name \in Params
      PROVE  /\ Sorted(params[name]) /\ params[name] # << >>
             /\ LastKey(params[name]) <= now
             /\ \A i \in DOMAIN params[name] : IsValid(name, params[name][i].value)
  <2>1. /\ params[name] \in Traces(Times, ValidValues(name))
        /\ params[name] # << >> /\ LastKey(params[name]) <= now
    BY DEF DriverInv, ParamsOK, History
  <2>2. /\ Sorted(params[name])
        /\ params[name] \in Seq([key : Times, value : ValidValues(name)])
        /\ \A i \in 1..Len(params[name]) :
              params[name][i].value \in ValidValues(name)
    BY <2>1, TimesAreKeys, TraceShape
  <2> QED
    BY <2>1, <2>2 DEF ValidValues
<1>2. ASSUME NEW name \in SetNames
      PROVE  /\ Sorted(sets[name])
             /\ sets[name] # << >> => LastKey(sets[name]) <= now
             /\ \A i \in DOMAIN sets[name] : \A packed \in sets[name][i].value :
                   Deserialize(packed) \in Items[name]
  <2>1. /\ sets[name] \in Traces(Times, Groupings(name))
        /\ sets[name] # << >> => LastKey(sets[name]) <= now
    BY DEF DriverInv, SetsOK, History
  <2>2. /\ Sorted(sets[name])
        /\ sets[name] \in Seq([key : Times, value : Groupings(name)])
        /\ \A i \in 1..Len(sets[name]) : sets[name][i].value \in Groupings(name)
    BY <2>1, TimesAreKeys, TraceShape
  <2>3. ASSUME NEW i \in DOMAIN sets[name], NEW packed \in sets[name][i].value
        PROVE  Deserialize(packed) \in Items[name]
    BY <2>2, GroupingShape
  <2> QED
    BY <2>1, <2>2, <2>3
<1>3. isAdded \in [SetNames -> UNION {[Groups(name) -> BOOLEAN] : name \in SetNames}]
  <2>1. \A name \in SetNames :
           isAdded[name] \in UNION {[Groups(n) -> BOOLEAN] : n \in SetNames}
    BY DEF DriverInv, FlagsOK
  <2>2. isAdded = [name \in SetNames |-> isAdded[name]]
    BY DEF DriverInv, FlagsOK
  <2> QED
    BY <2>1, <2>2
<1> QED
  BY <1>1, <1>2, <1>3 DEF DriverInv, IInv, DriverTypeOK

(* A chain never has two providers or two settlements, nor a key tag two   *)
(* thresholds, at any time; and the flag of a group tells whether it has   *)
(* one now.                                                                *)
THEOREM OneElementHolds == DriverSpec => []OneElementPerGroup
<1>1. DriverInv => OneElementPerGroup
  <2> SUFFICES ASSUME DriverInv PROVE OneElementPerGroup
    OBVIOUS
  <2>0. now \in Times /\ now \in Nat
    BY NowIsTime, EpochAssumption DEF DriverInv, Times
  <2>1. ASSUME NEW name \in SetNames
        PROVE  /\ sets[name] \in Traces(Times, Groupings(name))
               /\ sets[name] # << >> => LastKey(sets[name]) <= now
    BY DEF DriverInv, SetsOK, History
  <2>2. ASSUME NEW name \in SetNames, NEW t \in 0 .. now
        PROVE  OnePerGroup(MembersAt(name, t))
    <3>1. UpperLookupRecent(sets[name], t, {}) \in Groupings(name)
      BY <2>1, TimesAreKeys, LookupType, NoneGrouped
    <3> QED
      BY <3>1 DEF MembersAt, Groupings, Unpacked
  <2>3. ASSUME NEW name \in SetNames, NEW group \in Groups(name)
        PROVE  isAdded[name][group] <=> \E e \in MembersAt(name, now) : e.group = group
    <3>1. UpperLookupRecent(sets[name], now, {}) = Present(name)
      BY <2>0, <2>1, TimesAreKeys, LookupLast DEF Present
    <3>2. MembersAt(name, now) = Unpacked(Present(name))
      BY <3>1 DEF MembersAt, Unpacked
    <3> QED
      BY <3>2 DEF DriverInv, FlagsOK, HasGroup
  <2> QED
    BY <2>2, <2>3, InvTypes DEF OneElementPerGroup
<1> QED
  BY DriverInvariant, <1>1, PTL

-----------------------------------------------------------------------------
(* What was written before now is not written again.                       *)
LEMMA PastIsKept ==
    ASSUME now \in Times, NEW V, NEW trace, History(trace, V), NEW value \in V,
           NEW start \in Nat, start < now, NEW zero
    PROVE  UpperLookupRecent(SetValue(trace, value), start, zero)
              = UpperLookupRecent(trace, start, zero)
<1>1. CanPush(trace, now) /\ trace \in Traces(Times, V) /\ now \in Nat
  BY TimesAreKeys DEF History, CanPush, AreKeys
<1>2. ~(start >= now)
  BY <1>1
<1> QED
  BY <1>1, <1>2, TimesAreKeys, LookupAfterPush DEF SetValue

LEMMA ConfigKept ==
    ASSUME DriverInv, [DriverNext]_driverVars, NEW start \in Nat, start < now
    PROVE  getConfigAt(start)' = getConfigAt(start)
<1>0. now \in Times
  BY NowIsTime DEF DriverInv
<1>1. ASSUME NEW name \in Params PROVE At(name, start)' = At(name, start)
  <2>1. CASE params' = params
    BY <2>1 DEF At
  <2>2. ASSUME NEW n \in Params, Set(n) PROVE At(name, start)' = At(name, start)
    <3>1. PICK value \in Inputs[n] :
             /\ IsValid(n, value)
             /\ params' = [params EXCEPT ![n] = SetValue(@, value)]
      BY <2>2 DEF Set
    <3>2. value \in ValidValues(n) /\ History(params[n], ValidValues(n))
      BY <3>1 DEF ValidValues, DriverInv, ParamsOK
    <3>3. UpperLookupRecent(SetValue(params[n], value), start, NoValue(name))
             = UpperLookupRecent(params[n], start, NoValue(name))
      BY <1>0, <3>2, PastIsKept
    <3>4. params'[name] = IF name = n THEN SetValue(params[n], value)
                                     ELSE params[name]
      BY <3>1 DEF DriverInv, ParamsOK
    <3> QED
      BY <3>3, <3>4 DEF At
  <2> QED
    BY <2>1, <2>2 DEF DriverNext, Add, Remove, driverVars, configuration
<1>2. ASSUME NEW name \in SetNames
      PROVE  MembersAt(name, start)' = MembersAt(name, start)
  <2>1. CASE sets' = sets
    BY <2>1 DEF MembersAt
  <2>2. ASSUME NEW n \in SetNames, NEW elements \in Groupings(n),
               sets' = [sets EXCEPT ![n] = SetValue(@, elements)]
        PROVE  MembersAt(name, start)' = MembersAt(name, start)
    <3>1. History(sets[n], Groupings(n))
      BY DEF DriverInv, SetsOK
    <3>2. UpperLookupRecent(SetValue(sets[n], elements), start, {})
             = UpperLookupRecent(sets[n], start, {})
      BY <1>0, <3>1, PastIsKept
    <3>3. sets'[name] = IF name = n THEN SetValue(sets[n], elements)
                                   ELSE sets[name]
      BY <2>2 DEF DriverInv, SetsOK
    <3>4. UpperLookupRecent(sets'[name], start, {})
             = UpperLookupRecent(sets[name], start, {})
      BY <3>2, <3>3
    <3> QED
      BY <3>4 DEF MembersAt
  <2>3. ASSUME NEW n \in SetNames, Add(n)
        PROVE  MembersAt(name, start)' = MembersAt(name, start)
    <3>1. PICK e \in Items[n] :
             /\ CanAdd(n, e)
             /\ sets' = [sets EXCEPT ![n] =
                            SetValue(@, Present(n) \union {Serialize(e)})]
      BY <2>3, Zenon DEF Add
    <3>2. ~HasGroup(Present(n), e.group) /\ Present(n) \in Groupings(n)
      BY <3>1, PresentGrouping DEF DriverInv, FlagsOK, Groups, CanAdd
    <3>3. Present(n) \union {Serialize(e)} \in Groupings(n)
      BY <3>2, Joins
    <3> QED
      BY <2>2, <3>1, <3>3
  <2>4. ASSUME NEW n \in SetNames, Remove(n)
        PROVE  MembersAt(name, start)' = MembersAt(name, start)
    <3>1. PICK e \in Items[n] :
             /\ CanRemove(n, e)
             /\ sets' = [sets EXCEPT ![n] =
                            SetValue(@, Present(n) \ {Serialize(e)})]
      BY <2>4, Zenon DEF Remove
    <3>2. Serialize(e) \in Present(n) /\ Present(n) \in Groupings(n)
      BY <3>1, PresentGrouping DEF DriverInv, CanRemove
    <3>3. Present(n) \ {Serialize(e)} \in Groupings(n)
      BY <3>2, Leaves
    <3> QED
      BY <2>2, <3>1, <3>3
  <2> QED
    BY <2>1, <2>3, <2>4 DEF DriverNext, Set, driverVars, configuration
<1> QED
  BY <1>1, <1>2 DEF getConfigAt

(* The epochs that have started keep their starts.                         *)
LEMMA StartedKept ==
    ASSUME DriverInv, [DriverNext]_driverVars, NEW epoch \in Started
    PROVE  /\ getEpochStart(epoch) \in Nat
           /\ getEpochStart(epoch)' = getEpochStart(epoch)
<1>0. IInv
  BY DEF DriverInv
<1>1. ~BeforeFirst /\ epoch \in 0 .. getCurrentEpoch
  BY DEF Started
<1>2. getCurrentEpoch \in Nat /\ getNextEpoch = getCurrentEpoch + 1
  BY <1>0, <1>1, NextIsLast
<1>3. epoch \in Nat /\ epoch \in 0 .. getNextEpoch
  BY <1>1, <1>2
<1>4. getEpochStart(epoch) \in Nat
  BY <1>0, <1>3, StartsIncrease
<1>5. CASE byIndex' = byIndex
  BY <1>4, <1>5 DEF getEpochStart, DataByIndex
<1>6. ASSUME NEW d \in Durations, setEpochDuration(d)
      PROVE  getEpochStart(epoch)' = getEpochStart(epoch)
  BY <1>0, <1>3, <1>6, SetKeepsStarts
<1> QED
  BY <1>4, <1>5, <1>6 DEF DriverNext, Next, Tick, Set, Add, Remove, driverVars, vars

(* The configuration an epoch starts with is settled once the block of its *)
(* start is over: no call changes the start or what getConfigAt says of it.*)
THEOREM EpochConfigHolds == DriverSpec => EpochConfigIsFinal
<1> DEFINE Final ==
       /\ \A epoch \in Started : getEpochStart(epoch)' = getEpochStart(epoch)
       /\ \A start \in {getEpochStart(epoch) : epoch \in Started} :
             start < now => getConfigAt(start)' = getConfigAt(start)
<1>1. DriverInv /\ [DriverNext]_driverVars => Final
  <2> SUFFICES ASSUME DriverInv, [DriverNext]_driverVars PROVE Final
    OBVIOUS
  <2>1. \A epoch \in Started : /\ getEpochStart(epoch) \in Nat
                               /\ getEpochStart(epoch)' = getEpochStart(epoch)
    BY StartedKept
  <2>2. \A start \in Nat : start < now => getConfigAt(start)' = getConfigAt(start)
    BY ConfigKept
  <2> QED
    BY <2>1, <2>2
<1>2. [][DriverNext]_driverVars /\ []DriverInv => [][Final]_driverVars
  BY <1>1, PTL
<1> QED
  BY DriverInvariant, <1>2, PTL DEF DriverSpec, EpochConfigIsFinal
=============================================================================
