----------------------------- MODULE EpochManager -----------------------------
(***************************************************************************)
(* src/src/modules/valset-driver/EpochManager.sol: which epoch it is, and  *)
(* when each epoch starts, under a duration that an authorised caller may  *)
(* change.  Every change is a checkpoint (duration, timestamp, index)      *)
(* stored in two traces, one searched by time and one by epoch.            *)
(***************************************************************************)
EXTENDS Checkpoints

CONSTANTS Durations,   \* epoch durations a caller may ask for
          MaxUint48,   \* 2^48 - 1 in the code, where arithmetic is checked
          MaxTime      \* bound: the last block timestamp of the model

ASSUME EpochAssumption ==
    /\ Durations \subseteq Nat \ {0}
    /\ MaxUint48 \in Nat /\ MaxTime \in 0..MaxUint48

VARIABLES
    now,               \* block.timestamp
    byTimestamp,       \* _epochDurationDataByTimestamp
    byIndex            \* _epochDurationDataByIndex

vars == <<now, byTimestamp, byIndex>>

Data == [duration : Durations, timestamp : 0..MaxUint48, index : 0..MaxUint48]

Trace == Seq([key : 0..MaxUint48, value : Data])

EpochTypeOK ==
    /\ now \in 0..MaxTime
    /\ byTimestamp \in Trace
    /\ byIndex \in Trace

Datum(duration, timestamp, index) ==
    [duration |-> duration, timestamp |-> timestamp, index |-> index]

NoData == Datum(0, 0, 0)

-----------------------------------------------------------------------------
(* _getCurrentValue looks at the last two checkpoints only; with a single  *)
(* future one the position underflows and the call reverts.                *)
HasCurrentValue(trace, timepoint) ==
    LastKey(trace) <= timepoint \/ Len(trace) > 1

(* Mutant: the last checkpoint, even one in the future.                    *)
CurrentValueLast(trace, timepoint) == trace[Len(trace)].value

CurrentValue(trace, timepoint) ==
    IF LastKey(trace) <= timepoint THEN trace[Len(trace)].value
                                   ELSE trace[Len(trace) - 1].value

current == CurrentValue(byTimestamp, now)

first == byTimestamp[1].value

BeforeFirst == now < first.timestamp

Elapsed(data, time) == (time - data.timestamp) \div data.duration

getCurrentEpoch == current.index + Elapsed(current, now)

getCurrentEpochStart ==
    current.timestamp + (getCurrentEpoch - current.index) * current.duration

getNextEpoch == IF BeforeFirst THEN 0 ELSE getCurrentEpoch + 1

(* Mutant: one epoch too far.                                              *)
getNextEpochStartLate ==
    IF BeforeFirst THEN first.timestamp
                   ELSE getCurrentEpochStart + 2 * current.duration

getNextEpochStart ==
    IF BeforeFirst THEN first.timestamp
                   ELSE getCurrentEpochStart + current.duration

getNextEpochDuration ==
    IF BeforeFirst THEN first.duration
                   ELSE Latest(byTimestamp, NoData).duration

DataByTimestamp(time) == UpperLookupRecent(byTimestamp, time, NoData)

DataByIndex(index) == UpperLookupRecent(byIndex, index, NoData)

(* Reverts with TooOldTimestamp where no data is found.                    *)
HasEpochIndex(time) == DataByTimestamp(time).duration # 0

getEpochIndex(time) ==
    LET data == DataByTimestamp(time) IN data.index + Elapsed(data, time)

getEpochDuration(epoch) == DataByIndex(epoch).duration

getEpochStart(epoch) ==
    LET data == DataByIndex(epoch)
    IN  data.timestamp + (epoch - data.index) * data.duration

-----------------------------------------------------------------------------
SetEpochDuration(duration, timestamp, index) ==
    /\ CanPush(byTimestamp, timestamp) /\ CanPush(byIndex, index)
    /\ byTimestamp' = Push(byTimestamp, timestamp,
                           Datum(duration, timestamp, index))
    /\ byIndex' = Push(byIndex, index, Datum(duration, timestamp, index))

(* __EpochManager_init: a timestamp of 0 means now, an earlier one reverts.*)
Init ==
    /\ now \in 1..MaxTime
    /\ \E duration \in Durations, timestamp \in now..MaxTime :
          LET trace(key) == <<Checkpoint(key, Datum(duration, timestamp, 0))>>
          IN  byTimestamp = trace(timestamp) /\ byIndex = trace(0)

(* Mutant: unchecked arithmetic.                                           *)
setEpochDurationUnchecked(duration) ==
    /\ BeforeFirst \/ HasCurrentValue(byTimestamp, now)
    /\ SetEpochDuration(duration, getNextEpochStart, getNextEpoch)
    /\ UNCHANGED now

(* Mutant: the change applies to the running epoch.                        *)
setEpochDurationNow(duration) ==
    /\ ~BeforeFirst /\ HasCurrentValue(byTimestamp, now)
    /\ SetEpochDuration(duration, now, getNextEpoch)
    /\ UNCHANGED now

(* The checked sums of getNextEpochStart and getNextEpoch revert above     *)
(* MaxUint48, and with them the call.                                      *)
setEpochDuration(duration) ==
    /\ BeforeFirst \/ HasCurrentValue(byTimestamp, now)
    /\ getNextEpochStart <= MaxUint48 /\ getNextEpoch <= MaxUint48
    /\ SetEpochDuration(duration, getNextEpochStart, getNextEpoch)
    /\ UNCHANGED now

Tick ==
    /\ now < MaxTime
    /\ now' = now + 1
    /\ UNCHANGED <<byTimestamp, byIndex>>

Next == Tick \/ \E duration \in Durations : setEpochDuration(duration)

Spec == Init /\ [][Next]_vars

-----------------------------------------------------------------------------
(* Both traces record the same changes, in the same order.                 *)
TracesAgree ==
    /\ byTimestamp # <<>> /\ Len(byTimestamp) = Len(byIndex)
    /\ \A i \in 1..Len(byTimestamp) :
          /\ byTimestamp[i].value = byIndex[i].value
          /\ byTimestamp[i].key = byTimestamp[i].value.timestamp
          /\ byIndex[i].key = byIndex[i].value.index

(* A change takes effect at the boundary of an epoch of the change before  *)
(* it: no epoch is cut short, none is stretched and no index is skipped.   *)
Contiguous ==
    /\ first.index = 0
    /\ \A i \in 1..(Len(byTimestamp) - 1) :
          LET this == byTimestamp[i].value
              that == byTimestamp[i + 1].value
          IN  /\ this.index < that.index
              /\ this.timestamp < that.timestamp
              /\ that.timestamp =
                    this.timestamp + (that.index - this.index) * this.duration

(* Only the last change may lie in the future: this is what lets           *)
(* _getCurrentValue look no further back than the last two checkpoints.    *)
OneFutureChange ==
    \A i \in 1..(Len(byTimestamp) - 1) : byTimestamp[i].key <= now

(* A change that lies in the future takes effect when the epoch that runs  *)
(* now ends, never an epoch later.                                         *)
FutureIsNext ==
    Len(byTimestamp) > 1 =>
        LastKey(byTimestamp)
            <= now + byTimestamp[Len(byTimestamp) - 1].value.duration

(* Everything the searches below rely on.                                  *)
ScheduleOK == TracesAgree /\ Contiguous /\ OneFutureChange /\ FutureIsNext

(* The epoch found from the last two checkpoints is the epoch found by a   *)
(* search of the whole history, from the first epoch on (before it, the    *)
(* calls for the current epoch revert), and the next epoch starts where a  *)
(* search by index puts it.                                                *)
CurrentEpochIsFound ==
    /\ ~BeforeFirst =>
          /\ HasCurrentValue(byTimestamp, now) /\ HasEpochIndex(now)
          /\ getCurrentEpoch = getEpochIndex(now)
          /\ getCurrentEpochStart = getEpochStart(getCurrentEpoch)
          /\ getCurrentEpochStart <= now /\ now < getNextEpochStart
    /\ BeforeFirst => Len(byTimestamp) = 1 /\ ~HasEpochIndex(now)
    /\ getNextEpochStart = getEpochStart(getNextEpoch)
    /\ getNextEpochDuration = getEpochDuration(getNextEpoch)

(* The two searches invert each other over every time and epoch the model  *)
(* reaches: the index of a time is the epoch whose interval holds it.      *)
IndexInvertsStart ==
    \A time \in 0..MaxUint48 :
        IF HasEpochIndex(time)
        THEN LET epoch == getEpochIndex(time)
             IN  /\ getEpochStart(epoch) <= time
                 /\ time < getEpochStart(epoch + 1)
                 /\ getEpochIndex(getEpochStart(epoch)) = epoch
        ELSE time < first.timestamp

(* The look at the last two checkpoints, the search by time and the search *)
(* by epoch answer from one schedule.                                      *)
SearchesAgree == CurrentEpochIsFound /\ IndexInvertsStart

(* The schedule by epochs: starts are settled up to the next epoch.        *)
Clock == INSTANCE EpochClock WITH
    time <- now,
    starts <- [epoch \in 0..getNextEpoch |-> getEpochStart(epoch)],
    duration <- getNextEpochDuration

(* Changing the duration never moves the start of an epoch up to and       *)
(* including the next one, and time alone settles the start after it.      *)
ImplementsEpochClock == Clock!Spec
=============================================================================
