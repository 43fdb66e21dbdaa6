----------------------------- MODULE Checkpoints -----------------------------
(***************************************************************************)
(* Traces of checkpoints: values as they change at increasing keys         *)
(* (src/src/libraries/structs/Checkpoints.sol).  A trace is a sequence of  *)
(* records [key, value]; position p of the code is index p + 1 here.       *)
(* push, latest and upperLookupRecent are delegated by the library to      *)
(* OpenZeppelin's Checkpoints, which is not part of the repository: they   *)
(* are stated by what they return.  The lookup that the library writes     *)
(* itself (a square-root split and a binary search, with an optional hint) *)
(* is translated step by step.                                             *)
(***************************************************************************)
EXTENDS Integers, Sequences

Checkpoint(key, value) == [key |-> key, value |-> value]

(* Keys strictly increase along a trace.                                   *)
Sorted(trace) ==
    \A i, j \in 1..Len(trace) : i < j => trace[i].key < trace[j].key

LastKey(trace) == trace[Len(trace)].key

(* OpenZeppelin reverts (CheckpointUnorderedInsertion) on a smaller key.   *)
CanPush(trace, key) == trace # <<>> => LastKey(trace) <= key

(* An equal key overwrites the last checkpoint, a larger one appends.      *)
Push(trace, key, value) ==
    IF trace # <<>> /\ LastKey(trace) = key
    THEN [trace EXCEPT ![Len(trace)] = Checkpoint(key, value)]
    ELSE Append(trace, Checkpoint(key, value))

Latest(trace, zero) == IF trace = <<>> THEN zero ELSE trace[Len(trace)].value

(* Index i holds the last checkpoint whose key is at most `key`.           *)
IsUpper(trace, key, i) ==
    /\ i \in 1..Len(trace)
    /\ trace[i].key <= key
    /\ \A j \in 1..Len(trace) : trace[j].key <= key => j <= i

Covers(trace, key) == \E i \in 1..Len(trace) : IsUpper(trace, key, i)

UpperIndex(trace, key) == CHOOSE i \in 1..Len(trace) : IsUpper(trace, key, i)

UpperLookupRecent(trace, key, zero) ==
    IF Covers(trace, key) THEN trace[UpperIndex(trace, key)].value ELSE zero

-----------------------------------------------------------------------------
(* The positions below are the code's: zero-based, `high` exclusive.       *)

KeyAt(trace, pos) == trace[pos + 1].key

(* The loop of _upperBinaryLookup, as a function of the section left.      *)
UpperBinaryLookup(trace, key, low, high) ==
    LET search[l \in 0..Len(trace)] ==
          [h \in 0..Len(trace) |->
             IF l < h
             THEN LET mid == (l + h) \div 2
                  IN  IF KeyAt(trace, mid) > key THEN search[l][mid]
                                                 ELSE search[mid + 1][h]
             ELSE h]
    IN  search[low][high]

Sqrt(n) == CHOOSE r \in 0..n : r * r <= n /\ n < (r + 1) * (r + 1)

(* Mutant: the split sends the key found at `mid` to the lower part.       *)
LookupPosSplitsLow(trace, key) ==
    LET len == Len(trace)
        mid == len - Sqrt(len)
    IN  IF len > 5 /\ key <= KeyAt(trace, mid)
        THEN UpperBinaryLookup(trace, key, 0, mid)
        ELSE UpperBinaryLookup(trace, key, 0, len)

(* One past the position of the checkpoint found, 0 if there is none.      *)
LookupPos(trace, key) ==
    LET len == Len(trace)
        mid == len - Sqrt(len)
    IN  CASE len <= 5 -> UpperBinaryLookup(trace, key, 0, len)
          [] len > 5 /\ key < KeyAt(trace, mid) ->
                UpperBinaryLookup(trace, key, 0, mid)
          [] len > 5 /\ key >= KeyAt(trace, mid) ->
                UpperBinaryLookup(trace, key, mid + 1, len)

Missing == [exists |-> FALSE]

Found(trace, pos) ==
    [exists |-> TRUE, key |-> trace[pos + 1].key,
     value |-> trace[pos + 1].value, pos |-> pos]

UpperLookupRecentCheckpoint(trace, key) ==
    LET pos == LookupPos(trace, key)
    IN  IF pos = 0 THEN Missing ELSE Found(trace, pos - 1)

(* The hint is used only when it names the answer; `at` panics on a        *)
(* position out of range, so a hint is always below the length here.       *)
HintHolds(trace, key, hint) ==
    \/ KeyAt(trace, hint) = key
    \/ /\ KeyAt(trace, hint) < key
       /\ hint # Len(trace) - 1 => KeyAt(trace, hint + 1) > key

HintedLookup(trace, key, hint) ==
    IF HintHolds(trace, key, hint) THEN Found(trace, hint)
                                   ELSE UpperLookupRecentCheckpoint(trace, key)
=============================================================================
