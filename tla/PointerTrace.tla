---------------------------- MODULE PointerTrace ----------------------------
(***************************************************************************)
(* Trace256 and Trace512 of Checkpoints.sol: values too wide for a packed  *)
(* checkpoint live in a mapping `_values`, and the trace of 208-bit words  *)
(* holds pointers into it.  Pointer 0 means "no value".  Values are        *)
(* abstract, so the module stands for both widths.                         *)
(***************************************************************************)
EXTENDS Checkpoints

CONSTANTS Keys,        \* the uint48 keys a caller pushes at
          Values,      \* the values stored, Zero among them
          Zero,        \* what an unwritten storage slot reads as
          MaxPointer   \* bound: pointers the model's mapping can hold

ASSUME TraceAssumption ==
    Keys \subseteq Nat /\ Zero \in Values /\ MaxPointer \in Nat

VARIABLES
    trace,             \* _trace: key -> pointer
    values             \* mapping(uint208 pointer => value) _values

vars == <<trace, values>>

TypeOK ==
    /\ trace \in Seq([key : Keys, value : 1..MaxPointer])
    /\ values \in [0..MaxPointer -> Values]

Init ==
    /\ trace = <<>>
    /\ values = [p \in 0..MaxPointer |-> Zero]

Read(pointer) == IF pointer > 0 THEN values[pointer] ELSE Zero

latest == Read(Latest(trace, 0))

upperLookupRecent(key) == Read(UpperLookupRecent(trace, key, 0))

(* Mutant: an equal key rewrites the slot before the last one.             *)
PushSameKeyPreviousSlot(key, value) ==
    /\ trace # <<>> /\ LastKey(trace) = key
    /\ values' = [values EXCEPT ![Latest(trace, 0) - 1] = value]
    /\ UNCHANGED trace

(* An equal key rewrites the slot of the last pointer; a larger one takes  *)
(* the next pointer.  OpenZeppelin refuses a smaller one.                  *)
PushSameKey(key, value) ==
    /\ trace # <<>> /\ LastKey(trace) = key
    /\ values' = [values EXCEPT ![Latest(trace, 0)] = value]
    /\ UNCHANGED trace

PushNewKey(key, value) ==
    LET newPointer == Latest(trace, 0) + 1
    IN  /\ CanPush(trace, key)
        /\ ~(trace # <<>> /\ LastKey(trace) = key)
        /\ newPointer <= MaxPointer
        /\ trace' = Push(trace, key, newPointer)
        /\ values' = [values EXCEPT ![newPointer] = value]

(* Mutant: the popped slot keeps its value.                                *)
PopKeepsSlot ==
    /\ Latest(trace, 0) # 0
    /\ trace' = SubSeq(trace, 1, Len(trace) - 1)
    /\ UNCHANGED values

(* Reverts (SystemCheckpoint) when the latest pointer is 0.                *)
Pop ==
    LET idx == Latest(trace, 0)
    IN  /\ idx # 0
        /\ trace' = SubSeq(trace, 1, Len(trace) - 1)
        /\ values' = [values EXCEPT ![idx] = Zero]

Next ==
    \/ \E key \in Keys, value \in Values :
          PushSameKey(key, value) \/ PushNewKey(key, value)
    \/ Pop

Spec == Init /\ [][Next]_vars

-----------------------------------------------------------------------------
(* Pointers are never shared and never skipped: the i-th checkpoint holds  *)
(* pointer i, keys increase, and every slot past the last is clear, so a   *)
(* push after pops (Checkpoints.sol:203, :352) never reads an old value.   *)
PointersFresh ==
    /\ Sorted(trace)
    /\ \A i \in 1..Len(trace) : trace[i].value = i
    /\ \A p \in 0..MaxPointer : p > Len(trace) => values[p] = Zero

(* The abstract log: the value recorded at each key.                       *)
KeysHeld == {trace[i].key : i \in 1..Len(trace)}

Log == INSTANCE KeyedLog WITH
         entries <- [k \in KeysHeld |-> upperLookupRecent(k)]

(* Every push and pop of a pointer trace is a push or a pop of the log: no *)
(* checkpoint other than the last ever changes its value.                  *)
ImplementsKeyedLog == Log!Spec

(* The library's own search, for every key: the square-root split and the  *)
(* binary search find the checkpoint that OpenZeppelin's lookup reads, and *)
(* a hint, right or wrong, never changes what a lookup answers.            *)
LookupsAgree ==
    \A key \in Keys :
        LET found == UpperLookupRecentCheckpoint(trace, key)
        IN  /\ IF found.exists
               THEN /\ IsUpper(trace, key, found.pos + 1)
                    /\ Read(found.value) = upperLookupRecent(key)
               ELSE ~Covers(trace, key)
            /\ \A hint \in 0..(Len(trace) - 1) :
                  HintedLookup(trace, key, hint) = found
=============================================================================
