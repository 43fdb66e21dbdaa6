---------------------------- MODULE PersistentSet ----------------------------
(***************************************************************************)
(* src/src/libraries/structs/PersistentSet.sol: a set that remembers its   *)
(* past.  Every element ever added stays in `_elements`; its status holds  *)
(* the key it was first added at and a trace of removals (1) and returns   *)
(* (0).  Keys are the uint48 timestamps the callers pass; the library only *)
(* orders the changes of one element, so keys of different elements are    *)
(* unrelated here.                                                         *)
(***************************************************************************)
EXTENDS Checkpoints, Sublists, FiniteSets

CONSTANTS Elements, Keys

KeysAssumption == Keys \subseteq Nat

VARIABLES elements,    \* bytes32[] _elements
          statuses,    \* mapping(bytes32 => Status) _statuses
          length       \* uint256 _length

vars == <<elements, statuses, length>>

Status == [isAdded : BOOLEAN, addedAt : Keys \cup {0},
           isRemoved : Seq([key : Keys, value : {0, 1}])]

TypeOK ==
    /\ elements \in Seq(Elements)
    /\ statuses \in [Elements -> Status]
    /\ length \in Nat

Init ==
    /\ elements = <<>>
    /\ statuses = [e \in Elements |->
                     [isAdded |-> FALSE, addedAt |-> 0, isRemoved |-> <<>>]]
    /\ length = 0

contains(e) == statuses[e].isAdded /\ Latest(statuses[e].isRemoved, 0) = 0

containsAt(e, key) ==
    /\ statuses[e].isAdded
    /\ key >= statuses[e].addedAt
    /\ UpperLookupRecent(statuses[e].isRemoved, key, 0) = 0

(* valuesAt and values walk _elements and keep the members, in that order. *)
valuesAt(key) == Sublist(elements, {e \in Elements : containsAt(e, key)})

-----------------------------------------------------------------------------
(* A first add records the element; a later one needs a removed element    *)
(* and a key that its trace accepts.                                       *)
AddFirst(e, key) ==
    /\ ~statuses[e].isAdded
    /\ elements' = Append(elements, e)
    /\ statuses' = [statuses EXCEPT ![e].isAdded = TRUE, ![e].addedAt = key]
    /\ length' = length + 1

(* Mutant: a return restamps the element.                                  *)
AddAgainRestamps(e, key) ==
    /\ statuses[e].isAdded /\ Latest(statuses[e].isRemoved, 0) # 0
    /\ CanPush(statuses[e].isRemoved, key)
    /\ statuses' = [statuses EXCEPT ![e].addedAt = key,
                      ![e].isRemoved = Push(statuses[e].isRemoved, key, 0)]
    /\ length' = length + 1
    /\ UNCHANGED elements

(* Mutant: a return is not counted.                                        *)
AddAgainUncounted(e, key) ==
    /\ statuses[e].isAdded /\ Latest(statuses[e].isRemoved, 0) # 0
    /\ CanPush(statuses[e].isRemoved, key)
    /\ statuses' = [statuses EXCEPT
                      ![e].isRemoved = Push(statuses[e].isRemoved, key, 0)]
    /\ UNCHANGED <<elements, length>>

AddAgain(e, key) ==
    /\ statuses[e].isAdded /\ Latest(statuses[e].isRemoved, 0) # 0
    /\ CanPush(statuses[e].isRemoved, key)
    /\ statuses' = [statuses EXCEPT
                      ![e].isRemoved = Push(statuses[e].isRemoved, key, 0)]
    /\ length' = length + 1
    /\ UNCHANGED elements

(* Returns false, changing nothing, when e is not contained; reverts with  *)
(* InvalidKey below addedAt.                                               *)
Remove(e, key) ==
    /\ contains(e)
    /\ key >= statuses[e].addedAt
    /\ CanPush(statuses[e].isRemoved, key)
    /\ statuses' = [statuses EXCEPT
                      ![e].isRemoved = Push(statuses[e].isRemoved, key, 1)]
    /\ length' = length - 1
    /\ UNCHANGED elements

Next == \E e \in Elements, key \in Keys :
            AddFirst(e, key) \/ AddAgain(e, key) \/ Remove(e, key)

Spec == Init /\ [][Next]_vars

-----------------------------------------------------------------------------
(* The stored representation: elements are exactly those ever added, and   *)
(* the trace of an element grows at keys no smaller than its first add.    *)
StatusesWellFormed ==
    /\ \A e \in Elements :
          statuses[e].isAdded <=> \E i \in 1..Len(elements) : elements[i] = e
    /\ \A e \in Elements :
          LET removals == statuses[e].isRemoved
          IN  /\ Sorted(removals)
              /\ ~statuses[e].isAdded => removals = <<>>
              /\ \A i \in 1..Len(removals) :
                    removals[i].key >= statuses[e].addedAt

(* The counter that length() returns is the number of elements that        *)
(* values() lists (unchecked arithmetic at PersistentSet.sol:65 and :88).  *)
LengthIsCardinality == length = Cardinality({e \in Elements : contains(e)})

(* The abstract set: membership at every key.                              *)
History == INSTANCE HistorySet WITH
    member <- [e \in Elements |-> [k \in Keys |-> containsAt(e, k)]],
    changed <- [e \in Elements |->
                  IF statuses[e].isRemoved # <<>>
                  THEN LastKey(statuses[e].isRemoved)
                  ELSE statuses[e].addedAt],
    size <- length

(* Adding and removing decide membership from their key on and leave the   *)
(* past of every element as containsAt answered it before.                 *)
ImplementsHistorySet == History!Spec

(* contains (the latest status) is what containsAt answers for every key   *)
(* from the last change on: the two reads of the set never disagree about  *)
(* the present.                                                            *)
PresentAgrees ==
    \A e \in Elements, k \in Keys :
        (/\ statuses[e].isAdded /\ k >= statuses[e].addedAt
         /\ CanPush(statuses[e].isRemoved, k))
        => (containsAt(e, k) <=> contains(e))

(* valuesAt lists the members of the set at a key, each once.              *)
ValuesAtIsMembership ==
    \A k \in Keys :
        LET listed == valuesAt(k)
        IN  /\ {listed[i] : i \in 1..Len(listed)}
                 = {e \in Elements : containsAt(e, k)}
            /\ Len(listed) = Cardinality({e \in Elements : containsAt(e, k)})

(* The counter, the status, the membership at a key and the list of values *)
(* are four reads of one set.                                              *)
ReadsAgree ==
    LengthIsCardinality /\ PresentAgrees /\ ValuesAtIsMembership
=============================================================================
