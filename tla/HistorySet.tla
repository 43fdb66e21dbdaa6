------------------------------ MODULE HistorySet ------------------------------
(***************************************************************************)
(* What a persistent set promises: for every element and every key, whether*)
(* the element was in the set at that key.  A change at a key decides the  *)
(* membership from that key on, and never touches an earlier key.          *)
(***************************************************************************)
EXTENDS Integers

CONSTANTS Elements, Keys

VARIABLES member,      \* member[e][k]: e is in the set at key k
          changed,     \* changed[e]: the key of the last change of e
          size         \* the number of elements in the set after all changes

vars == <<member, changed, size>>

Init ==
    /\ member = [e \in Elements |-> [k \in Keys |-> FALSE]]
    /\ changed = [e \in Elements |-> 0]
    /\ size = 0

(* From key on, e is in the set exactly when `isIn` says so.               *)
Set(e, key, isIn) ==
    /\ changed[e] <= key
    /\ member' = [member EXCEPT ![e] =
                    [k \in Keys |-> IF k >= key THEN isIn ELSE member[e][k]]]
    /\ changed' = [changed EXCEPT ![e] = key]

Add(e, key) ==
    /\ \A k \in Keys : k >= changed[e] => ~member[e][k]
    /\ Set(e, key, TRUE)
    /\ size' = size + 1

Remove(e, key) ==
    /\ \A k \in Keys : k >= changed[e] => member[e][k]
    /\ Set(e, key, FALSE)
    /\ size' = size - 1

Next == \E e \in Elements, key \in Keys : Add(e, key) \/ Remove(e, key)

Spec == Init /\ [][Next]_vars
=============================================================================
