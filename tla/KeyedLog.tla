------------------------------ MODULE KeyedLog ------------------------------
(***************************************************************************)
(* What a checkpoint trace promises, without positions or pointers: a      *)
(* partial function from keys to values that changes only at or after the  *)
(* largest key it holds, and whose lookups read the nearest key below.     *)
(***************************************************************************)
EXTENDS Integers

CONSTANTS Keys, Values

VARIABLE entries    \* the value recorded at each key pushed so far

IsLast(key) == key \in DOMAIN entries /\ \A k \in DOMAIN entries : k <= key

Init == entries = [k \in {} |-> 0]

Record(key, value) ==
    /\ \A k \in DOMAIN entries : k <= key
    /\ entries' = [k \in DOMAIN entries \cup {key} |->
                     IF k = key THEN value ELSE entries[k]]

Forget(key) ==
    /\ IsLast(key)
    /\ entries' = [k \in DOMAIN entries \ {key} |-> entries[k]]

Next == \E key \in Keys : Forget(key) \/ \E value \in Values : Record(key, value)

Spec == Init /\ [][Next]_entries
=============================================================================
