------------------------------ MODULE Sublists ------------------------------
(***************************************************************************)
(* The loop by which the contracts filter an array in memory: walk it,     *)
(* write each member that is wanted to the next free place, and cut the    *)
(* array to what was written.                                              *)
(***************************************************************************)
EXTENDS Integers, Sequences

(* kept[i] is what the first i turns of the loop have written.             *)
Sublist(list, wanted) ==
    LET kept[i \in 0..Len(list)] ==
          IF i = 0 THEN << >>
          ELSE IF list[i] \in wanted THEN Append(kept[i - 1], list[i])
               ELSE kept[i - 1]
    IN  kept[Len(list)]
=============================================================================
