----------------------------- MODULE Structures -----------------------------
(***************************************************************************)
(* The data structures of the libraries, side by side: a pointer trace     *)
(* (Checkpoints.sol), a persistent set (PersistentSet.sol) and the tree of *)
(* a validator set (ValSetVerifier.sol).  They share no storage: each      *)
(* moves on its own.                                                       *)
(***************************************************************************)
EXTENDS PointerTrace, ValSetVerifier

CONSTANTS Elements,    \* what the set may hold
          SetKeys      \* the uint48 keys it is changed at

VARIABLES elements, statuses, length

Set == INSTANCE PersistentSet WITH Keys <- SetKeys

ASSUME StructuresAssumption == Set!KeysAssumption

StructuresInit == Init /\ Set!Init /\ ValSetInit

StructuresNext ==
    \/ Next /\ UNCHANGED <<elements, statuses, length, validatorSet>>
    \/ Set!Next /\ UNCHANGED <<trace, values, validatorSet>>
    \/ DeriveValidatorSet /\ UNCHANGED <<trace, values, elements, statuses, length>>

StructuresSpec ==
    StructuresInit
    /\ [][StructuresNext]_<<trace, values, elements, statuses, length, validatorSet>>

-----------------------------------------------------------------------------
(* What is stored has its type and its shape: pointers are fresh, and the  *)
(* statuses of a set only hold changes after the first add.                *)
StructuresWellFormed ==
    /\ TypeOK /\ PointersFresh
    /\ Set!TypeOK /\ Set!StatusesWellFormed

(* Every way of asking gives the same answer: the searches of a trace,     *)
(* with and without a hint, at every key, and the views and the counter of *)
(* a set (Checkpoints.sol:93-151, PersistentSet.sol:101-178).              *)
QueriesAgree == LookupsAgree /\ Set!ReadsAgree

(* The refinement of the set, by the name it has there: adding and         *)
(* removing decide membership from their key on.                           *)
ImplementsHistorySet == Set!ImplementsHistorySet
=============================================================================
