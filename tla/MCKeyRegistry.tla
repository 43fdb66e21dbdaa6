---------------------------- MODULE MCKeyRegistry ----------------------------
(* Two operators, two tags of one type and one of another, two keys of the  *)
(* first type and one of the second, every signature there can be.          *)
EXTENDS KeyRegistry, TLC

CONSTANTS bls0, bls1, ecdsa0, b1, b2, e1

TheTagTypes == bls0 :> "BLS" @@ bls1 :> "BLS" @@ ecdsa0 :> "ECDSA"

TheKeyTypes == b1 :> "BLS" @@ b2 :> "BLS" @@ e1 :> "ECDSA"

Everything == Operators \X Keys
=============================================================================
