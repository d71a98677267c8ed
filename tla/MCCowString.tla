---------------------------- MODULE MCCowString ----------------------------
(* Instance of CowString for TLC: two threads, one with two strings, and   *)
(* one string both read.                                                   *)
EXTENDS CowString, TLC

CONSTANTS t1, t2, a1, a2, b1, d

TheOwners == a1 :> t1 @@ a2 :> t1 @@ b1 :> t2 @@ d :> Nobody
BlockSymmetry == Permutations(Blocks)
=============================================================================
