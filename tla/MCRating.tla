------------------------------ MODULE MCRating ------------------------------
(* Instance of Rating for TLC: weights of both signs, no two sets of which *)
(* have the same sum.                                                      *)
EXTENDS Rating, TLC

TheWeights == <<1, -2, 4, -8, 16>>
HeapSymmetry == Permutations(Blocks) \cup Permutations(Threads)
=============================================================================
