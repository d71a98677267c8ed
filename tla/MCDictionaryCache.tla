------------------------- MODULE MCDictionaryCache -------------------------
(* Instance of DictionaryCache for TLC: two processes and two keys.        *)
EXTENDS DictionaryCache, TLC

ProcessSymmetry == Permutations(Processes) \cup Permutations(Values)
=============================================================================
