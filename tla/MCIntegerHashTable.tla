------------------------- MODULE MCIntegerHashTable -------------------------
(* Instance of IntegerHashTable for TLC: three keys, two of which share an *)
(* entry, in a table that starts with two nodes and grows to eight.        *)
EXTENDS IntegerHashTable
=============================================================================
