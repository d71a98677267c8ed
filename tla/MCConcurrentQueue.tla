------------------------- MODULE MCConcurrentQueue -------------------------
(* Instance of ConcurrentQueue for TLC: three threads that each push, pop, *)
(* clear, resize and remove, capacities from none to two.                  *)
EXTENDS ConcurrentQueue
=============================================================================
